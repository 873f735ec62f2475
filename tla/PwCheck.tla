------------------------------ MODULE PwCheck ------------------------------
(***************************************************************************)
(* deepin_pw_check_by_conf of lib/deepin_pw_check.c: one check of a        *)
(* password.  The rules are looked at in a fixed order; the first one that *)
(* is broken ends the check.  The rules that loop over the password take   *)
(* one step per iteration.                                                 *)
(***************************************************************************)
EXTENDS PwPalindrome, PwConsecutive, PwMonotone, PwTypes, PwWord

CONSTANTS Options,    \* what dde.conf may say besides the rules' arguments
          Users,      \* names of users
          DictPath    \* the argument dict_path, "" for none

(* on: the switches that are on and the numbers that are positive.         *)
Switches == {"STRONG_PASSWORD", "FIRST_LETTER_UPPERCASE", "PALINDROME_NUM",
             "WORD_CHECK", "MONOTONE_CHARACTER_NUM",
             "CONSECUTIVE_SAME_CHARACTER_NUM"}

ASSUME OptionsAssumption ==
    Options \subseteq [on : SUBSET Switches, min_len : Int, max_len : Int,
                       dict_path : STRING]

ASSUME UsersAssumption == Users \subseteq Seq(Char)

VARIABLES options,
          user,      \* whose password it is
          rule,      \* the rule looked at, or "returned"
          ret        \* the result so far

searches == <<pal_vars, con_vars, mon_vars, typ_vars>>
vars == <<searches, options, user, rule, ret>>

Rules == {"options", "empty", "enabled", "length", "first_letter",
          "user_name", "types", "palindrome", "word", "monotone",
          "consecutive"}

Errors == {"PW_ERR_PARA", "PW_ERR_PASSWORD_EMPTY", "PW_ERR_LENGTH_SHORT",
           "PW_ERR_LENGTH_LONG", "PW_ERR_PW_FIRST_UPPERM",
           "PW_ERR_SAME_AS_USERNAME", "PW_ERR_CHARACTER_INVALID",
           "PW_ERR_CHARACTER_TYPE_TOO_FEW", "PW_ERR_PALINDROME",
           "PW_ERR_WORD", "PW_ERR_PW_MONOTONE", "PW_ERR_PW_CONSECUTIVE_SAME"}

On(switch) == switch \in options.on

Init ==
    /\ PalInit
    /\ ConInit
    /\ MonInit
    /\ TypInit
    /\ options \in Options
    /\ user \in Users
    /\ rule = "options"
    /\ ret = "PW_NO_ERR"

(***************************************************************************)
(* A rule                                                                  *)
(***************************************************************************)
Return(error) ==
    /\ ret' = error
    /\ rule' = "returned"
    /\ UNCHANGED <<searches, options, user>>

GoOn(there) ==
    /\ rule' = there
    /\ UNCHANGED <<searches, options, user, ret>>

(* The rule "here" is broken, or the check goes on "there".                *)
Decide(here, broken, error, there) ==
    /\ rule = here
    /\ \/ broken /\ Return(error)
       \/ ~broken /\ GoOn(there)

(* One iteration of the loop of a rule that is on.                         *)
Search(here, loop) ==
    /\ rule = here
    /\ loop
    /\ UNCHANGED <<options, user, rule, ret>>

(* get_default_options gives up when dde.conf cannot be loaded.            *)
LoadOptions ==
    \E unreadable \in BOOLEAN :
        Decide("options", unreadable, "PW_ERR_PARA", "empty")

CheckEmpty ==
    Decide("empty", pw = <<>>, "PW_ERR_PASSWORD_EMPTY", "enabled")

CheckEnabled ==
    Decide("enabled", ~On("STRONG_PASSWORD"), "PW_NO_ERR", "length")

(* The longest allowed password is refused.                                *)
CheckLength_MaxExcluded ==
    \/ Len(pw) < options.min_len /\ rule = "length"
         /\ Return("PW_ERR_LENGTH_SHORT")
    \/ Len(pw) >= options.min_len
         /\ Decide("length", Len(pw) >= options.max_len,
                   "PW_ERR_LENGTH_LONG", "first_letter")

CheckLength ==
    \/ Len(pw) < options.min_len /\ rule = "length"
         /\ Return("PW_ERR_LENGTH_SHORT")
    \/ Len(pw) >= options.min_len
         /\ Decide("length", Len(pw) > options.max_len,
                   "PW_ERR_LENGTH_LONG", "first_letter")

(* The code is only reached for a password that is not empty.              *)
CheckFirstLetter ==
    Decide("first_letter",
           On("FIRST_LETTER_UPPERCASE") /\ pw[1] \notin 65 .. 90,
           "PW_ERR_PW_FIRST_UPPERM", "user_name")

(* Only a strict configuration looks at the user's name.                   *)
CheckUserName ==
    Decide("user_name",
           /\ options.min_len >= 8
           /\ character_num_required >= 3
           /\ user = pw,
           "PW_ERR_SAME_AS_USERNAME", "types")

CheckTypes ==
    \/ Search("types", TypNext /\ UNCHANGED <<pal_vars, con_vars, mon_vars>>)
    \/ /\ typ_ret # "none"
       /\ Decide("types", typ_ret # "PW_NO_ERR", typ_ret, "palindrome")

CheckPalindrome ==
    \/ Search("palindrome",
              /\ On("PALINDROME_NUM")
              /\ PalNext
              /\ UNCHANGED <<con_vars, mon_vars, typ_vars>>)
    \/ /\ On("PALINDROME_NUM") => pal_done
       /\ Decide("palindrome", flag, "PW_ERR_PALINDROME", "word")

(* get_default_options: the caller's dictionary replaces the one of the    *)
(* configuration, but not the default one.                                 *)
Dictionary ==
    IF DictPath # "" /\ options.dict_path # "" THEN DictPath
                                               ELSE options.dict_path

CheckWord ==
    Decide("word", On("WORD_CHECK") /\ is_word(pw, Dictionary),
           "PW_ERR_WORD", "monotone")

(* The search for runs is left out when words are looked up.               *)
CheckMonotone_UnlessWords ==
    \/ Search("monotone",
              /\ On("MONOTONE_CHARACTER_NUM")
              /\ ~On("WORD_CHECK")
              /\ MonNext
              /\ UNCHANGED <<pal_vars, con_vars, typ_vars>>)
    \/ /\ On("MONOTONE_CHARACTER_NUM") /\ ~On("WORD_CHECK") => mon_done
       /\ Decide("monotone", mon_found, "PW_ERR_PW_MONOTONE", "consecutive")

CheckMonotone ==
    \/ Search("monotone",
              /\ On("MONOTONE_CHARACTER_NUM")
              /\ MonNext
              /\ UNCHANGED <<pal_vars, con_vars, typ_vars>>)
    \/ /\ On("MONOTONE_CHARACTER_NUM") => mon_done
       /\ Decide("monotone", mon_found, "PW_ERR_PW_MONOTONE", "consecutive")

CheckConsecutive ==
    \/ Search("consecutive",
              /\ On("CONSECUTIVE_SAME_CHARACTER_NUM")
              /\ ConNext
              /\ UNCHANGED <<pal_vars, mon_vars, typ_vars>>)
    \/ /\ On("CONSECUTIVE_SAME_CHARACTER_NUM") => con_done
       /\ rule = "consecutive"
       /\ Return(IF con_found THEN "PW_ERR_PW_CONSECUTIVE_SAME"
                              ELSE "PW_NO_ERR")

Next == \/ LoadOptions \/ CheckEmpty \/ CheckEnabled \/ CheckLength
        \/ CheckFirstLetter \/ CheckUserName \/ CheckTypes \/ CheckPalindrome
        \/ CheckWord \/ CheckMonotone \/ CheckConsecutive

Spec == Init /\ [][Next]_vars

(* A function that was called goes on.                                     *)
FairSpec == Spec /\ WF_vars(Next)

(***************************************************************************)
(* Properties                                                              *)
(***************************************************************************)
TypeOK ==
    /\ PalTypeOK /\ ConTypeOK /\ MonTypeOK /\ TypTypeOK
    /\ options \in Options
    /\ user \in Users
    /\ rule \in Rules \cup {"returned"}
    /\ ret \in Errors \cup {"PW_NO_ERR"}
    /\ rule # "returned" => ret = "PW_NO_ERR"

(* A password that is accepted is not empty and, unless dde.conf switches  *)
(* the check off, breaks none of the rules that are on, up to what the     *)
(* searches for palindromes and monotone runs can miss.  TypesAreCounted   *)
(* says what the verdict of the types means.                               *)
AcceptedBreaksNoRule ==
    rule = "returned" /\ ret = "PW_NO_ERR" =>
        /\ pw # <<>>
        /\ On("STRONG_PASSWORD") =>
             /\ options.min_len <= Len(pw) /\ Len(pw) <= options.max_len
             /\ On("FIRST_LETTER_UPPERCASE") => pw[1] \in 65 .. 90
             /\ options.min_len >= 8 /\ character_num_required >= 3
                   => user # pw
             /\ typ_ret = "PW_NO_ERR"
             /\ On("PALINDROME_NUM") => ~EarlyPalindrome
             /\ On("MONOTONE_CHARACTER_NUM") => ~MonotoneRun
             /\ On("CONSECUTIVE_SAME_CHARACTER_NUM") => ~SameInARow

(* What an error says is true of the password, and when the check is off   *)
(* only the empty password is refused.                                     *)
ErrorNamesABrokenRule ==
    /\ ret = "PW_ERR_PASSWORD_EMPTY" => pw = <<>>
    /\ ret \in Errors \ {"PW_ERR_PARA", "PW_ERR_PASSWORD_EMPTY"} =>
         pw # <<>> /\ On("STRONG_PASSWORD")
    /\ ret = "PW_ERR_LENGTH_SHORT" => Len(pw) < options.min_len
    /\ ret = "PW_ERR_LENGTH_LONG" => Len(pw) > options.max_len
    /\ ret = "PW_ERR_PW_FIRST_UPPERM" =>
         On("FIRST_LETTER_UPPERCASE") /\ pw[1] \notin 65 .. 90
    /\ ret = "PW_ERR_SAME_AS_USERNAME" =>
         user = pw /\ options.min_len >= 8 /\ character_num_required >= 3
    /\ ret \in {"PW_ERR_CHARACTER_INVALID", "PW_ERR_CHARACTER_TYPE_TOO_FEW"}
         => typ_ret = ret
    /\ ret = "PW_ERR_PALINDROME" =>
         On("PALINDROME_NUM") /\ \E lo \in 0 .. pw_length : PalindromeAfter(lo)
    /\ ret = "PW_ERR_WORD" => On("WORD_CHECK") /\ is_word(pw, Dictionary)
    /\ ret = "PW_ERR_PW_MONOTONE" => On("MONOTONE_CHARACTER_NUM") /\ Neighbours
    /\ ret = "PW_ERR_PW_CONSECUTIVE_SAME" =>
         On("CONSECUTIVE_SAME_CHARACTER_NUM") /\ SameInARow

(* With WORD_CHECK no word of the dictionary is accepted, not even with    *)
(* look-alikes, whichever and however many, or with a few characters       *)
(* before or after it, and nothing at all if the dictionary does not open. *)
DisguisedWordsAreRefused ==
    rule = "returned" /\ ret = "PW_NO_ERR"
    /\ On("STRONG_PASSWORD") /\ On("WORD_CHECK") =>
        LET path == IF Dictionary = "" THEN DefaultCracklibDict
                                       ELSE Dictionary
        IN  /\ path \in DOMAIN Dictionaries
            /\ \A w \in Dictionaries[path] : ~Disguises(pw, w) /\ ~Pads(pw, w)

(* The check returns: no search runs forever.                              *)
Returns == <>(rule = "returned")
=============================================================================
