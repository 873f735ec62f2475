--------------------------- MODULE PwCheckProofs ---------------------------
(***************************************************************************)
(* Machine-checked proofs about PwCheck: the check as a whole, for every   *)
(* password, user, keyboard, dictionary and configuration, and the         *)
(* character types.  The other rules that loop have proofs of their own;   *)
(* what is shown here is that the check runs them as they are, in the      *)
(* right order, and reports what they found.                               *)
(***************************************************************************)
EXTENDS PwCheck, PwPalindromeProofs, PwRunsProofs, FiniteSetTheorems,
        WellFoundedInduction

(***************************************************************************)
(* Every search sees the check as a run of its own.                        *)
(***************************************************************************)
OneSearchMoves ==
    \/ UNCHANGED <<pal_vars, con_vars, mon_vars, typ_vars>>
    \/ PalNext /\ UNCHANGED <<con_vars, mon_vars, typ_vars>>
    \/ ConNext /\ UNCHANGED <<pal_vars, mon_vars, typ_vars>>
    \/ MonNext /\ UNCHANGED <<pal_vars, con_vars, typ_vars>>
    \/ TypNext /\ UNCHANGED <<pal_vars, con_vars, mon_vars>>

LEMMA StepMovesOneSearch == [Next]_vars => OneSearchMoves
<1> SUFFICES ASSUME [Next]_vars PROVE OneSearchMoves
  OBVIOUS
<1> USE DEF OneSearchMoves, Decide, Search, Return, GoOn, searches
<1>1. CASE LoadOptions BY <1>1 DEF LoadOptions
<1>2. CASE CheckEmpty BY <1>2 DEF CheckEmpty
<1>3. CASE CheckEnabled BY <1>3 DEF CheckEnabled
<1>4. CASE CheckLength BY <1>4 DEF CheckLength
<1>5. CASE CheckFirstLetter BY <1>5 DEF CheckFirstLetter
<1>6. CASE CheckUserName BY <1>6 DEF CheckUserName
<1>7. CASE CheckTypes BY <1>7 DEF CheckTypes
<1>8. CASE CheckPalindrome BY <1>8 DEF CheckPalindrome
<1>9. CASE CheckWord BY <1>9 DEF CheckWord
<1>10. CASE CheckMonotone BY <1>10 DEF CheckMonotone
<1>11. CASE CheckConsecutive BY <1>11 DEF CheckConsecutive
<1>12. CASE UNCHANGED vars BY <1>12 DEF vars
<1> QED
  BY <1>1, <1>2, <1>3, <1>4, <1>5, <1>6, <1>7, <1>8, <1>9, <1>10, <1>11,
     <1>12 DEF Next

(* The check runs the three searches and the count of the types one after  *)
(* the other: it implements each of them.                                  *)
THEOREM CheckRunsTheSearches == Spec => PalSpec /\ ConSpec /\ MonSpec /\ TypSpec
<1>1. Init => PalInit /\ ConInit /\ MonInit /\ TypInit
  BY DEF Init
<1>2. [Next]_vars => [PalNext]_pal_vars
  BY StepMovesOneSearch DEF OneSearchMoves
<1>3. [Next]_vars => [ConNext]_con_vars
  BY StepMovesOneSearch DEF OneSearchMoves
<1>4. [Next]_vars => [MonNext]_mon_vars
  BY StepMovesOneSearch DEF OneSearchMoves
<1>5. [Next]_vars => [TypNext]_typ_vars
  BY StepMovesOneSearch DEF OneSearchMoves
<1> QED
  BY <1>1, <1>2, <1>3, <1>4, <1>5, PTL
  DEF Spec, PalSpec, ConSpec, MonSpec, TypSpec

(***************************************************************************)
(* Where the check is says which rules the password has passed.            *)
(***************************************************************************)
AfterConsecutive == {"returned"}
AfterMonotone == {"consecutive"}
AfterWord == {"monotone"} \cup AfterMonotone
AfterPalindrome == {"word"} \cup AfterWord
AfterTypes == {"palindrome"} \cup AfterPalindrome
AfterUserName == {"types"} \cup AfterTypes
AfterFirstLetter == {"user_name"} \cup AfterUserName
AfterLength == {"first_letter"} \cup AfterFirstLetter
AfterEnabled == {"length"} \cup AfterLength
AfterEmpty == {"enabled"} \cup AfterEnabled

LengthPassed ==
    options.min_len <= Len(pw) /\ Len(pw) <= options.max_len
FirstLetterPassed == On("FIRST_LETTER_UPPERCASE") => pw[1] \in 65 .. 90
UserNamePassed ==
    options.min_len >= 8 /\ character_num_required >= 3 => user # pw
PalindromePassed == On("PALINDROME_NUM") => pal_done /\ ~flag
WordFound == is_word(pw, Dictionary)
WordPassed == On("WORD_CHECK") => ~WordFound
MonotonePassed == On("MONOTONE_CHARACTER_NUM") => mon_done /\ ~mon_found
ConsecutivePassed ==
    On("CONSECUTIVE_SAME_CHARACTER_NUM") => con_done /\ ~con_found

Passed ==
    /\ rule \in AfterEmpty => pw # <<>>
    /\ rule \in AfterEnabled => On("STRONG_PASSWORD")
    /\ rule \in AfterLength => LengthPassed
    /\ rule \in AfterFirstLetter => FirstLetterPassed
    /\ rule \in AfterUserName => UserNamePassed
    /\ rule \in AfterTypes => typ_ret = "PW_NO_ERR"
    /\ rule \in AfterPalindrome => PalindromePassed
    /\ rule \in AfterWord => WordPassed
    /\ rule \in AfterMonotone => MonotonePassed

(* What holds when the check has accepted the password ...                 *)
Accepted ==
    rule = "returned" /\ ret = "PW_NO_ERR" =>
        /\ pw # <<>>
        /\ On("STRONG_PASSWORD") =>
             /\ LengthPassed /\ FirstLetterPassed /\ UserNamePassed
             /\ typ_ret = "PW_NO_ERR"
             /\ PalindromePassed /\ WordPassed
             /\ MonotonePassed /\ ConsecutivePassed

(* ... and when it has refused it.                                         *)
Refused ==
    /\ rule # "returned" => ret = "PW_NO_ERR"
    /\ ret = "PW_ERR_PASSWORD_EMPTY" => pw = <<>>
    /\ ret \notin {"PW_NO_ERR", "PW_ERR_PARA", "PW_ERR_PASSWORD_EMPTY"} =>
         pw # <<>> /\ On("STRONG_PASSWORD")
    /\ ret = "PW_ERR_LENGTH_SHORT" => Len(pw) < options.min_len
    /\ ret = "PW_ERR_LENGTH_LONG" => Len(pw) > options.max_len
    /\ ret = "PW_ERR_PW_FIRST_UPPERM" =>
         On("FIRST_LETTER_UPPERCASE") /\ pw[1] \notin 65 .. 90
    /\ ret = "PW_ERR_SAME_AS_USERNAME" =>
         user = pw /\ options.min_len >= 8 /\ character_num_required >= 3
    /\ ret \in {"PW_ERR_CHARACTER_INVALID", "PW_ERR_CHARACTER_TYPE_TOO_FEW"}
         => typ_ret = ret
    /\ ret = "PW_ERR_PALINDROME" => On("PALINDROME_NUM") /\ flag
    /\ ret = "PW_ERR_WORD" => On("WORD_CHECK") /\ WordFound
    /\ ret = "PW_ERR_PW_MONOTONE" => On("MONOTONE_CHARACTER_NUM") /\ mon_found
    /\ ret = "PW_ERR_PW_CONSECUTIVE_SAME" =>
         On("CONSECUTIVE_SAME_CHARACTER_NUM") /\ con_found /\ con_done

(* A search that is off finds nothing, and the verdict of the types is one *)
(* of four.                                                                *)
Idle ==
    /\ typ_ret \in {"none", "PW_NO_ERR", "PW_ERR_CHARACTER_INVALID",
                    "PW_ERR_CHARACTER_TYPE_TOO_FEW"}
    /\ ~On("PALINDROME_NUM") => ~flag
    /\ ~On("MONOTONE_CHARACTER_NUM") => ~mon_found
    /\ ~On("CONSECUTIVE_SAME_CHARACTER_NUM") => ~con_found

Arguments ==
    /\ pw \in Seq(Char)
    /\ options.min_len \in Int /\ options.max_len \in Int
    /\ character_num_required \in Int

CheckInv == Arguments /\ Passed /\ Accepted /\ Refused /\ Idle

LEMMA InitCheckInv == Init => CheckInv
<1> SUFFICES ASSUME Init PROVE CheckInv
  OBVIOUS
<1>1. Arguments
  BY PasswordsAssumption, OptionsAssumption, RequirementsAssumption
     DEF Init, PalInit, TypInit, Arguments
<1>2. rule = "options" /\ ret = "PW_NO_ERR" /\ typ_ret = "none"
  BY DEF Init, TypInit
<1>3. ~flag /\ ~mon_found /\ ~con_found
  BY DEF Init, PalInit, MonInit, ConInit
<1>4. Passed
  BY <1>2 DEF Passed, AfterEmpty, AfterEnabled, AfterLength, AfterFirstLetter,
     AfterUserName, AfterTypes, AfterPalindrome, AfterWord, AfterMonotone
<1> QED
  BY <1>1, <1>2, <1>3, <1>4 DEF CheckInv, Accepted, Refused, Idle

(* What is looked up stays the same.                                       *)
LEMMA WordFixed == [Next]_vars => (WordFound' <=> WordFound)
<1> SUFFICES ASSUME [Next]_vars PROVE pw' = pw /\ options' = options
  BY DEF WordFound, Dictionary
<1>1. pw' = pw
  BY StepMovesOneSearch DEF OneSearchMoves, pal_vars, con_vars, mon_vars,
     PalNext, Found, NotHere, ConNext, ConCompare, ConReturnFalse, MonNext,
     MonCompare, MonReturnFalse, TypNext, FindChinese, NextGroup, Finish
<1>2. options' = options
  BY DEF Next, vars, LoadOptions, CheckEmpty, CheckEnabled, CheckLength,
     CheckFirstLetter, CheckUserName, CheckTypes, CheckPalindrome, CheckWord,
     CheckMonotone, CheckConsecutive, Decide, Search, Return, GoOn
<1> QED
  BY <1>1, <1>2

LEMMA NextCheckInv == CheckInv /\ [Next]_vars => CheckInv'
<1> SUFFICES ASSUME CheckInv, [Next]_vars PROVE CheckInv'
  OBVIOUS
<1> USE WordFixed DEF CheckInv, Arguments, Passed, Accepted, Refused, Idle, On,
        AfterEmpty, AfterEnabled, AfterLength, AfterFirstLetter,
        AfterUserName, AfterTypes, AfterPalindrome, AfterWord, AfterMonotone,
        LengthPassed, FirstLetterPassed, UserNamePassed, PalindromePassed,
        WordPassed, MonotonePassed, ConsecutivePassed,
        Decide, Search, Return, GoOn, searches, pal_vars, con_vars, mon_vars,
        typ_vars
<1>1. CASE LoadOptions BY <1>1 DEF LoadOptions
<1>2. CASE CheckEmpty BY <1>2 DEF CheckEmpty
<1>3. CASE CheckEnabled BY <1>3 DEF CheckEnabled
<1>4. CASE CheckLength
  <2>1. /\ rule = "length" /\ pw # <<>> /\ ret = "PW_NO_ERR"
        /\ On("STRONG_PASSWORD") /\ Len(pw) \in Nat
    BY <1>4 DEF CheckLength
  <2>2. CASE Len(pw) < options.min_len /\ Return("PW_ERR_LENGTH_SHORT")
    BY <2>1, <2>2
  <2>3. CASE Len(pw) > options.max_len /\ Return("PW_ERR_LENGTH_LONG")
    BY <2>1, <2>3
  <2>4. CASE LengthPassed /\ GoOn("first_letter")
    BY <2>1, <2>4
  <2> QED
    BY <1>4, <2>1, <2>2, <2>3, <2>4 DEF CheckLength
<1>5. CASE CheckFirstLetter
  <2>1. /\ rule = "first_letter" /\ pw # <<>> /\ ret = "PW_NO_ERR"
        /\ On("STRONG_PASSWORD") /\ LengthPassed
    BY <1>5 DEF CheckFirstLetter
  <2>2. CASE /\ On("FIRST_LETTER_UPPERCASE") /\ pw[1] \notin 65 .. 90
             /\ Return("PW_ERR_PW_FIRST_UPPERM")
    BY <2>1, <2>2
  <2>3. CASE FirstLetterPassed /\ GoOn("user_name")
    BY <2>1, <2>3
  <2> QED
    BY <1>5, <2>2, <2>3 DEF CheckFirstLetter
<1>6. CASE CheckUserName
  <2>1. /\ rule = "user_name" /\ pw # <<>> /\ ret = "PW_NO_ERR"
        /\ On("STRONG_PASSWORD") /\ LengthPassed /\ FirstLetterPassed
    BY <1>6 DEF CheckUserName
  <2>2. CASE /\ options.min_len >= 8 /\ character_num_required >= 3
             /\ user = pw /\ Return("PW_ERR_SAME_AS_USERNAME")
    BY <2>1, <2>2
  <2>3. CASE UserNamePassed /\ GoOn("types")
    BY <2>1, <2>3
  <2> QED
    BY <1>6, <2>2, <2>3 DEF CheckUserName
<1>7. CASE CheckTypes
  BY <1>7 DEF CheckTypes, TypNext, FindChinese, NextGroup, Finish
<1>8. CASE CheckPalindrome BY <1>8 DEF CheckPalindrome
<1>9. CASE CheckWord
  <2>1. Decide("word", On("WORD_CHECK") /\ WordFound, "PW_ERR_WORD", "monotone")
    BY <1>9, Zenon DEF CheckWord, WordFound
  <2> QED
    BY <2>1
<1>10. CASE CheckMonotone BY <1>10 DEF CheckMonotone
<1>11. CASE CheckConsecutive BY <1>11 DEF CheckConsecutive
<1>12. CASE UNCHANGED vars BY <1>12 DEF vars
<1> QED
  BY <1>1, <1>2, <1>3, <1>4, <1>5, <1>6, <1>7, <1>8, <1>9, <1>10, <1>11,
     <1>12 DEF Next

LEMMA CheckInvariance == Spec => []CheckInv
  BY InitCheckInv, NextCheckInv, PTL DEF Spec

(***************************************************************************)
(* The promises of the whole check                                         *)
(***************************************************************************)
(* What the searches decide inside the check, by the theorems about them.  *)
LEMMA SearchesDecide ==
  Spec => [](/\ ReportedIsThere /\ EarlyIsFound /\ ExactRuns
             /\ RunsAreFound /\ ReportedAreNeighbours)
  BY CheckRunsTheSearches, SearchIsSound, SearchFindsEarly, DecidesRuns,
     FindsRuns, ReportsNeighbours, PTL

(* An accepted password breaks none of the rules dde.conf switches on.     *)
THEOREM AcceptanceIsEarned == Spec => []AcceptedBreaksNoRule
<1>1. CheckInv /\ EarlyIsFound /\ ExactRuns /\ RunsAreFound
      => AcceptedBreaksNoRule
  BY DEF CheckInv, Accepted, LengthPassed, FirstLetterPassed, UserNamePassed,
         PalindromePassed, MonotonePassed, ConsecutivePassed, EarlyIsFound,
         ExactRuns, RunsAreFound, AcceptedBreaksNoRule
<1> QED
  BY <1>1, CheckInvariance, SearchesDecide, PTL

(* No word of the dictionary gets through in disguise: the combination     *)
(* that undoes it is one of those tried ...                                *)
LEMMA DisguisesAreUndone ==
  ASSUME NEW s \in Seq(Char), NEW w \in Seq(Char), Disguises(s, w)
  PROVE  w \in Mangled(s)
<1> DEFINE r == {<<s[x], w[x]>> : x \in {y \in DOMAIN s : s[y] # w[y]}}
<1>1. /\ Len(s) = Len(w) /\ DOMAIN s = DOMAIN w /\ DOMAIN s = 1 .. Len(s)
      /\ Len(s) \in Nat
  BY DEF Disguises
<1>2. CASE s = w
  <2>1. SubSeq(s, 0 + 1, Len(s)) = s
    BY <1>1
  <2>2. SubSeq(s, 0 + 1, Len(s)) \in {SubSeq(s, n + 1, Len(s)) : n \in 0 .. 3}
    OBVIOUS
  <2> QED
    BY <2>1, <2>2, <1>2, Zenon DEF Mangled, Trimmed
<1>3. CASE s # w
  <2>1. r # {}
    <3>1. s \in [DOMAIN s -> Char] /\ w \in [DOMAIN s -> Char]
      BY <1>1
    <3>2. \E x \in DOMAIN s : s[x] # w[x]
      <4> SUFFICES ASSUME \A x \in DOMAIN s : s[x] = w[x] PROVE s = w
        BY <1>3
      <4>1. /\ s = [x \in DOMAIN s |-> s[x]]
            /\ w = [x \in DOMAIN s |-> w[x]]
        BY <3>1
      <4>2. [x \in DOMAIN s |-> s[x]] = [x \in DOMAIN s |-> w[x]]
        OBVIOUS
      <4> QED
        BY <4>1, <4>2, Zenon
    <3> QED
      BY <3>2
  <2>2. \A p \in r : p \in LookAlikes /\ p[1] \in Range(s)
    BY DEF Disguises, Range
  <2>3. \A p, q \in r : p[1] = q[1] => p = q
    BY DEF Disguises
  <2>4. r \in Combinations(s)
    BY <2>1, <2>2, <2>3, Zenon DEF Combinations
  <2>5. ASSUME NEW x \in DOMAIN s
        PROVE  w[x] = IF \E p \in r : p[1] = s[x]
                      THEN (CHOOSE p \in r : p[1] = s[x])[2] ELSE s[x]
    <3>1. CASE \E p \in r : p[1] = s[x]
      <4>1. PICK y \in DOMAIN s : s[y] # w[y] /\ s[y] = s[x]
        BY <3>1
      <4>2. w[x] = w[y] /\ s[x] # w[x]
        BY <4>1 DEF Disguises
      <4>3. <<s[x], w[x]>> \in r
        BY <4>2
      <4>4. (CHOOSE p \in r : p[1] = s[x]) = <<s[x], w[x]>>
        BY <4>3, <2>3
      <4>5. (CHOOSE p \in r : p[1] = s[x])[2] = w[x]
        <5>1. \A pair : pair = <<s[x], w[x]>> => pair[2] = w[x]
          OBVIOUS
        <5> HIDE DEF r
        <5> QED
          BY <4>4, <5>1, Zenon
      <4> HIDE DEF r
      <4> QED
        BY <3>1, <4>5, Zenon
    <3>2. CASE ~\E p \in r : p[1] = s[x]
      <4>1. s[x] # w[x] => <<s[x], w[x]>> \in r
        OBVIOUS
      <4>2. s[x] = w[x]
        BY <3>2, <4>1
      <4> HIDE DEF r
      <4> QED
        BY <3>2, <4>2, Zenon
    <3> QED
      BY <3>1, <3>2
  <2>6. w = Replace(s, r)
    BY <1>1, <2>5 DEF Replace
  <2> QED
    BY <2>4, <2>6 DEF Mangled
<1> QED
  BY <1>2, <1>3

(* ... and so is the trim that takes off what was added.                   *)
LEMMA PadsAreTrimmed ==
  ASSUME NEW s \in Seq(Char), NEW w \in Seq(Char), Pads(s, w)
  PROVE  w \in Mangled(s)
<1> DEFINE n == Len(s) - Len(w)
<1>1. n \in 0 .. 3 /\ Len(s) \in Nat /\ Len(w) \in Nat
  BY DEF Pads
<1>2. CASE \A x \in DOMAIN w : w[x] = s[x]
  <2>1. w = SubSeq(s, 1, Len(s) - n)
    BY <1>1, <1>2
  <2> QED
    BY <1>1, <2>1 DEF Mangled, Trimmed
<1>3. CASE \A x \in DOMAIN w : w[x] = s[x + Len(s) - Len(w)]
  <2>1. w = SubSeq(s, n + 1, Len(s))
    BY <1>1, <1>3
  <2> QED
    BY <1>1, <2>1 DEF Mangled, Trimmed
<1> QED
  BY <1>2, <1>3 DEF Pads

(* With WORD_CHECK no word, disguised or padded, is accepted.              *)
THEOREM WordsAreRefused == Spec => []DisguisedWordsAreRefused
<1>1. CheckInv => DisguisedWordsAreRefused
  <2> SUFFICES ASSUME CheckInv, rule = "returned", ret = "PW_NO_ERR",
                      On("STRONG_PASSWORD"), On("WORD_CHECK")
               PROVE  LET path == IF Dictionary = "" THEN DefaultCracklibDict
                                                     ELSE Dictionary
                      IN  /\ path \in DOMAIN Dictionaries
                          /\ \A w \in Dictionaries[path] :
                                ~Disguises(pw, w) /\ ~Pads(pw, w)
    BY Zenon DEF DisguisedWordsAreRefused
  <2> DEFINE path == IF Dictionary = "" THEN DefaultCracklibDict
                                        ELSE Dictionary
  <2>1. pw \in Seq(Char) /\ word_check(pw, Dictionary) = 0
    BY DEF CheckInv, Arguments, Accepted, WordPassed, WordFound, is_word
  <2>2. path \in DOMAIN Dictionaries /\ Mangled(pw) \cap Dictionaries[path] = {}
    <3>1. word_check(pw, Dictionary) =
            IF path \notin DOMAIN Dictionaries THEN -1
            ELSE IF Mangled(pw) \cap Dictionaries[path] # {} THEN 1 ELSE 0
      BY Zenon DEF word_check
    <3> HIDE DEF path
    <3> QED
      BY <2>1, <3>1
  <2>3. ASSUME NEW w \in Dictionaries[path]
        PROVE  ~Disguises(pw, w) /\ ~Pads(pw, w)
    <3>1. w \in Seq(Char)
      BY <2>2, DictionariesAssumption
    <3> QED
      BY <2>1, <2>2, <3>1, DisguisesAreUndone, PadsAreTrimmed
  <2> QED
    BY <2>2, <2>3
<1> QED
  BY <1>1, CheckInvariance, PTL

(* A refused password breaks the rule that the error names.                *)
THEOREM RefusalIsDeserved == Spec => []ErrorNamesABrokenRule
<1>1. WordFound => is_word(pw, Dictionary)
  BY DEF WordFound
<1>2. CheckInv /\ ReportedIsThere /\ ExactRuns /\ ReportedAreNeighbours
      => ErrorNamesABrokenRule
  BY <1>1 DEF CheckInv, Refused, ReportedIsThere, ExactRuns,
     ReportedAreNeighbours, ErrorNamesABrokenRule, Errors
<1> QED
  BY <1>2, CheckInvariance, SearchesDecide, PTL

(***************************************************************************)
(* What strtok returns is within the policy                                *)
(***************************************************************************)
LEMMA LeastIsThere ==
  ASSUME NEW S \in SUBSET Nat, S # {}
  PROVE  Min(S) \in S /\ \A y \in S : Min(S) <= y
<1> DEFINE R == {ss \in Nat \X Nat : ss[1] < ss[2]}
<1>1. R = OpToRel(<, Nat)
  BY DEF OpToRel
<1>2. IsWellFoundedOn(R, Nat)
  BY <1>1, NatLessThanWellFounded
<1>3. ASSUME NEW x \in Nat, NEW y \in Nat, <<y, x>> \notin R
      PROVE  x <= y
  BY <1>3
<1> HIDE DEF R
<1>4. PICK x \in S : \A y \in S : <<y, x>> \notin R
  BY <1>2, WFMin, Zenon
<1>5. \A y \in S : x <= y
  BY <1>3, <1>4
<1> QED
  BY <1>5, Zenon DEF Min

LEMMA GreatestIsThere ==
  ASSUME NEW k \in Nat, NEW S \in SUBSET (0 .. k), S # {}
  PROVE  Max(S) \in S /\ \A y \in S : Max(S) >= y
<1> DEFINE T == {k - x : x \in S}
<1>1. T \in SUBSET Nat /\ T # {}
  <2>1. \A x \in S : k - x \in Nat
    OBVIOUS
  <2> QED
    BY <2>1, Zenon
<1> HIDE DEF T
<1>2. Min(T) \in T /\ \A y \in T : Min(T) <= y
  BY <1>1, LeastIsThere
<1>3. PICK x \in S : Min(T) = k - x
  BY <1>2 DEF T
<1>4. \A y \in S : k - x <= k - y
  BY <1>2, <1>3 DEF T
<1>5. \A y \in S : x >= y
  BY <1>4
<1> QED
  BY <1>5, Zenon DEF Max

Policy == character_type \in Seq(Char)

LEMMA TokenBounds ==
  ASSUME Policy, NEW n \in Nat, Starts(n) # {}
  PROVE  /\ TokenStart(n) \in Starts(n) /\ n < TokenStart(n)
         /\ TokenEnd(n) \in TokenStart(n) .. Len(character_type)
         /\ \A x \in n + 1 .. TokenStart(n) - 1 :
               character_type[x] = Separator
         /\ \A x \in TokenStart(n) .. TokenEnd(n) :
               character_type[x] # Separator
         /\ TokenEnd(n) < Len(character_type) =>
               character_type[TokenEnd(n) + 1] = Separator
         /\ After(n) \in n + 1 .. Len(character_type)
         /\ TokenEnd(n) < Len(character_type) => After(n) = TokenEnd(n) + 1
         /\ TokenEnd(n) = Len(character_type) => After(n) = TokenEnd(n)
<1> DEFINE k == Len(character_type)
           t == TokenStart(n)
           Ends == {y \in t .. k : t .. y \subseteq Starts(n)}
<1>1. k \in Nat /\ Starts(n) \in SUBSET Nat /\ Starts(n) \subseteq n + 1 .. k
  BY DEF Policy, Starts
<1>2. t \in Starts(n) /\ \A y \in Starts(n) : t <= y
  BY <1>1, LeastIsThere, Zenon DEF TokenStart
<1>3. t \in n + 1 .. k
  BY <1>1, <1>2
<1>4. t \in Ends /\ Ends \in SUBSET (0 .. k)
  BY <1>1, <1>2, <1>3
<1>5. TokenEnd(n) \in Ends /\ \A y \in Ends : TokenEnd(n) >= y
  <2>1. TokenEnd(n) = Max(Ends)
    BY Zenon DEF TokenEnd
  <2> HIDE DEF Ends
  <2> QED
    BY <1>1, <1>4, <2>1, GreatestIsThere
<1>6. \A x \in n + 1 .. t - 1 : character_type[x] = Separator
  BY <1>1, <1>2, <1>3 DEF Starts
<1>7. \A x \in t .. TokenEnd(n) : character_type[x] # Separator
  BY <1>5 DEF Starts
<1>8. ASSUME TokenEnd(n) < k
      PROVE  character_type[TokenEnd(n) + 1] = Separator
  <2>1. TokenEnd(n) + 1 \notin Ends /\ TokenEnd(n) + 1 \in t .. k
    BY <1>3, <1>5, <1>8
  <2>2. TokenEnd(n) + 1 \notin Starts(n)
    BY <1>3, <1>5, <2>1
  <2> QED
    BY <1>3, <2>1, <2>2 DEF Starts
<1>9. /\ After(n) \in {TokenEnd(n) + 1, k}
      /\ After(n) <= TokenEnd(n) + 1 /\ After(n) <= k
  <2>1. {TokenEnd(n) + 1, k} \in SUBSET Nat /\ {TokenEnd(n) + 1, k} # {}
    BY <1>1, <1>3, <1>5
  <2> QED
    BY <2>1, LeastIsThere, Zenon DEF After
<1> QED
  BY <1>1, <1>2, <1>3, <1>5, <1>6, <1>7, <1>8, <1>9

LEMMA GroupIsListed ==
  ASSUME Policy, NEW n \in Nat, Starts(n) # {}
  PROVE  Group(n) \subseteq Range(character_type)
<1>1. \A m \in Nat : Starts(m) # {} => Token(m) \subseteq Range(character_type)
  <2> SUFFICES ASSUME NEW m \in Nat, Starts(m) # {},
                      NEW x \in TokenStart(m) .. TokenEnd(m)
               PROVE  x \in DOMAIN character_type
    BY DEF Token, Range
  <2>1. /\ m < TokenStart(m) /\ TokenStart(m) \in Starts(m)
        /\ TokenEnd(m) \in TokenStart(m) .. Len(character_type)
    BY TokenBounds, Zenon
  <2>2. TokenStart(m) \in Nat
    BY <2>1 DEF Starts, Policy
  <2> QED
    BY <2>1, <2>2 DEF Policy
<1>2. After(n) \in Nat /\ Len(character_type) \in Nat
  BY TokenBounds DEF Policy
<1>3. Joins(n) => Separator \in Range(character_type)
  <2> SUFFICES ASSUME Joins(n) PROVE Separator \in Range(character_type)
    OBVIOUS
  <2>1. /\ TokenEnd(n) + 1 \in DOMAIN character_type
        /\ character_type[TokenEnd(n) + 1] = Separator
    BY TokenBounds DEF Policy, Joins
  <2> QED
    BY <2>1, Zenon DEF Range
<1> QED
  BY <1>1, <1>2, <1>3 DEF Group, Joins

LEMMA TypInitTypeOK == TypInit => TypTypeOK
<1> SUFFICES ASSUME TypInit PROVE TypTypeOK
  OBVIOUS
<1>1. Len(character_type) \in Nat
  BY CharacterTypesAssumption DEF TypInit
<1> QED
  BY <1>1 DEF TypInit, TypTypeOK

(* Each group is taken from further on in the policy.                      *)
LEMMA GroupsAdvance ==
  ASSUME Policy, NextGroup, at \in 0 .. Len(character_type)
  PROVE  at' \in at + 1 .. Len(character_type)
<1>1. at \in Nat /\ Starts(at) # {} /\ Len(character_type) \in Nat
  BY DEF NextGroup, Policy
<1>2. After(at) \in at + 1 .. Len(character_type)
  BY <1>1, TokenBounds
<1>3. ASSUME Joins(at)
      PROVE  After(After(at)) \in After(at) + 1 .. Len(character_type)
  <2>1. After(at) \in Nat /\ Starts(After(at)) # {}
    BY <1>1, <1>2, <1>3 DEF Joins
  <2> QED
    BY <1>1, <2>1, TokenBounds
<1> QED
  BY <1>1, <1>2, <1>3 DEF NextGroup

LEMMA TypNextTypeOK == TypTypeOK /\ [TypNext]_typ_vars => TypTypeOK'
<1> SUFFICES ASSUME TypTypeOK, [TypNext]_typ_vars PROVE TypTypeOK'
  OBVIOUS
<1>1. Policy /\ at \in Nat /\ pass \in Nat /\ pass <= at
      /\ Len(character_type) \in Nat
  BY CharacterTypesAssumption DEF TypTypeOK, Policy
<1>2. CASE FindChinese
  BY <1>2 DEF FindChinese, TypTypeOK
<1>3. CASE NextGroup
  <2>1. Starts(at) # {} /\ UNCHANGED <<pw, character_type, character_num_required, typ_ret>>
    BY <1>3 DEF NextGroup
  <2>2. at' \in at + 1 .. Len(character_type)
    BY <1>1, <1>3, GroupsAdvance DEF TypTypeOK
  <2>3. pass' \in 0 .. at'
    BY <1>1, <1>3, <2>2 DEF NextGroup
  <2>4. all_character' \subseteq Range(character_type)
    BY <1>1, <1>3, <2>1, GroupIsListed DEF NextGroup, TypTypeOK
  <2>5. at' \in 0 .. Len(character_type)
    BY <1>1, <2>2
  <2> QED
    BY <2>1, <2>3, <2>4, <2>5 DEF TypTypeOK
<1>4. CASE Finish
  BY <1>4 DEF Finish, TypTypeOK
<1>5. CASE UNCHANGED typ_vars
  BY <1>5 DEF typ_vars, TypTypeOK
<1> QED
  BY <1>2, <1>3, <1>4, <1>5 DEF TypNext

LEMMA TypTypeInvariance == TypSpec => []TypTypeOK
  BY TypInitTypeOK, TypNextTypeOK, PTL DEF TypSpec

(* Where the check is and what it answers.                                 *)
CallTypeOK ==
    /\ options \in Options
    /\ user \in Users
    /\ rule \in Rules \cup {"returned"}
    /\ ret \in Errors \cup {"PW_NO_ERR"}

LEMMA CallNext == CallTypeOK /\ CheckInv /\ [Next]_vars => CallTypeOK'
<1> SUFFICES ASSUME CallTypeOK, CheckInv, [Next]_vars PROVE CallTypeOK'
  OBVIOUS
<1> USE DEF CallTypeOK, Rules, Errors, Decide, Search, Return, GoOn
<1>1. CASE LoadOptions BY <1>1 DEF LoadOptions
<1>2. CASE CheckEmpty BY <1>2 DEF CheckEmpty
<1>3. CASE CheckEnabled BY <1>3 DEF CheckEnabled
<1>4. CASE CheckLength BY <1>4 DEF CheckLength
<1>5. CASE CheckFirstLetter BY <1>5 DEF CheckFirstLetter
<1>6. CASE CheckUserName BY <1>6 DEF CheckUserName
<1>7. CASE CheckTypes BY <1>7 DEF CheckTypes, CheckInv, Idle
<1>8. CASE CheckPalindrome BY <1>8 DEF CheckPalindrome
<1>9. CASE CheckWord BY <1>9 DEF CheckWord
<1>10. CASE CheckMonotone BY <1>10 DEF CheckMonotone
<1>11. CASE CheckConsecutive BY <1>11 DEF CheckConsecutive
<1>12. CASE UNCHANGED vars BY <1>12 DEF vars
<1> QED
  BY <1>1, <1>2, <1>3, <1>4, <1>5, <1>6, <1>7, <1>8, <1>9, <1>10, <1>11,
     <1>12 DEF Next

(* The indices and counters of all the rules stay within the password and  *)
(* the policy, and nothing is answered before the check returns.           *)
THEOREM CheckTypesCorrect == Spec => []TypeOK
<1>1. Init => CallTypeOK
  BY DEF Init, CallTypeOK, Rules
<1>2. Spec => []CallTypeOK
  BY <1>1, CallNext, CheckInvariance, PTL DEF Spec
<1>3. ConSpec => []ConIInv
  BY ConInitIInv, ConNextIInv, PTL DEF ConSpec
<1>4. ConIInv => ConTypeOK
  BY DEF ConIInv
<1>5. MonIInv => MonTypeOK
  BY DEF MonIInv
<1>6. CallTypeOK /\ CheckInv /\ PalTypeOK /\ ConTypeOK /\ MonTypeOK /\ TypTypeOK
      => TypeOK
  BY DEF CallTypeOK, CheckInv, Refused, TypeOK
<1> QED
  BY <1>2, <1>3, <1>4, <1>5, <1>6, CheckRunsTheSearches, CheckInvariance,
     IndicesInBounds, MonInvariance, TypTypeInvariance, PTL

(***************************************************************************)
(* The count of the types: strtok walks from class to class                *)
(***************************************************************************)
Boundary(n) == n \in {0, Len(character_type)} \cup Breaks

(* Characters that no separator parts are all symbols or none is.          *)
LEMMA TokenIsUniform ==
  ASSUME Policy, WellFormed, NEW n \in Nat, Starts(n) # {},
         NEW x \in TokenStart(n) .. TokenEnd(n)
  PROVE  character_type[x] \in Symbols
            <=> character_type[TokenStart(n)] \in Symbols
<1> DEFINE t == TokenStart(n)
           e == TokenEnd(n)
           Odd == {y \in t .. e : ~(character_type[y] \in Symbols
                                    <=> character_type[t] \in Symbols)}
<1>1. /\ t \in Nat /\ n < t /\ e \in t .. Len(character_type)
      /\ \A y \in t .. e : character_type[y] # Separator
      /\ Len(character_type) \in Nat
  BY TokenBounds DEF Starts, Policy
<1>2. SUFFICES ASSUME Odd # {} PROVE FALSE
  OBVIOUS
<1>3. Odd \in SUBSET Nat
  BY <1>1
<1>4. Min(Odd) \in Odd /\ \A y \in Odd : Min(Odd) <= y
  <2> HIDE DEF Odd
  <2> QED
    BY <1>2, <1>3, LeastIsThere
<1> DEFINE y == Min(Odd)
<1>5. y \in t + 1 .. e
  BY <1>1, <1>4
<1>6. y - 1 \notin Odd /\ y - 1 \in t .. e
  BY <1>1, <1>4, <1>5
<1>7. /\ y - 1 \in 1 .. Len(character_type) - 1
      /\ character_type[y - 1] # Separator /\ character_type[y] # Separator
  BY <1>1, <1>5, <1>6
<1>8. character_type[y - 1] \in Symbols <=> character_type[y] \in Symbols
  <2> HIDE DEF y
  <2>1. LET pair == {character_type[y - 1], character_type[(y - 1) + 1]} IN
           Separator \in pair \/ pair \subseteq Symbols \/ pair \cap Symbols = {}
    BY <1>7, Zenon DEF WellFormed
  <2>2. (y - 1) + 1 = y
    BY <1>1, <1>5
  <2> QED
    BY <1>7, <2>1, <2>2
<1> QED
  BY <1>4, <1>5, <1>6, <1>8

(* From one boundary the next group is the characters up to the next one.  *)
LEMMA GroupIsClass ==
  ASSUME Policy, WellFormed, NEW n \in Nat, Boundary(n), Starts(n) # {}
  PROVE  \E f \in TokenStart(n) .. Len(character_type) :
            /\ TokenStart(n) .. f \cap Breaks = {}
            /\ f < Len(character_type) => f + 1 \in Breaks
            /\ (IF Joins(n) THEN After(After(n)) ELSE After(n))
                 = IF f < Len(character_type) THEN f + 1 ELSE f
            /\ Group(n) = {character_type[x] : x \in TokenStart(n) .. f}
<1> DEFINE k == Len(character_type)
           t == TokenStart(n)
           e == TokenEnd(n)
<1>1. /\ k \in Nat /\ t \in Nat /\ n < t /\ e \in t .. k
      /\ \A x \in t .. e : character_type[x] # Separator
      /\ e < k => character_type[e + 1] = Separator /\ After(n) = e + 1
      /\ e = k => After(n) = e
      /\ DOMAIN character_type = 1 .. k
  BY TokenBounds DEF Starts, Policy
<1>2. \A x \in t .. e : x \notin Breaks
  BY <1>1 DEF Breaks
<1>3. character_type[e] \in Symbols <=> character_type[t] \in Symbols
  BY <1>1, TokenIsUniform
<1>4. CASE ~Joins(n)
  <2>1. ASSUME e < k PROVE e + 1 \in Breaks
    <3> SUFFICES ASSUME e + 1 \in Inner PROVE FALSE
      BY <1>1, <2>1 DEF Breaks
    <3>1. /\ e + 2 <= k /\ character_type[e] \in Symbols
          /\ character_type[e + 2] \in Symbols /\ character_type[e + 2] # Separator
      BY <1>1 DEF Inner
    <3>2. e + 2 \in Starts(After(n))
      BY <1>1, <2>1, <3>1 DEF Starts
    <3> QED
      BY <1>3, <1>4, <3>1, <3>2 DEF Joins
  <2>2. Group(n) = {character_type[x] : x \in t .. e}
    BY <1>4, Zenon DEF Group, Token
  <2> QED
    BY <1>1, <1>2, <1>4, <2>1, <2>2
<1>5. CASE Joins(n)
  <2>1. /\ character_type[t] \in Symbols /\ e + 2 <= k
        /\ character_type[e + 2] \in Symbols /\ Starts(After(n)) # {}
    BY <1>5 DEF Joins
  <2>2. e + 1 \in Nat /\ After(n) = e + 1 /\ character_type[e + 1] = Separator
    BY <1>1, <2>1
  <2>3. character_type[e + 2] # Separator
    <3>1. ~(character_type[e + 1] = Separator /\ character_type[(e + 1) + 1] = Separator)
      BY <1>1, <2>1 DEF WellFormed
    <3> QED
      BY <1>1, <2>2, <3>1
  <2>4. e + 1 \in Inner
    BY <1>1, <1>3, <2>1, <2>2, <2>3 DEF Inner
  <2> DEFINE u == TokenStart(e + 1)
             f == TokenEnd(e + 1)
  <2>5. /\ u \in Nat /\ e + 1 < u /\ f \in u .. k
        /\ \A x \in e + 2 .. u - 1 : character_type[x] = Separator
        /\ \A x \in u .. f : character_type[x] # Separator
        /\ f < k => character_type[f + 1] = Separator /\ After(e + 1) = f + 1
        /\ f = k => After(e + 1) = f
    <3>1. Starts(e + 1) # {}
      BY <2>1, <2>2
    <3>2. /\ u \in Starts(e + 1) /\ e + 1 < u /\ f \in u .. k
          /\ \A x \in (e + 1) + 1 .. u - 1 : character_type[x] = Separator
          /\ \A x \in u .. f : character_type[x] # Separator
          /\ f < k => character_type[f + 1] = Separator
          /\ f < k => After(e + 1) = f + 1
          /\ f = k => After(e + 1) = f
      BY <2>2, <3>1, TokenBounds, Zenon
    <3>3. u \in Nat
      BY <1>1, <3>2 DEF Starts
    <3>4. (e + 1) + 1 = e + 2
      BY <1>1
    <3> HIDE DEF u, f
    <3> QED
      BY <3>2, <3>3, <3>4
  <2>6. u = e + 2
    BY <1>1, <2>3, <2>5
  <2>7. ASSUME f < k PROVE f + 1 \in Breaks
    <3> SUFFICES ASSUME f + 1 \in Inner PROVE FALSE
      BY <1>1, <2>5, <2>7 DEF Breaks
    <3>1. PICK z \in Breaks : e + 1 < z /\ z < f + 1
      BY <1>1, <2>4, <2>5 DEF WellFormed
    <3>2. z \in u .. f /\ character_type[z] = Separator
      BY <1>1, <2>5, <2>6, <3>1 DEF Breaks
    <3> QED
      BY <2>5, <3>2
  <2>8. t .. f \cap Breaks = {}
    <3> SUFFICES ASSUME NEW x \in t .. f, x \in Breaks PROVE FALSE
      OBVIOUS
    <3>1. character_type[x] = Separator /\ x \notin Inner
      BY DEF Breaks
    <3>2. x \in t .. e \/ x = e + 1 \/ x \in u .. f
      BY <1>1, <2>5, <2>6
    <3> QED
      BY <1>1, <2>4, <2>5, <3>1, <3>2
  <2>9. Group(n) = {character_type[x] : x \in t .. f}
    <3>1. Group(n) = {character_type[x] : x \in t .. e}
                     \cup ({Separator} \cup {character_type[x] : x \in u .. f})
      BY <1>5, <2>2, Zenon DEF Group, Token
    <3>2. \A x : x \in t .. f <=> x \in t .. e \/ x = e + 1 \/ x \in u .. f
      BY <1>1, <2>5, <2>6
    <3>3. ASSUME NEW c PROVE c \in Group(n) <=> \E x \in t .. f : c = character_type[x]
      BY <2>2, <3>1, <3>2, Zenon
    <3> QED
      BY <3>3, Zenon
  <2>10. f \in t .. k
    BY <1>1, <2>5
  <2> HIDE DEF f, u
  <2>11. (IF Joins(n) THEN After(After(n)) ELSE After(n)) = IF f < k THEN f + 1 ELSE f
    <3>1. After(After(n)) = After(e + 1)
      BY <2>2
    <3>2. After(e + 1) = IF f < k THEN f + 1 ELSE f
      <4>1. f < k \/ f = k
        <5>1. f \in t .. k /\ t \in Nat /\ k \in Nat
          BY <1>1, <2>10
        <5> HIDE DEF t, k
        <5> QED
          BY <5>1
      <4>2. f = k => ~(f < k)
        BY <1>1
      <4> QED
        BY <2>5, <4>1, <4>2, Zenon
    <3> QED
      BY <1>5, <3>1, <3>2
  <2> QED
    BY <2>7, <2>8, <2>9, <2>10, <2>11
<1> QED
  BY <1>4, <1>5

(* Those characters are a class of the policy.                             *)
LEMMA GroupStartsAClass ==
  ASSUME Policy, WellFormed, NEW n \in Nat, Boundary(n), Starts(n) # {},
         NEW f \in TokenStart(n) .. Len(character_type),
         TokenStart(n) .. f \cap Breaks = {},
         f < Len(character_type) => f + 1 \in Breaks
  PROVE  /\ \A x \in n + 1 .. TokenStart(n) - 1 : x \in Breaks
         /\ ClassAt(TokenStart(n)) = TokenStart(n) .. f
<1> DEFINE k == Len(character_type)
           t == TokenStart(n)
<1>1. /\ k \in Nat /\ t \in Nat /\ n < t /\ t <= k
      /\ \A x \in n + 1 .. t - 1 : character_type[x] = Separator
      /\ DOMAIN character_type = 1 .. k
  BY TokenBounds DEF Starts, Policy
<1>2. n = 0 \/ (n \in Breaks /\ character_type[n] = Separator)
  <2>1. n # k
    <3>1. n < t /\ t <= k /\ t \in Nat /\ k \in Nat
      BY <1>1
    <3> HIDE DEF t, k
    <3> QED
      BY <3>1
  <2>2. n = 0 \/ n \in Breaks
    BY <2>1, Zenon DEF Boundary
  <2> QED
    BY <2>2 DEF Breaks
<1>3. ASSUME NEW x \in n + 1 .. t - 1 PROVE x \in Breaks
  <2>1. CASE x = 1
    BY <1>1, <2>1 DEF Breaks, Inner
  <2>2. CASE x # 1
    <3>1. /\ x - 1 \in 1 .. k - 1
          /\ character_type[x] = Separator /\ character_type[x - 1] = Separator
      BY <1>1, <1>2, <1>3, <2>2
    <3>2. ~(character_type[x - 1] = Separator /\ character_type[(x - 1) + 1] = Separator)
      BY <3>1 DEF WellFormed
    <3> QED
      BY <1>1, <1>3, <3>1, <3>2
  <2> QED
    BY <2>1, <2>2
<1>4. t > 1 => t - 1 \in Breaks
  BY <1>1, <1>2, <1>3
<1>5. Breaks \subseteq 1 .. k
  BY <1>1 DEF Breaks
<1>6. ASSUME NEW y \in t .. f PROVE y \in ClassAt(t)
  BY <1>1, <1>5, <1>6 DEF ClassAt
<1>7. ASSUME NEW y \in ClassAt(t) PROVE y \in t .. f
  <2>1. y \in 1 .. k /\ y \notin Breaks /\ \A z \in Breaks : z < t <=> z < y
    BY <1>1 DEF ClassAt
  <2>2. y >= t
    BY <1>1, <1>4, <2>1
  <2>3. y <= f
    BY <1>1, <2>1
  <2> QED
    BY <1>1, <2>1, <2>2, <2>3
<1> QED
  BY <1>3, <1>6, <1>7

UsedUpTo(n) ==
    {class \in Classes : /\ class \subseteq 1 .. n
                         /\ \E x \in class : character_type[x] \in Range(pw)}

(* strtok is between two classes; those before it have been counted.       *)
Counted(n, count, characters) ==
    /\ Boundary(n)
    /\ characters = {character_type[x] : x \in (1 .. n) \ Breaks}
    /\ IsFiniteSet(UsedUpTo(n))
    /\ count = Cardinality(UsedUpTo(n))

LEMMA NothingCounted == Policy => Counted(0, 0, {})
<1> SUFFICES ASSUME Policy PROVE Counted(0, 0, {})
  OBVIOUS
<1>1. UsedUpTo(0) = {}
  BY DEF UsedUpTo
<1>2. IsFiniteSet({}) /\ Cardinality({}) = 0
  BY FS_EmptySet
<1> QED
  BY <1>1, <1>2 DEF Counted, Boundary

(* No class is on both sides of a boundary.                                *)
LEMMA ClassesEndAtBoundaries ==
  ASSUME Policy, NEW n \in Nat, Boundary(n),
         NEW x \in DOMAIN character_type \ Breaks, x <= n
  PROVE  ClassAt(x) \subseteq 1 .. n
<1>1. /\ Len(character_type) \in Nat
      /\ DOMAIN character_type = 1 .. Len(character_type)
  BY DEF Policy
<1> SUFFICES ASSUME NEW y \in ClassAt(x) PROVE y \in 1 .. n
  OBVIOUS
<1>2. y \in 1 .. Len(character_type) /\ y \notin Breaks
      /\ \A z \in Breaks : z < x <=> z < y
  BY <1>1 DEF ClassAt
<1>3. x \in Nat /\ 1 <= x
  BY <1>1
<1>4. CASE n = 0
  BY <1>3, <1>4
<1>5. CASE n = Len(character_type)
  BY <1>2, <1>5
<1>6. CASE n \in Breaks
  <2>1. n # x /\ ~(n < x)
    BY <1>3, <1>6
  <2>2. ~(n < y)
    BY <1>2, <1>6, <2>1
  <2> QED
    BY <1>2, <2>2
<1> QED
  BY <1>4, <1>5, <1>6, Zenon DEF Boundary

LEMMA CountGroup ==
  ASSUME Policy, WellFormed, NEW n \in Nat, Starts(n) # {},
         NEW count \in Nat, NEW characters, Counted(n, count, characters)
  PROVE  Counted(IF Joins(n) THEN After(After(n)) ELSE After(n),
                 IF Range(pw) \cap Group(n) # {} THEN count + 1 ELSE count,
                 characters \cup Group(n))
<1> DEFINE k == Len(character_type)
           t == TokenStart(n)
           b == IF Joins(n) THEN After(After(n)) ELSE After(n)
<1>1. /\ k \in Nat /\ t \in Nat /\ n < t /\ t <= k
      /\ DOMAIN character_type = 1 .. k
  BY TokenBounds DEF Starts, Policy
<1>2. PICK f \in t .. k : /\ t .. f \cap Breaks = {}
                          /\ f < k => f + 1 \in Breaks
                          /\ b = IF f < k THEN f + 1 ELSE f
                          /\ Group(n) = {character_type[x] : x \in t .. f}
  BY GroupIsClass DEF Counted
<1>3. /\ \A x \in n + 1 .. t - 1 : x \in Breaks
      /\ ClassAt(t) = t .. f
  BY <1>2, GroupStartsAClass DEF Counted
<1> HIDE DEF b
<1>4. f \in Nat /\ b \in Nat /\ f <= b /\ n < b /\ b <= k /\ (b # f => b = f + 1 /\ b \in Breaks)
  BY <1>1, <1>2
<1>5. Boundary(b)
  <2>1. k \in Nat /\ f \in Nat /\ f <= k /\ b = IF f < k THEN f + 1 ELSE f
    BY <1>1, <1>2, <1>4
  <2>2. (f < k \/ f = k) /\ (f = k => b = k)
    <3> HIDE DEF k
    <3> QED
      BY <2>1
  <2>3. f < k => b \in Breaks
    BY <1>2
  <2> QED
    BY <2>2, <2>3, Zenon DEF Boundary
<1>6. ASSUME NEW x
      PROVE  x \in (1 .. b) \ Breaks <=> x \in (1 .. n) \ Breaks \/ x \in t .. f
  <2>1. ASSUME x \in (1 .. b) \ Breaks, x \notin 1 .. n PROVE x \in t .. f
    <3>1. x \in Nat /\ n < x /\ x <= b /\ x \notin Breaks
      BY <2>1, <1>4
    <3>2. t <= x
      BY <1>1, <1>3, <3>1
    <3>3. x <= f
      BY <1>4, <3>1
    <3> QED
      BY <1>1, <1>4, <3>1, <3>2, <3>3
  <2>2. ASSUME x \in t .. f PROVE x \in (1 .. b) \ Breaks
    BY <1>1, <1>2, <1>4, <2>2
  <2>3. 1 .. n \subseteq 1 .. b
    BY <1>4
  <2> QED
    BY <2>1, <2>2, <2>3
<1>7. characters \cup Group(n) = {character_type[x] : x \in (1 .. b) \ Breaks}
  <2>1. characters = {character_type[x] : x \in (1 .. n) \ Breaks}
    BY Zenon DEF Counted
  <2>2. ASSUME NEW c
        PROVE  c \in characters \cup Group(n)
                  <=> \E x \in (1 .. b) \ Breaks : c = character_type[x]
    BY <1>2, <1>6, <2>1, Zenon
  <2> QED
    BY <2>2, Zenon
<1> DEFINE used == \E x \in t .. f : character_type[x] \in Range(pw)
<1>8. used <=> Range(pw) \cap Group(n) # {}
  BY <1>2
<1>9. t \in DOMAIN character_type \ Breaks /\ t .. f \in Classes
  <2>1. t \in DOMAIN character_type \ Breaks
    BY <1>1, <1>2
  <2> QED
    BY <1>3, <2>1, Zenon DEF Classes
<1>10. t .. f \subseteq 1 .. b /\ ~(t .. f \subseteq 1 .. n)
  <2>1. t \in t .. f /\ t \notin 1 .. n
    BY <1>1, <1>4, <1>2
  <2> QED
    BY <1>1, <1>4, <2>1
<1>11. ASSUME NEW class \in Classes
       PROVE  class \subseteq 1 .. b <=> class \subseteq 1 .. n \/ class = t .. f
  <2>1. PICK x \in DOMAIN character_type \ Breaks : class = ClassAt(x)
    BY DEF Classes
  <2>2. x \in class
    BY <2>1 DEF ClassAt
  <2>3. ASSUME class \subseteq 1 .. b, ~(class \subseteq 1 .. n)
        PROVE  class = t .. f
    <3>1. x \in Nat /\ ~(x <= n)
      BY <1>1, <2>1, <2>3, ClassesEndAtBoundaries DEF Counted
    <3>2. x \in t .. f
      BY <1>6, <2>1, <2>2, <2>3, <3>1
    <3>3. x \in ClassAt(t)
      BY <1>3, <3>2
    <3>4. \A z \in Breaks : z < t <=> z < x
      BY <3>3 DEF ClassAt
    <3>5. ClassAt(x) = ClassAt(t)
      BY <3>4 DEF ClassAt
    <3> QED
      BY <1>3, <2>1, <3>5
  <2>4. 1 .. n \subseteq 1 .. b
    BY <1>4
  <2> QED
    BY <1>10, <2>3, <2>4
<1>12. UsedUpTo(b) = IF used THEN UsedUpTo(n) \cup {t .. f} ELSE UsedUpTo(n)
  <2>1. ASSUME NEW class
        PROVE  class \in UsedUpTo(b)
                 <=> class \in UsedUpTo(n) \/ (used /\ class = t .. f)
    BY <1>9, <1>11, Zenon DEF UsedUpTo
  <2> HIDE DEF used
  <2> QED
    BY <2>1
<1>13. t .. f \notin UsedUpTo(n)
  BY <1>10, Zenon DEF UsedUpTo
<1>14. /\ IsFiniteSet(UsedUpTo(b))
       /\ Cardinality(UsedUpTo(b)) = IF used THEN count + 1 ELSE count
  <2>1. IsFiniteSet(UsedUpTo(n)) /\ count = Cardinality(UsedUpTo(n))
    BY DEF Counted
  <2>2. /\ IsFiniteSet(UsedUpTo(n) \cup {t .. f})
        /\ Cardinality(UsedUpTo(n) \cup {t .. f}) = count + 1
    BY <1>13, <2>1, FS_AddElement
  <2> HIDE DEF used
  <2> QED
    BY <1>12, <2>1, <2>2
<1> HIDE DEF used
<1>15. Counted(b, IF used THEN count + 1 ELSE count, characters \cup Group(n))
  BY <1>5, <1>7, <1>14, Zenon DEF Counted
<1> QED
  BY <1>8, <1>15 DEF b

(* At the end of the policy all its classes have been counted.             *)
LEMMA AllCounted ==
  ASSUME Policy, NEW n \in Nat, Starts(n) = {}, n <= Len(character_type),
         NEW count, NEW characters, Counted(n, count, characters)
  PROVE  characters = Listed /\ count = Cardinality(TypesUsed)
<1> DEFINE k == Len(character_type)
<1>1. k \in Nat /\ DOMAIN character_type = 1 .. k
  BY DEF Policy
<1>2. \A x \in n + 1 .. k : character_type[x] = Separator
  BY DEF Starts
<1>3. ASSUME NEW x \in n + 1 .. k PROVE x \in Breaks
  <2>1. x \notin Inner
    BY <1>1, <1>2, <1>3 DEF Inner
  <2> QED
    BY <1>1, <1>2, <1>3, <2>1 DEF Breaks
<1>4. \A x : x \in (1 .. n) \ Breaks <=> x \in DOMAIN character_type \ Breaks
  BY <1>1, <1>3
<1>5. UNION Classes = DOMAIN character_type \ Breaks
  <2>1. \A class \in Classes : class \subseteq DOMAIN character_type \ Breaks
    BY DEF Classes, ClassAt
  <2>2. ASSUME NEW x \in DOMAIN character_type \ Breaks
        PROVE  x \in ClassAt(x) /\ ClassAt(x) \in Classes
    BY DEF Classes, ClassAt
  <2> QED
    BY <2>1, <2>2, Zenon
<1>6. characters = Listed
  <2>1. characters = {character_type[x] : x \in (1 .. n) \ Breaks}
    BY Zenon DEF Counted
  <2>2. Listed = {character_type[x] : x \in DOMAIN character_type \ Breaks}
    BY <1>5, Zenon DEF Listed
  <2> QED
    BY <1>4, <2>1, <2>2, Zenon
<1>7. UsedUpTo(n) = TypesUsed
  <2>1. ASSUME NEW class \in Classes PROVE class \subseteq 1 .. n
    BY <1>4, <1>5
  <2> QED
    BY <2>1, Zenon DEF UsedUpTo, TypesUsed
<1> QED
  BY <1>6, <1>7, Zenon DEF Counted

(* What has been counted and, in the end, decided.                         *)
TypIInv ==
    /\ TypTypeOK
    /\ WellFormed /\ typ_ret = "none" => Counted(at, pass, all_character)
    /\ TypesAreCounted

(* The policy and the password are the same before and after a step.       *)
LEMMA CountedStays ==
  ASSUME pw' = pw, character_type' = character_type
  PROVE  /\ WellFormed' <=> WellFormed
         /\ Counted(at, pass, all_character)' <=> Counted(at', pass', all_character')
         /\ Listed' = Listed /\ TypesUsed' = TypesUsed
         /\ include_chinese' <=> include_chinese
<1>1. Inner' = Inner /\ Breaks' = Breaks
  BY DEF Inner, Breaks
<1>2. WellFormed' <=> WellFormed
  BY <1>1 DEF WellFormed
<1>3. Classes' = Classes
  BY <1>1 DEF Classes, ClassAt
<1>4. Counted(at, pass, all_character)' <=> Counted(at', pass', all_character')
  BY <1>1, <1>3 DEF Counted, Boundary, UsedUpTo, Range
<1>5. Listed' = Listed /\ TypesUsed' = TypesUsed
  BY <1>3 DEF Listed, TypesUsed, Range
<1> QED
  BY <1>2, <1>4, <1>5 DEF include_chinese

LEMMA TypInitIInv == TypInit => TypIInv
<1> SUFFICES ASSUME TypInit PROVE TypIInv
  OBVIOUS
<1>1. Policy
  BY CharacterTypesAssumption DEF TypInit, Policy
<1>2. Counted(at, pass, all_character)
  BY <1>1, NothingCounted DEF TypInit
<1> QED
  BY <1>2, TypInitTypeOK DEF TypIInv, TypesAreCounted, TypInit

LEMMA TypNextIInv == TypIInv /\ [TypNext]_typ_vars => TypIInv'
<1> SUFFICES ASSUME TypIInv, [TypNext]_typ_vars PROVE TypIInv'
  OBVIOUS
<1>1. TypTypeOK'
  BY TypNextTypeOK DEF TypIInv
<1>2. Policy /\ at \in Nat /\ pass \in Nat /\ at <= Len(character_type)
      /\ character_num_required \in Int
  BY CharacterTypesAssumption, RequirementsAssumption
  DEF TypIInv, TypTypeOK, Policy
<1>3. CASE FindChinese
  <2>1. /\ pw' = pw /\ character_type' = character_type
        /\ typ_ret' = "PW_ERR_CHARACTER_INVALID" /\ include_chinese
    BY <1>3 DEF FindChinese
  <2> QED
    BY <1>1, <2>1, CountedStays DEF TypIInv, TypesAreCounted
<1>4. CASE NextGroup
  <2>1. /\ pw' = pw /\ character_type' = character_type
        /\ typ_ret' = typ_ret /\ typ_ret = "none" /\ Starts(at) # {}
        /\ all_character' = all_character \cup Group(at)
        /\ pass' = IF Range(pw) \cap Group(at) # {} THEN pass + 1 ELSE pass
        /\ at' = IF Joins(at) THEN After(After(at)) ELSE After(at)
    BY <1>4, Zenon DEF NextGroup
  <2>2. ASSUME WellFormed PROVE Counted(at', pass', all_character')
    BY <1>2, <2>1, <2>2, CountGroup, Zenon DEF TypIInv
  <2> QED
    BY <1>1, <2>1, <2>2, CountedStays DEF TypIInv, TypesAreCounted
<1>5. CASE Finish
  <2>1. /\ pw' = pw /\ character_type' = character_type
        /\ character_num_required' = character_num_required
        /\ typ_ret = "none" /\ Starts(at) = {} /\ ~include_chinese
        /\ typ_ret' = IF ~(Range(pw) \subseteq all_character)
                      THEN "PW_ERR_CHARACTER_INVALID"
                      ELSE IF pass < character_num_required
                      THEN "PW_ERR_CHARACTER_TYPE_TOO_FEW"
                      ELSE "PW_NO_ERR"
    BY <1>5, Zenon DEF Finish
  <2>2. WellFormed => all_character = Listed /\ pass = Cardinality(TypesUsed)
    <3> SUFFICES ASSUME WellFormed
                 PROVE  all_character = Listed /\ pass = Cardinality(TypesUsed)
      OBVIOUS
    <3>1. Counted(at, pass, all_character)
      BY <2>1 DEF TypIInv
    <3> QED
      BY <1>2, <2>1, <3>1, AllCounted
  <2>3. TypesAreCounted'
    <3> SUFFICES ASSUME WellFormed'
                 PROVE  /\ typ_ret' = "PW_ERR_CHARACTER_INVALID" <=>
                             include_chinese' \/ ~(Range(pw') \subseteq Listed')
                        /\ typ_ret' = "PW_NO_ERR" =>
                             Cardinality(TypesUsed') >= character_num_required'
                        /\ typ_ret' = "PW_ERR_CHARACTER_TYPE_TOO_FEW" =>
                             Cardinality(TypesUsed') < character_num_required'
      BY Zenon DEF TypesAreCounted
    <3>1. all_character = Listed' /\ pass = Cardinality(TypesUsed')
          /\ ~include_chinese'
      BY <2>1, <2>2, CountedStays
    <3> QED
      BY <1>2, <2>1, <3>1
  <2> QED
    BY <1>1, <2>1, <2>3, CountedStays DEF TypIInv
<1>6. CASE UNCHANGED typ_vars
  <2>1. /\ pw' = pw /\ character_type' = character_type
        /\ character_num_required' = character_num_required
        /\ at' = at /\ pass' = pass /\ all_character' = all_character
        /\ typ_ret' = typ_ret
    BY <1>6 DEF typ_vars
  <2> QED
    BY <1>1, <2>1, CountedStays DEF TypIInv, TypesAreCounted
<1> QED
  BY <1>3, <1>4, <1>5, <1>6 DEF TypNext

LEMMA TypSearchCounts == TypSpec => []TypesAreCounted
<1>1. TypIInv => TypesAreCounted
  BY DEF TypIInv
<1> QED
  BY <1>1, TypInitIInv, TypNextIInv, PTL DEF TypSpec

(* For every password and every policy of the documented form: what is     *)
(* accepted consists of listed characters of enough classes, whatever the  *)
(* other rules of the check do (is_type_valid).                            *)
THEOREM CountsTypes == Spec => []TypesAreCounted
  BY CheckRunsTheSearches, TypSearchCounts, PTL

(***************************************************************************)
(* The check comes to an end: whenever it moves, less work is left         *)
(***************************************************************************)
(* The rules still to be looked at.                                        *)
RulesLeft == CASE rule = "options"      -> 11
               [] rule = "empty"        -> 10
               [] rule = "enabled"      -> 9
               [] rule = "length"       -> 8
               [] rule = "first_letter" -> 7
               [] rule = "user_name"    -> 6
               [] rule = "types"        -> 5
               [] rule = "palindrome"   -> 4
               [] rule = "word"         -> 3
               [] rule = "monotone"     -> 2
               [] rule = "consecutive"  -> 1
               [] OTHER                 -> 0

(* The iterations of a loop over the pairs of neighbours.                  *)
PairsLeft(i, done) == IF done THEN 0
                      ELSE IF i < Len(pw) - 1 THEN Len(pw) - i ELSE 1

(* The copies of is_include_palindrome that start further on, and the      *)
(* longer ones from here.                                                  *)
CopiesLeft(l, a, b) == (l + 1 - a) * (l + 1) - b

(* What each search has left, and all of the check.                        *)
PalLeft == IF pal_done THEN 0 ELSE CopiesLeft(pw_length, a_p, b_p)
ConLeft == PairsLeft(con_i, con_done)
MonLeft == PairsLeft(mon_i, mon_done)
TypLeft == IF typ_ret = "none" THEN Len(character_type) + 1 - at ELSE 0

WorkLeft == RulesLeft + PalLeft + ConLeft + MonLeft + TypLeft

(* A step of the check leaves less than there was.                         *)
WorksOff == WorkLeft \in Nat /\ WorkLeft' \in Nat /\ WorkLeft' < WorkLeft

(* The next copy leaves fewer, whichever index moves.                      *)
LEMMA CopiesBounds ==
  ASSUME NEW l \in Nat, NEW a \in 0 .. l, NEW b \in 0 .. l
  PROVE  /\ CopiesLeft(l, a, b) \in Nat \ {0}
         /\ CopiesLeft(l, a, b + 1) < CopiesLeft(l, a, b)
         /\ CopiesLeft(l, a + 1, 0) < CopiesLeft(l, a, b)
<1> DEFINE m == (l + 1 - a) * (l + 1)
<1>1. l + 1 - a \in Nat /\ l + 1 - a >= 1 /\ l + 1 \in Nat
  OBVIOUS
<1>2. ASSUME NEW x \in Nat, NEW y \in Nat, x >= 1 PROVE x * y \in Nat /\ x * y >= y
  <2>1. PICK z \in Nat : x = z + 1
    <3>1. x - 1 \in Nat /\ x = (x - 1) + 1
      BY <1>2
    <3> QED
      BY <3>1
  <2>2. x * y = z * y + y /\ z * y \in Nat
    BY <2>1
  <2> QED
    BY <2>2
<1>3. m \in Nat /\ m >= l + 1
  BY <1>1, <1>2
<1>4. (l + 1 - (a + 1)) * (l + 1) = m - (l + 1)
  OBVIOUS
<1> HIDE DEF m
<1>5. /\ CopiesLeft(l, a, b) = m - b /\ CopiesLeft(l, a, b + 1) = m - (b + 1)
      /\ CopiesLeft(l, a + 1, 0) = m - (l + 1) - 0
  BY <1>4 DEF CopiesLeft, m
<1> QED
  BY <1>3, <1>5

(* What is left is a natural number in every state.                        *)
LEMMA WorkIsCounted == TypeOK => /\ RulesLeft \in Nat /\ PalLeft \in Nat
                                 /\ ConLeft \in Nat /\ MonLeft \in Nat
                                 /\ TypLeft \in Nat
<1> SUFFICES ASSUME TypeOK
             PROVE  /\ RulesLeft \in Nat /\ PalLeft \in Nat
                    /\ ConLeft \in Nat /\ MonLeft \in Nat
                    /\ TypLeft \in Nat
  OBVIOUS
<1>1. pw_length \in Nat /\ a_p \in 0 .. pw_length /\ b_p \in 0 .. pw_length
  BY PalArguments DEF TypeOK, PalTypeOK
<1>2. PalLeft \in Nat
  BY <1>1, CopiesBounds DEF PalLeft
<1>3. Len(pw) \in Nat /\ con_i \in Nat /\ mon_i \in Nat
  BY PasswordsAssumption DEF TypeOK, ConTypeOK, MonTypeOK
<1>4. ConLeft \in Nat /\ MonLeft \in Nat
  BY <1>3 DEF ConLeft, MonLeft, PairsLeft
<1>5. Len(character_type) \in Nat /\ at \in 0 .. Len(character_type)
  BY CharacterTypesAssumption DEF TypeOK, TypTypeOK
<1>6. TypLeft \in Nat
  BY <1>5 DEF TypLeft
<1>7. RulesLeft \in Nat
  BY DEF RulesLeft
<1> QED
  BY <1>2, <1>4, <1>6, <1>7

(* An iteration of is_include_palindrome leaves less to it.                *)
LEMMA PalMoves == TypeOK /\ PalNext => PalLeft' < PalLeft
<1> SUFFICES ASSUME TypeOK, PalNext PROVE PalLeft' < PalLeft
  OBVIOUS
<1>1. pw_length \in Nat /\ a_p \in 0 .. pw_length /\ b_p \in 0 .. pw_length
  BY PalArguments DEF TypeOK, PalTypeOK
<1>2. ~pal_done /\ pw_length' = pw_length
  BY DEF PalNext, Found, NotHere, pw_length
<1>3. PalLeft = CopiesLeft(pw_length, a_p, b_p) /\ PalLeft \in Nat \ {0}
  BY <1>1, <1>2, CopiesBounds DEF PalLeft
<1>4. CASE pal_done'
  BY <1>3, <1>4 DEF PalLeft
<1>5. CASE ~pal_done'
  <2>1. \/ a_p' = a_p + 1 /\ b_p' = 0
        \/ a_p' = a_p /\ b_p' = b_p + 1
    BY <1>5 DEF PalNext, Found, NotHere
  <2>2. PalLeft' = CopiesLeft(pw_length, a_p', b_p')
    BY <1>2, <1>5 DEF PalLeft
  <2>3. CASE a_p' = a_p + 1 /\ b_p' = 0
    BY <1>1, <1>3, <2>2, <2>3, CopiesBounds
  <2>4. CASE a_p' = a_p /\ b_p' = b_p + 1
    BY <1>1, <1>3, <2>2, <2>4, CopiesBounds
  <2> QED
    BY <2>1, <2>3, <2>4
<1> QED
  BY <1>4, <1>5

(* An iteration of is_consecutive_same_character leaves less to it.        *)
LEMMA ConMoves == TypeOK /\ ConNext => ConLeft' < ConLeft
<1> SUFFICES ASSUME TypeOK, ConNext PROVE ConLeft' < ConLeft
  OBVIOUS
<1>1. Len(pw) \in Nat /\ con_i \in Nat
  BY PasswordsAssumption DEF TypeOK, ConTypeOK
<1>2. CASE ConCompare
  BY <1>1, <1>2 DEF ConCompare, ConLeft, PairsLeft
<1>3. CASE ConReturnFalse
  BY <1>1, <1>3 DEF ConReturnFalse, ConLeft, PairsLeft
<1> QED
  BY <1>2, <1>3 DEF ConNext

(* An iteration of is_monotone_character leaves less to it.                *)
LEMMA MonMoves == TypeOK /\ MonNext => MonLeft' < MonLeft
<1> SUFFICES ASSUME TypeOK, MonNext PROVE MonLeft' < MonLeft
  OBVIOUS
<1>1. Len(pw) \in Nat /\ mon_i \in Nat
  BY PasswordsAssumption DEF TypeOK, MonTypeOK
<1>2. CASE MonCompare
  <2>1. ~mon_done /\ mon_i < Len(pw) - 1 /\ mon_i' = mon_i + 1 /\ pw' = pw
    BY <1>2 DEF MonCompare
  <2> QED
    BY <1>1, <2>1 DEF MonLeft, PairsLeft
<1>3. CASE MonReturnFalse
  BY <1>1, <1>3 DEF MonReturnFalse, MonLeft, PairsLeft
<1> QED
  BY <1>2, <1>3 DEF MonNext

(* A call of strtok, or the return of is_type_valid, leaves less to it.    *)
LEMMA TypMoves == TypeOK /\ TypNext => TypLeft' < TypLeft
<1> SUFFICES ASSUME TypeOK, TypNext PROVE TypLeft' < TypLeft
  OBVIOUS
<1>1. Policy /\ Len(character_type) \in Nat /\ at \in 0 .. Len(character_type)
  BY CharacterTypesAssumption DEF TypeOK, TypTypeOK, Policy
<1>2. CASE FindChinese
  BY <1>1, <1>2 DEF FindChinese, TypLeft
<1>3. CASE NextGroup
  <2>1. at' \in at + 1 .. Len(character_type)
    BY <1>1, <1>3, GroupsAdvance
  <2> QED
    BY <1>1, <1>3, <2>1 DEF NextGroup, TypLeft
<1>4. CASE Finish
  <2>1. typ_ret = "none" /\ typ_ret' # "none" /\ character_type' = character_type
    BY <1>4 DEF Finish
  <2> QED
    BY <1>1, <2>1 DEF TypLeft
<1> QED
  BY <1>2, <1>3, <1>4 DEF TypNext

(* The one thing that moves is the rule or the search of this rule.        *)
RuleMoves ==
    /\ RulesLeft' < RulesLeft
    /\ UNCHANGED <<pal_vars, con_vars, mon_vars, typ_vars>>
SearchMoves ==
    /\ RulesLeft' = RulesLeft
    /\ \/ PalNext /\ UNCHANGED <<con_vars, mon_vars, typ_vars>>
       \/ ConNext /\ UNCHANGED <<pal_vars, mon_vars, typ_vars>>
       \/ MonNext /\ UNCHANGED <<pal_vars, con_vars, typ_vars>>
       \/ TypNext /\ UNCHANGED <<pal_vars, con_vars, mon_vars>>

LEMMA StepMoves == Next => RuleMoves \/ SearchMoves
<1> SUFFICES ASSUME Next PROVE RuleMoves \/ SearchMoves
  OBVIOUS
<1> USE DEF RuleMoves, SearchMoves, RulesLeft, Decide, Search, Return, GoOn, searches
<1>1. CASE LoadOptions BY <1>1 DEF LoadOptions
<1>2. CASE CheckEmpty BY <1>2 DEF CheckEmpty
<1>3. CASE CheckEnabled BY <1>3 DEF CheckEnabled
<1>4. CASE CheckLength BY <1>4 DEF CheckLength
<1>5. CASE CheckFirstLetter BY <1>5 DEF CheckFirstLetter
<1>6. CASE CheckUserName BY <1>6 DEF CheckUserName
<1>7. CASE CheckTypes BY <1>7 DEF CheckTypes
<1>8. CASE CheckPalindrome BY <1>8 DEF CheckPalindrome
<1>9. CASE CheckWord BY <1>9 DEF CheckWord
<1>10. CASE CheckMonotone BY <1>10 DEF CheckMonotone
<1>11. CASE CheckConsecutive BY <1>11 DEF CheckConsecutive
<1> QED
  BY <1>1, <1>2, <1>3, <1>4, <1>5, <1>6, <1>7, <1>8, <1>9, <1>10, <1>11
     DEF Next

(* Every step of deepin_pw_check_by_conf leaves less work: no loop starts  *)
(* again, no rule is looked at twice, and the check ends after at most as  *)
(* many steps as the work it begins with, whatever the password, the       *)
(* policy and the configuration.                                           *)
THEOREM CheckWorksOff ==
  Spec => [][WorksOff]_vars
<1>1. (TypeOK => /\ RulesLeft \in Nat /\ PalLeft \in Nat /\ ConLeft \in Nat
                 /\ MonLeft \in Nat /\ TypLeft \in Nat)'
  BY WorkIsCounted, PTL
<1>2. TypeOK /\ TypeOK' /\ [Next]_vars => [WorksOff]_vars
  <2> SUFFICES ASSUME TypeOK, TypeOK', Next PROVE WorksOff
    OBVIOUS
  <2>1. /\ RulesLeft \in Nat /\ PalLeft \in Nat /\ ConLeft \in Nat
        /\ MonLeft \in Nat /\ TypLeft \in Nat
    BY WorkIsCounted
  <2>2. /\ RulesLeft' \in Nat /\ PalLeft' \in Nat /\ ConLeft' \in Nat
        /\ MonLeft' \in Nat /\ TypLeft' \in Nat
    BY <1>1
  <2>3. /\ UNCHANGED pal_vars => PalLeft' = PalLeft
        /\ UNCHANGED con_vars => ConLeft' = ConLeft
        /\ UNCHANGED mon_vars => MonLeft' = MonLeft
        /\ UNCHANGED typ_vars => TypLeft' = TypLeft
    BY DEF pal_vars, con_vars, mon_vars, typ_vars, PalLeft, ConLeft, MonLeft,
           TypLeft, PairsLeft, pw_length
  <2> DEFINE LessIsLeft ==
        /\ RulesLeft' <= RulesLeft /\ PalLeft' <= PalLeft /\ ConLeft' <= ConLeft
        /\ MonLeft' <= MonLeft /\ TypLeft' <= TypLeft
        /\ \/ RulesLeft' < RulesLeft \/ PalLeft' < PalLeft \/ ConLeft' < ConLeft
           \/ MonLeft' < MonLeft \/ TypLeft' < TypLeft
  <2>4. LessIsLeft
    <3>1. CASE RuleMoves
      BY <2>1, <2>2, <2>3, <3>1 DEF RuleMoves
    <3>2. CASE SearchMoves
      <4>1. RulesLeft' = RulesLeft
        BY <3>2 DEF SearchMoves
      <4>2. CASE PalNext /\ UNCHANGED <<con_vars, mon_vars, typ_vars>>
        <5>1. PalLeft' < PalLeft
          BY <4>2, PalMoves
        <5>2. ConLeft' = ConLeft /\ MonLeft' = MonLeft /\ TypLeft' = TypLeft
          BY <2>3, <4>2
        <5> QED
          BY <2>1, <2>2, <4>1, <5>1, <5>2
      <4>3. CASE ConNext /\ UNCHANGED <<pal_vars, mon_vars, typ_vars>>
        <5>1. ConLeft' < ConLeft
          BY <4>3, ConMoves
        <5>2. PalLeft' = PalLeft /\ MonLeft' = MonLeft /\ TypLeft' = TypLeft
          BY <2>3, <4>3
        <5> QED
          BY <2>1, <2>2, <4>1, <5>1, <5>2
      <4>4. CASE MonNext /\ UNCHANGED <<pal_vars, con_vars, typ_vars>>
        <5>1. MonLeft' < MonLeft
          BY <4>4, MonMoves
        <5>2. PalLeft' = PalLeft /\ ConLeft' = ConLeft /\ TypLeft' = TypLeft
          BY <2>3, <4>4
        <5> QED
          BY <2>1, <2>2, <4>1, <5>1, <5>2
      <4>5. CASE TypNext /\ UNCHANGED <<pal_vars, con_vars, mon_vars>>
        <5>1. TypLeft' < TypLeft
          BY <4>5, TypMoves
        <5>2. PalLeft' = PalLeft /\ ConLeft' = ConLeft /\ MonLeft' = MonLeft
          BY <2>3, <4>5
        <5> QED
          BY <2>1, <2>2, <4>1, <5>1, <5>2
      <4> QED
        BY <3>2, <4>2, <4>3, <4>4, <4>5 DEF SearchMoves
    <3> QED
      BY <3>1, <3>2, StepMoves
  <2>5. PICK r \in Nat, p \in Nat, c \in Nat, m \in Nat, t \in Nat :
          /\ r = RulesLeft' /\ p = PalLeft' /\ c = ConLeft'
          /\ m = MonLeft' /\ t = TypLeft'
    BY <2>2
  <2>6. WorkLeft' = r + p + c + m + t
    BY <2>5 DEF WorkLeft
  <2>7. r + p + c + m + t < RulesLeft + PalLeft + ConLeft + MonLeft + TypLeft
    <3>1. /\ r <= RulesLeft /\ p <= PalLeft /\ c <= ConLeft /\ m <= MonLeft
          /\ t <= TypLeft
          /\ \/ r < RulesLeft \/ p < PalLeft \/ c < ConLeft \/ m < MonLeft
             \/ t < TypLeft
      BY <2>4, <2>5
    <3> QED
      BY <2>1, <3>1
  <2>8. WorkLeft \in Nat
    BY <2>1 DEF WorkLeft
  <2> QED
    BY <2>6, <2>7, <2>8 DEF WorkLeft, WorksOff
<1> QED
  BY <1>2, CheckTypesCorrect, PTL DEF Spec
=============================================================================
