------------------------------ MODULE PwCallers ------------------------------
(***************************************************************************)
(* The public functions of lib/deepin_pw_check.c as the threads of one     *)
(* process call them: deepin_pw_check and err_to_string (README.md prints  *)
(* the message of a refusal), get_pw_validate_policy, and their _grub2     *)
(* twins, which read another file.                                         *)
(*                                                                         *)
(* The threads share one static buffer for messages and the heap; the      *)
(* files may be saved between any two steps.  A file is what its numbers   *)
(* are, a partial function.  Which rule a password of the right length     *)
(* breaks is the subject of PwCheck and left open here.                    *)
(***************************************************************************)
EXTENDS Integers, Sequences

CONSTANTS Threads,
          Confs,       \* the contents of a file that load
          Unreadable,  \* a file that iniparser_load refuses
          Lengths,     \* lengths of the passwords
          CallLimit    \* bound: calls that one thread makes

Numbers == {"STRONG_PASSWORD", "PASSWORD_MIN_LENGTH", "PASSWORD_MAX_LENGTH",
            "VALIDATE_REQUIRED", "PALINDROME_NUM"}

ASSUME ConfsAssumption ==
    /\ \A c \in Confs : \E K \in SUBSET Numbers : c \in [K -> Int]
    /\ Unreadable \notin Confs

ASSUME LengthsAssumption == Lengths \subseteq Nat

Files == {"dde.conf", "grub2_edit_auth.conf"}

(* iniparser_getint on a loaded file; load_pwd_conf's defaults.            *)
Entry(content, key, default) ==
    IF key \in DOMAIN content THEN content[key] ELSE default

Limits(content) ==
    [enabled  |-> Entry(content, "STRONG_PASSWORD", 1) # 0,
     min_len  |-> Entry(content, "PASSWORD_MIN_LENGTH", 1),
     max_len  |-> Entry(content, "PASSWORD_MAX_LENGTH", 512),
     required |-> Entry(content, "VALIDATE_REQUIRED", 1),
     palindrome |-> Entry(content, "PALINDROME_NUM", 0)]

(* What the getters return.                                                *)
Getter(content, key, default) ==
    IF content = Unreadable THEN -1 ELSE Entry(content, key, default)

(* The errors whose message is put together in out_buff, and the getters   *)
(* that err_to_string_by_conf calls for it, in their order.                *)
Formatted == {"PW_ERR_LENGTH_SHORT", "PW_ERR_CHARACTER_TYPE_TOO_FEW",
              "PW_ERR_SAME_AS_USERNAME", "PW_ERR_LENGTH_LONG",
              "PW_ERR_CHARACTER_INVALID", "PW_ERR_PALINDROME"}

(* The results whose message is a constant; PW_ERR_WORD stands for the     *)
(* first letter, monotone runs and consecutive characters as well.         *)
Constant == {"PW_NO_ERR", "PW_ERR_PASSWORD_EMPTY", "PW_ERR_PARA",
             "PW_ERR_WORD"}

(* The text get_pw_validate_policy returns, in out_buff too.               *)
Policy == "VALIDATE_POLICY"

(* The numbers come in the order of the sentence.                          *)
Wanted_AsInTheSentence(e) ==
    CASE e \in {"PW_ERR_LENGTH_SHORT", "PW_ERR_CHARACTER_TYPE_TOO_FEW",
                "PW_ERR_SAME_AS_USERNAME"} ->
           << <<"PASSWORD_MIN_LENGTH", 1>>, <<"VALIDATE_REQUIRED", 1>> >>
      [] e = "PW_ERR_LENGTH_LONG" -> << <<"PASSWORD_MAX_LENGTH", 1>> >>
      [] e = "PW_ERR_PALINDROME" -> << <<"PALINDROME_NUM", 0>> >>
      [] OTHER -> <<>>

Wanted(e) ==
    CASE e \in {"PW_ERR_LENGTH_SHORT", "PW_ERR_CHARACTER_TYPE_TOO_FEW",
                "PW_ERR_SAME_AS_USERNAME"} ->
           << <<"VALIDATE_REQUIRED", 1>>, <<"PASSWORD_MIN_LENGTH", 1>> >>
      [] e = "PW_ERR_LENGTH_LONG" -> << <<"PASSWORD_MAX_LENGTH", 1>> >>
      [] e = "PW_ERR_PALINDROME" -> << <<"PALINDROME_NUM", 0>> >>
      [] OTHER -> <<>>

VARIABLES files,      \* what the two files hold
          pc,         \* where each thread is
          file,       \* the file of a thread's functions
          length,     \* strlen(pw)
          options,    \* what the check of a thread loaded
          err,        \* what it returned, then the message wanted
          numbers,    \* what the getters returned to err_to_string
          out_buff,   \* the two halves of the static buffer
          shown,      \* the two halves of the string a caller printed
          heap,       \* the Options allocated and not freed: who and when
          calls,      \* calls that a thread has made
          apart,      \* history: threads whose message met no other one
          steady      \* history: threads whose file is as it was loaded

local == <<file, length, options, err, numbers>>
vars == <<files, pc, local, out_buff, shown, heap, calls, apart, steady>>

Blank == [text |-> "", numbers |-> <<>>]

(* The Options that the current call of t allocated.                       *)
Block(t) == <<t, calls[t]>>

Init ==
    /\ files \in [Files -> Confs \cup {Unreadable}]
    /\ pc = [t \in Threads |-> "idle"]
    /\ file = [t \in Threads |-> "dde.conf"]
    /\ length = [t \in Threads |-> 0]
    /\ options = [t \in Threads |-> Unreadable]
    /\ err = [t \in Threads |-> "PW_NO_ERR"]
    /\ numbers = [t \in Threads |-> <<>>]
    /\ out_buff = <<Blank, Blank>>
    /\ shown = [t \in Threads |-> <<Blank, Blank>>]
    /\ heap = {}
    /\ calls = [t \in Threads |-> 0]
    /\ apart = {}
    /\ steady = {}

(* The service, pwd-conf-update and an administrator save the files.       *)
Save(f, content) ==
    /\ files' = [files EXCEPT ![f] = content]
    /\ steady' = {t \in steady : file[t] # f}
    /\ UNCHANGED <<pc, local, out_buff, shown, heap, calls, apart>>

(***************************************************************************)
(* deepin_pw_check, deepin_pw_check_grub2                                  *)
(***************************************************************************)

(* The names without and with _grub2.                                      *)
FileOf(grub2) == IF grub2 THEN "grub2_edit_auth.conf" ELSE "dde.conf"

(* get_default_options allocates before it loads.                          *)
CallCheck(t, grub2, n) ==
    /\ pc[t] \in {"idle", "checked", "printed"}
    /\ calls[t] < CallLimit
    /\ calls' = [calls EXCEPT ![t] = @ + 1]
    /\ heap' = heap \cup {<<t, calls[t] + 1>>}
    /\ pc' = [pc EXCEPT ![t] = "load"]
    /\ file' = [file EXCEPT ![t] = FileOf(grub2)]
    /\ length' = [length EXCEPT ![t] = n]
    /\ err' = [err EXCEPT ![t] = "PW_NO_ERR"]
    /\ numbers' = [numbers EXCEPT ![t] = <<>>]
    /\ shown' = [shown EXCEPT ![t] = <<Blank, Blank>>]
    /\ steady' = steady \ {t}
    /\ UNCHANGED <<files, options, out_buff, apart>>

(* The policy is read into the static buffer instead of read_buff.         *)
Load_IntoOutBuff(t) ==
    /\ pc[t] \in {"load", "retry"}
    /\ files[file[t]] # Unreadable
    /\ options' = [options EXCEPT ![t] = files[file[t]]]
    /\ pc' = [pc EXCEPT ![t] = "rules"]
    /\ steady' = steady \cup {t}
    /\ out_buff' = [out_buff EXCEPT ![1] = [Blank EXCEPT !.text = Policy]]
    /\ UNCHANGED <<files, file, length, err, numbers, shown, heap,
                   calls, apart>>

Load(t) ==
    /\ pc[t] \in {"load", "retry"}
    /\ files[file[t]] # Unreadable
    /\ options' = [options EXCEPT ![t] = files[file[t]]]
    /\ pc' = [pc EXCEPT ![t] = "rules"]
    /\ steady' = steady \cup {t}
    /\ UNCHANGED <<files, file, length, err, numbers, out_buff, shown, heap,
                   calls, apart>>

(* pwd-conf-update runs, which may save dde.conf, then a second attempt.   *)
LoadFails(t) ==
    /\ pc[t] \in {"load", "retry"}
    /\ files[file[t]] = Unreadable
    /\ \/ /\ pc[t] = "load"
          /\ pc' = [pc EXCEPT ![t] = "retry"]
          /\ UNCHANGED <<err, heap>>
       \/ /\ pc[t] = "retry"
          /\ pc' = [pc EXCEPT ![t] = "checked"]
          /\ err' = [err EXCEPT ![t] = "PW_ERR_PARA"]
          /\ heap' = heap \ {Block(t)}
    /\ UNCHANGED <<files, file, length, options, numbers, out_buff, shown,
                   calls, apart, steady>>

(* What the rules can answer, with these limits, for a length.             *)
Verdicts(limits, n) ==
    IF n = 0 THEN {"PW_ERR_PASSWORD_EMPTY"}
    ELSE IF ~limits.enabled THEN {"PW_NO_ERR"}
    ELSE IF n < limits.min_len THEN {"PW_ERR_LENGTH_SHORT"}
    ELSE IF n > limits.max_len THEN {"PW_ERR_LENGTH_LONG"}
    ELSE ((Formatted \cup Constant)
          \ {"PW_ERR_PASSWORD_EMPTY", "PW_ERR_LENGTH_SHORT",
             "PW_ERR_LENGTH_LONG", "PW_ERR_PARA"})
         \ ((IF limits.min_len >= 8 /\ limits.required >= 3
               THEN {} ELSE {"PW_ERR_SAME_AS_USERNAME"})
            \cup (IF limits.palindrome > 0
                    THEN {} ELSE {"PW_ERR_PALINDROME"}))

(* A password that is not empty is accepted at once, without free(), when  *)
(* the rules are off.                                                      *)
OffCheck(t) == ~Limits(options[t]).enabled /\ length[t] # 0

(* The refusals of the length return at once too.                          *)
Freed_NotTheLength(t) ==
    IF OffCheck(t) \/ length[t] < Limits(options[t]).min_len
      THEN {} ELSE {Block(t)}

Freed(t) == IF OffCheck(t) THEN {} ELSE {Block(t)}

CheckReturns(t) ==
    /\ pc[t] = "rules"
    /\ \E e \in Verdicts(Limits(options[t]), length[t]) :
          err' = [err EXCEPT ![t] = e]
    /\ heap' = heap \ Freed(t)
    /\ pc' = [pc EXCEPT ![t] = "checked"]
    /\ UNCHANGED <<files, file, length, options, numbers, out_buff, shown,
                   calls, apart, steady>>

(***************************************************************************)
(* err_to_string, get_pw_validate_policy and their _grub2 twins            *)
(***************************************************************************)

(* A string from the library is on its way to be printed.                  *)
InMessage(t) == pc[t] \in {"numbers", "writing", "print"}

(* The caller asks for a text; others may be about to print theirs.        *)
Enter(t) ==
    LET met == {u \in Threads \ {t} : InMessage(u)}
    IN  /\ pc' = [pc EXCEPT ![t] = "numbers"]
        /\ apart' = IF met = {} THEN apart \cup {t}
                                ELSE apart \ (met \cup {t})
        /\ UNCHANGED <<files, length, options, out_buff, heap>>

(* For the result of the check, of the same file.                          *)
CallErrToString(t) ==
    /\ pc[t] = "checked"
    /\ Enter(t)
    /\ UNCHANGED <<file, err, numbers, shown, calls, steady>>

CallGetPolicy(t, grub2) ==
    /\ pc[t] \in {"idle", "checked", "printed"}
    /\ calls[t] < CallLimit
    /\ calls' = [calls EXCEPT ![t] = @ + 1]
    /\ Enter(t)
    /\ file' = [file EXCEPT ![t] = FileOf(grub2)]
    /\ err' = [err EXCEPT ![t] = Policy]
    /\ numbers' = [numbers EXCEPT ![t] = <<>>]
    /\ shown' = [shown EXCEPT ![t] = <<Blank, Blank>>]
    /\ steady' = steady \ {t}

(* One getter: it opens and closes the file for a single number.           *)
ReadNumber(t) ==
    LET next == Len(numbers[t]) + 1
    IN  /\ pc[t] = "numbers"
        /\ next <= Len(Wanted(err[t]))
        /\ numbers' = [numbers EXCEPT ![t] =
              Append(@, Getter(files[file[t]], Wanted(err[t])[next][1],
                               Wanted(err[t])[next][2]))]
        /\ UNCHANGED <<files, pc, file, length, options, err, out_buff,
                       shown, heap, calls, apart, steady>>

HasNumbers(t) == pc[t] = "numbers" /\ Len(numbers[t]) = Len(Wanted(err[t]))

Message(t) == [text |-> err[t], numbers |-> numbers[t]]

(* Strings that are not in out_buff: a constant message, and the "" of     *)
(* get_pw_validate_policy for a file that does not load.                   *)
ReturnConstant(t) ==
    /\ HasNumbers(t)
    /\ \/ /\ err[t] \in Constant
          /\ shown' = [shown EXCEPT ![t] = <<Message(t), Message(t)>>]
       \/ /\ err[t] = Policy
          /\ files[file[t]] = Unreadable
          /\ shown' = [shown EXCEPT ![t] = <<Blank, Blank>>]
    /\ pc' = [pc EXCEPT ![t] = "printed"]
    /\ UNCHANGED <<files, local, out_buff, heap, calls, apart, steady>>

(* snprintf and strncpy write out_buff byte after byte: in two steps here. *)
WriteFirstHalf(t) ==
    /\ HasNumbers(t)
    /\ \/ err[t] \in Formatted
       \/ err[t] = Policy /\ files[file[t]] # Unreadable
    /\ out_buff' = [out_buff EXCEPT ![1] = Message(t)]
    /\ pc' = [pc EXCEPT ![t] = "writing"]
    /\ UNCHANGED <<files, local, shown, heap, calls, apart, steady>>

WriteSecondHalf(t) ==
    /\ pc[t] = "writing"
    /\ out_buff' = [out_buff EXCEPT ![2] = Message(t)]
    /\ pc' = [pc EXCEPT ![t] = "print"]
    /\ UNCHANGED <<files, local, shown, heap, calls, apart, steady>>

(* The caller uses the pointer that it was given.                          *)
Show(t) ==
    /\ pc[t] = "print"
    /\ shown' = [shown EXCEPT ![t] = out_buff]
    /\ pc' = [pc EXCEPT ![t] = "printed"]
    /\ UNCHANGED <<files, local, out_buff, heap, calls, apart, steady>>

Step(t) ==
    \/ \E grub2 \in BOOLEAN, n \in Lengths : CallCheck(t, grub2, n)
    \/ Load(t) \/ LoadFails(t) \/ CheckReturns(t)
    \/ CallErrToString(t)
    \/ \E grub2 \in BOOLEAN : CallGetPolicy(t, grub2)
    \/ ReadNumber(t) \/ ReturnConstant(t)
    \/ WriteFirstHalf(t) \/ WriteSecondHalf(t) \/ Show(t)

Next ==
    \/ \E t \in Threads : Step(t)
    \/ \E f \in Files, content \in Confs \cup {Unreadable} : Save(f, content)

Spec == Init /\ [][Next]_vars

(***************************************************************************)
(* Properties                                                              *)
(***************************************************************************)
Texts == Formatted \cup Constant \cup {Policy, ""}

Strings == [text : Texts, numbers : Seq(Int)]

TypeOK ==
    /\ files \in [Files -> Confs \cup {Unreadable}]
    /\ pc \in [Threads -> {"idle", "load", "retry", "rules", "checked",
                           "numbers", "writing", "print", "printed"}]
    /\ file \in [Threads -> Files]
    /\ length \in [Threads -> Lengths \cup {0}]
    /\ options \in [Threads -> Confs \cup {Unreadable}]
    /\ \A t \in Threads : pc[t] = "rules" => options[t] \in Confs
    /\ err \in [Threads -> Formatted \cup Constant \cup {Policy}]
    /\ numbers \in [Threads -> Seq(Int)]
    /\ out_buff \in [1 .. 2 -> Strings]
    /\ shown \in [Threads -> [1 .. 2 -> Strings]]
    /\ heap \subseteq Threads \X Nat
    /\ calls \in [Threads -> Nat]
    /\ apart \subseteq Threads /\ steady \subseteq Threads

(* A caller that asks for a text and prints it while no other thread is    *)
(* between asking and printing prints its own text, whole, whatever the    *)
(* checks of other threads do meanwhile.  Only the policy can be empty.    *)
MessageIsForItsError ==
    \A t \in Threads :
       pc[t] = "printed" /\ t \in apart =>
          \/ shown[t] = <<Message(t), Message(t)>>
          \/ err[t] = Policy /\ shown[t] = <<Blank, Blank>>

(* If moreover the file stays as the check loaded it, the numbers in the   *)
(* message are those the password was measured against.  The maximum is    *)
(* left out when the file does not say it: the getter's default differs.   *)
MessageExplains ==
    \A t \in Threads :
       pc[t] = "printed" /\ t \in apart \cap steady =>
         LET limits == Limits(options[t])
             said == shown[t][1].numbers
         IN  /\ err[t] = "PW_ERR_LENGTH_SHORT" => length[t] < said[2]
             /\ err[t] \in {"PW_ERR_LENGTH_SHORT", "PW_ERR_SAME_AS_USERNAME",
                            "PW_ERR_CHARACTER_TYPE_TOO_FEW"} =>
                  said = <<limits.required, limits.min_len>>
             /\ err[t] = "PW_ERR_LENGTH_LONG"
                /\ "PASSWORD_MAX_LENGTH" \in DOMAIN options[t] =>
                  said = <<limits.max_len>> /\ length[t] > said[1]
             /\ err[t] = "PW_ERR_PALINDROME" =>
                  said = <<limits.palindrome>> /\ said[1] > 0

(* The Options of a check stays allocated as long as the check reads it,   *)
(* and is freed when the check returns, whatever the verdict, but for an   *)
(* accepted password while STRONG_PASSWORD is off: that one is lost.       *)
InProgress(t) == pc[t] \in {"load", "retry", "rules"}

OnlyOffChecksLeak ==
    \A t \in Threads :
       /\ InProgress(t) => Block(t) \in heap
       /\ Block(t) \in heap =>
            \/ InProgress(t)
            \/ /\ options[t] \in Confs
               /\ Entry(options[t], "STRONG_PASSWORD", 1) = 0
               /\ length[t] # 0
=============================================================================
