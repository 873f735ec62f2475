--------------------------- MODULE PwCallersProofs ---------------------------
(***************************************************************************)
(* For any number of threads and calls, any files and any saves: memory,   *)
(* and the messages of threads that do not ask at the same time.           *)
(***************************************************************************)
EXTENDS PwCallers, TLAPS

(***************************************************************************)
(* Types                                                                   *)
(***************************************************************************)
LEMMA WantedIs ==
    /\ \A e \in {"PW_ERR_LENGTH_SHORT", "PW_ERR_CHARACTER_TYPE_TOO_FEW",
                 "PW_ERR_SAME_AS_USERNAME"} :
          Wanted(e) =
             << <<"VALIDATE_REQUIRED", 1>>, <<"PASSWORD_MIN_LENGTH", 1>> >>
    /\ Wanted("PW_ERR_LENGTH_LONG") = << <<"PASSWORD_MAX_LENGTH", 1>> >>
    /\ Wanted("PW_ERR_PALINDROME") = << <<"PALINDROME_NUM", 0>> >>
    /\ \A e \in (Constant \cup {Policy, "PW_ERR_CHARACTER_INVALID"}) :
          Wanted(e) = <<>>
BY DEF Wanted, Constant, Policy

(* Every message wants a list of keys, each with a number for a default.   *)
LEMMA WantedType ==
    \A e \in Formatted \cup Constant \cup {Policy} :
       Wanted(e) \in Seq(Numbers \X Int)
<1>1. << <<"VALIDATE_REQUIRED", 1>>, <<"PASSWORD_MIN_LENGTH", 1>> >>
         \in Seq(Numbers \X Int)
  BY DEF Numbers
<1>2. << <<"PASSWORD_MAX_LENGTH", 1>> >> \in Seq(Numbers \X Int)
  BY DEF Numbers
<1>3. << <<"PALINDROME_NUM", 0>> >> \in Seq(Numbers \X Int)
  BY DEF Numbers
<1>4. <<>> \in Seq(Numbers \X Int)
  OBVIOUS
<1> QED
  BY <1>1, <1>2, <1>3, <1>4, WantedIs DEF Formatted

LEMMA EntryType ==
    ASSUME NEW c \in Confs, NEW k, NEW d \in Int
    PROVE  Entry(c, k, d) \in Int
<1>1. PICK K \in SUBSET Numbers : c \in [K -> Int]
  BY ConfsAssumption
<1> QED
  BY <1>1 DEF Entry

LEMMA GetterType ==
    ASSUME NEW c \in Confs \cup {Unreadable}, NEW k, NEW d \in Int
    PROVE  Getter(c, k, d) \in Int
BY EntryType DEF Getter

LEMMA VerdictType ==
    ASSUME NEW limits, NEW n, NEW e \in Verdicts(limits, n)
    PROVE  e \in Formatted \cup Constant
BY DEF Verdicts, Formatted, Constant

LEMMA InitTypeOK == Init => TypeOK
<1> SUFFICES ASSUME Init PROVE TypeOK
  OBVIOUS
<1>1. Blank \in Strings
  BY DEF Blank, Strings, Texts
<1>2. /\ out_buff \in [1 .. 2 -> Strings]
      /\ shown \in [Threads -> [1 .. 2 -> Strings]]
  BY <1>1 DEF Init
<1> QED
  BY <1>2 DEF Init, TypeOK, Files, Constant

(* What a thread is about to print is a string.                            *)
LEMMA MessageType ==
    ASSUME TypeOK, NEW t \in Threads
    PROVE  Message(t) \in Strings /\ Blank \in Strings
<1>1. err[t] \in Texts /\ numbers[t] \in Seq(Int)
  BY DEF TypeOK, Texts
<1>2. "" \in Texts /\ <<>> \in Seq(Int)
  BY DEF Texts
<1> QED
  BY <1>1, <1>2 DEF Message, Strings, Blank

LEMMA FileOfType == \A grub2 : FileOf(grub2) \in Files
BY DEF FileOf, Files

LEMMA NextTypeOK ==
    ASSUME TypeOK, [Next]_vars
    PROVE  TypeOK'
<1> USE DEF TypeOK
<1>1. ASSUME NEW t \in Threads, NEW grub2 \in BOOLEAN, NEW n \in Lengths,
             CallCheck(t, grub2, n)
      PROVE  TypeOK'
  <2>1. heap' \subseteq Threads \X Nat
    BY <1>1 DEF CallCheck
  <2>2. shown' \in [Threads -> [1 .. 2 -> Strings]]
    BY <1>1, MessageType DEF CallCheck
  <2>3. calls' \in [Threads -> Nat] /\ apart' \subseteq Threads
    BY <1>1 DEF CallCheck
  <2>4. /\ file' \in [Threads -> Files]
        /\ length' \in [Threads -> Lengths \cup {0}]
        /\ err' \in [Threads -> Formatted \cup Constant \cup {Policy}]
        /\ numbers' \in [Threads -> Seq(Int)]
        /\ steady' \subseteq Threads
    BY <1>1, FileOfType DEF CallCheck, Constant
  <2>5. /\ pc' \in [Threads -> {"idle", "load", "retry", "rules", "checked",
                                "numbers", "writing", "print", "printed"}]
        /\ \A u \in Threads : pc'[u] = "rules" => options'[u] \in Confs
    BY <1>1 DEF CallCheck
  <2>6. UNCHANGED <<files, options, out_buff>>
    BY <1>1 DEF CallCheck
  <2> QED
    BY <2>1, <2>2, <2>3, <2>4, <2>5, <2>6
<1>2. ASSUME NEW t \in Threads, Load(t)
      PROVE  TypeOK'
  BY <1>2 DEF Load
<1>3. ASSUME NEW t \in Threads, LoadFails(t)
      PROVE  TypeOK'
  BY <1>3 DEF LoadFails, Constant
<1>4. ASSUME NEW t \in Threads, CheckReturns(t)
      PROVE  TypeOK'
  <2>1. PICK e \in Verdicts(Limits(options[t]), length[t]) :
           err' = [err EXCEPT ![t] = e]
    BY <1>4 DEF CheckReturns
  <2>2. e \in Formatted \cup Constant
    BY VerdictType
  <2> HIDE DEF Verdicts, Limits, Formatted, Constant
  <2> QED
    BY <1>4, <2>1, <2>2 DEF CheckReturns
<1>5. ASSUME NEW t \in Threads, CallErrToString(t)
      PROVE  TypeOK'
  BY <1>5 DEF CallErrToString, Enter
<1>6. ASSUME NEW t \in Threads, NEW grub2 \in BOOLEAN, CallGetPolicy(t, grub2)
      PROVE  TypeOK'
  <2>1. shown' \in [Threads -> [1 .. 2 -> Strings]]
    BY <1>6, MessageType DEF CallGetPolicy
  <2> QED
    BY <1>6, <2>1, FileOfType DEF CallGetPolicy, Enter
<1>7. ASSUME NEW t \in Threads, ReadNumber(t)
      PROVE  TypeOK'
  <2> DEFINE next == Len(numbers[t]) + 1
             item == Wanted(err[t])[next]
  <2>1. next \in 1 .. Len(Wanted(err[t]))
    BY <1>7 DEF ReadNumber
  <2>2. item \in Numbers \X Int
    <3>1. Wanted(err[t]) \in Seq(Numbers \X Int)
      BY WantedType
    <3> QED
      BY <2>1, <3>1
  <2>3. item[2] \in Int
    BY <2>2
  <2>4. Getter(files[file[t]], item[1], item[2]) \in Int
    BY <2>3, GetterType
  <2>5. numbers' = [numbers EXCEPT ![t] =
           Append(@, Getter(files[file[t]], item[1], item[2]))]
    BY <1>7 DEF ReadNumber
  <2>6. UNCHANGED <<files, pc, file, length, options, err, out_buff, shown,
                    heap, calls, apart, steady>>
    BY <1>7 DEF ReadNumber
  <2> DEFINE number == Getter(files[file[t]], item[1], item[2])
  <2>7. numbers' \in [Threads -> Seq(Int)]
    <3> HIDE DEF number
    <3> QED
      BY <2>4, <2>5 DEF number
  <2> QED
    BY <2>6, <2>7
<1>8. ASSUME NEW t \in Threads, ReturnConstant(t)
      PROVE  TypeOK'
  <2> DEFINE m == Message(t)
  <2>0. m \in Strings
    BY MessageType
  <2>1. shown' \in [Threads -> [1 .. 2 -> Strings]]
    <3>1. \/ shown' = [shown EXCEPT ![t] = <<m, m>>]
          \/ shown' = [shown EXCEPT ![t] = <<Blank, Blank>>]
      BY <1>8 DEF ReturnConstant
    <3> HIDE DEF m
    <3>2. /\ <<m, m>> \in [1 .. 2 -> Strings]
          /\ <<Blank, Blank>> \in [1 .. 2 -> Strings]
      BY <2>0, MessageType
    <3> QED
      BY <3>1, <3>2
  <2>2. /\ pc' = [pc EXCEPT ![t] = "printed"]
        /\ UNCHANGED <<files, local, out_buff, heap, calls, apart, steady>>
    BY <1>8 DEF ReturnConstant
  <2> QED
    BY <2>1, <2>2 DEF local
<1>9. ASSUME NEW t \in Threads, WriteFirstHalf(t) \/ WriteSecondHalf(t)
      PROVE  TypeOK'
  <2>1. out_buff' \in [1 .. 2 -> Strings]
    BY <1>9, MessageType DEF WriteFirstHalf, WriteSecondHalf
  <2>2. /\ \/ pc' = [pc EXCEPT ![t] = "writing"]
           \/ pc' = [pc EXCEPT ![t] = "print"]
        /\ UNCHANGED <<files, local, shown, heap, calls, apart, steady>>
    BY <1>9 DEF WriteFirstHalf, WriteSecondHalf
  <2> QED
    BY <2>1, <2>2 DEF local
<1>10. ASSUME NEW t \in Threads, Show(t)
       PROVE  TypeOK'
  BY <1>10 DEF Show, local
<1>11. ASSUME NEW f \in Files, NEW content \in Confs \cup {Unreadable},
              Save(f, content)
       PROVE  TypeOK'
  BY <1>11 DEF Save, local
<1>12. CASE UNCHANGED vars
  BY <1>12 DEF vars, local
<1> QED
  BY <1>1, <1>2, <1>3, <1>4, <1>5, <1>6, <1>7, <1>8, <1>9, <1>10, <1>11,
     <1>12 DEF Next, Step

(* The variables have their types.                                         *)
THEOREM TypesCorrect == Spec => []TypeOK
BY InitTypeOK, NextTypeOK, PTL DEF Spec

(***************************************************************************)
(* Memory: an Options is named after its thread and the number of the      *)
(* call, and no call has a number that is still to come.                   *)
(***************************************************************************)
HeapInv ==
    /\ \A t \in Threads, n \in Nat : <<t, n>> \in heap => n <= calls[t]
    /\ OnlyOffChecksLeak

LEMMA OffIsOff ==
    ASSUME TypeOK, NEW t \in Threads, pc[t] = "rules"
    PROVE  OffCheck(t) => /\ options[t] \in Confs
                          /\ Entry(options[t], "STRONG_PASSWORD", 1) = 0
                          /\ length[t] # 0
BY DEF TypeOK, OffCheck, Limits

LEMMA InitHeapInv == Init => HeapInv
BY DEF Init, HeapInv, OnlyOffChecksLeak, InProgress, Block

LEMMA NextHeapInv ==
    ASSUME TypeOK, HeapInv, [Next]_vars
    PROVE  HeapInv'
<1> USE DEF HeapInv, OnlyOffChecksLeak, InProgress, Block, TypeOK
<1>1. ASSUME NEW t \in Threads, NEW grub2 \in BOOLEAN, NEW n \in Lengths,
             CallCheck(t, grub2, n)
      PROVE  HeapInv'
  BY <1>1 DEF CallCheck
<1>2. ASSUME NEW t \in Threads, Load(t)
      PROVE  HeapInv'
  BY <1>2 DEF Load
<1>3. ASSUME NEW t \in Threads, LoadFails(t)
      PROVE  HeapInv'
  BY <1>3 DEF LoadFails
<1>4. ASSUME NEW t \in Threads, CheckReturns(t)
      PROVE  HeapInv'
  <2>1. IF OffCheck(t) THEN Freed(t) = {} ELSE Freed(t) = {<<t, calls[t]>>}
    BY Zenon DEF Freed, Block
  <2>2. /\ pc[t] = "rules"
        /\ heap' = heap \ Freed(t)
        /\ pc' = [pc EXCEPT ![t] = "checked"]
        /\ UNCHANGED <<files, file, length, options, numbers, out_buff, shown,
                       calls, apart, steady>>
    BY <1>4 DEF CheckReturns
  <2> QED
    BY <2>1, <2>2, OffIsOff
<1>5. ASSUME NEW t \in Threads, CallErrToString(t)
      PROVE  HeapInv'
  BY <1>5 DEF CallErrToString, Enter
<1>6. ASSUME NEW t \in Threads, NEW grub2 \in BOOLEAN, CallGetPolicy(t, grub2)
      PROVE  HeapInv'
  <2>1. /\ pc[t] \in {"idle", "checked", "printed"}
        /\ calls' = [calls EXCEPT ![t] = @ + 1]
        /\ pc' = [pc EXCEPT ![t] = "numbers"]
        /\ UNCHANGED <<files, length, options, out_buff, heap>>
    BY <1>6 DEF CallGetPolicy, Enter
  <2>2. <<t, calls[t] + 1>> \notin heap
    BY DEF HeapInv
  <2>3. \A u \in Threads \ {t} : calls'[u] = calls[u] /\ pc'[u] = pc[u]
    BY <2>1
  <2>4. calls'[t] = calls[t] + 1 /\ pc'[t] = "numbers"
    BY <2>1
  <2> QED
    BY <2>1, <2>2, <2>3, <2>4
<1>7. ASSUME NEW t \in Threads, ReadNumber(t)
      PROVE  HeapInv'
  BY <1>7 DEF ReadNumber
<1>8. ASSUME NEW t \in Threads, ReturnConstant(t)
      PROVE  HeapInv'
  BY <1>8 DEF ReturnConstant, HasNumbers, local
<1>9. ASSUME NEW t \in Threads,
             WriteFirstHalf(t) \/ WriteSecondHalf(t) \/ Show(t)
      PROVE  HeapInv'
  BY <1>9 DEF WriteFirstHalf, WriteSecondHalf, Show, HasNumbers, local
<1>10. ASSUME NEW f \in Files, NEW content \in Confs \cup {Unreadable},
              Save(f, content)
       PROVE  HeapInv'
  BY <1>10 DEF Save, local
<1>11. CASE UNCHANGED vars
  BY <1>11 DEF vars, local
<1> QED
  BY <1>1, <1>2, <1>3, <1>4, <1>5, <1>6, <1>7, <1>8, <1>9, <1>10, <1>11
  DEF Next, Step

(* A check never reads an Options that was freed, and loses one only if it *)
(* finds the rules off.                                                    *)
THEOREM OptionsAreFreed == Spec => []OnlyOffChecksLeak
<1>1. Init => TypeOK /\ HeapInv
  BY InitTypeOK, InitHeapInv
<1>2. TypeOK /\ HeapInv /\ [Next]_vars => (TypeOK /\ HeapInv)'
  BY NextTypeOK, NextHeapInv
<1>3. HeapInv => OnlyOffChecksLeak
  BY DEF HeapInv
<1> QED
  BY <1>1, <1>2, <1>3, PTL DEF Spec

(***************************************************************************)
(* Texts: a thread that met no other one has out_buff for itself.          *)
(***************************************************************************)
TextInv ==
    \A t \in apart :
       /\ InMessage(t) => \A u \in Threads \ {t} : ~InMessage(u)
       /\ pc[t] = "writing" => out_buff[1] = Message(t)
       /\ pc[t] = "print" => out_buff = <<Message(t), Message(t)>>
       /\ pc[t] = "printed" =>
            \/ shown[t] = <<Message(t), Message(t)>>
            \/ err[t] = Policy /\ shown[t] = <<Blank, Blank>>

LEMMA InitTextInv == Init => TextInv
BY DEF Init, TextInv

(* A thread that enters keeps out every other one.                         *)
LEMMA EnterTextInv ==
    ASSUME TypeOK, TextInv, NEW t \in Threads, Enter(t),
           \A u \in Threads \ {t} :
              /\ err'[u] = err[u] /\ numbers'[u] = numbers[u]
              /\ shown'[u] = shown[u]
    PROVE  TextInv'
<1> DEFINE met == {u \in Threads \ {t} : InMessage(u)}
<1>1. /\ pc' = [pc EXCEPT ![t] = "numbers"]
      /\ apart' = IF met = {} THEN apart \cup {t} ELSE apart \ (met \cup {t})
      /\ out_buff' = out_buff
  BY DEF Enter
<1>2. \A u \in apart' \ {t} : u \in apart /\ u \in Threads
                              /\ ~InMessage(u) /\ pc'[u] = pc[u]
  BY <1>1 DEF TypeOK
<1>3. \A u \in Threads \ {t} : InMessage(u)' = InMessage(u)
  BY <1>1 DEF TypeOK, InMessage
<1>4. t \in apart' => \A u \in Threads \ {t} : ~InMessage(u)'
  BY <1>1, <1>3
<1>5. pc'[t] = "numbers"
  BY <1>1 DEF TypeOK
<1>6. ASSUME NEW u \in apart', u # t
      PROVE  /\ ~InMessage(u)'
             /\ pc'[u] = "printed" =>
                  \/ shown'[u] = <<Message(u), Message(u)>>'
                  \/ err'[u] = Policy /\ shown'[u] = <<Blank, Blank>>
  BY <1>2, <1>3, <1>6 DEF TextInv, Message
<1> QED
  BY <1>4, <1>5, <1>6 DEF TextInv, InMessage

LEMMA NextTextInv ==
    ASSUME TypeOK, TextInv, [Next]_vars
    PROVE  TextInv'
<1> USE DEF TypeOK
<1>1. ASSUME NEW t \in Threads, NEW grub2 \in BOOLEAN, NEW n \in Lengths,
             CallCheck(t, grub2, n)
      PROVE  TextInv'
  <2>1. /\ pc'[t] = "load" /\ ~InMessage(t)
        /\ UNCHANGED <<out_buff, apart>>
    BY <1>1 DEF CallCheck, InMessage
  <2>2. \A u \in Threads \ {t} :
           /\ pc'[u] = pc[u] /\ err'[u] = err[u] /\ numbers'[u] = numbers[u]
           /\ shown'[u] = shown[u]
    BY <1>1 DEF CallCheck
  <2>3. \A u \in Threads \ {t} : InMessage(u)' = InMessage(u)
    BY <2>2 DEF InMessage
  <2>4. ~InMessage(t)'
    BY <2>1 DEF InMessage
  <2> QED
    BY <2>1, <2>2, <2>3, <2>4 DEF TextInv, Message
<1>2. ASSUME NEW t \in Threads, Load(t) \/ LoadFails(t) \/ CheckReturns(t)
      PROVE  TextInv'
  <2>1. /\ pc'[t] \in {"retry", "rules", "checked"} /\ ~InMessage(t)
        /\ UNCHANGED <<out_buff, apart, shown, numbers>>
    BY <1>2 DEF Load, LoadFails, CheckReturns, InMessage
  <2>2. \A u \in Threads \ {t} : pc'[u] = pc[u] /\ err'[u] = err[u]
    BY <1>2 DEF Load, LoadFails, CheckReturns
  <2> QED
    BY <2>1, <2>2 DEF TextInv, InMessage, Message
<1>3. ASSUME NEW t \in Threads, CallErrToString(t)
      PROVE  TextInv'
  BY <1>3, EnterTextInv DEF CallErrToString
<1>4. ASSUME NEW t \in Threads, NEW grub2 \in BOOLEAN, CallGetPolicy(t, grub2)
      PROVE  TextInv'
  BY <1>4, EnterTextInv DEF CallGetPolicy
<1>5. ASSUME NEW t \in Threads, ReadNumber(t)
      PROVE  TextInv'
  <2>1. /\ pc[t] = "numbers"
        /\ UNCHANGED <<pc, out_buff, apart, shown, err>>
        /\ \A u \in Threads \ {t} : numbers'[u] = numbers[u]
    BY <1>5 DEF ReadNumber
  <2> QED
    BY <2>1 DEF TextInv, InMessage, Message
<1>6. ASSUME NEW t \in Threads, ReturnConstant(t)
      PROVE  TextInv'
  <2>1. /\ pc[t] = "numbers" /\ pc'[t] = "printed"
        /\ UNCHANGED <<out_buff, apart, err, numbers>>
        /\ \A u \in Threads \ {t} : pc'[u] = pc[u] /\ shown'[u] = shown[u]
        /\ \/ shown'[t] = <<Message(t), Message(t)>>
           \/ err[t] = Policy /\ shown'[t] = <<Blank, Blank>>
    BY <1>6 DEF ReturnConstant, HasNumbers, local
  <2> QED
    BY <2>1 DEF TextInv, InMessage, Message
<1>7. ASSUME NEW t \in Threads,
             WriteFirstHalf(t) \/ WriteSecondHalf(t) \/ Show(t)
      PROVE  TextInv'
  <2>1. /\ InMessage(t)
        /\ UNCHANGED <<apart, err, numbers>>
        /\ \A u \in Threads \ {t} : pc'[u] = pc[u] /\ shown'[u] = shown[u]
    BY <1>7 DEF WriteFirstHalf, WriteSecondHalf, Show, HasNumbers, local,
               InMessage
  <2>2. \A u \in apart \ {t} : ~InMessage(u) /\ ~InMessage(u)'
    BY <2>1 DEF TextInv, InMessage
  <2>3. t \in apart /\ InMessage(t)' =>
           \A u \in Threads \ {t} : ~InMessage(u)'
    BY <2>1 DEF TextInv, InMessage
  <2>4. CASE WriteFirstHalf(t)
    <3>1. pc'[t] = "writing" /\ out_buff'[1] = Message(t)
      BY <2>4 DEF WriteFirstHalf
    <3> QED
      BY <2>1, <2>2, <2>3, <3>1 DEF TextInv, InMessage, Message
  <2>5. CASE WriteSecondHalf(t)
    <3>1. /\ pc[t] = "writing" /\ pc'[t] = "print"
          /\ out_buff' = [out_buff EXCEPT ![2] = Message(t)]
      BY <2>5 DEF WriteSecondHalf
    <3>2. t \in apart => out_buff' = <<Message(t), Message(t)>>
      BY <3>1 DEF TextInv
    <3> QED
      BY <2>1, <2>2, <2>3, <3>1, <3>2 DEF TextInv, InMessage, Message
  <2>6. CASE Show(t)
    <3>1. /\ pc[t] = "print" /\ pc'[t] = "printed"
          /\ shown'[t] = out_buff
      BY <2>6 DEF Show
    <3>2. t \in apart => shown'[t] = <<Message(t), Message(t)>>
      BY <3>1 DEF TextInv
    <3> QED
      BY <2>1, <2>2, <2>3, <3>1, <3>2 DEF TextInv, InMessage, Message
  <2> QED
    BY <1>7, <2>4, <2>5, <2>6
<1>8. ASSUME NEW f \in Files, NEW content \in Confs \cup {Unreadable},
             Save(f, content)
      PROVE  TextInv'
  BY <1>8 DEF Save, local, TextInv, InMessage, Message
<1>9. CASE UNCHANGED vars
  BY <1>9 DEF vars, local, TextInv, InMessage, Message
<1> QED
  BY <1>1, <1>2, <1>3, <1>4, <1>5, <1>6, <1>7, <1>8, <1>9 DEF Next, Step

(* Checks may run beside it and other threads may even be refused: who     *)
(* asks and prints apart from the others prints what was meant.            *)
THEOREM OwnTextIsPrinted == Spec => []MessageIsForItsError
<1>1. Init => TypeOK /\ TextInv
  BY InitTypeOK, InitTextInv
<1>2. TypeOK /\ TextInv /\ [Next]_vars => (TypeOK /\ TextInv)'
  BY NextTypeOK, NextTextInv
<1>3. TextInv => MessageIsForItsError
  BY DEF TextInv, MessageIsForItsError
<1> QED
  BY <1>1, <1>2, <1>3, PTL DEF Spec

(***************************************************************************)
(* Numbers: a file that stays as it was loaded says to err_to_string what  *)
(* it said to the check.                                                   *)
(***************************************************************************)
VerdictInv ==
    \A t \in Threads :
       pc[t] \notin {"load", "retry", "rules"} /\ err[t] \in Formatted =>
          /\ options[t] \in Confs
          /\ err[t] \in Verdicts(Limits(options[t]), length[t])

Said(t, i) == Entry(options[t], Wanted(err[t])[i][1], Wanted(err[t])[i][2])

NumbersInv ==
    \A t \in Threads :
       /\ pc[t] \in {"load", "retry", "rules", "checked"} => numbers[t] = <<>>
       /\ pc[t] \in {"writing", "print", "printed"} =>
            Len(numbers[t]) = Len(Wanted(err[t]))
       /\ t \in steady =>
            /\ options[t] \in Confs
            /\ files[file[t]] = options[t]
            /\ \A i \in 1 .. Len(numbers[t]) : numbers[t][i] = Said(t, i)

LEMMA InitNumbersInv == Init => VerdictInv /\ NumbersInv
BY DEF Init, VerdictInv, NumbersInv, Formatted

LEMMA NextVerdictInv ==
    ASSUME TypeOK, VerdictInv, [Next]_vars
    PROVE  VerdictInv'
<1> USE DEF TypeOK
<1>1. ASSUME NEW t \in Threads, NEW grub2 \in BOOLEAN, NEW n \in Lengths,
             CallCheck(t, grub2, n)
      PROVE  VerdictInv'
  BY <1>1 DEF CallCheck, VerdictInv
<1>2. ASSUME NEW t \in Threads, Load(t)
      PROVE  VerdictInv'
  BY <1>2 DEF Load, VerdictInv
<1>3. ASSUME NEW t \in Threads, LoadFails(t)
      PROVE  VerdictInv'
  <2>1. "PW_ERR_PARA" \notin Formatted
    BY DEF Formatted
  <2> QED
    BY <1>3, <2>1 DEF LoadFails, VerdictInv
<1>4. ASSUME NEW t \in Threads, CheckReturns(t)
      PROVE  VerdictInv'
  BY <1>4 DEF CheckReturns, VerdictInv
<1>5. ASSUME NEW t \in Threads, CallErrToString(t)
      PROVE  VerdictInv'
  BY <1>5 DEF CallErrToString, Enter, VerdictInv
<1>6. ASSUME NEW t \in Threads, NEW grub2 \in BOOLEAN, CallGetPolicy(t, grub2)
      PROVE  VerdictInv'
  <2>1. Policy \notin Formatted
    BY DEF Formatted, Policy
  <2> QED
    BY <1>6, <2>1 DEF CallGetPolicy, Enter, VerdictInv
<1>7. ASSUME NEW t \in Threads, ReadNumber(t)
      PROVE  VerdictInv'
  BY <1>7 DEF ReadNumber, VerdictInv
<1>8. ASSUME NEW t \in Threads,
             ReturnConstant(t) \/ WriteFirstHalf(t) \/ WriteSecondHalf(t)
             \/ Show(t)
      PROVE  VerdictInv'
  BY <1>8 DEF ReturnConstant, WriteFirstHalf, WriteSecondHalf, Show,
              HasNumbers, local, VerdictInv
<1>9. ASSUME NEW f \in Files, NEW content \in Confs \cup {Unreadable},
             Save(f, content)
      PROVE  VerdictInv'
  BY <1>9 DEF Save, local, VerdictInv
<1>10. CASE UNCHANGED vars
  BY <1>10 DEF vars, local, VerdictInv
<1> QED
  BY <1>1, <1>2, <1>3, <1>4, <1>5, <1>6, <1>7, <1>8, <1>9, <1>10
  DEF Next, Step

LEMMA NextNumbersInv ==
    ASSUME TypeOK, NumbersInv, [Next]_vars
    PROVE  NumbersInv'
<1> USE DEF TypeOK
<1>1. ASSUME NEW t \in Threads, NEW grub2 \in BOOLEAN, NEW n \in Lengths,
             CallCheck(t, grub2, n)
      PROVE  NumbersInv'
  BY <1>1 DEF CallCheck, NumbersInv, Said
<1>2. ASSUME NEW t \in Threads, Load(t)
      PROVE  NumbersInv'
  BY <1>2 DEF Load, NumbersInv, Said
<1>3. ASSUME NEW t \in Threads, LoadFails(t) \/ CheckReturns(t)
      PROVE  NumbersInv'
  <2>1. /\ pc[t] \in {"load", "retry", "rules"}
        /\ pc'[t] \in {"retry", "checked"}
        /\ \A u \in Threads \ {t} : pc'[u] = pc[u] /\ err'[u] = err[u]
        /\ UNCHANGED <<files, file, options, numbers, steady>>
    BY <1>3 DEF LoadFails, CheckReturns
  <2>2. numbers[t] = <<>>
    BY <2>1 DEF NumbersInv
  <2>3. \A i \in 1 .. Len(numbers'[t]) : FALSE
    BY <2>1, <2>2
  <2>4. \A u \in Threads \ {t} : \A i : Said(u, i)' = Said(u, i)
    BY <2>1 DEF Said
  <2> QED
    BY <2>1, <2>2, <2>3, <2>4 DEF NumbersInv
<1>4. ASSUME NEW t \in Threads, CallErrToString(t)
      PROVE  NumbersInv'
  BY <1>4 DEF CallErrToString, Enter, NumbersInv, Said
<1>5. ASSUME NEW t \in Threads, NEW grub2 \in BOOLEAN, CallGetPolicy(t, grub2)
      PROVE  NumbersInv'
  BY <1>5 DEF CallGetPolicy, Enter, NumbersInv, Said
<1>6. ASSUME NEW t \in Threads, ReadNumber(t)
      PROVE  NumbersInv'
  <2> DEFINE next == Len(numbers[t]) + 1
             number == Getter(files[file[t]], Wanted(err[t])[next][1],
                              Wanted(err[t])[next][2])
  <2>1. /\ pc[t] = "numbers"
        /\ numbers' = [numbers EXCEPT ![t] = Append(numbers[t], number)]
        /\ UNCHANGED <<files, pc, file, options, err, steady>>
    BY <1>6 DEF ReadNumber
  <2>2. t \in steady => number = Said(t, next)
    BY ConfsAssumption DEF NumbersInv, Getter, Said
  <2> HIDE DEF number
  <2>3. \A i \in 1 .. Len(numbers[t]) : numbers'[t][i] = numbers[t][i]
    BY <2>1
  <2>4. numbers'[t][next] = number /\ Len(numbers'[t]) = next
    BY <2>1
  <2>5. \A u, i : Said(u, i)' = Said(u, i)
    BY <2>1 DEF Said
  <2>6. t \in steady =>
           \A i \in 1 .. Len(numbers'[t]) : numbers'[t][i] = Said(t, i)
    <3>1. \A i \in 1 .. next : i \in 1 .. Len(numbers[t]) \/ i = next
      OBVIOUS
    <3> QED
      BY <2>2, <2>3, <2>4, <3>1 DEF NumbersInv
  <2>7. \A u \in Threads \ {t} : numbers'[u] = numbers[u]
    BY <2>1
  <2> HIDE DEF next
  <2> QED
    BY <2>1, <2>5, <2>6, <2>7 DEF NumbersInv
<1>7. ASSUME NEW t \in Threads,
             ReturnConstant(t) \/ WriteFirstHalf(t) \/ WriteSecondHalf(t)
             \/ Show(t)
      PROVE  NumbersInv'
  <2>1. /\ \/ HasNumbers(t)
           \/ pc[t] \in {"writing", "print"}
        /\ pc'[t] \in {"writing", "print", "printed"}
        /\ \A u \in Threads \ {t} : pc'[u] = pc[u]
        /\ UNCHANGED <<files, local, steady>>
    BY <1>7 DEF ReturnConstant, WriteFirstHalf, WriteSecondHalf, Show
  <2> QED
    BY <2>1 DEF NumbersInv, Said, HasNumbers, local
<1>8. ASSUME NEW f \in Files, NEW content \in Confs \cup {Unreadable},
             Save(f, content)
      PROVE  NumbersInv'
  BY <1>8 DEF Save, local, NumbersInv, Said
<1>9. CASE UNCHANGED vars
  BY <1>9 DEF vars, local, NumbersInv, Said
<1> QED
  BY <1>1, <1>2, <1>3, <1>4, <1>5, <1>6, <1>7, <1>8, <1>9 DEF Next, Step

LEMMA InvExplains ==
    ASSUME TypeOK, TextInv, VerdictInv, NumbersInv
    PROVE  MessageExplains
<1> SUFFICES ASSUME NEW t \in Threads, pc[t] = "printed",
                    t \in apart, t \in steady, err[t] \in Formatted
             PROVE  LET limits == Limits(options[t])
                        said == shown[t][1].numbers
                    IN  /\ err[t] = "PW_ERR_LENGTH_SHORT" => length[t] < said[2]
                        /\ err[t] \in {"PW_ERR_LENGTH_SHORT",
                                       "PW_ERR_SAME_AS_USERNAME",
                                       "PW_ERR_CHARACTER_TYPE_TOO_FEW"} =>
                             said = <<limits.required, limits.min_len>>
                        /\ err[t] = "PW_ERR_LENGTH_LONG"
                           /\ "PASSWORD_MAX_LENGTH" \in DOMAIN options[t] =>
                             said = <<limits.max_len>> /\ length[t] > said[1]
                        /\ err[t] = "PW_ERR_PALINDROME" =>
                             said = <<limits.palindrome>> /\ said[1] > 0
  BY DEF MessageExplains, Formatted
<1> DEFINE limits == Limits(options[t])
           said == numbers[t]
<1>1. shown[t][1].numbers = said
  <2>1. err[t] # Policy
    BY DEF Formatted, Policy
  <2>2. shown[t] = <<Message(t), Message(t)>>
    BY <2>1 DEF TextInv
  <2>3. Message(t).numbers = said
    BY DEF Message
  <2> QED
    BY <2>2, <2>3
<1>2. /\ said \in Seq(Int)
      /\ Len(said) = Len(Wanted(err[t]))
      /\ \A i \in 1 .. Len(said) : said[i] = Said(t, i)
  BY DEF TypeOK, NumbersInv
<1>3. err[t] \in Verdicts(limits, length[t])
  BY DEF VerdictInv
<1>4. ASSUME err[t] \in {"PW_ERR_LENGTH_SHORT", "PW_ERR_SAME_AS_USERNAME",
                         "PW_ERR_CHARACTER_TYPE_TOO_FEW"}
      PROVE  said = <<limits.required, limits.min_len>>
  <2>1. Wanted(err[t]) =
           << <<"VALIDATE_REQUIRED", 1>>, <<"PASSWORD_MIN_LENGTH", 1>> >>
    BY <1>4, WantedIs
  <2>2. Len(said) = 2 /\ said[1] = Said(t, 1) /\ said[2] = Said(t, 2)
    BY <1>2, <2>1
  <2>3. Said(t, 1) = limits.required /\ Said(t, 2) = limits.min_len
    BY <2>1 DEF Said, Limits
  <2> HIDE DEF limits, said
  <2> QED
    BY <1>2, <2>2, <2>3
<1>5. ASSUME err[t] = "PW_ERR_LENGTH_LONG",
             "PASSWORD_MAX_LENGTH" \in DOMAIN options[t]
      PROVE  said = <<limits.max_len>>
  <2>1. Wanted(err[t]) = << <<"PASSWORD_MAX_LENGTH", 1>> >>
    BY <1>5, WantedIs
  <2>2. Len(said) = 1 /\ said[1] = Said(t, 1)
    BY <1>2, <2>1
  <2>3. Said(t, 1) = limits.max_len
    BY <1>5, <2>1 DEF Said, Limits, Entry
  <2> HIDE DEF limits, said
  <2> QED
    BY <1>2, <2>2, <2>3
<1>6. ASSUME err[t] = "PW_ERR_PALINDROME"
      PROVE  said = <<limits.palindrome>>
  <2>1. Wanted(err[t]) = << <<"PALINDROME_NUM", 0>> >>
    BY <1>6, WantedIs
  <2>2. Len(said) = 1 /\ said[1] = Said(t, 1)
    BY <1>2, <2>1
  <2>3. Said(t, 1) = limits.palindrome
    BY <2>1 DEF Said, Limits
  <2> HIDE DEF limits, said
  <2> QED
    BY <1>2, <2>2, <2>3
<1>7. /\ err[t] = "PW_ERR_LENGTH_SHORT" => length[t] < limits.min_len
      /\ err[t] = "PW_ERR_LENGTH_LONG" => length[t] > limits.max_len
      /\ err[t] = "PW_ERR_PALINDROME" => limits.palindrome > 0
  <2> HIDE DEF limits
  <2> QED
    BY <1>3 DEF Verdicts, Formatted, Constant
<1> QED
  BY <1>1, <1>4, <1>5, <1>6, <1>7

(* Where nobody interferes, a message gives the limits the password was    *)
(* refused for.                                                            *)
THEOREM MessagesExplain == Spec => []MessageExplains
<1>1. Init => TypeOK /\ TextInv /\ VerdictInv /\ NumbersInv
  BY InitTypeOK, InitTextInv, InitNumbersInv
<1>2. TypeOK /\ TextInv /\ VerdictInv /\ NumbersInv /\ [Next]_vars
         => (TypeOK /\ TextInv /\ VerdictInv /\ NumbersInv)'
  BY NextTypeOK, NextTextInv, NextVerdictInv, NextNumbersInv
<1> QED
  BY <1>1, <1>2, InvExplains, PTL DEF Spec
=============================================================================
