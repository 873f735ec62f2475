-------------------------- MODULE ConfServiceProofs --------------------------
(***************************************************************************)
(* Machine-checked proofs about ConfService, for every set of calls, every *)
(* set of requests, every initial file and every combination of faults.    *)
(***************************************************************************)
EXTENDS ConfService, TLAPS

LEMMA ConfType == ASSUME NEW x \in Content, Loads(x) PROVE x \in Conf
  BY DEF Content, Loads

(* Merging two configurations gives a configuration.                       *)
LEMMA OverrideType ==
  ASSUME NEW a \in Conf, NEW b \in Conf
  PROVE  Override(a, b) \in Conf
<1>1. PICK A \in SUBSET Key : a \in [A -> Val]
  BY DEF Conf
<1>2. PICK B \in SUBSET Key : b \in [B -> Val]
  BY DEF Conf
<1>3. Override(a, b) \in [A \cup B -> Val]
  BY <1>1, <1>2 DEF Override
<1> QED
  BY <1>3 DEF Conf

LEMMA RestrictType ==
  ASSUME NEW a \in Conf, NEW S \in SUBSET DOMAIN a
  PROVE  [k \in S |-> a[k]] \in Conf
<1>1. PICK A \in SUBSET Key : a \in [A -> Val]
  BY DEF Conf
<1>2. [k \in S |-> a[k]] \in [S -> Val]
  BY <1>1
<1> QED
  BY <1>1, <1>2 DEF Conf

LEMMA EmptyType == Empty \in Conf
<1>1. Empty \in [{} -> Val]
  BY DEF Empty
<1> QED
  BY <1>1 DEF Conf

(* A write leaves some content, whatever it is written over.               *)
LEMMA OverlayType ==
  ASSUME NEW old \in Content, NEW new \in Conf
  PROVE  Overlay(old, new) \subseteq Content
<1> SUFFICES ASSUME NEW x \in Overlay(old, new) PROVE x \in Content
  OBVIOUS
<1>1. CASE x \in {new, Broken}
  BY <1>1 DEF Content
<1>2. CASE x \notin {new, Broken}
  <2>1. PICK S \in SUBSET DOMAIN old : x = Override(new, [k \in S |-> old[k]])
    BY <1>2 DEF Overlay
  <2>2. old \in Conf
    BY <1>2 DEF Overlay, Content
  <2> QED
    BY <2>1, <2>2, RestrictType, OverrideType DEF Content
<1> QED
  BY <1>1, <1>2

(* What a request carries once it is known to be usable.                   *)
LEMMA SetterArg ==
  ASSUME NEW r \in Request, r.op \in Setter
  PROVE  r.arg \in Conf
<1>1. PICK o \in Setter : r \in [op : {o}, arg : [SetterKeys[o] -> Val]]
  BY DEF Request, Setter, SetterKeys, Getter, GetterKeys, Copier
<1>2. SetterKeys[o] \subseteq Key
  BY <1>1 DEF Setter, SetterKeys, Key, ServiceKeys
<1> QED
  BY <1>1, <1>2 DEF Conf

LEMMA WriteConfigArg ==
  ASSUME NEW r \in Request, r.op = "WriteConfig"
  PROVE  r.arg \in Conf \cup {Broken}
  BY DEF Request, Setter, SetterKeys, Getter, GetterKeys, Copier

LEMMA InitialRequest == [op |-> "ReadConfig", arg |-> Empty] \in Request
  BY DEF Request

LEMMA GetterData ==
  ASSUME NEW op \in Getter, NEW a \in Conf,
         \A k \in GetterKeys[op] : Reads(a, k)
  PROVE  [k \in GetterKeys[op] |-> a[k]] \in Conf
<1>1. GetterKeys[op] \subseteq DOMAIN a
  BY DEF Reads
<1> QED
  BY <1>1, RestrictType

LEMMA ReplyTypes ==
  /\ NoReply \in Reply /\ Error \in Reply /\ Lost \in Reply
  /\ \A x \in Content : Ok(x) \in Reply
  /\ \A op : SaveFailed(op) \in Reply
<1>1. Empty \in Content
  BY EmptyType DEF Content
<1> QED
  BY <1>1 DEF NoReply, Error, Lost, Ok, SaveFailed, Reply

LEMMA Paths == /\ \A op : Source(op) \in Path /\ Target(op) \in Path
               /\ conf \in Path /\ bak \in Path
  BY DEF Source, Target, Path

(* A handler that returns leaves well-typed variables behind.              *)
LEMMA ReturnType ==
  ASSUME TypeOK, NEW c \in Call, NEW r \in Reply, Return(c, r)
  PROVE  /\ pc' \in [Call -> Label]
         /\ kf' \in [Call -> Conf]
         /\ reply' \in [Call -> Reply]
         /\ granted' \subseteq Call
  BY EmptyType DEF TypeOK, Return, Goto, Label

LEMMA TypeInit == Init => TypeOK
<1> SUFFICES ASSUME Init PROVE TypeOK
  OBVIOUS
<1>1. file \in [Path -> Content]
  BY InitConfAssumption DEF Init, Content
<1>2. /\ kf \in [Call -> Conf] /\ reply \in [Call -> Reply]
      /\ req \in [Call -> Request]
  BY EmptyType, ReplyTypes, InitialRequest DEF Init
<1> QED
  BY <1>1, <1>2 DEF Init, TypeOK, Label

LEMMA TypeNext == TypeOK /\ [Next]_vars => TypeOK'
<1> SUFFICES ASSUME TypeOK, [Next]_vars PROVE TypeOK'
  OBVIOUS
<1>1. CASE Start
  BY <1>1 DEF Start, TypeOK, history
<1>2. CASE Quit
  BY <1>2, EmptyType, ReplyTypes DEF Quit, TypeOK, Content, Label
<1>3. ASSUME NEW c \in Call, NEW r \in Requests, Invoke(c, r)
      PROVE  TypeOK'
  BY <1>3, RequestsAssumption, ReplyTypes
     DEF Invoke, Goto, TypeOK, Label, history
<1>4. ASSUME NEW c \in Call, Authorised(c) PROVE TypeOK'
  <2>1. CASE req[c].op # "WriteConfig"
    BY <1>4, <2>1 DEF Authorised, Goto, TypeOK, Label
  <2>2. CASE req[c].op = "WriteConfig" /\ Loads(req[c].arg)
    <3>1. req[c].arg \in Conf
      BY <2>2, WriteConfigArg DEF TypeOK, Loads
    <3> QED
      BY <1>4, <2>2, <3>1 DEF Authorised, Goto, TypeOK, Label
  <2>3. CASE req[c].op = "WriteConfig" /\ ~Loads(req[c].arg)
    BY <1>4, <2>3, ReturnType, ReplyTypes DEF Authorised, TypeOK
  <2> QED
    BY <2>1, <2>2, <2>3
<1>5. ASSUME NEW c \in Call, Denied(c) PROVE TypeOK'
  BY <1>5, ReturnType, ReplyTypes DEF Denied, TypeOK
<1>6. ASSUME NEW c \in Call, LoadFails(c) PROVE TypeOK'
  BY <1>6, ReturnType, ReplyTypes DEF LoadFails, TypeOK
<1>7. ASSUME NEW c \in Call, LoadForSave(c) PROVE TypeOK'
  <2> DEFINE f == Source(req[c].op)
  <2>1. file[f] \in Conf
    BY <1>7, Paths, ConfType DEF LoadForSave, Edited, TypeOK
  <2>2. req[c].op \in Setter => Override(file[f], req[c].arg) \in Conf
    BY <2>1, SetterArg, OverrideType DEF TypeOK
  <2>3. kf' \in [Call -> Conf]
    BY <1>7, <2>1, <2>2 DEF LoadForSave, Edited, TypeOK
  <2> QED
    BY <1>7, <2>3 DEF LoadForSave, Edited, Goto, TypeOK, Label
<1>8. ASSUME NEW c \in Call, LoadForRead(c) PROVE TypeOK'
  BY <1>8 DEF LoadForRead, Goto, TypeOK, Label, history
<1>9. ASSUME NEW c \in Call, Get(c) PROVE TypeOK'
  <2>1. [k \in GetterKeys[req[c].op] |-> file[conf][k]] \in Content
    BY <1>9, Paths, ConfType, GetterData DEF Get, TypeOK, Content
  <2> QED
    BY <1>9, <2>1, ReturnType, ReplyTypes DEF Get, TypeOK
<1>10. ASSUME NEW c \in Call, Reread(c) PROVE TypeOK'
  <2>1. file[conf] \in Content
    BY Paths DEF TypeOK
  <2> QED
    BY <1>10, <2>1, ReturnType, ReplyTypes DEF Reread, TypeOK
<1>11. ASSUME NEW c \in Call, Truncate(c) PROVE TypeOK'
  <2>1. Empty \in Content
    BY EmptyType DEF Content
  <2> QED
    BY <1>11, <2>1, Paths DEF Truncate, Goto, TypeOK, Label
<1>12. ASSUME NEW c \in Call, TruncateFails(c) PROVE TypeOK'
  BY <1>12, ReturnType, ReplyTypes DEF TruncateFails, TypeOK
<1>13. ASSUME NEW c \in Call, Write(c) PROVE TypeOK'
  <2> DEFINE f == Target(req[c].op)
  <2>1. /\ Ok(Empty) \in Reply
        /\ kf[c] \in Content
    BY EmptyType, ReplyTypes DEF Content, TypeOK
  <2>2. PICK new \in Overlay(file[f], kf[c]) : file' = [file EXCEPT ![f] = new]
    BY <1>13 DEF Write
  <2>3. new \in Content
    BY Paths, OverlayType DEF TypeOK
  <2>4. version' \in [Path -> Content] /\ file' \in [Path -> Content]
    BY <1>13, <2>1, <2>2, <2>3, Paths DEF Write, TypeOK
  <2>5. stale' \subseteq Call
    BY <1>13 DEF Write, TypeOK, Derived
  <2> QED
    BY <1>13, <2>1, <2>4, <2>5, ReturnType DEF Write, TypeOK
<1>14. ASSUME NEW c \in Call, WriteFails(c) PROVE TypeOK'
  <2>1. Empty \in Content
    BY EmptyType DEF Content
  <2>2. stale' \subseteq Call
    BY <1>14 DEF WriteFails, TypeOK, Derived
  <2> QED
    BY <1>14, <2>1, <2>2, ReturnType, ReplyTypes, Paths DEF WriteFails, TypeOK
<1>15. CASE UNCHANGED vars
  BY <1>15 DEF vars, service, history, TypeOK
<1> QED
  BY <1>1, <1>2, <1>3, <1>4, <1>5, <1>6, <1>7, <1>8, <1>9, <1>10, <1>11,
     <1>12, <1>13, <1>14, <1>15 DEF Next, Handle

(* Every variable of the service keeps its type, for every number of calls *)
(* in flight and every fault: no handler saves or returns anything else    *)
(* than a configuration.                                                   *)
THEOREM TypeCorrect == Spec => []TypeOK
  BY TypeInit, TypeNext, PTL DEF Spec

(***************************************************************************)
(* The inductive invariant.  FileIsLastSave and FreshSavesAreCurrent need  *)
(* to know which calls can be at which step, what they carry and that they *)
(* were authorised.                                                        *)
(***************************************************************************)
SavingOp == Setter \cup Copier \cup {"WriteConfig"}

CallInv ==
    \A c \in Call :
        /\ pc[c] \in {"truncate", "write"} =>
              /\ req[c].op \in SavingOp
              /\ req[c].op \notin Copier =>
                    \A k \in DOMAIN req[c].arg :
                        /\ k \in DOMAIN kf[c]
                        /\ kf[c][k] = req[c].arg[k]
        /\ pc[c] = "reread" => req[c].op = "ReadConfig"
        /\ pc[c] = "load" /\ req[c].op \notin Getter => c \in granted
        /\ pc[c] \in {"truncate", "write", "reread"} => c \in granted

IInv == /\ TypeOK
        /\ CallInv
        /\ FileIsLastSave
        /\ FreshSavesAreCurrent

LEMMA Ops ==
  /\ \A op \in Setter : op \notin Copier /\ op # "WriteConfig" /\ op # "ReadConfig"
  /\ \A op \in Getter : op \notin SavingOp /\ op # "ReadConfig"
  /\ "WriteConfig" \notin Copier /\ "ReadConfig" \notin SavingOp
  /\ "ReadConfig" \notin Getter /\ "WriteConfig" \notin Getter
  BY DEF Setter, SetterKeys, Getter, GetterKeys, Copier, SavingOp

(* A step that only moves calls that are not saving leaves the files, what *)
(* they should hold and their writers as they were.                        *)
LEMMA FilesUntouched ==
  ASSUME FileIsLastSave, UNCHANGED <<file, version, mixed>>,
         \A c \in Call, f \in Path : Saving(c, f)' <=> Saving(c, f)
  PROVE  FileIsLastSave'
  BY DEF FileIsLastSave

LEMMA ReturnReply ==
  ASSUME TypeOK, NEW c \in Call, NEW r, Return(c, r)
  PROVE  reply'[c] = r /\ Return(c, reply'[c])
  BY DEF Return, TypeOK

LEMMA InitIInv == Init => IInv
<1> SUFFICES ASSUME Init PROVE IInv
  OBVIOUS
<1>1. CallInv /\ FreshSavesAreCurrent
  BY DEF Init, CallInv, FreshSavesAreCurrent
<1>2. FileIsLastSave
  BY DEF Init, FileIsLastSave, Saving
<1> QED
  BY <1>1, <1>2, TypeInit DEF IInv

LEMMA CallNext == TypeOK /\ CallInv /\ [Next]_vars => CallInv'
<1> SUFFICES ASSUME TypeOK, CallInv, [Next]_vars PROVE CallInv'
  OBVIOUS
<1>1. CASE Start
  BY <1>1 DEF Start, CallInv, history
<1>2. CASE Quit
  BY <1>2 DEF Quit, CallInv
<1>3. ASSUME NEW c \in Call, NEW r \in Requests, Invoke(c, r)
      PROVE  CallInv'
  BY <1>3 DEF Invoke, Goto, CallInv, TypeOK, history
<1>4. ASSUME NEW c \in Call, Authorised(c) PROVE CallInv'
  BY <1>4, Ops DEF Authorised, Return, Goto, CallInv, TypeOK, SavingOp
<1>5. ASSUME NEW c \in Call, Return(c, reply'[c]), req' = req PROVE CallInv'
  BY <1>5 DEF Return, Goto, CallInv, TypeOK
<1>6. ASSUME NEW c \in Call, LoadForSave(c) PROVE CallInv'
  <2>1. req[c].op \in SavingOp /\ req[c].op \notin Getter
    BY <1>6, Ops DEF LoadForSave, Edited, SavingOp
  <2>2. req[c].op \notin Copier =>
          \A k \in DOMAIN req[c].arg : /\ k \in DOMAIN kf'[c]
                                       /\ kf'[c][k] = req[c].arg[k]
    BY <1>6 DEF LoadForSave, Edited, Override, TypeOK
  <2>3. c \in granted
    BY <1>6, <2>1 DEF LoadForSave, Edited, CallInv
  <2> QED
    BY <1>6, <2>1, <2>2, <2>3 DEF LoadForSave, Edited, Goto, CallInv, TypeOK
<1>7. ASSUME NEW c \in Call, LoadForRead(c) PROVE CallInv'
  BY <1>7, Ops DEF LoadForRead, Goto, CallInv, TypeOK, history
<1>8. ASSUME NEW c \in Call, Truncate(c) PROVE CallInv'
  BY <1>8 DEF Truncate, Goto, CallInv, TypeOK
<1>9. CASE UNCHANGED vars
  BY <1>9 DEF vars, service, history, CallInv
<1>10. ASSUME NEW c \in Call, Handle(c) \/ Denied(c) PROVE CallInv'
  BY <1>5, <1>6, <1>7, <1>8, <1>10, ReturnReply
     DEF Handle, Denied, LoadFails, Get, Reread, TruncateFails, Write,
         WriteFails
<1> QED
  BY <1>1, <1>2, <1>3, <1>4, <1>9, <1>10 DEF Next

LEMMA FileNext ==
  TypeOK /\ FileIsLastSave /\ [Next]_vars => FileIsLastSave'
<1> SUFFICES ASSUME TypeOK, FileIsLastSave, [Next]_vars PROVE FileIsLastSave'
  OBVIOUS
<1>1. CASE Start
  BY <1>1, FilesUntouched DEF Start, history, Saving
<1>2. CASE Quit
  BY <1>2 DEF Quit, FileIsLastSave, Saving, TypeOK
<1>3. ASSUME NEW c \in Call, NEW r \in Requests, Invoke(c, r)
      PROVE  FileIsLastSave'
  <2>1. \A d \in Call, f \in Path : Saving(d, f)' <=> Saving(d, f)
    BY <1>3 DEF Invoke, Goto, Saving, TypeOK
  <2> QED
    BY <1>3, <2>1, FilesUntouched DEF Invoke, history
<1>4. ASSUME NEW c \in Call, pc[c] # "write", pc'[c] # "write",
             \A d \in Call \ {c} : pc'[d] = pc[d],
             UNCHANGED <<file, version, mixed, req>>
      PROVE  FileIsLastSave'
  <2>1. \A d \in Call, f \in Path : Saving(d, f)' <=> Saving(d, f)
    BY <1>4 DEF Saving
  <2> QED
    BY <1>4, <2>1, FilesUntouched
<1>5. ASSUME NEW c \in Call, Truncate(c) PROVE FileIsLastSave'
  <2> DEFINE f == Target(req[c].op)
  <2>1. \A d \in Call, g \in Path :
           Saving(d, g)' <=> Saving(d, g) \/ (d = c /\ g = f)
    BY <1>5 DEF Truncate, Goto, Saving, TypeOK
  <2>2. ASSUME NEW g \in Path, g # f, g \notin mixed'
        PROVE  /\ (\E d \in Call : Saving(d, g)') => file'[g] = Empty
               /\ (\A d \in Call : ~Saving(d, g)') => file'[g] = version'[g]
               /\ \A d, e \in Call : Saving(d, g)' /\ Saving(e, g)' => d = e
    <3>1. g \notin mixed /\ file'[g] = file[g] /\ version' = version
      BY <1>5, <2>2 DEF Truncate, TypeOK
    <3> QED
      BY <2>1, <2>2, <3>1 DEF FileIsLastSave
  <2>3. ASSUME NEW g \in Path, g = f, g \notin mixed'
        PROVE  /\ (\E d \in Call : Saving(d, g)') => file'[g] = Empty
               /\ (\A d \in Call : ~Saving(d, g)') => file'[g] = version'[g]
               /\ \A d, e \in Call : Saving(d, g)' /\ Saving(e, g)' => d = e
    <3>1. ~\E d \in Call : Saving(d, g)
      BY <1>5, <2>3 DEF Truncate
    <3>2. \A d \in Call : Saving(d, g)' <=> d = c
      BY <2>1, <2>3, <3>1
    <3>3. file'[g] = Empty
      BY <1>5, <2>3 DEF Truncate, TypeOK
    <3> QED
      BY <3>2, <3>3
  <2> QED
    BY <2>2, <2>3 DEF FileIsLastSave
<1>6. ASSUME NEW c \in Call, NEW f \in Path, Saving(c, f),
             pc' = [pc EXCEPT ![c] = "idle"], UNCHANGED <<req, mixed>>,
             \A g \in Path \ {f} : /\ file'[g] = file[g]
                                   /\ version'[g] = version[g],
             f \notin mixed => file'[f] = version'[f]
      PROVE  FileIsLastSave'
  <2>1. \A d \in Call, g \in Path : Saving(d, g)' <=> Saving(d, g) /\ d # c
    BY <1>6 DEF Saving, TypeOK
  <2>2. \A d \in Call, g \in Path \ {f} : Saving(d, g)' <=> Saving(d, g)
    BY <1>6, <2>1 DEF Saving
  <2> QED
    BY <1>6, <2>1, <2>2 DEF FileIsLastSave
<1>7. ASSUME NEW c \in Call, Write(c) PROVE FileIsLastSave'
  <2> DEFINE f == Target(req[c].op)
  <2>1. f \in Path /\ Saving(c, f)
    BY <1>7, Paths DEF Write, Saving
  <2>2. f \notin mixed => file[f] = Empty
    BY <2>1 DEF FileIsLastSave
  <2>3. PICK new \in Overlay(file[f], kf[c]) : file' = [file EXCEPT ![f] = new]
    BY <1>7 DEF Write
  <2>4. f \notin mixed => new = kf[c]
    BY <2>2, <2>3 DEF Overlay
  <2>5. /\ f \notin mixed => file'[f] = version'[f]
        /\ \A g \in Path \ {f} : file'[g] = file[g] /\ version'[g] = version[g]
    BY <1>7, <2>1, <2>3, <2>4 DEF Write, TypeOK
  <2>6. pc' = [pc EXCEPT ![c] = "idle"] /\ UNCHANGED <<req, mixed>>
    BY <1>7 DEF Write, Return, Goto
  <2> QED
    BY <1>6, <2>1, <2>5, <2>6
<1>8. ASSUME NEW c \in Call, WriteFails(c) PROVE FileIsLastSave'
  <2> DEFINE f == Target(req[c].op)
  <2>1. f \in Path /\ Saving(c, f)
    BY <1>8, Paths DEF WriteFails, Saving
  <2>2. f \notin mixed => file[f] = Empty
    BY <2>1 DEF FileIsLastSave
  <2>3. /\ f \notin mixed => file'[f] = version'[f]
        /\ \A g \in Path \ {f} : file'[g] = file[g] /\ version'[g] = version[g]
    BY <1>8, <2>1, <2>2 DEF WriteFails, TypeOK
  <2>4. pc' = [pc EXCEPT ![c] = "idle"] /\ UNCHANGED <<req, mixed>>
    BY <1>8 DEF WriteFails, Return, Goto
  <2> QED
    BY <1>6, <2>1, <2>3, <2>4
<1>9. CASE UNCHANGED vars
  BY <1>9, FilesUntouched DEF vars, service, history, Saving
<1>10. ASSUME NEW c \in Call,
              \/ Authorised(c) \/ Denied(c) \/ LoadFails(c) \/ LoadForSave(c)
              \/ LoadForRead(c) \/ Get(c) \/ Reread(c) \/ TruncateFails(c)
       PROVE  FileIsLastSave'
  <2>1. /\ pc[c] # "write" /\ pc'[c] # "write"
        /\ \A d \in Call \ {c} : pc'[d] = pc[d]
        /\ UNCHANGED <<file, version, mixed, req>>
    BY <1>10 DEF Authorised, Denied, LoadFails, LoadForSave, Edited, LoadForRead, Get,
                 Reread, TruncateFails, Return, Goto, TypeOK, history
  <2> QED
    BY <1>4, <2>1
<1> QED
  BY <1>1, <1>2, <1>3, <1>5, <1>7, <1>8, <1>9, <1>10 DEF Next, Handle

LEMMA FreshNext ==
  TypeOK /\ CallInv /\ FileIsLastSave /\ FreshSavesAreCurrent /\ [Next]_vars
  => FreshSavesAreCurrent'
<1> SUFFICES ASSUME TypeOK, CallInv, FileIsLastSave, FreshSavesAreCurrent,
                    [Next]_vars
             PROVE  FreshSavesAreCurrent'
  OBVIOUS
<1> DEFINE Late(d) == pc[d] \in {"truncate", "write"}
(* A step that starts no save and ends none.                               *)
<1>1. ASSUME UNCHANGED <<version, stale>>,
             \A d \in Call : Late(d)' => /\ Late(d)
                                         /\ req'[d] = req[d] /\ kf'[d] = kf[d]
      PROVE  FreshSavesAreCurrent'
  <2> SUFFICES ASSUME NEW d \in Call, d \notin stale', Late(d)'
               PROVE  kf'[d] = Effect(version, req[d])' 
    BY DEF FreshSavesAreCurrent
  <2>1. kf[d] = Effect(version, req[d])
    BY <1>1 DEF FreshSavesAreCurrent
  <2> QED
    BY <1>1, <2>1 DEF Effect
<1>2. CASE Start
  BY <1>1, <1>2 DEF Start, history
<1>3. CASE Quit
  BY <1>3 DEF Quit, FreshSavesAreCurrent
<1>4. ASSUME NEW c \in Call, NEW r \in Requests, Invoke(c, r)
      PROVE  FreshSavesAreCurrent'
  BY <1>1, <1>4 DEF Invoke, Goto, TypeOK, history
<1>5. ASSUME NEW c \in Call, Authorised(c) PROVE FreshSavesAreCurrent'
  <2>1. CASE req[c].op = "WriteConfig" /\ Loads(req[c].arg)
    <3>1. /\ kf' = [kf EXCEPT ![c] = req[c].arg]
          /\ \A d \in Call \ {c} : pc'[d] = pc[d]
          /\ UNCHANGED <<req, version, stale>>
      BY <1>5, <2>1 DEF Authorised, Goto, TypeOK
    <3> SUFFICES ASSUME NEW d \in Call, d \notin stale', Late(d)'
                 PROVE  kf'[d] = Effect(version', req'[d])
      BY DEF FreshSavesAreCurrent
    <3>2. CASE d = c
      BY <2>1, <3>1, <3>2, Ops DEF Effect, TypeOK
    <3>3. CASE d # c
      <4>1. kf[d] = Effect(version, req[d])
        BY <3>1, <3>3 DEF FreshSavesAreCurrent
      <4> QED
        BY <3>1, <3>3, <4>1 DEF TypeOK
    <3> QED
      BY <3>2, <3>3
  <2>2. CASE ~(req[c].op = "WriteConfig" /\ Loads(req[c].arg))
    BY <1>1, <1>5, <2>2 DEF Authorised, Return, Goto, TypeOK
  <2> QED
    BY <2>1, <2>2
<1>6. ASSUME NEW c \in Call, Denied(c) \/ LoadFails(c) \/ Get(c) \/ Reread(c)
      PROVE  FreshSavesAreCurrent'
  BY <1>1, <1>6 DEF Denied, LoadFails, Get, Reread, Return, Goto, TypeOK
<1>7. ASSUME NEW c \in Call, LoadForSave(c) PROVE FreshSavesAreCurrent'
  <2> DEFINE f == Source(req[c].op)
  <2>1. /\ \A d \in Call \ {c} : pc'[d] = pc[d] /\ kf'[d] = kf[d]
        /\ stale \subseteq stale'
        /\ UNCHANGED <<req, version>>
    BY <1>7 DEF LoadForSave, Edited, Goto, TypeOK
  <2> SUFFICES ASSUME NEW d \in Call, d \notin stale', Late(d)'
               PROVE  kf'[d] = Effect(version', req'[d])
    BY DEF FreshSavesAreCurrent
  <2>2. CASE d = c
    <3>1. f \notin mixed /\ \A e \in Call : ~Saving(e, f)
      BY <1>7, <2>2 DEF LoadForSave, Edited
    <3>2. file[f] = version[f]
      BY <3>1, Paths DEF FileIsLastSave
    <3>3. CASE req[c].op \in Setter
      <4>1. f = conf
        BY <3>3, Ops DEF Source, Copier
      <4> QED
        BY <1>7, <2>1, <2>2, <3>2, <3>3, <4>1, Ops
           DEF LoadForSave, Edited, Effect, TypeOK
    <3>4. CASE req[c].op \in Copier
      BY <1>7, <2>1, <2>2, <3>2, <3>4, Ops DEF LoadForSave, Edited, Effect, TypeOK
    <3> QED
      BY <1>7, <3>3, <3>4 DEF LoadForSave, Edited
  <2>3. CASE d # c
    <3>1. kf[d] = Effect(version, req[d])
      BY <2>1, <2>3 DEF FreshSavesAreCurrent
    <3> QED
      BY <2>1, <2>3, <3>1
  <2> QED
    BY <2>2, <2>3
<1>8. ASSUME NEW c \in Call, LoadForRead(c) PROVE FreshSavesAreCurrent'
  BY <1>1, <1>8 DEF LoadForRead, Goto, TypeOK, history
<1>9. ASSUME NEW c \in Call, Truncate(c) PROVE FreshSavesAreCurrent'
  BY <1>1, <1>9 DEF Truncate, Goto, TypeOK
(* A save that ends makes every other save from the same file stale.       *)
<1>10. ASSUME NEW c \in Call, TruncateFails(c) \/ Write(c) \/ WriteFails(c)
       PROVE  FreshSavesAreCurrent'
  <2> DEFINE f == Target(req[c].op)
  <2>1. /\ \A d \in Call \ {c} : pc'[d] = pc[d] /\ kf'[d] = kf[d]
        /\ ~Late(c)'
        /\ req' = req
        /\ \A d \in Call \ {c} : d \notin stale' => d \notin stale
    BY <1>10 DEF TruncateFails, Write, WriteFails, Return, Goto, TypeOK
  <2>2. /\ \A g \in Path \ {f} : version'[g] = version[g]
        /\ version' = version \/ Derived(c, f) \subseteq stale' 
    BY <1>10 DEF TruncateFails, Write, WriteFails, TypeOK, Derived
  <2> SUFFICES ASSUME NEW d \in Call, d \notin stale', Late(d)'
               PROVE  kf'[d] = Effect(version', req'[d])
    BY DEF FreshSavesAreCurrent
  <2>3. /\ kf'[d] = kf[d] /\ Late(d) /\ d \notin stale /\ d # c
        /\ kf[d] = Effect(version, req[d])
    BY <2>1 DEF FreshSavesAreCurrent
  <2>4. req[d].op \in SavingOp
    BY <2>3 DEF CallInv
  <2>5. CASE req[d].op = "WriteConfig"
    BY <2>1, <2>3, <2>5, Ops DEF Effect
  <2>6. CASE req[d].op # "WriteConfig"
    <3>1. version'[Source(req[d].op)] = version[Source(req[d].op)]
      BY <2>2, <2>3, <2>6, Paths DEF Derived
    <3>2. req[d].op \in Setter => Source(req[d].op) = conf
      BY Ops DEF Source, Copier
    <3> QED
      BY <2>1, <2>3, <2>4, <2>6, <3>1, <3>2, Ops DEF Effect, SavingOp
  <2> QED
    BY <2>5, <2>6
<1>11. CASE UNCHANGED vars
  BY <1>1, <1>11 DEF vars, service, history
<1> QED
  BY <1>2, <1>3, <1>4, <1>5, <1>6, <1>7, <1>8, <1>9, <1>10, <1>11
     DEF Next, Handle

LEMMA InvNext == IInv /\ [Next]_vars => IInv'
  BY TypeNext, CallNext, FileNext, FreshNext DEF IInv

LEMMA Invariance == Spec => []IInv
  BY InitIInv, InvNext, PTL DEF Spec

(* A file whose saves did not overlap holds exactly what one save meant,   *)
(* whatever crashed or failed and however many calls were in flight.       *)
THEOREM FilesHoldOneSave == Spec => []FileIsLastSave
<1>1. IInv => FileIsLastSave
  BY DEF IInv
<1> QED
  BY <1>1, Invariance, PTL

(* A call that nobody overtook saves the current configuration with its    *)
(* own request applied.                                                    *)
THEOREM FreshSavesAreExact == Spec => []FreshSavesAreCurrent
<1>1. IInv => FreshSavesAreCurrent
  BY DEF IInv
<1> QED
  BY <1>1, Invariance, PTL

(* Which steps change a file.                                              *)
LEMMA FileChanges ==
  ASSUME TypeOK, [Next]_vars, NEW f \in Path, file'[f] # file[f]
  PROVE  \E c \in Call : /\ Truncate(c) \/ Write(c)
                         /\ Target(req[c].op) = f
<1>1. ASSUME UNCHANGED file PROVE FALSE
  BY <1>1
<1>2. PICK c \in Call : Truncate(c) \/ Write(c)
  BY <1>1 DEF Next, Handle, vars, service, Start, Quit, Invoke, Authorised,
              Denied, LoadFails, LoadForSave, LoadForRead, Get, Reread,
              TruncateFails, WriteFails
<1>3. \A g \in Path : g # Target(req[c].op) => file'[g] = file[g]
  BY <1>2 DEF Truncate, Write, TypeOK
<1> QED
  BY <1>2, <1>3

(* No step changes dde.conf or its backup but the save of a call that      *)
(* polkit authorised.                                                      *)
THEOREM OnlyAuthorisedChanges == Spec => ChangesAreAuthorised
<1> DEFINE Act == \A f \in Path : file'[f] # file[f] =>
                     \E c \in granted : /\ pc[c] \in {"truncate", "write"}
                                        /\ pc'[c] # pc[c]
                                        /\ Target(req[c].op) = f
<1>1. IInv /\ [Next]_vars => [Act]_vars
  <2> SUFFICES ASSUME IInv, [Next]_vars, NEW f \in Path, file'[f] # file[f]
               PROVE  \E c \in granted : /\ pc[c] \in {"truncate", "write"}
                                         /\ pc'[c] # pc[c]
                                         /\ Target(req[c].op) = f
    OBVIOUS
  <2>1. PICK c \in Call : /\ Truncate(c) \/ Write(c)
                          /\ Target(req[c].op) = f
    BY FileChanges DEF IInv
  <2>2. pc[c] \in {"truncate", "write"} /\ pc'[c] # pc[c]
    BY <2>1 DEF Truncate, Write, Return, Goto, IInv, TypeOK
  <2>3. c \in granted
    BY <2>2 DEF IInv, CallInv
  <2> QED
    BY <2>1, <2>2, <2>3
<1> QED
  BY <1>1, Invariance, PTL DEF Spec, ChangesAreAuthorised

(* A save that ends and that nothing disturbed changes its file from what  *)
(* the previous save meant to exactly what was asked.                      *)
THEOREM FreshSavesApply == Spec => FreshSavesTakeEffect
<1> DEFINE Act == \A c \in Call, f \in Path :
                     /\ Saving(c, f) /\ pc'[c] = "idle" /\ file'[f] # file[f]
                     /\ c \notin stale /\ f \notin mixed
                     => file'[f] = Effect(version, req[c])
<1>1. IInv /\ [Next]_vars => [Act]_vars
  <2> SUFFICES ASSUME IInv, [Next]_vars, NEW c \in Call, NEW f \in Path,
                      Saving(c, f), pc'[c] = "idle", file'[f] # file[f],
                      c \notin stale, f \notin mixed
               PROVE  file'[f] = Effect(version, req[c])
    OBVIOUS
  <2>1. PICK d \in Call : /\ Truncate(d) \/ Write(d)
                          /\ Target(req[d].op) = f
    BY FileChanges DEF IInv
  <2>2. d = c /\ Write(c)
    BY <2>1 DEF Truncate, Write, Return, Goto, Saving, IInv, TypeOK
  <2>3. file[f] = Empty
    BY DEF IInv, FileIsLastSave
  <2>4. file'[f] = kf[c]
    BY <2>1, <2>2, <2>3 DEF Write, Overlay, IInv, TypeOK
  <2>5. kf[c] = Effect(version, req[c])
    BY DEF IInv, FreshSavesAreCurrent, Saving
  <2> QED
    BY <2>4, <2>5
<1> QED
  BY <1>1, Invariance, PTL DEF Spec, FreshSavesTakeEffect

(* A setter or WriteConfig that reports success has stored its entries.    *)
THEOREM SuccessIsStored == Spec => AcknowledgedIsStored
<1> DEFINE Kept(c) == /\ Loads(file'[conf])
                      /\ \A k \in DOMAIN req[c].arg :
                            /\ k \in DOMAIN file'[conf]
                            /\ file'[conf][k] = req[c].arg[k]
           Act == \A c \in Call :
                     /\ pc[c] # "idle" /\ pc'[c] = "idle" /\ reply'[c].status = "ok"
                     /\ req[c].op \in Setter \cup {"WriteConfig"}
                     /\ conf \notin mixed
                     => /\ Loads(file'[conf])
                        /\ \A k \in DOMAIN req[c].arg :
                              /\ k \in DOMAIN file'[conf]
                              /\ file'[conf][k] = req[c].arg[k]
<1>1. IInv /\ [Next]_vars => [Act]_vars
  <2> SUFFICES ASSUME IInv, [Next]_vars, NEW c \in Call,
                      pc[c] # "idle", pc'[c] = "idle",
                      reply'[c].status = "ok",
                      req[c].op \in Setter \cup {"WriteConfig"},
                      conf \notin mixed
               PROVE  Kept(c)
    OBVIOUS
  <2>1. Write(c)
    <3>1. pc' # pc /\ ~UNCHANGED vars
      BY DEF vars, service
    <3>2. ~Start /\ ~Quit
      BY DEF Start, Quit, Lost, IInv, TypeOK
    <3>3. ASSUME NEW d \in Call, NEW r \in Requests, Invoke(d, r) PROVE FALSE
      BY <3>3 DEF Invoke, Goto, IInv, TypeOK
    <3>4. ASSUME NEW d \in Call, d # c,
                 Authorised(d) \/ Denied(d) \/ Handle(d)
          PROVE  FALSE
      BY <3>4 DEF Authorised, Denied, Handle, LoadFails, LoadForSave, Edited,
                  LoadForRead, Get, Reread, Truncate, TruncateFails, Write,
                  WriteFails, Return, Goto, IInv, TypeOK
    <3>5. ASSUME Return(c, Error) \/ Return(c, SaveFailed(req[c].op))
          PROVE  FALSE
      BY <3>5, Ops DEF Return, Error, SaveFailed, IInv, TypeOK
    <3>6. ~LoadForSave(c) /\ ~LoadForRead(c) /\ ~Truncate(c)
      BY DEF LoadForSave, Edited, LoadForRead, Truncate, Goto, IInv, TypeOK
    <3>7. ~Get(c) /\ ~Reread(c)
      BY Ops DEF Get, Reread, IInv, CallInv, SavingOp
    <3>8. ~Authorised(c)
      BY <3>5 DEF Authorised, Goto, IInv, TypeOK
    <3>9. ~Denied(c) /\ ~LoadFails(c) /\ ~TruncateFails(c) /\ ~WriteFails(c)
      BY <3>5 DEF Denied, LoadFails, TruncateFails, WriteFails
    <3> QED
      BY <3>1, <3>2, <3>3, <3>4, <3>6, <3>7, <3>8, <3>9 DEF Next, Handle
  <2>2. Target(req[c].op) = conf /\ req[c].op \notin Copier
    BY Ops DEF Target, Copier
  <2>3. file[conf] = Empty
    BY <2>1, <2>2, Paths DEF Write, Saving, IInv, FileIsLastSave
  <2>4. file'[conf] = kf[c]
    BY <2>1, <2>2, <2>3, Paths DEF Write, Overlay, IInv, TypeOK
  <2>5. Loads(kf[c])
    BY ContentAssumption DEF IInv, TypeOK, Loads, Conf, IsConf
  <2>6. \A k \in DOMAIN req[c].arg : /\ k \in DOMAIN kf[c]
                                     /\ kf[c][k] = req[c].arg[k]
    BY <2>1, <2>2 DEF Write, IInv, CallInv
  <2> QED
    BY <2>4, <2>5, <2>6
<1> QED
  BY <1>1, Invariance, PTL DEF Spec, AcknowledgedIsStored

(***************************************************************************)
(* Reading.  A file that ReadConfig has parsed keeps parsing, unless saves *)
(* overlap, until ReadConfig has read it again.                            *)
(***************************************************************************)
RereadInv ==
    \A c \in Call : pc[c] = "reread" /\ conf \notin mixed => Loads(file[conf])

LEMMA ConfLoads == \A x \in Conf : Loads(x)
  BY ContentAssumption DEF Loads, Conf, IsConf

LEMMA RereadNext == IInv /\ RereadInv /\ [Next]_vars => RereadInv'
<1> SUFFICES ASSUME IInv, RereadInv, [Next]_vars PROVE RereadInv'
  OBVIOUS
<1> USE DEF IInv, TypeOK
<1>1. CASE \E c \in Call : Truncate(c)
  <2>1. PICK c \in Call : Truncate(c)
    BY <1>1
  <2> DEFINE f == Target(req[c].op)
  <2>2. Loads(Empty)
    BY ConfLoads, EmptyType
  <2>3. /\ file' = [file EXCEPT ![f] = Empty]
        /\ mixed' \in {mixed \cup {f}, mixed \ {f}}
        /\ \A d \in Call : pc'[d] = "reread" => pc[d] = "reread"
    BY <2>1 DEF Truncate, Goto
  <2>4. CASE f = conf
    BY <2>2, <2>3, <2>4, Paths DEF RereadInv
  <2>5. CASE f # conf
    BY <2>3, <2>5, Paths DEF RereadInv
  <2> QED
    BY <2>4, <2>5
<1>2. CASE \E c \in Call : Write(c)
  <2>1. PICK c \in Call : Write(c)
    BY <1>2
  <2> DEFINE f == Target(req[c].op)
  <2>2. PICK new \in Overlay(file[f], kf[c]) : file' = [file EXCEPT ![f] = new]
    BY <2>1 DEF Write
  <2>3. mixed' = mixed /\ \A d \in Call : pc'[d] = "reread" => pc[d] = "reread"
    BY <2>1 DEF Write, Return, Goto
  <2>4. CASE f = conf /\ conf \notin mixed
    <3>1. file[conf] = Empty
      BY <2>1, <2>4, Paths DEF FileIsLastSave, Write, Saving
    <3>2. new = kf[c]
      BY <2>2, <2>4, <3>1 DEF Overlay
    <3> QED
      BY <2>2, <2>3, <2>4, <3>2, ConfLoads, Paths DEF RereadInv
  <2>5. CASE f # conf \/ conf \in mixed
    BY <2>2, <2>3, <2>5, Paths DEF RereadInv
  <2> QED
    BY <2>4, <2>5
<1>3. CASE \E c \in Call : LoadForRead(c)
  BY <1>3 DEF LoadForRead, Goto, history, RereadInv
<1>4. CASE Start \/ Quit \/ UNCHANGED vars
  BY <1>4 DEF Start, Quit, vars, service, history, RereadInv
<1>5. ASSUME NEW c \in Call, NEW r \in Requests, Invoke(c, r)
      PROVE  RereadInv'
  BY <1>5 DEF Invoke, Goto, history, RereadInv
<1>6. ASSUME NEW c \in Call,
             \/ Authorised(c) \/ Denied(c) \/ LoadFails(c) \/ LoadForSave(c)
             \/ Get(c) \/ Reread(c) \/ TruncateFails(c) \/ WriteFails(c)
      PROVE  RereadInv'
  <2>1. /\ UNCHANGED <<file, mixed>>
        /\ \A d \in Call : pc'[d] = "reread" => pc[d] = "reread"
    BY <1>6 DEF Authorised, Denied, LoadFails, LoadForSave, Get, Reread,
                TruncateFails, WriteFails, Return, Goto
  <2> QED
    BY <2>1 DEF RereadInv
<1> QED
  BY <1>1, <1>2, <1>3, <1>4, <1>5, <1>6 DEF Next, Handle

LEMMA RereadInvariance == Spec => []RereadInv
<1>1. Init => RereadInv
  BY DEF Init, RereadInv
<1> QED
  BY <1>1, Invariance, RereadNext, PTL DEF Spec

(* Only two steps answer a call that reads.                                *)
LEMMA SuccessfulRead ==
  ASSUME IInv, [Next]_vars, NEW c \in Call, pc[c] # "idle", pc'[c] = "idle",
         reply'[c].status = "ok", req[c].op \in Getter \cup {"ReadConfig"}
  PROVE  Reread(c) \/ Get(c)
<1>1. ~UNCHANGED vars
  BY DEF vars, service
<1>2. ~Start /\ ~Quit
  BY DEF Start, Quit, Lost, IInv, TypeOK
<1>3. ASSUME NEW d \in Call, NEW r \in Requests, Invoke(d, r) PROVE FALSE
  BY <1>3 DEF Invoke, Goto, IInv, TypeOK
<1>4. ASSUME NEW d \in Call, d # c, Authorised(d) \/ Denied(d) \/ Handle(d)
      PROVE  FALSE
  BY <1>4 DEF Authorised, Denied, Handle, LoadFails, LoadForSave,
              LoadForRead, Get, Reread, Truncate, TruncateFails, Write,
              WriteFails, Return, Goto, IInv, TypeOK
<1>5. ~Return(c, Error)
  BY DEF Return, Error, IInv, TypeOK
<1>6. pc[c] \notin {"truncate", "write"}
  BY Ops DEF IInv, CallInv
<1>7. ~LoadForSave(c) /\ ~LoadForRead(c)
  BY DEF LoadForSave, LoadForRead, Goto, IInv, TypeOK
<1>8. ~Truncate(c) /\ ~TruncateFails(c) /\ ~Write(c) /\ ~WriteFails(c)
  BY <1>6 DEF Truncate, TruncateFails, Write, WriteFails
<1>9. ~Authorised(c)
  BY <1>5 DEF Authorised, Goto, IInv, TypeOK
<1>10. ~Denied(c) /\ ~LoadFails(c)
  BY <1>5 DEF Denied, LoadFails
<1> QED
  BY <1>1, <1>2, <1>3, <1>4, <1>7, <1>8, <1>9, <1>10 DEF Next, Handle

(* Who reads sees one save, whole, or the empty file of a save that is     *)
(* open, which no getter takes for a configuration.                        *)
THEOREM ReadsAreSaves == Spec => ReadsSeeSaves
<1> DEFINE Seen(c) == /\ req[c].op = "ReadConfig" =>
                           /\ Loads(reply'[c].data)
                           /\ Open(conf) => reply'[c].data = Empty
                           /\ ~Open(conf) => reply'[c].data = version[conf]
                      /\ req[c].op \in Getter =>
                           /\ ~Open(conf)
                           /\ \A k \in GetterKeys[req[c].op] :
                                 /\ Reads(version[conf], k)
                                 /\ reply'[c].data[k] = version[conf][k]
           Act == \A c \in Call :
                     /\ pc[c] # "idle" /\ pc'[c] = "idle" /\ reply'[c].status = "ok"
                     /\ conf \notin mixed
                     => /\ req[c].op = "ReadConfig" =>
                             /\ Loads(reply'[c].data)
                             /\ Open(conf) => reply'[c].data = Empty
                             /\ ~Open(conf) => reply'[c].data = version[conf]
                        /\ req[c].op \in Getter =>
                             /\ ~Open(conf)
                             /\ \A k \in GetterKeys[req[c].op] :
                                   /\ Reads(version[conf], k)
                                   /\ reply'[c].data[k] = version[conf][k]
<1>1. IInv /\ RereadInv /\ [Next]_vars => [Act]_vars
  <2> SUFFICES ASSUME IInv, RereadInv, [Next]_vars, NEW c \in Call,
                      pc[c] # "idle", pc'[c] = "idle",
                      reply'[c].status = "ok", conf \notin mixed,
                      req[c].op \in Getter \cup {"ReadConfig"}
               PROVE  Seen(c)
    OBVIOUS
  <2>1. Reread(c) \/ Get(c)
    BY SuccessfulRead
  <2>2. file[conf] = IF Open(conf) THEN Empty ELSE version[conf]
    BY Paths DEF IInv, FileIsLastSave, Open
  <2>3. CASE Reread(c)
    <3>1. pc[c] = "reread" /\ req[c].op = "ReadConfig"
      BY <2>3 DEF Reread, IInv, CallInv
    <3>2. reply'[c] = Ok(file[conf])
      <4>1. reply'[c] = IF file[conf] = NoFile THEN Error ELSE Ok(file[conf])
        BY <2>3 DEF Reread, Return, IInv, TypeOK
      <4> QED
        BY <4>1 DEF Error
    <3>3. reply'[c].data = file[conf]
      BY <3>2 DEF Ok
    <3>4. Loads(file[conf])
      BY <3>1 DEF RereadInv
    <3> QED
      BY <2>2, <3>1, <3>3, <3>4, Ops
  <2>4. CASE Get(c)
    <3>1. /\ req[c].op \in Getter
          /\ \A k \in GetterKeys[req[c].op] : Reads(file[conf], k)
          /\ reply'[c] = Ok([k \in GetterKeys[req[c].op] |-> file[conf][k]])
      BY <2>4 DEF Get, Return, IInv, TypeOK
    <3>2. GetterKeys[req[c].op] # {}
      BY <3>1 DEF Getter, GetterKeys
    <3>3. ~Open(conf)
      BY <2>2, <3>1, <3>2 DEF Reads, Empty
    <3>4. \A k \in GetterKeys[req[c].op] : reply'[c].data[k] = file[conf][k]
      BY <3>1 DEF Ok
    <3> QED
      BY <2>2, <3>1, <3>3, <3>4, Ops
  <2> QED
    BY <2>1, <2>3, <2>4
<1> QED
  BY <1>1, Invariance, RereadInvariance, PTL DEF Spec, ReadsSeeSaves

(***************************************************************************)
(* Refinement.  While saves stay apart no file is ever mixed and no call   *)
(* ever stale, so the store that a client sees is version, and a call that *)
(* saves found its source loadable.                                        *)
(***************************************************************************)
QuietInv ==
    /\ mixed = {}
    /\ stale = {}
    /\ \A c \in Call : pc[c] \in {"truncate", "write"} =>
          IF req[c].op = "WriteConfig" THEN Loads(req[c].arg)
                                       ELSE Loads(version[Source(req[c].op)])

(* A step that starts no save and moves no version.                        *)
LEMMA QuietKept ==
  ASSUME QuietInv, UNCHANGED <<version, mixed, stale>>,
         \A d \in Call : pc'[d] \in {"truncate", "write"} =>
             pc[d] \in {"truncate", "write"} /\ req'[d] = req[d]
  PROVE  QuietInv'
  BY DEF QuietInv

(* A step that ends the only save there is.                                *)
LEMMA QuietAfterSave ==
  ASSUME TypeOK, QuietInv, SavesApart, NEW c \in Call,
         pc[c] \in {"truncate", "write"}, pc' = [pc EXCEPT ![c] = "idle"],
         mixed' = mixed, stale' \subseteq stale \cup Derived(c, Target(req[c].op))
  PROVE  QuietInv'
<1>1. \A d \in Call \ {c} : pc[d] \notin {"truncate", "write"}
  BY DEF SavesApart
<1>2. \A d \in Call : pc'[d] \notin {"truncate", "write"}
  BY <1>1 DEF TypeOK
<1>3. Derived(c, Target(req[c].op)) = {}
  BY <1>1 DEF Derived
<1> QED
  BY <1>2, <1>3 DEF QuietInv

LEMMA QuietNext ==
  IInv /\ QuietInv /\ SavesApart /\ SavesApart' /\ [Next]_vars => QuietInv'
<1> SUFFICES ASSUME IInv, QuietInv, SavesApart, SavesApart', [Next]_vars
             PROVE  QuietInv'
  OBVIOUS
<1>1. CASE Start \/ UNCHANGED vars
  BY <1>1, QuietKept DEF Start, vars, service, history
<1>2. CASE Quit
  BY <1>2 DEF Quit, QuietInv
<1>3. ASSUME NEW c \in Call, NEW r \in Requests, Invoke(c, r)
      PROVE  QuietInv'
  BY <1>3, QuietKept DEF Invoke, Goto, history, IInv, TypeOK
<1>4. ASSUME NEW c \in Call, Authorised(c) PROVE QuietInv'
  <2>1. CASE req[c].op = "WriteConfig" /\ Loads(req[c].arg)
    BY <1>4, <2>1 DEF Authorised, Goto, QuietInv, IInv, TypeOK
  <2>2. CASE ~(req[c].op = "WriteConfig" /\ Loads(req[c].arg))
    BY <1>4, <2>2, QuietKept DEF Authorised, Return, Goto, IInv, TypeOK
  <2> QED
    BY <2>1, <2>2
<1>5. ASSUME NEW c \in Call,
             \/ Denied(c) \/ LoadFails(c) \/ LoadForRead(c) \/ Get(c)
             \/ Reread(c)
      PROVE  QuietInv'
  BY <1>5, QuietKept DEF Denied, LoadFails, LoadForRead, Get, Reread, Return,
                         Goto, history, IInv, TypeOK
<1>6. ASSUME NEW c \in Call, LoadForSave(c) PROVE QuietInv'
  <2> DEFINE f == Source(req[c].op)
  <2>1. /\ pc' = [pc EXCEPT ![c] = "truncate"]
        /\ Loads(file[f]) /\ UNCHANGED <<req, version, mixed>>
        /\ stale' = IF f \in mixed \/ \E d \in Call : Saving(d, f)
                    THEN stale \cup {c} ELSE stale
        /\ pc[c] = "load"
    BY <1>6 DEF LoadForSave, Goto
  <2>2. \A d \in Call \ {c} : pc[d] \notin {"truncate", "write"}
    BY <2>1 DEF SavesApart, IInv, TypeOK
  <2>3. \A d \in Call : ~Saving(d, f)
    BY <2>1, <2>2 DEF Saving
  <2>4. stale' = {}
    BY <2>1, <2>3 DEF QuietInv
  <2>5. file[f] = version[f]
    BY <2>3, Paths DEF IInv, FileIsLastSave, QuietInv
  <2>6. req[c].op # "WriteConfig"
    BY <1>6, Ops DEF LoadForSave
  <2> QED
    BY <2>1, <2>2, <2>4, <2>5, <2>6 DEF QuietInv, IInv, TypeOK
<1>7. ASSUME NEW c \in Call, Truncate(c) PROVE QuietInv'
  <2>1. pc[c] = "truncate" /\ pc' = [pc EXCEPT ![c] = "write"]
    BY <1>7 DEF Truncate, Goto
  <2>2. \A d \in Call : ~Saving(d, Target(req[c].op))
    BY <2>1 DEF Saving, SavesApart
  <2>3. mixed' = {}
    BY <1>7, <2>2 DEF Truncate, QuietInv
  <2> QED
    BY <1>7, <2>1, <2>3 DEF Truncate, QuietInv, IInv, TypeOK
<1>8. ASSUME NEW c \in Call, TruncateFails(c) \/ Write(c) \/ WriteFails(c)
      PROVE  QuietInv'
  BY <1>8, QuietAfterSave
     DEF TruncateFails, Write, WriteFails, Return, Goto, IInv
<1> QED
  BY <1>1, <1>2, <1>3, <1>4, <1>5, <1>6, <1>7, <1>8 DEF Next, Handle

(* While saves stay apart, what the clients see is version.                *)
LEMMA StoredIsVersion == IInv /\ QuietInv => Stored = version
<1> SUFFICES ASSUME IInv, QuietInv PROVE Stored = version
  OBVIOUS
<1>1. \A f \in Path : ~Open(f) => file[f] = version[f]
  BY DEF Open, IInv, FileIsLastSave, QuietInv
<1>2. \A f \in Path : Stored[f] = version[f]
  BY <1>1 DEF Stored
<1> QED
  BY <1>2 DEF Stored, IInv, TypeOK

(* The abstract store has the same requests and replies.                   *)
LEMMA SameCalls ==
  /\ Atomic!Path = Path /\ Atomic!conf = conf /\ Atomic!bak = bak
  /\ Atomic!Empty = Empty /\ Atomic!NoReply = NoReply /\ Atomic!Error = Error
  /\ Atomic!Lost = Lost
  /\ Atomic!Setter = Setter /\ Atomic!Getter = Getter
  /\ Atomic!Copier = Copier /\ Atomic!GetterKeys = GetterKeys
  /\ \A x : Atomic!Ok(x) = Ok(x) /\ (Atomic!Loads(x) <=> Loads(x))
  /\ \A x, k : Atomic!Reads(x, k) <=> Reads(x, k)
  /\ \A op : /\ Atomic!Source(op) = Source(op)
             /\ Atomic!Target(op) = Target(op)
             /\ Atomic!SaveFailed(op) = SaveFailed(op)
<1> USE DEF Atomic!PASSWORD_MIN_LENGTH, PASSWORD_MIN_LENGTH,
            Atomic!PASSWORD_MAX_LENGTH, PASSWORD_MAX_LENGTH,
            Atomic!VALIDATE_POLICY, VALIDATE_POLICY,
            Atomic!VALIDATE_REQUIRED, VALIDATE_REQUIRED,
            Atomic!STRONG_PASSWORD, STRONG_PASSWORD,
            Atomic!FIRST_LETTER_UPPERCASE, FIRST_LETTER_UPPERCASE
<1>1. Atomic!Path = Path /\ Atomic!conf = conf /\ Atomic!bak = bak
  BY DEF Atomic!Path, Path, Atomic!conf, conf, Atomic!bak, bak
<1>2. Atomic!Empty = Empty
  BY DEF Atomic!Empty, Empty
<1>3. Atomic!Setter = Setter /\ Atomic!Copier = Copier
  BY DEF Atomic!Setter, Setter, Atomic!SetterKeys, SetterKeys, Atomic!Copier,
         Copier
<1>4. Atomic!GetterKeys = GetterKeys /\ Atomic!Getter = Getter
  BY DEF Atomic!GetterKeys, GetterKeys, Atomic!Getter, Getter
<1>5. /\ Atomic!NoReply = NoReply /\ Atomic!Error = Error /\ Atomic!Lost = Lost
      /\ \A x : Atomic!Ok(x) = Ok(x)
  BY <1>2 DEF Atomic!NoReply, NoReply, Atomic!Error, Error, Atomic!Lost, Lost,
              Atomic!Ok, Ok
<1>6. /\ \A x : Atomic!Loads(x) <=> Loads(x)
      /\ \A x, k : Atomic!Reads(x, k) <=> Reads(x, k)
  BY DEF Atomic!Loads, Loads, Atomic!Reads, Reads
<1>7. \A op : /\ Atomic!Source(op) = Source(op)
              /\ Atomic!Target(op) = Target(op)
              /\ Atomic!SaveFailed(op) = SaveFailed(op)
  BY <1>1, <1>2, <1>3, <1>5
     DEF Atomic!Source, Source, Atomic!Target, Target, Atomic!SaveFailed,
         SaveFailed
<1> QED
  BY <1>1, <1>2, <1>3, <1>4, <1>5, <1>6, <1>7

LEMMA SameEffect ==
  ASSUME NEW files, NEW r PROVE Atomic!Effect(files, r) = Effect(files, r)
<1>1. \A a, b : Atomic!Override(a, b) = Override(a, b)
  BY DEF Atomic!Override, Override
<1> QED
  BY <1>1, SameCalls DEF Atomic!Effect, Effect

(* A handler that returns answers its call in the abstract store.          *)
LEMMA ReturnAnswers ==
  ASSUME TypeOK, NEW c \in Call, NEW r, pc[c] # "idle", Return(c, r),
         UNCHANGED req
  PROVE  Atomic!Answer(c, r)
<1>1. c \in InFlight /\ InFlight' = InFlight \ {c}
  BY DEF InFlight, Return, Goto, TypeOK
<1> QED
  BY <1>1 DEF Atomic!Answer, Return

(* The steps of the service as steps of the store.                         *)
LEMMA InvokeSim ==
  ASSUME TypeOK, Stored' = Stored, NEW c \in Call, NEW r \in Requests,
         Invoke(c, r)
  PROVE  Atomic!Invoke(c, r)
<1>1. c \notin InFlight /\ InFlight' = InFlight \cup {c}
  BY DEF InFlight, Invoke, Goto, TypeOK
<1> QED
  BY <1>1, SameCalls DEF Atomic!Invoke, Invoke

LEMMA RefuseSim ==
  ASSUME TypeOK, Stored' = Stored, NEW c \in Call, pc[c] # "idle",
         Return(c, Error), UNCHANGED req
  PROVE  Atomic!Refuse(c)
<1>1. Atomic!Answer(c, Error)
  BY ReturnAnswers
<1> QED
  BY <1>1, SameCalls DEF Atomic!Refuse

LEMMA GetSim ==
  ASSUME IInv, QuietInv, Stored = version, Stored' = Stored, NEW c \in Call,
         Get(c)
  PROVE  Atomic!Read(c)
<1> DEFINE op == req[c].op
           r == Ok([k \in GetterKeys[op] |-> file[conf][k]])
<1>1. /\ op \in Getter /\ Loads(file[conf])
      /\ \A k \in GetterKeys[op] : Reads(file[conf], k)
      /\ Return(c, r) /\ pc[c] # "idle" /\ UNCHANGED req
  BY DEF Get
<1>2. ~Open(conf)
  <2>1. GetterKeys[op] # {}
    BY <1>1 DEF Getter, GetterKeys
  <2>2. file[conf] # Empty
    BY <1>1, <2>1 DEF Reads, Empty
  <2> QED
    BY <2>2, Paths DEF Open, IInv, FileIsLastSave, QuietInv
<1>3. Stored[conf] = file[conf]
  BY <1>2, Paths DEF Stored
<1>4. Atomic!Answer(c, r)
  BY <1>1, ReturnAnswers DEF IInv
<1>5. r = Ok([k \in GetterKeys[op] |-> Stored[conf][k]])
  BY <1>3
<1> QED
  BY <1>1, <1>3, <1>4, <1>5, SameCalls DEF Atomic!Read

LEMMA RereadSim ==
  ASSUME IInv, QuietInv, RereadInv, SavesApart, Stored' = Stored,
         NEW c \in Call, Reread(c)
  PROVE  Atomic!Read(c)
<1>1. pc[c] = "reread" /\ req[c].op = "ReadConfig"
  BY DEF Reread, IInv, CallInv
<1>2. Loads(file[conf]) /\ file[conf] # NoFile
  BY <1>1 DEF RereadInv, QuietInv, Loads
<1>3. ~Open(conf)
  BY <1>1 DEF SavesApart, Open, Saving
<1>4. Stored[conf] = file[conf]
  BY <1>3, Paths DEF Stored
<1>5. Return(c, Ok(file[conf])) /\ UNCHANGED req
  BY <1>2 DEF Reread
<1>6. Atomic!Answer(c, Ok(file[conf]))
  BY <1>1, <1>5, ReturnAnswers DEF IInv
<1> QED
  BY <1>1, <1>2, <1>4, <1>6, SameCalls DEF Atomic!Read

LEMMA WriteSim ==
  ASSUME IInv, QuietInv, Stored = version, Stored' = version', NEW c \in Call,
         Write(c)
  PROVE  Atomic!Save(c)
<1> DEFINE r == req[c]
<1>1. /\ pc[c] = "write" /\ Return(c, Ok(Empty)) /\ UNCHANGED req
      /\ version' = [version EXCEPT ![Target(r.op)] = kf[c]]
  BY DEF Write
<1>2. r.op \in Setter \cup Copier \cup {"WriteConfig"}
  BY <1>1 DEF IInv, CallInv, SavingOp
<1>3. kf[c] = Effect(version, r)
  BY <1>1 DEF IInv, FreshSavesAreCurrent, QuietInv
<1>4. IF r.op = "WriteConfig" THEN Loads(r.arg)
                              ELSE Loads(version[Source(r.op)])
  BY <1>1 DEF QuietInv
<1>5. Atomic!Answer(c, Ok(Empty))
  BY <1>1, ReturnAnswers DEF IInv
<1>6. Stored' = [Stored EXCEPT ![Target(r.op)] = Effect(Stored, r)]
  BY <1>1, <1>3
<1> QED
  BY <1>2, <1>4, <1>5, <1>6, SameCalls, SameEffect DEF Atomic!Save

LEMMA InterruptedSim ==
  ASSUME IInv, NEW c \in Call, pc[c] \in {"truncate", "write"},
         Return(c, SaveFailed(req[c].op)), UNCHANGED req,
         \/ Stored' = Stored
         \/ Stored' = [Stored EXCEPT ![Target(req[c].op)] = Empty]
  PROVE  Atomic!SaveInterrupted(c)
<1>1. req[c].op \in Setter \cup Copier \cup {"WriteConfig"}
  BY DEF IInv, CallInv, SavingOp
<1>2. Atomic!Answer(c, SaveFailed(req[c].op))
  BY ReturnAnswers DEF IInv
<1> QED
  BY <1>1, <1>2, SameCalls DEF Atomic!SaveInterrupted

LEMMA QuitSim ==
  ASSUME IInv, Stored = version, Stored' = version', Quit
  PROVE  Atomic!Crash
<1> DEFINE F == {f \in Path : Open(f)}
<1>1. F \in SUBSET {Target(req[c].op) : c \in InFlight}
  BY DEF Open, Saving, InFlight
<1>2. Stored' = [f \in Path |-> IF f \in F THEN Empty ELSE Stored[f]]
  BY DEF Quit, Open
<1>3. InFlight' = {}
  BY DEF InFlight, Quit
<1>4. reply' = [c \in Call |-> IF c \in InFlight THEN Lost ELSE reply[c]]
  BY DEF InFlight, Quit
<1>5. UNCHANGED req
  BY DEF Quit
<1> HIDE DEF F
<1>6. \E G \in SUBSET {Atomic!Target(req[c].op) : c \in InFlight} :
         Stored' = [f \in Path |-> IF f \in G THEN Empty ELSE Stored[f]]
  <2>1. {Atomic!Target(req[c].op) : c \in InFlight}
        = {Target(req[c].op) : c \in InFlight}
    BY SameCalls
  <2> QED
    BY <1>1, <1>2, <2>1
<1> QED
  BY <1>3, <1>4, <1>5, <1>6, SameCalls DEF Atomic!Crash

LEMMA InitSim == Init => Atomic!Init
<1> SUFFICES ASSUME Init PROVE Atomic!Init
  OBVIOUS
<1>1. \A f \in Path : ~Open(f)
  BY DEF Init, Open, Saving
<1>2. Stored = [f \in Path |-> IF f = conf THEN InitConf ELSE NoFile]
  BY <1>1 DEF Init, Stored
<1>3. InFlight = {}
  BY DEF Init, InFlight
<1>4. /\ req = [c \in Call |-> [op |-> "ReadConfig", arg |-> Empty]]
      /\ reply = [c \in Call |-> NoReply]
  BY DEF Init
<1> QED
  BY <1>2, <1>3, <1>4, SameCalls DEF Atomic!Init

LEMMA NextSim ==
  IInv /\ IInv' /\ RereadInv /\ QuietInv /\ QuietInv' /\ SavesApart
  /\ [Next]_vars => [Atomic!Next]_(Atomic!vars)
<1> SUFFICES ASSUME IInv, IInv', RereadInv, QuietInv, QuietInv', SavesApart,
                    [Next]_vars
             PROVE  Atomic!Next \/ UNCHANGED Atomic!vars
  OBVIOUS
<1>1. Stored = version /\ Stored' = version'
  <2>1. Stored = version
    BY StoredIsVersion
  <2>2. (Stored = version)'
    BY StoredIsVersion, PTL
  <2> QED
    BY <2>1, <2>2
(* A step that neither begins nor ends a call is invisible.                *)
<1>2. ASSUME UNCHANGED <<version, req, reply>>,
             \A d \in Call : pc'[d] = "idle" <=> pc[d] = "idle"
      PROVE  UNCHANGED Atomic!vars
  <2>1. InFlight' = InFlight
    BY <1>2 DEF InFlight
  <2> QED
    BY <1>1, <1>2, <2>1 DEF Atomic!vars
<1>3. CASE Start \/ UNCHANGED vars
  BY <1>2, <1>3 DEF Start, vars, service, history
<1>4. CASE Quit
  BY <1>1, <1>4, QuitSim DEF Atomic!Next
<1>5. ASSUME NEW c \in Call, NEW r \in Requests, Invoke(c, r)
      PROVE  Atomic!Next
  <2>1. Stored' = Stored
    BY <1>1, <1>5 DEF Invoke, history
  <2> QED
    BY <1>5, <2>1, InvokeSim DEF Atomic!Next, IInv
<1>6. ASSUME NEW c \in Call,
             pc[c] # "idle", Return(c, Error), UNCHANGED <<req, version>>
      PROVE  Atomic!Next
  BY <1>1, <1>6, RefuseSim DEF Atomic!Next, IInv
<1>7. ASSUME NEW c \in Call, Authorised(c)
      PROVE  Atomic!Next \/ UNCHANGED Atomic!vars
  <2>1. CASE Return(c, Error)
    BY <1>6, <1>7, <2>1 DEF Authorised
  <2>2. CASE ~Return(c, Error)
    <3>1. /\ UNCHANGED <<version, req, reply>>
          /\ \A d \in Call : pc'[d] = "idle" <=> pc[d] = "idle"
      BY <1>7, <2>2 DEF Authorised, Goto, IInv, TypeOK
    <3> QED
      BY <1>2, <3>1
  <2> QED
    BY <2>1, <2>2
<1>8. ASSUME NEW c \in Call, Denied(c) \/ LoadFails(c) PROVE Atomic!Next
  BY <1>6, <1>8 DEF Denied, LoadFails
<1>9. ASSUME NEW c \in Call, LoadForSave(c) \/ LoadForRead(c) \/ Truncate(c)
      PROVE  UNCHANGED Atomic!vars
  <2>1. /\ UNCHANGED <<version, req, reply>>
        /\ \A d \in Call : pc'[d] = "idle" <=> pc[d] = "idle"
    BY <1>9 DEF LoadForSave, LoadForRead, Truncate, Goto, history, IInv,
                TypeOK
  <2> QED
    BY <1>2, <2>1
<1>10. ASSUME NEW c \in Call, Get(c) \/ Reread(c) PROVE Atomic!Next
  <2>1. Stored' = Stored
    BY <1>1, <1>10 DEF Get, Reread
  <2> QED
    BY <1>1, <1>10, <2>1, GetSim, RereadSim DEF Atomic!Next
<1>11. ASSUME NEW c \in Call, TruncateFails(c) \/ WriteFails(c)
       PROVE  Atomic!Next
  <2>1. /\ pc[c] \in {"truncate", "write"}
        /\ Return(c, SaveFailed(req[c].op)) /\ UNCHANGED req
    BY <1>11 DEF TruncateFails, WriteFails
  <2>2. \/ Stored' = Stored
        \/ Stored' = [Stored EXCEPT ![Target(req[c].op)] = Empty]
    BY <1>1, <1>11 DEF TruncateFails, WriteFails
  <2> QED
    BY <2>1, <2>2, InterruptedSim DEF Atomic!Next
<1>12. ASSUME NEW c \in Call, Write(c) PROVE Atomic!Next
  BY <1>1, <1>12, WriteSim DEF Atomic!Next
<1> QED
  BY <1>3, <1>4, <1>5, <1>7, <1>8, <1>9, <1>10, <1>11, <1>12
     DEF Next, Handle

(* The service is the atomic store of AtomicConf, for any number of calls  *)
(* in flight and every fault, as long as no call saves while another saves *)
(* or is between the two readings of ReadConfig: getters, polkit dialogs   *)
(* and loads may overlap with everything, crashes may come at any step.    *)
THEOREM ApartIsAtomic == Spec /\ []SavesApart => ImplementsAtomicConf
<1>1. Init => QuietInv
  BY DEF Init, QuietInv
<1> QED
  BY <1>1, QuietNext, InitSim, NextSim, Invariance, RereadInvariance, PTL
     DEF Spec, ImplementsAtomicConf, Atomic!Spec

(* A client that waits for each reply before its next call always meets    *)
(* the atomic store.                                                       *)
THEOREM OneCallIsAtomic ==
  ASSUME \A c, d \in Call : c = d
  PROVE  Spec => ImplementsAtomicConf
<1>1. SavesApart
  BY DEF SavesApart
<1> QED
  BY <1>1, ApartIsAtomic, PTL
=============================================================================
