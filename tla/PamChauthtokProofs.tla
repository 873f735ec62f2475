------------------------- MODULE PamChauthtokProofs -------------------------
(***************************************************************************)
(* Machine-checked proofs about PamChauthtok, for every set of tokens, set *)
(* of policies and value of retry=, while dde.conf changes at any time.    *)
(***************************************************************************)
EXTENDS PamChauthtok, TLAPS

LEMMA TriesType ==
  ASSUME retry_cnt \in Retries
  PROVE  Tries \in Nat /\ Tries >= 1
  BY RetriesAssumption DEF Tries

(* retry_cnt is an argument: nothing changes it.                           *)
LEMMA TriesFixed == [Next]_vars => retry_cnt' = retry_cnt /\ Tries' = Tries
  BY DEF Next, Step, PrelimCheck, Begin, UseItem, Ask, AskFails, Accept, Reject,
         Finish, ConfigChange, NextModule, vars, frame, Tries

LEMMA TypeInit == Init => TypeOK
<1> SUFFICES ASSUME Init PROVE TypeOK
  OBVIOUS
<1>1. cur_cnt \in 0..Tries /\ asked \in Nat /\ shown \in Nat
  BY TriesType DEF Init
<1>2. accepted \subseteq Token /\ retry_cnt \in Retries
  BY DEF Init
<1>3. /\ pc = "prelim"
      /\ item \in Token \cup {None}
      /\ policy \in Policies
      /\ new_token \in Token \cup {None}
      /\ result = "none"
      /\ stored \in Token \cup {None}
  BY DEF Init
<1>4. /\ finally_result \in BOOLEAN
      /\ steady \in BOOLEAN
      /\ unanswered \in BOOLEAN
  BY DEF Init
<1> QED
  BY <1>1, <1>2, <1>3, <1>4 DEF TypeOK

LEMMA TypeNext == TypeOK /\ [Next]_vars => TypeOK'
<1> SUFFICES ASSUME TypeOK, [Next]_vars PROVE TypeOK'
  OBVIOUS
<1> USE TriesType, TriesFixed DEF TypeOK, module, frame
<1>1. CASE PrelimCheck BY <1>1 DEF PrelimCheck
<1>2. CASE Begin BY <1>2 DEF Begin
<1>3. CASE UseItem BY <1>3 DEF UseItem
<1>4. CASE Ask BY <1>4 DEF Ask
<1>5. CASE AskFails BY <1>5 DEF AskFails, AuthtokErrors
<1>6. CASE Accept BY <1>6 DEF Accept
<1>7. CASE Reject BY <1>7 DEF Reject
<1>8. CASE Finish BY <1>8 DEF Finish
<1>9. CASE ConfigChange BY <1>9 DEF ConfigChange
<1>10. CASE NextModule BY <1>10 DEF NextModule
<1>11. CASE UNCHANGED vars BY <1>11 DEF vars
<1> QED
  BY <1>1, <1>2, <1>3, <1>4, <1>5, <1>6, <1>7, <1>8, <1>9, <1>10, <1>11
     DEF Next, Step

(***************************************************************************)
(* The loop: what the item and the counters say at each of its points.     *)
(***************************************************************************)
LoopInv ==
    /\ pc \in {"prelim", "update"} =>
          /\ result = "none" /\ stored = None /\ shown = 0
          /\ finally_result = FALSE /\ accepted = {}
    /\ pc \in {"loop", "check"} => result = "none" /\ stored = None
    /\ pc = "loop" => /\ cur_cnt < Tries /\ item # None => item \in accepted
                      /\ finally_result => cur_cnt < Tries
                      /\ shown <= Tries - cur_cnt
                      /\ ~finally_result => shown = Tries - cur_cnt
    /\ pc = "check" => /\ item = new_token
                       /\ cur_cnt < Tries
                       /\ shown < Tries - cur_cnt
                       /\ ~finally_result => shown = Tries - cur_cnt - 1
    /\ ~finally_result <=> accepted = {}
    /\ result = "PAM_SUCCESS" => item = None \/ item \in accepted
    /\ unanswered => GaveUp

IInv == TypeOK /\ LoopInv /\ StoredWasAccepted /\ FailureIsJustified

LEMMA InitIInv == Init => IInv
  BY TypeInit, TriesType
     DEF Init, IInv, LoopInv, StoredWasAccepted, FailureIsJustified, GaveUp

LEMMA NextIInv == IInv /\ [Next]_vars => IInv'
<1> SUFFICES ASSUME IInv, [Next]_vars
             PROVE  LoopInv' /\ StoredWasAccepted' /\ FailureIsJustified'
  BY TypeNext DEF IInv
<1> USE TriesType, TriesFixed, NoneAssumption
        DEF IInv, TypeOK, LoopInv, StoredWasAccepted, FailureIsJustified,
            GaveUp, AuthtokErrors, module, frame
<1>1. CASE PrelimCheck BY <1>1 DEF PrelimCheck
<1>2. CASE Begin BY <1>2 DEF Begin
<1>3. CASE UseItem BY <1>3 DEF UseItem
<1>4. CASE Ask BY <1>4 DEF Ask
<1>5. CASE AskFails BY <1>5 DEF AskFails, AuthtokErrors
<1>6. CASE Accept BY <1>6 DEF Accept
<1>7. CASE Reject BY <1>7 DEF Reject
<1>8. CASE Finish BY <1>8 DEF Finish
<1>9. CASE ConfigChange BY <1>9 DEF ConfigChange
<1>10. CASE NextModule BY <1>10 DEF NextModule
<1>11. CASE UNCHANGED vars BY <1>11 DEF vars
<1> QED
  BY <1>1, <1>2, <1>3, <1>4, <1>5, <1>6, <1>7, <1>8, <1>9, <1>10, <1>11
     DEF Next, Step

LEMMA Invariance == Spec => []IInv
  BY InitIInv, NextIInv, PTL DEF Spec

(* Whatever the user types and dde.conf becomes, the counter stays within  *)
(* retry= and a token is checked only after one was given                  *)
(* (pam_sm_chauthtok).                                                     *)
THEOREM TypesCorrect == Spec => []TypeOK
<1>1. IInv => TypeOK
  BY DEF IInv
<1> QED
  BY <1>1, Invariance, PTL

(* Only passwords that a check of this change accepted get stored, for     *)
(* every retry= and however dde.conf changes meanwhile.                    *)
THEOREM OnlyAcceptedIsStored == Spec => []StoredWasAccepted
<1>1. IInv => StoredWasAccepted
  BY DEF IInv
<1> QED
  BY <1>1, Invariance, PTL

(* Whatever code the module gives up with, pam_get_authtok failed with a   *)
(* try left or every try was rejected and reported, and no password is     *)
(* left behind, for every retry= and however dde.conf changes              *)
(* (pam_sm_chauthtok, its three returns inside and after the loop).        *)
THEOREM FailuresAreJustified == Spec => []FailureIsJustified
<1>1. IInv => FailureIsJustified
  BY DEF IInv
<1> QED
  BY <1>1, Invariance, PTL

(***************************************************************************)
(* PAM_SUCCESS means what the document says with one try, or as long as    *)
(* dde.conf keeps its meaning once a check has accepted a password.        *)
(***************************************************************************)
Agreed == steady \/ Tries = 1

AgreedInv ==
    /\ pc = "loop" /\ finally_result /\ Agreed => item \in accepted
    /\ pc = "check" /\ finally_result => Tries > 1
    /\ pc \in {"loop", "check"} /\ finally_result /\ steady => item \in policy
    /\ SuccessMeansAccepted

LEMMA AgreedInvariance == Spec => [](IInv /\ AgreedInv)
<1>1. Init => AgreedInv
  BY DEF Init, AgreedInv, SuccessMeansAccepted
<1>2. IInv /\ AgreedInv /\ [Next]_vars => AgreedInv'
  <2> SUFFICES ASSUME IInv, AgreedInv, [Next]_vars PROVE AgreedInv'
    OBVIOUS
  <2> USE TriesType, TriesFixed, NoneAssumption
          DEF IInv, TypeOK, LoopInv, AgreedInv, Agreed, SuccessMeansAccepted,
              module, frame
  <2>1. CASE PrelimCheck BY <2>1 DEF PrelimCheck
  <2>2. CASE Begin BY <2>2 DEF Begin
  <2>3. CASE UseItem BY <2>3 DEF UseItem
  <2>4. CASE Ask BY <2>4 DEF Ask
  <2>5. CASE AskFails BY <2>5 DEF AskFails, AuthtokErrors
  <2>6. CASE Accept BY <2>6 DEF Accept
  <2>7. CASE Reject BY <2>7 DEF Reject
  <2>8. CASE Finish BY <2>8 DEF Finish
  <2>9. CASE ConfigChange BY <2>9 DEF ConfigChange
  <2>10. CASE NextModule BY <2>10 DEF NextModule
  <2>11. CASE UNCHANGED vars BY <2>11 DEF vars
  <2> QED
    BY <2>1, <2>2, <2>3, <2>4, <2>5, <2>6, <2>7, <2>8, <2>9, <2>10, <2>11
       DEF Next, Step
<1> QED
  BY <1>1, <1>2, Invariance, PTL DEF Spec

(* After PAM_SUCCESS libpam holds a password that a check accepted, for    *)
(* every retry=, with one try or while dde.conf keeps its meaning.         *)
THEOREM SuccessIsTruthful == Spec => []SuccessMeansAccepted
<1>1. AgreedInv => SuccessMeansAccepted
  BY DEF AgreedInv
<1> QED
  BY <1>1, AgreedInvariance, PTL

(* Under the same condition nobody is asked for another password once one  *)
(* was accepted: the item still holds it (pam_get_authtok, the loop).      *)
THEOREM AcceptanceEndsQuestions == Spec => NoQuestionAfterAcceptance
<1> DEFINE Act == accepted # {} /\ (steady \/ Tries = 1) => asked' = asked
<1>1. IInv /\ AgreedInv /\ [Next]_vars => [Act]_vars
  <2> SUFFICES ASSUME IInv, AgreedInv, Next, accepted # {}, steady \/ Tries = 1
               PROVE  asked' = asked
    BY DEF vars
  <2>1. ~Ask
    <3> SUFFICES ASSUME Ask PROVE FALSE
      OBVIOUS
    <3>1. pc = "loop" /\ item = None
      BY DEF Ask
    <3>2. item \in accepted
      BY <3>1 DEF IInv, LoopInv, AgreedInv, Agreed
    <3> QED
      BY <3>1, <3>2, NoneAssumption DEF IInv, TypeOK
  <2> QED
    BY <2>1 DEF Next, Step, PrelimCheck, Begin, UseItem, AskFails, Accept, Reject,
                Finish, ConfigChange, NextModule
<1> QED
  BY <1>1, AgreedInvariance, PTL DEF Spec, NoQuestionAfterAcceptance

(***************************************************************************)
(* Every question is answered by an acceptance or followed by a reason.    *)
(***************************************************************************)
AskedInv ==
    /\ EveryQuestionHasAReason
    /\ pc \in {"prelim", "update"} => asked = 0
    /\ pc \in {"loop", "check"} => asked <= Tries - cur_cnt
    /\ pc = "loop" /\ item = None => asked <= shown

(* The user is asked at most as often as retry= allows, and again only     *)
(* after a reason was shown, for every retry= and however dde.conf changes *)
(* (pam_sm_chauthtok).                                                     *)
THEOREM QuestionsHaveReasons == Spec => []EveryQuestionHasAReason
<1>1. Init => AskedInv
  BY TriesType DEF Init, AskedInv, EveryQuestionHasAReason
<1>2. IInv /\ AskedInv /\ [Next]_vars => AskedInv'
  <2> SUFFICES ASSUME IInv, AskedInv, [Next]_vars PROVE AskedInv'
    OBVIOUS
  <2> USE TriesType, TriesFixed, NoneAssumption
          DEF IInv, TypeOK, LoopInv, AskedInv, EveryQuestionHasAReason, module, frame
  <2>1. CASE PrelimCheck BY <2>1 DEF PrelimCheck
  <2>2. CASE Begin BY <2>2 DEF Begin
  <2>3. CASE UseItem BY <2>3 DEF UseItem
  <2>4. CASE Ask BY <2>4 DEF Ask
  <2>5. CASE AskFails BY <2>5 DEF AskFails, AuthtokErrors
  <2>6. CASE Accept BY <2>6 DEF Accept
  <2>7. CASE Reject BY <2>7 DEF Reject
  <2>8. CASE Finish BY <2>8 DEF Finish
  <2>9. CASE ConfigChange BY <2>9 DEF ConfigChange
  <2>10. CASE NextModule BY <2>10 DEF NextModule
  <2>11. CASE UNCHANGED vars BY <2>11 DEF vars
  <2> QED
    BY <2>1, <2>2, <2>3, <2>4, <2>5, <2>6, <2>7, <2>8, <2>9, <2>10, <2>11
       DEF Next, Step
<1>3. AskedInv => EveryQuestionHasAReason
  BY DEF AskedInv
<1> QED
  BY <1>1, <1>2, <1>3, Invariance, PTL DEF Spec
=============================================================================
