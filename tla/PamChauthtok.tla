---------------------------- MODULE PamChauthtok ----------------------------
(***************************************************************************)
(* The PAM module pam_deepin_pw_check.so during one password change        *)
(* (pam/pam.c).  Around it: libpam, which keeps the new password in the    *)
(* item PAM_AUTHTOK, the user who types passwords, the administrator who   *)
(* may change dde.conf at any time, and the next module of the stack,      *)
(* which stores the password.                                              *)
(***************************************************************************)
EXTENDS Integers

CONSTANTS Token,           \* passwords a user may type
          None,            \* an item that is not set
          Retries,         \* what atoi may make of "retry="
          Policies         \* the sets of tokens that some dde.conf accepts

ASSUME NoneAssumption == None \notin Token
ASSUME RetriesAssumption == Retries \subseteq Int
ASSUME PoliciesAssumption == Policies \subseteq SUBSET Token

VARIABLES retry_cnt,      \* the argument retry=, 0 when not given
          pc,             \* where the module is
          item,           \* PAM_AUTHTOK as libpam keeps it
          policy,         \* the tokens dde.conf accepts now; none when the
                          \* file cannot be read (PW_ERR_PARA)
          cur_cnt,        \* iterations left
          new_token,      \* what pam_get_authtok gave
          finally_result, \* did some iteration accept its token?
          result,         \* what pam_sm_chauthtok returned
          asked,          \* prompts the user answered with a token
          shown,          \* rejections the user was told of
          stored          \* the password the next module stored

(* History: the tokens some check of this change accepted, whether         *)
(* dde.conf has kept its meaning since the first one, and whether          *)
(* pam_get_authtok failed.                                                 *)
VARIABLES accepted, steady, unanswered

vars == <<retry_cnt, pc, item, policy, cur_cnt, new_token, finally_result,
          result, asked, shown, stored, accepted, steady, unanswered>>

(* What only Init, ConfigChange and a failing prompt choose.               *)
frame == <<retry_cnt, steady, unanswered>>

module == <<cur_cnt, new_token, finally_result, accepted>>

(* "if (paras.retry_cnt <= 0) paras.retry_cnt = 1"                         *)
Tries == IF retry_cnt <= 0 THEN 1 ELSE retry_cnt

(* libpam runs the stack twice, with PAM_PRELIM_CHECK and then with        *)
(* PAM_UPDATE_AUTHTOK.  A module before this one may have set the item.    *)
Init ==
    /\ retry_cnt \in Retries
    /\ pc = "prelim"
    /\ item \in Token \cup {None}
    /\ policy \in Policies
    /\ cur_cnt = 0
    /\ new_token = None
    /\ finally_result = FALSE
    /\ result = "none"
    /\ asked = 0
    /\ shown = 0
    /\ stored = None
    /\ accepted = {}
    /\ steady = TRUE
    /\ unanswered = FALSE

PrelimCheck ==
    /\ pc = "prelim"
    /\ pc' = "update"
    /\ UNCHANGED <<frame, item, policy, module, result, asked, shown, stored>>

(* The update pass up to the loop.  pam_get_user can fail.                 *)
Begin ==
    /\ pc = "update"
    /\ \/ /\ cur_cnt' = Tries
          /\ pc' = "loop"
          /\ UNCHANGED result
       \/ /\ result' = "PAM_USER_UNKNOWN"
          /\ pc' = "returned"
          /\ UNCHANGED cur_cnt
    /\ UNCHANGED <<frame, item, policy, new_token, finally_result, accepted,
                   asked, shown, stored>>

(* pam_get_authtok hands out the item when there is one ...                *)
UseItem ==
    /\ pc = "loop"
    /\ cur_cnt > 0
    /\ item # None
    /\ cur_cnt' = cur_cnt - 1
    /\ new_token' = item
    /\ pc' = "check"
    /\ UNCHANGED <<frame, item, policy, finally_result, accepted, result,
                   asked, shown, stored>>

(* ... and otherwise asks the user and sets it ...                         *)
Ask ==
    /\ pc = "loop"
    /\ cur_cnt > 0
    /\ item = None
    /\ \E t \in Token : item' = t /\ new_token' = t
    /\ cur_cnt' = cur_cnt - 1
    /\ asked' = asked + 1
    /\ pc' = "check"
    /\ UNCHANGED <<frame, policy, finally_result, accepted, result, shown,
                   stored>>

(* What pam_get_authtok returns when the two entries differ, the user      *)
(* aborts or the conversation breaks off.  The last is also the module's   *)
(* own code for a change whose passwords were all rejected.                *)
AuthtokErrors == {"PAM_AUTH_ERR", "PAM_SYSTEM_ERR", "PAM_TRY_AGAIN",
                  "PAM_AUTHTOK_ERR"}

(* ... or fails, and the module returns at once what it returned.          *)
AskFails ==
    /\ pc = "loop"
    /\ cur_cnt > 0
    /\ item = None
    /\ cur_cnt' = cur_cnt - 1
    /\ result' \in AuthtokErrors
    /\ unanswered' = TRUE
    /\ pc' = "returned"
    /\ UNCHANGED <<retry_cnt, steady, item, policy, new_token, finally_result,
                   accepted, asked, shown, stored>>

(* The item is cleared after every check.                                  *)
Accept_ClearsItem ==
    /\ pc = "check"
    /\ new_token \in policy
    /\ finally_result' = TRUE
    /\ accepted' = accepted \cup {new_token}
    /\ item' = None
    /\ pc' = "loop"
    /\ UNCHANGED <<frame, policy, cur_cnt, new_token, result, asked, shown,
                   stored>>

(* deepin_pw_check finds nothing wrong: the loop goes on nevertheless.     *)
Accept ==
    /\ pc = "check"
    /\ new_token \in policy
    /\ finally_result' = TRUE
    /\ accepted' = accepted \cup {new_token}
    /\ pc' = "loop"
    /\ UNCHANGED <<frame, item, policy, cur_cnt, new_token, result, asked,
                   shown, stored>>

(* The item of a rejected token is not cleared.                            *)
Reject_KeepsItem ==
    /\ pc = "check"
    /\ new_token \notin policy
    /\ shown' = shown + 1
    /\ pc' = "loop"
    /\ UNCHANGED <<frame, item, policy, module, result, asked, stored>>

(* It is cleared only when another try follows.                            *)
Reject_KeepsLastItem ==
    /\ pc = "check"
    /\ new_token \notin policy
    /\ item' = IF cur_cnt = 0 THEN item ELSE None
    /\ shown' = shown + 1
    /\ pc' = "loop"
    /\ UNCHANGED <<frame, policy, module, result, asked, stored>>

(* It does: pam_error shows the reason, the item is cleared, continue.     *)
Reject ==
    /\ pc = "check"
    /\ new_token \notin policy
    /\ item' = None
    /\ shown' = shown + 1
    /\ pc' = "loop"
    /\ UNCHANGED <<frame, policy, module, result, asked, stored>>

(* The outcome of the loop is ignored.                                     *)
Finish_IgnoresResult ==
    /\ pc = "loop"
    /\ cur_cnt = 0
    /\ result' = "PAM_SUCCESS"
    /\ pc' = "returned"
    /\ UNCHANGED <<frame, item, policy, module, asked, shown, stored>>

(* The loop runs until its counter is negative.                            *)
Finish_BelowZero ==
    /\ pc = "loop"
    /\ cur_cnt < 0
    /\ result' = IF finally_result THEN "PAM_SUCCESS" ELSE "PAM_AUTHTOK_ERR"
    /\ pc' = "returned"
    /\ UNCHANGED <<frame, item, policy, module, asked, shown, stored>>

Finish ==
    /\ pc = "loop"
    /\ cur_cnt = 0
    /\ result' = IF finally_result THEN "PAM_SUCCESS" ELSE "PAM_AUTHTOK_ERR"
    /\ pc' = "returned"
    /\ UNCHANGED <<frame, item, policy, module, asked, shown, stored>>

(* A setter of the D-Bus service, or an update of the package.             *)
ConfigChange ==
    /\ policy' \in Policies
    /\ steady' = (steady /\ (accepted = {} \/ policy' = policy))
    /\ UNCHANGED <<retry_cnt, unanswered, pc, item, module, result, asked,
                   shown, stored>>

(* The module is "requisite": only its success lets the stack go on.  The  *)
(* next module (use_authtok) stores the item, and nothing when none is set.*)
NextModule ==
    /\ pc = "returned"
    /\ result = "PAM_SUCCESS"
    /\ stored' = item
    /\ pc' = "end"
    /\ UNCHANGED <<frame, item, policy, module, result, asked, shown>>

Step == \/ PrelimCheck \/ Begin \/ UseItem \/ Ask \/ AskFails
        \/ Accept \/ Reject \/ Finish

Next == Step \/ ConfigChange \/ NextModule

Spec == Init /\ [][Next]_vars

(* The module keeps running, libpam runs both passes and the user answers  *)
(* prompts, well or badly.                                                 *)
FairSpec == Spec /\ WF_vars(Step)

(***************************************************************************)
(* Properties                                                              *)
(***************************************************************************)
TypeOK ==
    /\ pc \in {"prelim", "update", "loop", "check", "returned", "end"}
    /\ item \in Token \cup {None}
    /\ policy \in Policies
    /\ cur_cnt \in 0..Tries
    /\ new_token \in Token \cup {None}
    /\ pc = "check" => new_token \in Token
    /\ finally_result \in BOOLEAN
    /\ result \in {"none", "PAM_SUCCESS", "PAM_USER_UNKNOWN",
                   "PAM_AUTHTOK_ERR"} \cup AuthtokErrors
    /\ asked \in Nat
    /\ shown \in Nat
    /\ stored \in Token \cup {None}
    /\ accepted \subseteq Token
    /\ steady \in BOOLEAN
    /\ unanswered \in BOOLEAN
    /\ retry_cnt \in Retries

(* PAM_SUCCESS means that the password libpam now holds was checked and    *)
(* accepted, with one try or as long as dde.conf keeps its meaning once a  *)
(* check has accepted a password.                                          *)
SuccessMeansAccepted ==
    result = "PAM_SUCCESS" /\ (steady \/ Tries = 1) => item \in accepted

(* A password that gets stored was accepted by a check of this change,     *)
(* however dde.conf changed meanwhile.                                     *)
StoredWasAccepted ==
    stored # None => stored \in accepted

(* A change the module gives up on, whatever code it returns, leaves no    *)
(* password behind for the next module.  Either pam_get_authtok failed,    *)
(* with a try left that no rejection was reported for; or every try was    *)
(* used, each one was rejected and reported, and the code is               *)
(* PAM_AUTHTOK_ERR.                                                        *)
GaveUp == result \notin {"none", "PAM_SUCCESS", "PAM_USER_UNKNOWN"}

FailureIsJustified ==
    GaveUp => /\ item = None
              /\ unanswered => shown < Tries
              /\ ~unanswered => /\ result = "PAM_AUTHTOK_ERR"
                                /\ shown = Tries
                                /\ accepted = {}

(* Once a password was accepted the user is not asked for another one,     *)
(* under the same condition.                                               *)
NoQuestionAfterAcceptance ==
    [][accepted # {} /\ (steady \/ Tries = 1) => asked' = asked]_vars

(* The user is asked at most as often as retry= allows, and a password is  *)
(* asked for again only after telling why the last one was rejected.       *)
EveryQuestionHasAReason ==
    asked <= Tries /\ asked <= shown + 1

(* The module returns, whatever the user types and dde.conf becomes.       *)
Returns == <>(pc = "returned")

(* technical_solution.md:49: the module returns the result of the check to *)
(* PAM.  Whatever happens to dde.conf, PAM_SUCCESS means that the password *)
(* libpam now holds was accepted by a check.                               *)
ResultIsTheCheck == result = "PAM_SUCCESS" => item \in accepted
=============================================================================
