--------------------------- MODULE MCConfService ---------------------------
(***************************************************************************)
(* Instances of ConfService for TLC.                                       *)
(***************************************************************************)
EXTENDS ConfService, TLC

CONSTANTS v1, v2, bad, OTHER_KEY, c1, c2

MCOtherKeys == {OTHER_KEY}

(* dde.conf as installed, with one key the service never touches.          *)
MCInitConf == PASSWORD_MIN_LENGTH :> v1 @@ PASSWORD_MAX_LENGTH :> v1 @@
              STRONG_PASSWORD :> v1 @@ OTHER_KEY :> v1

SetLength(a, b) == [op |-> "SetLengthLimit",
                    arg |-> PASSWORD_MIN_LENGTH :> a @@ PASSWORD_MAX_LENGTH :> b]
SetEnabled(a) == [op |-> "SetEnabled", arg |-> STRONG_PASSWORD :> a]
WriteConf(data) == [op |-> "WriteConfig", arg |-> data]
Plain(op) == [op |-> op, arg |-> Empty]

(* Every method of the interface, one call at a time.                      *)
AllRequests ==
    {SetLength(v1, v2), SetEnabled(v2), WriteConf(Broken), WriteConf(Empty),
     WriteConf(STRONG_PASSWORD :> bad @@ PASSWORD_MIN_LENGTH :> v1),
     [op |-> "SetValidatePolicy", arg |-> VALIDATE_POLICY :> v1],
     [op |-> "SetValidateRequired", arg |-> VALIDATE_REQUIRED :> v2],
     [op |-> "SetFirstLetterUpper", arg |-> FIRST_LETTER_UPPERCASE :> v2]}
    \cup {Plain(op) : op \in Getter \cup Copier \cup {"ReadConfig"}}

(* Calls that disturb each other, on a file that starts with one key: a    *)
(* setter that adds one, a whole file, both copies, and two that read      *)
(* meanwhile.                                                              *)
RacingInitConf == OTHER_KEY :> v1

RacingRequests ==
    {SetEnabled(v2), WriteConf(STRONG_PASSWORD :> v2), Plain("Reset"),
     Plain("Backup"), Plain("ReadConfig"), Plain("GetEnabled")}

(* The file and the requests of the runs that look for one disagreement.   *)
SmallInitConf == STRONG_PASSWORD :> v1 @@ OTHER_KEY :> v1

BackupOnly == {Plain("Backup")}
TwoSetters == {SetLength(v2, v2), SetEnabled(v2)}
=============================================================================
