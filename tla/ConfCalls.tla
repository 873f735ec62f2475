----------------------------- MODULE ConfCalls -----------------------------
(***************************************************************************)
(* The method calls of org.deepin.dde.PasswdConf1 as data: what a client   *)
(* asks, which file the method starts from and which it changes, what the  *)
(* file should hold afterwards, and what the client gets.                  *)
(***************************************************************************)
EXTENDS PwConf

conf == "conf"  \* pwdConfFile
bak  == "bak"   \* pwdConfBackupFile
Path == {conf, bak}

SetterKeys ==
    [SetLengthLimit      |-> {PASSWORD_MIN_LENGTH, PASSWORD_MAX_LENGTH},
     SetValidatePolicy   |-> {VALIDATE_POLICY},
     SetValidateRequired |-> {VALIDATE_REQUIRED},
     SetEnabled          |-> {STRONG_PASSWORD},
     SetFirstLetterUpper |-> {FIRST_LETTER_UPPERCASE}]

GetterKeys ==
    [GetLengthLimit      |-> {PASSWORD_MIN_LENGTH, PASSWORD_MAX_LENGTH},
     GetValidatePolicy   |-> {VALIDATE_POLICY},
     GetValidateRequired |-> {VALIDATE_REQUIRED},
     GetEnabled          |-> {STRONG_PASSWORD},
     GetFirstLetterUpper |-> {FIRST_LETTER_UPPERCASE}]

Setter == DOMAIN SetterKeys
Getter == DOMAIN GetterKeys
Copier == {"Reset", "Backup"}

(* arg is what the caller passes: the new entries of a setter, the whole   *)
(* file of WriteConfig (which need not be INI), nothing for the others.    *)
Request ==
    (UNION {[op : {o}, arg : [SetterKeys[o] -> Val]] : o \in Setter})
    \cup [op : {"WriteConfig"}, arg : Conf \cup {Broken}]
    \cup [op : Getter \cup Copier \cup {"ReadConfig"}, arg : {Empty}]

NoReply == [status |-> "none", data |-> Empty]
Ok(data) == [status |-> "ok", data |-> data]
Error == [status |-> "error", data |-> Empty]
Lost == [status |-> "lost", data |-> Empty]

(* Every method ends the way those two do.                                 *)
SaveFailed_Swallowed(op) == Ok(Empty)

(* Reset and Backup end in "return dbusutil.ToError(nil)": they report     *)
(* success whatever SaveToFile returned.  The others report its error.     *)
SaveFailed(op) == IF op \in Copier THEN Ok(Empty) ELSE Error

Source(op) == IF op = "Reset" THEN bak ELSE conf
Target(op) == IF op = "Backup" THEN bak ELSE conf

(* What a call should turn its target file into, given what both files     *)
(* hold.                                                                   *)
Effect(files, r) ==
    CASE r.op \in Setter       -> Override(files[conf], r.arg)
      [] r.op \in Copier       -> files[Source(r.op)]
      [] r.op = "WriteConfig"  -> r.arg
=============================================================================
