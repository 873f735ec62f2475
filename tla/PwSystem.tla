------------------------------ MODULE PwSystem ------------------------------
(***************************************************************************)
(* What a missing entry of dde.conf means.  The check library has one      *)
(* default for each key (load_pwd_conf of lib/deepin_pw_check.c).  The     *)
(* upgrade tool has a table of its own, with a row for each kind of        *)
(* operating system, and reads /etc/os-version to choose the row           *)
(* (get_current_os_type and default_conf of tool/pwd_conf_update.c).       *)
(*                                                                         *)
(* /etc/os-version is an INI file of which only the entry OsBuild matters: *)
(* NoFile, Broken, or a function with or without OsBuild, a sequence of    *)
(* characters.                                                             *)
(***************************************************************************)
EXTENDS PwConf, Sequences

CONSTANTS Yes, No,        \* the texts "true" and "false"
          DefaultPolicy,  \* the four groups of validate_policy
          NoText          \* the text ""

(* The keys that the service does not name: those of the tool, and the     *)
(* four that only the library knows.                                       *)
RuleKeys == {"PALINDROME_NUM", "WORD_CHECK", "MONOTONE_CHARACTER_NUM",
             "CONSECUTIVE_SAME_CHARACTER_NUM"}
DICT_PATH == "DICT_PATH"
Standard == [PASSWORD_LENGTH_STANDARD_HIGH |-> 8,
             PASSWORD_LENGTH_STANDARD_MIDDLE |-> 6,
             PASSWORD_CHARACTER_TYPE_NUM_HIGH |-> 3,
             PASSWORD_CHARACTER_TYPE_NUM_MIDDLE |-> 2]
StrengthKeys == DOMAIN Standard

ASSUME KeyAssumption == OtherKeys \subseteq RuleKeys \cup {DICT_PATH} \cup StrengthKeys
ASSUME ValAssumption == /\ Yes # No /\ {Yes, No} \subseteq Val \ Malformed
                        /\ {DefaultPolicy, NoText} \subseteq Val
                        /\ {0, 1, 2, 3, 4, 6, 8, 510, 512} \subseteq Val \ Malformed

ToolKeys == Key \ StrengthKeys
BoolKeys == {STRONG_PASSWORD, FIRST_LETTER_UPPERCASE}
TextKeys == {VALIDATE_POLICY, DICT_PATH}

(* What iniparser makes of the text v of the entry k: a number of a text   *)
(* that is none is 0, a switch is what the caller passes for that case.    *)
AsRead(k, v, unreadable) ==
    IF v \notin Malformed \/ k \in TextKeys THEN v
    ELSE IF k \in BoolKeys THEN unreadable ELSE 0

LibDefault ==
    [k \in Key |-> CASE k = STRONG_PASSWORD -> Yes
                     [] k = FIRST_LETTER_UPPERCASE -> No
                     [] k = PASSWORD_MIN_LENGTH -> 1
                     [] k = PASSWORD_MAX_LENGTH -> 512
                     [] k = VALIDATE_POLICY -> DefaultPolicy
                     [] k = VALIDATE_REQUIRED -> 1
                     [] k = DICT_PATH -> NoText
                     [] k \in StrengthKeys -> Standard[k]
                     [] OTHER -> 0]

(***************************************************************************)
(* The operating system                                                    *)
(***************************************************************************)
BuildChar == {"0", "1", "2", "3", "4", "5", "6", "7", "8", "9", "."}

(* "11018.100", as far as it is looked at.                                 *)
DefaultBuild == <<"1", "1", "0", "1">>

OsBuild(version) == IF "OsBuild" \in DOMAIN version THEN version["OsBuild"]
                                                    ELSE DefaultBuild

(* A file that cannot be parsed is taken for a missing one.                *)
get_current_os_type_BrokenIsMissing(version) ==
    CASE version \in {NoFile, Broken} -> "OS_PROFESSIONAL"
      [] Len(OsBuild(version)) < 4 -> "OS_UNKNOWN_TYPE"
      [] OsBuild(version)[2] = "1" -> "OS_PROFESSIONAL"
      [] OsBuild(version)[2] = "2" /\ OsBuild(version)[4] = "3" -> "OS_EULER"
      [] OsBuild(version)[2] \in {"2", "3"} -> "OS_SERVER"
      [] OTHER -> "OS_UNKNOWN_TYPE"

get_current_os_type(version) ==
    CASE version = NoFile -> "OS_PROFESSIONAL"
      [] version = Broken -> "OS_UNEXPECTED_ERR"
      [] Loads(version) /\ Len(OsBuild(version)) < 4 -> "OS_UNKNOWN_TYPE"
      [] OTHER -> LET build == OsBuild(version) IN
                  CASE build[2] = "1" -> "OS_PROFESSIONAL"
                    [] build[2] = "2" /\ build[4] = "3" -> "OS_EULER"
                    [] build[2] = "2" /\ build[4] # "3" -> "OS_SERVER"
                    [] build[2] = "3" -> "OS_SERVER"
                    [] OTHER -> "OS_UNKNOWN_TYPE"

(* main goes on unless the type is one of these.                           *)
Known(type) == type \notin {"OS_UNEXPECTED_ERR", "OS_UNKNOWN_TYPE"}

(* The rows of the table.  The two of the servers are equal, and so are    *)
(* the other three; OS_E and OS_HOME are never chosen.                     *)
Servers == {"OS_SERVER", "OS_EULER"}
Row(strict) ==
    [k \in ToolKeys |-> CASE k = STRONG_PASSWORD -> Yes
                          [] k = FIRST_LETTER_UPPERCASE -> No
                          [] k = PASSWORD_MIN_LENGTH -> IF strict THEN 8 ELSE 1
                          [] k = PASSWORD_MAX_LENGTH -> 510
                          [] k = VALIDATE_POLICY -> DefaultPolicy
                          [] k = VALIDATE_REQUIRED -> IF strict THEN 3 ELSE 1
                          [] k = "PALINDROME_NUM" -> IF strict THEN 4 ELSE 0
                          [] k = "WORD_CHECK" -> IF strict THEN 1 ELSE 0
                          [] k = DICT_PATH -> NoText
                          [] OTHER -> IF strict THEN 3 ELSE 0]

(* The server's row leaves out a number, which C initialises with 0.       *)
default_conf_LeftOut ==
    [type \in {"OS_PROFESSIONAL", "OS_SERVER", "OS_EULER", "OS_E", "OS_HOME"} |->
        IF type = "OS_SERVER" THEN [Row(TRUE) EXCEPT ![PASSWORD_MIN_LENGTH] = 0]
                              ELSE Row(type \in Servers)]

default_conf ==
    [type \in {"OS_PROFESSIONAL", "OS_SERVER", "OS_EULER", "OS_E", "OS_HOME"} |->
        Row(type \in Servers)]
=============================================================================
