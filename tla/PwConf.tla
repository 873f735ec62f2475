------------------------------- MODULE PwConf -------------------------------
(***************************************************************************)
(* The configuration file of deepin-pw-check, /etc/deepin/dde.conf, as its *)
(* three users see it: the D-Bus service (Go keyfile), the check library   *)
(* and pwd-conf-update (both iniparser).                                   *)
(*                                                                         *)
(* What a file holds is abstracted to the entries of its [Password]        *)
(* section, a partial function from keys to values, or one of two contents *)
(* that neither parser accepts: NoFile (the path does not exist) and       *)
(* Broken (bytes that are not INI).  A file of zero bytes parses, as the   *)
(* configuration without any key.                                          *)
(***************************************************************************)
EXTENDS Naturals, FiniteSets

CONSTANTS OtherKeys,  \* keys of the file that the service never names
          Val,        \* what a key can be set to
          Malformed,  \* the values that GetInt and GetBool refuse
          NoFile,     \* the content of a path that does not exist
          Broken      \* the content that is not INI

(* The keys service.go names (lines 28-35).                                *)
STRONG_PASSWORD        == "STRONG_PASSWORD"
PASSWORD_MIN_LENGTH    == "PASSWORD_MIN_LENGTH"
PASSWORD_MAX_LENGTH    == "PASSWORD_MAX_LENGTH"
VALIDATE_POLICY        == "VALIDATE_POLICY"
VALIDATE_REQUIRED      == "VALIDATE_REQUIRED"
FIRST_LETTER_UPPERCASE == "FIRST_LETTER_UPPERCASE"

ServiceKeys == {STRONG_PASSWORD, PASSWORD_MIN_LENGTH, PASSWORD_MAX_LENGTH,
                VALIDATE_POLICY, VALIDATE_REQUIRED, FIRST_LETTER_UPPERCASE}

Key == ServiceKeys \cup OtherKeys

(* The contents that parse.                                                *)
Conf == UNION {[K -> Val] : K \in SUBSET Key}

Content == Conf \cup {NoFile, Broken}

(* Membership in Conf and Content, without listing them.                   *)
IsConf(c) == \E K \in SUBSET Key : c \in [K -> Val]
IsContent(c) == c \in {NoFile, Broken} \/ IsConf(c)

ASSUME ContentAssumption == NoFile # Broken /\ ~IsConf(NoFile) /\ ~IsConf(Broken)

ASSUME MalformedAssumption == Malformed \subseteq Val

(* What open(..., O_TRUNC) leaves: a file without a byte.                  *)
Empty == [k \in {} |-> NoFile]

(* LoadFromFile and iniparser_load succeed exactly on these.               *)
Loads(content) == content \notin {NoFile, Broken}

(* SetInt, SetString and SetBool on a loaded file: new entries replace old *)
(* ones, every other entry stays.                                          *)
Override(conf, new) ==
    [k \in DOMAIN conf \cup DOMAIN new |->
        IF k \in DOMAIN new THEN new[k] ELSE conf[k]]

(* GetInt and GetBool refuse a malformed value, GetString takes any.       *)
Reads(conf, k) == /\ k \in DOMAIN conf
                  /\ k = VALIDATE_POLICY \/ conf[k] \notin Malformed

(* One write(2) of new at offset 0 of a file that the writer truncated     *)
(* earlier.  If nobody wrote in between, the file is new.  If somebody     *)
(* did, the bytes of old beyond the length of new are still there: nothing *)
(* (old was not longer), entries of old that parse and come later in the   *)
(* file, so win, or a torn line that makes the file Broken.                *)
Overlay(old, new) ==
    IF old = Empty THEN {new}
    ELSE {new, Broken} \cup
         IF old \in {NoFile, Broken} THEN {}
         ELSE {Override(new, [k \in S |-> old[k]]) : S \in SUBSET DOMAIN old}
=============================================================================
