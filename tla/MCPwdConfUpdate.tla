-------------------------- MODULE MCPwdConfUpdate --------------------------
(***************************************************************************)
(* Instances of PwdConfUpdate for TLC.  Numbers and texts are those of the *)
(* code; new is what the setter sets, old what an administrator            *)
(* configured, bad a text that is not a boolean.                           *)
(***************************************************************************)
EXTENDS PwdConfUpdate, TLC

CONSTANTS l1, l2, new, old, bad

MCVal == {0, 1, 2, 3, 4, 6, 8, 510, 512}
         \cup {Yes, No, DefaultPolicy, NoText, new, old, bad, Garbage}

(* One of the keys that only the library knows; three of the rules besides. *)
OneStandard == {"PASSWORD_LENGTH_STANDARD_HIGH"}
SomeRules == OneStandard \cup {"PALINDROME_NUM", "WORD_CHECK", DICT_PATH}

(* A server; a system of each kind, and those the tool gives up on.        *)
Build(text) == "OsBuild" :> text
ServerOnly == {Build(<<"1", "2", "0", "1">>)}
Systems == {NoFile, Broken, Empty} \cup
           {Build(b) : b \in {<<"1", "1", "0", "1">>, <<"1", "2", "0", "1">>,
                              <<"1", "2", "0", "3">>, <<"1", "3", "0", "3">>,
                              <<"1", "4", "0", "1">>, <<"1", "2">>}}

NoSetter == Empty
SetsLength == PASSWORD_MIN_LENGTH :> new

(* Every readable, unreadable or missing entry of a switch and of a        *)
(* number, with and without others.                                       *)
AdminConfs ==
    {s @@ n @@ t @@ p : s \in {STRONG_PASSWORD :> v : v \in {Yes, No, bad}} \cup {Empty},
                        n \in {PASSWORD_MIN_LENGTH :> v : v \in {old, bad}} \cup {Empty},
                        t \in {VALIDATE_POLICY :> old, Empty},
                        p \in {"PALINDROME_NUM" :> old,
                              "PASSWORD_LENGTH_STANDARD_HIGH" :> old, Empty}}
AnyContents == AdminConfs \cup {NoFile, Broken}

(* Nothing, or an installed file with a policy and a switch of its own.    *)
RaceContents == {NoFile, VALIDATE_POLICY :> old @@ STRONG_PASSWORD :> bad}

MissingOnly == {NoFile}
=============================================================================
