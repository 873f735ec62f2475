----------------------------- MODULE MCPwCallers -----------------------------
(***************************************************************************)
(* Instances of PwCallers for TLC: a strict configuration, a file with a   *)
(* minimum and no maximum, and one that turns the rules off.  With lengths *)
(* of 0, 9 and 600 every verdict about the length occurs.                  *)
(***************************************************************************)
EXTENDS PwCallers, TLC

MCConfs ==
    {[k \in Numbers |-> CASE k = "STRONG_PASSWORD" -> 1
                          [] k = "PASSWORD_MIN_LENGTH" -> 8
                          [] k = "PASSWORD_MAX_LENGTH" -> 10
                          [] k = "VALIDATE_REQUIRED" -> 3
                          [] k = "PALINDROME_NUM" -> 4],
     [k \in {"PASSWORD_MIN_LENGTH"} |-> 12],
     [k \in {"STRONG_PASSWORD"} |-> 0]}

Symmetric == Permutations(Threads)
=============================================================================
