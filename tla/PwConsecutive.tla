--------------------------- MODULE PwConsecutive ---------------------------
(***************************************************************************)
(* is_consecutive_same_character of lib/deepin_pw_check.c, one iteration   *)
(* of its loop per step.                                                   *)
(***************************************************************************)
EXTENDS PwInput

CONSTANT ConsecutiveNums    \* the values of CONSECUTIVE_SAME_CHARACTER_NUM

(* deepin_pw_check_by_conf calls the function only for positive values.    *)
ASSUME ConsecutiveNumsAssumption == ConsecutiveNums \subseteq Nat \ {0}

VARIABLES consecutive_num,        \* the argument besides pw
          con_i,                  \* i: pairs of neighbours looked at
          consecutive_same_num,
          con_found,              \* has the function returned true?
          con_done                \* has it returned?

con_vars == <<pw, consecutive_num, con_i, consecutive_same_num, con_found,
              con_done>>

ConInit ==
    /\ pw \in Passwords
    /\ consecutive_num \in ConsecutiveNums
    /\ con_i = 0
    /\ consecutive_same_num = 1
    /\ con_found = FALSE
    /\ con_done = FALSE

(* A run of n characters is reported when it reaches n + 1.                *)
ConCompare_MoreThan ==
    /\ ~con_done
    /\ con_i < Len(pw) - 1
    /\ consecutive_same_num' = IF pw[con_i + 1] = pw[con_i + 2]
                               THEN consecutive_same_num + 1 ELSE 1
    /\ con_found' = (consecutive_same_num' > consecutive_num)
    /\ con_done' = con_found'
    /\ con_i' = con_i + 1
    /\ UNCHANGED <<pw, consecutive_num>>

(* The pair pw[i], pw[i + 1] of the code is pw[con_i + 1], pw[con_i + 2].  *)
ConCompare ==
    /\ ~con_done
    /\ con_i < Len(pw) - 1
    /\ consecutive_same_num' = IF pw[con_i + 1] = pw[con_i + 2]
                               THEN consecutive_same_num + 1 ELSE 1
    /\ con_found' = (consecutive_same_num' >= consecutive_num)
    /\ con_done' = con_found'
    /\ con_i' = con_i + 1
    /\ UNCHANGED <<pw, consecutive_num>>

ConReturnFalse ==
    /\ ~con_done
    /\ con_i >= Len(pw) - 1
    /\ con_done' = TRUE
    /\ UNCHANGED <<pw, consecutive_num, con_i, consecutive_same_num,
                   con_found>>

ConNext == ConCompare \/ ConReturnFalse

ConSpec == ConInit /\ [][ConNext]_con_vars

(***************************************************************************)
(* Properties                                                              *)
(***************************************************************************)
ConTypeOK ==
    /\ pw \in Passwords
    /\ consecutive_num \in ConsecutiveNums
    /\ con_i \in Nat
    /\ consecutive_same_num \in Nat \ {0}
    /\ con_found \in BOOLEAN
    /\ con_done \in BOOLEAN

(* The reference: k equal characters, the first of them at position at.    *)
SameFrom(at, k) == /\ at + k - 1 <= Len(pw)
                   /\ \A x \in at .. at + k - 1 : pw[x] = pw[at]

SameInARow == \E at \in 1 .. Len(pw) :
                 Len(pw) >= 2 /\ SameFrom(at, consecutive_num)

(* The function returns true exactly for passwords with consecutive_num    *)
(* equal characters in a row, longer runs and runs at either end included. *)
(* A single character is never reported.                                   *)
ExactRuns == con_done => (con_found <=> SameInARow)
=============================================================================
