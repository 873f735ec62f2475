----------------------------- MODULE PwMonotone -----------------------------
(***************************************************************************)
(* is_monotone_character of lib/deepin_pw_check.c, one iteration of its    *)
(* loop per step.  It looks for runs of characters whose codes go up or    *)
(* down by one, and for runs along a row of the keyboard.                  *)
(*                                                                         *)
(* 0 is what get_adjacent_character answers for "none".                    *)
(***************************************************************************)
EXTENDS PwInput

CONSTANTS MonotoneNums,  \* the values of MONOTONE_CHARACTER_NUM
          Keyboard       \* the rows of keys: keyboard_character, in the runs

(* deepin_pw_check_by_conf calls the function only for positive values.    *)
ASSUME MonotoneNumsAssumption == MonotoneNums \subseteq Nat \ {0}
(* Every key has one place on the keyboard.                                *)
ASSUME KeyboardAssumption ==
    /\ Keyboard \in Seq(Seq(Char))
    /\ \A r, s \in DOMAIN Keyboard :
          \A j \in DOMAIN Keyboard[r], k \in DOMAIN Keyboard[s] :
             Keyboard[r][j] = Keyboard[s][k] => r = s /\ j = k

keyboard_character ==
    << <<33, 64, 35, 36, 37, 94, 38, 42, 40, 41, 95, 43>>,
       <<81, 87, 69, 82, 84, 89, 85, 73, 79, 80, 123, 125>>,
       <<65, 83, 68, 70, 71, 72, 74, 75, 76, 58, 34, 124>>,
       <<90, 88, 67, 86, 66, 78, 77, 60, 62, 63>>,
       <<113, 119, 101, 114, 116, 121, 117, 105, 111, 112, 91, 93>>,
       <<97, 115, 100, 102, 103, 104, 106, 107, 108, 59, 39, 92>>,
       <<122, 120, 99, 118, 98, 110, 109, 44, 46, 47>> >>

VARIABLES monotone_num,              \* the argument besides pw
          mon_i,                     \* i: pairs of neighbours looked at
          increase, decrease,        \* the four counters of the function
          kb_increase, kb_decrease,
          next, last,                \* filled in by get_adjacent_character
          mon_found,                 \* has the function returned true?
          mon_done                   \* has it returned?

counters == <<increase, decrease, kb_increase, kb_decrease>>
mon_vars == <<pw, monotone_num, mon_i, counters, next, last, mon_found,
              mon_done>>

(***************************************************************************)
(* get_adjacent_character: the keys to the right and to the left of c, 0   *)
(* at the end of a row.  For a character that has no key the variables of  *)
(* the caller keep what they hold.                                         *)
(***************************************************************************)
Keys == UNION {{Keyboard[r][j] : j \in DOMAIN Keyboard[r]} :
                 r \in DOMAIN Keyboard}

RightOf ==
    [c \in Keys |-> CHOOSE d \in Keys \cup {0} :
        \E r \in DOMAIN Keyboard : \E j \in DOMAIN Keyboard[r] :
           /\ Keyboard[r][j] = c
           /\ d = IF j < Len(Keyboard[r]) THEN Keyboard[r][j + 1] ELSE 0]

LeftOf ==
    [c \in Keys |-> CHOOSE d \in Keys \cup {0} :
        \E r \in DOMAIN Keyboard : \E j \in DOMAIN Keyboard[r] :
           /\ Keyboard[r][j] = c
           /\ d = IF j > 1 THEN Keyboard[r][j - 1] ELSE 0]

(* A row is left through its right end only.                               *)
get_adjacent_character_NoLast(c) ==
    /\ next' = IF c \in Keys THEN RightOf[c] ELSE next
    /\ last' = 0

get_adjacent_character(c) ==
    /\ next' = IF c \in Keys THEN RightOf[c] ELSE next
    /\ last' = IF c \in Keys THEN LeftOf[c] ELSE last

(***************************************************************************)
(* The loop                                                                *)
(***************************************************************************)
MonInit ==
    /\ pw \in Passwords
    /\ monotone_num \in MonotoneNums
    /\ mon_i = 0
    /\ increase = 1 /\ decrease = 1
    /\ kb_increase = 1 /\ kb_decrease = 1
    /\ next = 0 /\ last = 0
    /\ mon_found = FALSE
    /\ mon_done = FALSE

(* A pair of unrelated characters does not end the stretch.                *)
CountCodes_NoReset(c, d) ==
    IF c = d + 1
    THEN increase' = increase + 1 /\ UNCHANGED decrease
    ELSE IF c = d - 1
    THEN decrease' = decrease + 1 /\ UNCHANGED increase
    ELSE UNCHANGED <<increase, decrease>>

(* A step down counts as an increase and a step up as a decrease; neither  *)
(* starts the other counter anew.                                          *)
CountCodes(c, d) ==
    IF c = d + 1
    THEN increase' = increase + 1 /\ UNCHANGED decrease
    ELSE IF c = d - 1
    THEN decrease' = decrease + 1 /\ UNCHANGED increase
    ELSE increase' = 1 /\ decrease' = 1

(* At the right end of a row next is 0 and last is not looked at.          *)
CountKeys(d) ==
    IF next' # 0 /\ d = next'
    THEN kb_increase' = kb_increase + 1 /\ UNCHANGED kb_decrease
    ELSE IF next' # 0 /\ d = last'
    THEN kb_decrease' = kb_decrease + 1 /\ UNCHANGED kb_increase
    ELSE kb_increase' = 1 /\ kb_decrease' = 1

(* The pair pw[i], pw[i + 1] of the code is pw[mon_i + 1], pw[mon_i + 2].  *)
MonCompare ==
    /\ ~mon_done
    /\ mon_i < Len(pw) - 1
    /\ get_adjacent_character(pw[mon_i + 1])
    /\ CountCodes(pw[mon_i + 1], pw[mon_i + 2])
    /\ CountKeys(pw[mon_i + 2])
    /\ mon_found' = (\/ increase' >= monotone_num
                 \/ decrease' >= monotone_num
                 \/ kb_increase' >= monotone_num
                 \/ kb_decrease' >= monotone_num)
    /\ mon_done' = mon_found'
    /\ mon_i' = mon_i + 1
    /\ UNCHANGED <<pw, monotone_num>>

MonReturnFalse ==
    /\ ~mon_done
    /\ mon_i >= Len(pw) - 1
    /\ mon_done' = TRUE
    /\ UNCHANGED <<pw, monotone_num, mon_i, counters, next, last, mon_found>>

MonNext == MonCompare \/ MonReturnFalse

MonSpec == MonInit /\ [][MonNext]_mon_vars

(***************************************************************************)
(* Properties                                                              *)
(***************************************************************************)
MonTypeOK ==
    /\ pw \in Passwords
    /\ monotone_num \in MonotoneNums
    /\ mon_i \in Nat
    /\ {increase, decrease, kb_increase, kb_decrease} \subseteq Nat \ {0}
    /\ {next, last} \subseteq Char \cup {0}
    /\ mon_found \in BOOLEAN
    /\ mon_done \in BOOLEAN

(* The reference: the positions x such that from pw[x] to pw[x + 1] the    *)
(* code goes down or up by one, or the key is the next one to the right or *)
(* to the left.                                                            *)
Pairs == 1 .. Len(pw) - 1
DownSteps == {x \in Pairs : pw[x] = pw[x + 1] + 1}
UpSteps == {x \in Pairs : pw[x] = pw[x + 1] - 1}
RightSteps == {x \in Pairs : pw[x] \in Keys /\ pw[x + 1] = RightOf[pw[x]]}
LeftSteps == {x \in Pairs : pw[x] \in Keys /\ pw[x + 1] = LeftOf[pw[x]]}
Keyless == {x \in Pairs : pw[x] \notin Keys}
RowEnds == {x \in Pairs : pw[x] \in Keys /\ RightOf[pw[x]] = 0}

(* There are k characters in a row with only such steps between them.      *)
Run(steps, k) == \E at \in 1 .. Len(pw) : /\ at + k - 1 <= Len(pw)
                                         /\ at .. at + k - 2 \subseteq steps

(* A run of monotone_num or more characters, but for one to the left that  *)
(* starts on the last key of a row.                                        *)
MonotoneRun ==
    /\ Len(pw) >= 2
    /\ \/ Run(DownSteps, monotone_num)
       \/ Run(UpSteps, monotone_num)
       \/ Run(RightSteps, monotone_num)
       \/ Run(LeftSteps \ RowEnds, monotone_num)

(* A stretch of that many where each is next to the one before: the codes  *)
(* may go back and forth, and on the keyboard a character without a key    *)
(* passes.                                                                 *)
Neighbours == \/ Run(DownSteps \cup UpSteps, monotone_num)
              \/ Run(RightSteps \cup LeftSteps \cup Keyless, monotone_num)

(* Every such run is found, wherever it is in the password.                *)
RunsAreFound == mon_done /\ ~mon_found => ~MonotoneRun

(* What is reported is at least such a stretch.                            *)
ReportedAreNeighbours == mon_found => Neighbours
=============================================================================
