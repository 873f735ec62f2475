----------------------------- MODULE PwStrength -----------------------------
(***************************************************************************)
(* get_new_passwd_strength_level_by_conf of lib/deepin_pw_check.c: how     *)
(* strong a password is, from its length and from how many of four classes *)
(* of characters it uses.  dde.conf may set the numbers that this is       *)
(* measured against, in any order.                                         *)
(***************************************************************************)
EXTENDS PwInput, FiniteSets, Functions

CONSTANT Standards    \* the values of the four numbers in dde.conf

ASSUME StandardsAssumption ==
    Standards \subseteq [length_high : Int, length_middle : Int,
                         type_high : Int, type_middle : Int]

(* What a configuration that does not mention them means.                  *)
DefaultStandard == [length_high |-> 8, length_middle |-> 6,
                    type_high |-> 3, type_middle |-> 2]

Lower == 97 .. 122
Upper == 65 .. 90
Number == 48 .. 57
Character == Char \ (Lower \cup Upper \cup Number)

StrengthClasses == {Lower, Upper, Number, Character}

type(s) == Cardinality({class \in StrengthClasses : class \cap Range(s) # {}})

(* Levels: 0 ERROR, 1 LOW, 2 MIDDLE, 3 HIGH.                               *)

(* Exactly the configured number of types is asked for.                    *)
Level_ExactTypes(s, st) ==
    CASE Len(s) >= st.length_high /\ type(s) >= st.type_high -> 3
      [] ~(Len(s) >= st.length_high /\ type(s) >= st.type_high)
         /\ Len(s) >= st.length_middle /\ type(s) = st.type_middle -> 2
      [] OTHER -> 1

Level(s, st) ==
    CASE Len(s) >= st.length_high /\ type(s) >= st.type_high -> 3
      [] ~(Len(s) >= st.length_high /\ type(s) >= st.type_high)
         /\ Len(s) >= st.length_middle /\ type(s) >= st.type_middle -> 2
      [] OTHER -> 1

get_new_passwd_strength_level(s, st, loads) == IF loads THEN Level(s, st) ELSE 0

(***************************************************************************)
(* Properties                                                              *)
(***************************************************************************)
(* The standard rates s below something that it starts with.               *)
Drops(s, st) == \E n \in 0 .. Len(s) : Level(SubSeq(s, 1, n), st) > Level(s, st)

Weakened ==
    {rated[1] : rated \in {x \in Passwords \X Standards : Drops(x[1], x[2])}}

(* Typing on never makes a password weaker: wherever the numbers in        *)
(* dde.conf put the levels, that of the password is not below those that   *)
(* were shown while it was typed.                                          *)
StrengthNeverDrops == pw \notin Weakened
=============================================================================
