----------------------------- MODULE PwLibrary -----------------------------
(***************************************************************************)
(* libdeepin_pw_check as its callers see it: the check of a password and,  *)
(* beside it, how strong the password is, what its stored hash says and    *)
(* how the policy it was checked with got out of dde.conf.  Nothing here   *)
(* takes a step of its own; what is stated relates the parts.              *)
(***************************************************************************)
EXTENDS PwCheck, PwStrength, PwHash, PwPolicyLine

(* The check counts the types of a password by the groups of the policy,   *)
(* the strength by four fixed classes.  Every group is within one class    *)
(* and no two are within the same.                                         *)
Values(group) == {character_type[x] : x \in group}

PolicyRefinesClasses ==
    /\ \A group \in Classes :
          \E class \in StrengthClasses : Values(group) \subseteq class
    /\ \A g, h \in Classes : \A class \in StrengthClasses :
          Values(g) \cup Values(h) \subseteq class => g = h

(* With such a policy the two agree: where dde.conf demands the length and *)
(* the types of a strong password, as a server's does, no password that is *)
(* accepted is then shown to the user as a weak one.                       *)
AcceptedIsStrong ==
    rule = "returned" /\ ret = "PW_NO_ERR" /\ On("STRONG_PASSWORD")
    /\ WellFormed /\ PolicyRefinesClasses =>
        \A st \in Standards :
            /\ options.min_len >= st.length_high
               /\ character_num_required >= st.type_high
                 => Level(pw, st) = 3
            /\ options.min_len >= st.length_middle
               /\ character_num_required >= st.type_middle
                 => Level(pw, st) >= 2
=============================================================================
