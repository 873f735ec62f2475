------------------------------ MODULE PwInput ------------------------------
(***************************************************************************)
(* The password that deepin_pw_check looks at: a C string, that is a       *)
(* sequence of (signed) characters, none of which is the terminator 0.     *)
(***************************************************************************)
EXTENDS Integers, Sequences

CONSTANT Passwords    \* the passwords looked at

Char == (-128 .. 127) \ {0}

ASSUME PasswordsAssumption == Passwords \subseteq Seq(Char)

VARIABLE pw
=============================================================================
