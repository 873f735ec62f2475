---------------------------- MODULE PwPolicyLine ----------------------------
(***************************************************************************)
(* How VALIDATE_POLICY travels through dde.conf.  The value contains ";",  *)
(* "#" and quotes, which mean something to iniparser, so the library and   *)
(* the upgrade tool each read its line themselves (get_validate_policy),   *)
(* and the tool writes it back without quotes.  Lines are what follows "=" *)
(* up to the newline, and at most as long as the buffer that fgets fills.  *)
(***************************************************************************)
EXTENDS PwTypes

Space == 32
Quote == 34

(* The first position of s from which on no c comes next.                  *)
Skip(s, from, c) ==
    CHOOSE x \in from .. Len(s) + 1 :
        /\ \A y \in from .. x - 1 : s[y] = c
        /\ x \in DOMAIN s => s[x] # c

(* A closing quote is taken off whether or not there was an opening one.   *)
get_validate_policy_AnyQuote(line) ==
    LET unspaced == Skip(line, 1, Space)
        start == Skip(line, unspaced, Quote)
        sub == IF line # <<>> /\ line[Len(line)] = Quote THEN 1 ELSE 0
    IN  SubSeq(line, start, Len(line) - sub)

(* Spaces, then quotes are skipped; after quotes one closing quote goes.   *)
get_validate_policy(line) ==
    LET unspaced == Skip(line, 1, Space)
        start == Skip(line, unspaced, Quote)
        sub == IF unspaced < start /\ line[Len(line)] = Quote THEN 1 ELSE 0
    IN  SubSeq(line, start, Len(line) - sub)

(* sprintf(..., "VALIDATE_POLICY = %s\n", ...) of update_conf.             *)
ToolLine(value) == <<Space>> \o value

(* What an administrator may write.                                        *)
QuotedLine(value) == <<Space, Quote>> \o value \o <<Quote>>

(***************************************************************************)
(* Properties                                                              *)
(***************************************************************************)
(* The texts that a line changes.  Leading spaces and quotes cannot be     *)
(* said, and nothing between quotes is outside what the function handles:  *)
(* it would copy -1 characters.                                            *)
Garbled ==
    {value \in CharacterTypes \cup Passwords :
        /\ value # <<>> /\ value[1] \notin {Space, Quote}
        /\ \/ get_validate_policy(QuotedLine(value)) # value
           \/ get_validate_policy(ToolLine(value)) # value
           \/ get_validate_policy(
                  ToolLine(get_validate_policy(QuotedLine(value)))) # value}

(* The policy of the check means the same with and without quotes, and     *)
(* still does after the tool has rewritten it, whatever quotes it has      *)
(* inside or at its end.  So would one that reads like the password.       *)
PolicyLinesAreExact == {character_type, pw} \cap Garbled = {}
=============================================================================
