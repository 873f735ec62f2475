------------------------------ MODULE PwTypes ------------------------------
(***************************************************************************)
(* The character types of a password, is_type_valid of                     *)
(* lib/deepin_pw_check.c, one group of VALIDATE_POLICY per step.  The      *)
(* policy lists groups of characters, split at ";" by strtok; since ";" is *)
(* itself a symbol, a group of symbols may come in two pieces.             *)
(***************************************************************************)
EXTENDS PwInput, FiniteSetsExt, Functions

CONSTANTS CharacterTypes, \* the values of VALIDATE_POLICY
          Requirements    \* the values of VALIDATE_REQUIRED

ASSUME CharacterTypesAssumption == CharacterTypes \subseteq Seq(Char)
ASSUME RequirementsAssumption == Requirements \subseteq Int

VARIABLES character_type, character_num_required, \* arguments besides pw
          at,             \* characters of the policy strtok is done with
          pass,           \* groups that pw has a character of
          all_character,  \* the characters of the groups so far
          typ_ret         \* what is_type_valid returned, or "none"

typ_vars == <<pw, character_type, character_num_required, at, pass,
              all_character, typ_ret>>

Separator == 59
Symbols == 33 .. 47 \cup 58 .. 64 \cup 91 .. 96 \cup 123 .. 126

(* Two neighbours with the high bit set, the terminator included.          *)
include_chinese == \E x \in 1 .. Len(pw) - 1 : pw[x] < 0 /\ pw[x + 1] < 0

(***************************************************************************)
(* strtok when it has consumed the first n characters: the token starts at *)
(* the next character that is no separator and lasts until the next        *)
(* separator, which is consumed as well.                                   *)
(***************************************************************************)
Starts(n) == {x \in n + 1 .. Len(character_type) :
                character_type[x] # Separator}

TokenStart(n) == Min(Starts(n))

TokenEnd(n) == Max({y \in TokenStart(n) .. Len(character_type) :
                       TokenStart(n) .. y \subseteq Starts(n)})

Token(n) == {character_type[x] : x \in TokenStart(n) .. TokenEnd(n)}

After(n) == Min({TokenEnd(n) + 1, Len(character_type)})

(* The token starts with a symbol and a symbol follows the separator: the  *)
(* next token belongs to the same group, and so does the separator.        *)
Joins(n) ==
    /\ character_type[TokenStart(n)] \in Symbols
    /\ TokenEnd(n) + 2 <= Len(character_type)
    /\ character_type[TokenEnd(n) + 2] \in Symbols
    /\ Starts(After(n)) # {}

Group(n) == Token(n) \cup IF Joins(n) THEN {Separator} \cup Token(After(n))
                                      ELSE {}

TypInit ==
    /\ pw \in Passwords
    /\ character_type \in CharacterTypes
    /\ character_num_required \in Requirements
    /\ at = 0
    /\ pass = 0
    /\ all_character = {}
    /\ typ_ret = "none"

FindChinese ==
    /\ typ_ret = "none"
    /\ include_chinese
    /\ typ_ret' = "PW_ERR_CHARACTER_INVALID"
    /\ UNCHANGED <<pw, character_type, character_num_required, at, pass,
                   all_character>>

(* The second piece of a group is read again as a group of its own.        *)
NextGroup_ReadsTwice ==
    /\ typ_ret = "none"
    /\ ~include_chinese
    /\ Starts(at) # {}
    /\ all_character' = all_character \cup Group(at)
    /\ pass' = IF Range(pw) \cap Group(at) # {} THEN pass + 1 ELSE pass
    /\ at' = After(at)
    /\ UNCHANGED <<pw, character_type, character_num_required, typ_ret>>

NextGroup ==
    /\ typ_ret = "none"
    /\ ~include_chinese
    /\ Starts(at) # {}
    /\ all_character' = all_character \cup Group(at)
    /\ pass' = IF Range(pw) \cap Group(at) # {} THEN pass + 1 ELSE pass
    /\ at' = IF Joins(at) THEN After(After(at)) ELSE After(at)
    /\ UNCHANGED <<pw, character_type, character_num_required, typ_ret>>

Finish ==
    /\ typ_ret = "none"
    /\ ~include_chinese
    /\ Starts(at) = {}
    /\ typ_ret' = IF ~(Range(pw) \subseteq all_character)
                  THEN "PW_ERR_CHARACTER_INVALID"
                  ELSE IF pass < character_num_required
                  THEN "PW_ERR_CHARACTER_TYPE_TOO_FEW"
                  ELSE "PW_NO_ERR"
    /\ UNCHANGED <<pw, character_type, character_num_required, at, pass,
                   all_character>>

TypNext == FindChinese \/ NextGroup \/ Finish

TypSpec == TypInit /\ [][TypNext]_typ_vars

(***************************************************************************)
(* Properties                                                              *)
(***************************************************************************)
TypTypeOK ==
    /\ pw \in Passwords
    /\ character_type \in CharacterTypes
    /\ character_num_required \in Requirements
    /\ at \in 0 .. Len(character_type)
    /\ pass \in 0 .. at
    /\ all_character \subseteq Range(character_type)
    /\ typ_ret \in {"none", "PW_NO_ERR", "PW_ERR_CHARACTER_INVALID",
                    "PW_ERR_CHARACTER_TYPE_TOO_FEW"}

(* The reference, for a policy of the documented form: tokens of symbols   *)
(* only or of other characters only, none of them empty, and no class of   *)
(* symbols in more than two pieces.  A separator between symbols is a      *)
(* character of their class, any other one ends a class.                   *)
Inner == {x \in 2 .. Len(character_type) - 1 :
             /\ character_type[x] = Separator
             /\ {character_type[x - 1], character_type[x + 1]}
                   \subseteq Symbols \ {Separator}}

Breaks == {x \in DOMAIN character_type : character_type[x] = Separator} \ Inner

ClassAt(x) == {y \in DOMAIN character_type :
                 \A z \in Breaks : z < x <=> z < y} \ Breaks

Classes == {ClassAt(x) : x \in DOMAIN character_type \ Breaks}

WellFormed ==
    /\ \A x \in 1 .. Len(character_type) - 1 :
          LET pair == {character_type[x], character_type[x + 1]} IN
          Separator \in pair \/ pair \subseteq Symbols \/ pair \cap Symbols = {}
    /\ \A x \in 1 .. Len(character_type) - 1 :
          ~(character_type[x] = Separator /\ character_type[x + 1] = Separator)
    /\ \A x, y \in Inner : x < y => \E z \in Breaks : x < z /\ z < y

Listed == {character_type[x] : x \in UNION Classes}

TypesUsed == {class \in Classes : \E x \in class : character_type[x] \in Range(pw)}

(* A password is accepted exactly when every character belongs to a class  *)
(* and enough classes are used; a class in two pieces counts once.         *)
TypesAreCounted ==
    typ_ret # "none" /\ WellFormed =>
        /\ typ_ret = "PW_ERR_CHARACTER_INVALID" <=>
              include_chinese \/ ~(Range(pw) \subseteq Listed)
        /\ typ_ret = "PW_NO_ERR" =>
              Cardinality(TypesUsed) >= character_num_required
        /\ typ_ret = "PW_ERR_CHARACTER_TYPE_TOO_FEW" =>
              Cardinality(TypesUsed) < character_num_required
=============================================================================
