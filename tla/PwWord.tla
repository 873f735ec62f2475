------------------------------- MODULE PwWord -------------------------------
(***************************************************************************)
(* word_check of lib/word_check.c: is the password, or one of the texts    *)
(* that undoing a disguise makes of it, in cracklib's dictionary?  The     *)
(* table r_destructors lists the disguises, one rule of cracklib's Mangle  *)
(* per line.  Opening and searching the dictionary is cracklib's.          *)
(***************************************************************************)
EXTENDS PwInput, FiniteSets, Functions

CONSTANTS Dictionaries,          \* the words of each one that can be opened
          DefaultCracklibDict    \* its path when none is given

ASSUME DictionariesAssumption ==
    \A path \in DOMAIN Dictionaries : Dictionaries[path] \subseteq Seq(Char)

(* The character classes p, s and X of cracklib's rules.                   *)
Punctuation == {33, 34, 39, 44, 46, 58, 59, 63, 96}
OtherSymbols == {35, 36, 37, 38, 40, 41, 42, 43, 45, 47, 61, 64, 91, 92, 93,
                 94, 95, 123, 124, 125, 126}
Alphanumeric == 48 .. 57 \cup 65 .. 90 \cup 97 .. 122

(* $s 0o 2a 3e 5s 1i 1l 4a 4h: a character and the letter it stands for.   *)
LookAlikes == { <<36, 115>>, <<48, 111>>, <<50, 97>>, <<51, 101>>,
                <<53, 115>>, <<49, 105>>, <<49, 108>>, <<52, 97>>, <<52, 104>> }

(* ":", "[" to "[[[" and "]" to "]]]": up to three characters less.        *)
Trimmed(s) == {SubSeq(s, n + 1, Len(s)) : n \in 0 .. 3}
              \cup {SubSeq(s, 1, Len(s) - n) : n \in 0 .. 3}

(* "/?p@?p", "/?s@?s", "/?X@?X": no characters of a class.                 *)
Without(s, class) == LET Keep(c) == c \notin class IN SelectSeq(s, Keep)

Purged(s) == {Without(s, Punctuation), Without(s, OtherSymbols),
              Without(s, Char \ Alphanumeric)}

(* The other 287 lines name every combination of look-alikes, with one     *)
(* letter for each; a rule applies if the password has all of them.        *)
Combinations(s) ==
    {r \in SUBSET {p \in LookAlikes : p[1] \in Range(s)} :
        r # {} /\ \A p, q \in r : p[1] = q[1] => p = q}

Replace(s, r) ==
    [x \in DOMAIN s |-> IF \E p \in r : p[1] = s[x]
                        THEN (CHOOSE p \in r : p[1] = s[x])[2] ELSE s[x]]

(* Only one look-alike is undone at a time.                                *)
Mangled_OneAtATime(s) ==
    Trimmed(s) \cup Purged(s)
    \cup {Replace(s, r) : r \in {q \in Combinations(s) : Cardinality(q) = 1}}

Mangled(s) ==
    Trimmed(s) \cup Purged(s) \cup {Replace(s, r) : r \in Combinations(s)}

(* -1 when the dictionary does not open.                                   *)
word_check(s, dict_path) ==
    LET path == IF dict_path = "" THEN DefaultCracklibDict ELSE dict_path IN
    IF path \notin DOMAIN Dictionaries THEN -1
    ELSE IF Mangled(s) \cap Dictionaries[path] # {} THEN 1 ELSE 0

(* The int becomes a bool: what cannot be looked up counts as a word.      *)
is_word(s, dict_path) == word_check(s, dict_path) # 0

(***************************************************************************)
(* The reference: s is the word w with look-alikes for some of its         *)
(* letters, the same one always for the same letter ...                    *)
(***************************************************************************)
Disguises(s, w) ==
    /\ Len(s) = Len(w)
    /\ \A x \in DOMAIN s : s[x] = w[x] \/ <<s[x], w[x]>> \in LookAlikes
    /\ \A x, y \in DOMAIN s : s[x] = s[y] => w[x] = w[y]

(* ... or w with up to three characters before it or after it.             *)
Pads(s, w) ==
    /\ Len(s) - Len(w) \in 0 .. 3
    /\ \/ \A x \in DOMAIN w : w[x] = s[x]
       \/ \A x \in DOMAIN w : w[x] = s[x + Len(s) - Len(w)]
=============================================================================
