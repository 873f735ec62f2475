----------------------------- MODULE MCPwCheck -----------------------------
(***************************************************************************)
(* PwLibrary on every password of up to MaxLength of the characters        *)
(* 1 P o p [ ], on those of up to LongLength of o and p, on some for the   *)
(* hashes, and on a few longer ones or with other characters (Extra).  On  *)
(* the keyboard o p [ ] are the last four keys of a row; 1 has no key.     *)
(***************************************************************************)
EXTENDS PwLibrary

CONSTANTS MaxLength, LongLength

Extra ==
    { <<80, 49, 112, 91, 111, 49, 80, 112>>,       \* P1p[o1Pp
      <<80, 111, 49, 112, 49, 111, 112, 112>>,     \* Po1p1opp
      <<80, 49, 112, 91, 111, 49, 80, 112, 49>>,
      <<80, 49, 111, 111, 112>>,                   \* P1oop
      <<80, 48, 111, 49>>, <<80, 111, 48, 49>>,    \* P0o1  Po01
      <<112, 49, 91, 112>>, <<112, 48, 112, 49>>,  \* p1[p  p0p1
      <<59>>, <<49, 59, 112>>, <<33, 112>>,        \* ;  1;p  !p
      <<49, 34>>, <<49, 34, 34>>,                  \* 1"  1""
      <<-28, -72, 112>>, <<112, -28>> }            \* high bits set

MCUsers == { <<80, 49, 112, 91, 111, 49, 80, 112>> }

(* ab *)
MCSalts == {<<97, 98>>}

(* Passwords around the ends of segments, with one odd character.          *)
MCSecrets ==
    {[x \in 1 .. n |-> IF x = odd THEN 98 ELSE 97] :
        n \in {0, 1, 7, 8, 9, 16, 17, 127, 128, 129, 131},
        odd \in {1, 8, 9, 128, 129}}

MCPasswords ==
    UNION {[1 .. n -> {49, 80, 112, 111, 91, 93}] : n \in 0 .. MaxLength}
    \cup UNION {[1 .. n -> {112, 111}] : n \in MaxLength + 1 .. LongLength}
    \cup Extra \cup MCSecrets

(* 10;po;P;[;]  and  ;p;;[;];! , where [ ] make one class and ! another.   *)
MCCharacterTypes ==
    { <<49, 48, 59, 112, 111, 59, 80, 59, 91, 59, 93>>,
      <<59, 112, 59, 59, 91, 59, 93, 59, 33>> }

(* Pool, pip, op, Pop: only the default dictionary can be opened.          *)
MCDictionaries ==
    [default |-> { <<80, 111, 111, 108>>, <<112, 105, 112>>, <<111, 112>>,
                   <<80, 111, 112>> }]

MCOptions ==
    { [on |-> Switches, min_len |-> 8, max_len |-> 8, dict_path |-> ""],
      [on |-> Switches \ {"FIRST_LETTER_UPPERCASE"},
       min_len |-> 1, max_len |-> 6, dict_path |-> ""],
      [on |-> Switches \ {"PALINDROME_NUM", "MONOTONE_CHARACTER_NUM"},
       min_len |-> 2, max_len |-> 4, dict_path |-> ""],
      [on |-> {"STRONG_PASSWORD", "MONOTONE_CHARACTER_NUM"},
       min_len |-> 0, max_len |-> 6, dict_path |-> ""],
      [on |-> {"STRONG_PASSWORD", "WORD_CHECK"},
       min_len |-> 1, max_len |-> 3, dict_path |-> "configured"],
      [on |-> Switches \ {"STRONG_PASSWORD"}, min_len |-> 8, max_len |-> 8,
       dict_path |-> ""] }

(* What dde.conf has by default, a standard that short passwords reach and *)
(* one whose numbers are in an odd order.                                  *)
MCStandards ==
    { DefaultStandard,
      [length_high |-> 2, length_middle |-> 1, type_high |-> 3, type_middle |-> 1],
      [length_high |-> 1, length_middle |-> 3, type_high |-> 1, type_middle |-> 2] }
=============================================================================
