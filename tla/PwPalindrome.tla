---------------------------- MODULE PwPalindrome ----------------------------
(***************************************************************************)
(* The search for palindromes in a password, is_include_palindrome of      *)
(* lib/deepin_pw_check.c, one iteration of its loop per step.              *)
(***************************************************************************)
EXTENDS PwInput

CONSTANT PalindromeNums    \* the values of PALINDROME_NUM looked at

(* deepin_pw_check_by_conf calls the search only for positive values.      *)
ASSUME PalindromeNumsAssumption == PalindromeNums \subseteq Nat \ {0}

VARIABLES palindrome_min_num,      \* the argument besides pw
          a_p,                     \* characters skipped at the front
          b_p,                     \* characters left out of the copy
          flag,                    \* is_palindrome_flag
          pal_done                     \* has the loop ended?

pal_vars == <<pw, palindrome_min_num, a_p, b_p, flag, pal_done>>

pw_length == Len(pw)

(* pw_tmp is pw[lo + 1], ..., pw[hi]: memcpy takes pw_length - b_p bytes   *)
(* from pw + a_p, and the string ends at the terminator of pw if that      *)
(* comes first.                                                            *)
CopyEnd(lo, left_out) ==
    IF left_out < lo THEN pw_length ELSE lo + pw_length - left_out

(* Without the length test every copy of one character would do.           *)
is_palindrome_AnyLength(lo, hi) ==
    \A i \in lo + 1 .. hi - 1 : pw[i] = pw[lo + hi + 1 - i]

(* is_palindrome of that copy.                                             *)
is_palindrome(lo, hi) ==
    /\ hi - lo >= palindrome_min_num * 2
    /\ \A i \in lo + 1 .. hi - 1 : pw[i] = pw[lo + hi + 1 - i]

PalInit ==
    /\ pw \in Passwords
    /\ palindrome_min_num \in PalindromeNums
    /\ a_p = 0
    /\ b_p = 0
    /\ flag = FALSE
    /\ pal_done = FALSE

Found ==
    /\ ~pal_done
    /\ is_palindrome(a_p, CopyEnd(a_p, b_p))
    /\ flag' = TRUE
    /\ pal_done' = TRUE
    /\ UNCHANGED <<pw, palindrome_min_num, a_p, b_p>>

(* Without the test that ends the loop.                                    *)
NotHere_NoEnd ==
    /\ ~pal_done
    /\ ~is_palindrome(a_p, CopyEnd(a_p, b_p))
    /\ LET short == pw_length - (b_p + 1) < palindrome_min_num * 2 IN
       /\ a_p' = IF short THEN a_p + 1 ELSE a_p
       /\ b_p' = IF short THEN 0 ELSE b_p + 1
    /\ UNCHANGED <<pw, palindrome_min_num, flag, pal_done>>

(* The front position moves and the copy keeps its length.                 *)
NotHere_KeepsB ==
    /\ ~pal_done
    /\ ~is_palindrome(a_p, CopyEnd(a_p, b_p))
    /\ LET short == pw_length - (b_p + 1) < palindrome_min_num * 2 IN
       /\ a_p' = IF short THEN a_p + 1 ELSE a_p
       /\ b_p' = IF short THEN b_p ELSE b_p + 1
    /\ pal_done' = (a_p' + b_p' >= pw_length)
    /\ UNCHANGED <<pw, palindrome_min_num, flag>>

(* The copy grows again and the front position stays.                      *)
NotHere_KeepsA ==
    /\ ~pal_done
    /\ ~is_palindrome(a_p, CopyEnd(a_p, b_p))
    /\ LET short == pw_length - (b_p + 1) < palindrome_min_num * 2 IN
       b_p' = IF short THEN 0 ELSE b_p + 1
    /\ pal_done' = (a_p + b_p' >= pw_length)
    /\ UNCHANGED <<pw, palindrome_min_num, flag, a_p>>

(* The copy gets one character shorter; when it would be too short, the    *)
(* next position in front is tried.                                        *)
NotHere ==
    /\ ~pal_done
    /\ ~is_palindrome(a_p, CopyEnd(a_p, b_p))
    /\ LET short == pw_length - (b_p + 1) < palindrome_min_num * 2 IN
       /\ a_p' = IF short THEN a_p + 1 ELSE a_p
       /\ b_p' = IF short THEN 0 ELSE b_p + 1
    /\ pal_done' = (a_p' + b_p' >= pw_length)
    /\ UNCHANGED <<pw, palindrome_min_num, flag>>

(* deepin_pw_check_by_conf has refused the empty password before.          *)
PalNext == pw # <<>> /\ (Found \/ NotHere)

PalSpec == PalInit /\ [][PalNext]_pal_vars

(***************************************************************************)
(* Properties                                                              *)
(***************************************************************************)
(* Neither index leaves the password, so that the length memcpy gets is    *)
(* never negative.                                                         *)
PalTypeOK ==
    /\ pw \in Passwords
    /\ palindrome_min_num \in PalindromeNums
    /\ a_p \in 0 .. pw_length
    /\ b_p \in 0 .. pw_length
    /\ flag \in BOOLEAN
    /\ pal_done \in BOOLEAN

(* The reference: a palindrome of at least twice palindrome_min_num        *)
(* characters that starts after the first lo characters.                   *)
PalindromeAfter(lo) ==
    \E hi \in lo .. pw_length :
        /\ hi - lo >= palindrome_min_num * 2
        /\ \A i \in lo + 1 .. hi : pw[i] = pw[lo + hi + 1 - i]

(* What is reported is really there.                                       *)
ReportedIsThere == flag => \E lo \in 0 .. pw_length : PalindromeAfter(lo)

(* One that starts among the first 2 * palindrome_min_num characters.      *)
EarlyPalindrome ==
    \E lo \in 0 .. palindrome_min_num * 2 - 1 : PalindromeAfter(lo)

(* Such a palindrome is found.                                             *)
EarlyIsFound == pal_done /\ ~flag => ~EarlyPalindrome

(* "Password must not contain more than %d palindrome characters"          *)
(* (deepin_pw_check.c:773), test "ContainsPalindrome": a password that     *)
(* contains a palindrome anywhere is refused.                              *)
AnyIsFound ==
    pal_done /\ ~flag => \A lo \in 0 .. pw_length : ~PalindromeAfter(lo)
=============================================================================
