------------------------- MODULE PwPalindromeProofs -------------------------
(***************************************************************************)
(* Machine-checked proofs about PwPalindrome, for every password of any    *)
(* length over any characters and every positive PALINDROME_NUM.           *)
(***************************************************************************)
EXTENDS PwPalindrome, TLAPS

LEMMA PalArguments ==
  ASSUME PalTypeOK
  PROVE  /\ pw_length \in Nat /\ palindrome_min_num \in Nat \ {0}
         /\ a_p \in Nat /\ b_p \in Nat
         /\ pw # <<>> => pw_length > 0
<1>1. pw \in Seq(Char)
  BY PasswordsAssumption DEF PalTypeOK
<1>2. pw_length \in Nat /\ (pw # <<>> => pw_length > 0)
  BY <1>1 DEF pw_length
<1> QED
  BY <1>2, PalindromeNumsAssumption DEF PalTypeOK

LEMMA SumBounds ==
  ASSUME NEW x \in Nat, NEW y \in Nat, NEW n \in Nat, x + y <= n
  PROVE  x \in 0 .. n /\ y \in 0 .. n /\ (~(x + y >= n) => x + y < n)
OBVIOUS

(* What the loop has excluded: every copy from a position before a_p, and  *)
(* the longer ones from a_p.                                               *)
Excluded ==
    \A lo, left_out \in Nat :
        \/ lo < a_p /\ left_out <= pw_length - palindrome_min_num * 2
        \/ lo = a_p /\ left_out < b_p
        => ~is_palindrome(lo, CopyEnd(lo, left_out))

PalIInv ==
    /\ PalTypeOK
    /\ Excluded
    /\ ~pal_done /\ pw # <<>> => a_p + b_p < pw_length
    /\ b_p = 0 \/ b_p <= pw_length - palindrome_min_num * 2
    /\ pal_done /\ ~flag => a_p + b_p >= pw_length
    /\ flag => is_palindrome(a_p, CopyEnd(a_p, b_p))

LEMMA PalInitIInv == PalInit => PalIInv
<1> SUFFICES ASSUME PalInit PROVE PalIInv
  OBVIOUS
<1>1. pw \in Seq(Char)
  BY PasswordsAssumption DEF PalInit
<1>2. pw_length \in Nat /\ (pw # <<>> => pw_length > 0)
  BY <1>1 DEF pw_length
<1>3. PalTypeOK
  <2>1. a_p \in 0 .. pw_length /\ b_p \in 0 .. pw_length
    BY <1>2 DEF PalInit
  <2>2. flag \in BOOLEAN /\ pal_done \in BOOLEAN
    BY Zenon DEF PalInit
  <2> QED
    BY <2>1, <2>2 DEF PalInit, PalTypeOK
<1>4. Excluded
  BY DEF PalInit, Excluded
<1> QED
  BY <1>2, <1>3, <1>4 DEF PalInit, PalIInv

LEMMA PalNextIInv == PalIInv /\ [PalNext]_pal_vars => PalIInv'
<1> SUFFICES ASSUME PalIInv, [PalNext]_pal_vars PROVE PalIInv'
  OBVIOUS
<1>1. /\ pw_length \in Nat /\ palindrome_min_num \in Nat \ {0}
      /\ a_p \in Nat /\ b_p \in Nat
  BY PalArguments DEF PalIInv
<1>2. CASE pw # <<>> /\ Found
  BY <1>2 DEF Found, PalIInv, PalTypeOK, Excluded, is_palindrome, CopyEnd, pw_length
<1>3. CASE pw # <<>> /\ NotHere
  <2> DEFINE m == palindrome_min_num
             n == pw_length
  <2>1. /\ n' = n /\ m' = m /\ a_p \in Nat /\ b_p \in Nat /\ flag' = flag
        /\ ~flag
        /\ \A lo, hi : is_palindrome(lo, hi)' = is_palindrome(lo, hi)
        /\ \A lo, y : CopyEnd(lo, y)' = CopyEnd(lo, y)
    BY <1>1, <1>3 DEF NotHere, PalIInv, PalTypeOK, pw_length, is_palindrome, CopyEnd
  <2>2. \A lo, y \in Nat :
           \/ lo < a_p /\ y <= n - m * 2
           \/ lo = a_p /\ y <= b_p
           => ~is_palindrome(lo, CopyEnd(lo, y))
    BY <1>3, <2>1 DEF NotHere, PalIInv, Excluded
  <2>3. a_p' \in Nat /\ b_p' \in Nat /\ a_p' + b_p' <= pw_length
        => PalTypeOK' /\ (~pal_done' => a_p' + b_p' < pw_length)
    <3>0. HAVE a_p' \in Nat /\ b_p' \in Nat /\ a_p' + b_p' <= pw_length
    <3>1. pw' = pw /\ pal_done' = (a_p' + b_p' >= pw_length)
      BY <1>3 DEF NotHere
    <3>2. pw_length \in Nat
      BY <1>1
    <3>3. a_p' \in 0 .. pw_length /\ b_p' \in 0 .. pw_length
      BY <3>0, <3>2, SumBounds
    <3>4. ~pal_done' => a_p' + b_p' < pw_length
      BY <3>0, <3>1, <3>2, SumBounds
    <3>5. pal_done' \in BOOLEAN
      BY <3>1
    <3> QED
      BY <1>3, <2>1, <3>1, <3>3, <3>4, <3>5 DEF PalIInv, PalTypeOK, NotHere
  <2>4. CASE n - (b_p + 1) < m * 2
    <3>1. a_p' = a_p + 1 /\ b_p' = 0 /\ pal_done' = (a_p' + b_p' >= n)
      BY <1>3, <2>4 DEF NotHere
    <3>2. \A lo, y \in Nat :
             \/ lo < a_p + 1 /\ y <= n - m * 2
             \/ lo = a_p + 1 /\ y < 0
             => ~is_palindrome(lo, CopyEnd(lo, y))
      BY <1>1, <2>1, <2>2, <2>4
    <3>3. Excluded'
      BY <2>1, <3>1, <3>2 DEF Excluded
    <3>4. a_p' + b_p' <= n /\ a_p' \in Nat /\ b_p' \in Nat
      BY <1>1, <1>3, <3>1 DEF PalIInv, NotHere
    <3> QED
      BY <2>1, <2>3, <3>1, <3>3, <3>4 DEF PalIInv
  <2>5. CASE ~(n - (b_p + 1) < m * 2)
    <3>1. a_p' = a_p /\ b_p' = b_p + 1 /\ pal_done' = (a_p' + b_p' >= n)
      BY <1>3, <2>5 DEF NotHere
    <3>2. \A lo, y \in Nat :
             \/ lo < a_p /\ y <= n - m * 2
             \/ lo = a_p /\ y < b_p + 1
             => ~is_palindrome(lo, CopyEnd(lo, y))
      BY <1>1, <2>1, <2>2
    <3>3. Excluded'
      BY <2>1, <3>1, <3>2 DEF Excluded
    <3>4. b_p + 1 <= n - m * 2
      BY <1>1, <2>1, <2>5
    <3>5. a_p' + b_p' <= n /\ a_p' \in Nat /\ b_p' \in Nat
      BY <1>1, <1>3, <3>1 DEF PalIInv, NotHere
    <3> QED
      BY <2>1, <2>3, <3>1, <3>3, <3>4, <3>5 DEF PalIInv
  <2> QED
    BY <2>4, <2>5
<1>4. CASE UNCHANGED pal_vars
  BY <1>4 DEF pal_vars, PalIInv, PalTypeOK, Excluded, is_palindrome, CopyEnd, pw_length
<1> QED
  BY <1>2, <1>3, <1>4 DEF PalNext

LEMMA PalInvariance == PalSpec => []PalIInv
  BY PalInitIInv, PalNextIInv, PTL DEF PalSpec

(* The indices stay inside the password.                                   *)
THEOREM IndicesInBounds == PalSpec => []PalTypeOK
<1>1. PalIInv => PalTypeOK
  BY DEF PalIInv
<1> QED
  BY <1>1, PalInvariance, PTL

(* The search reports a palindrome only when the password contains one.    *)
THEOREM SearchIsSound == PalSpec => []ReportedIsThere
<1>1. PalIInv => ReportedIsThere
  <2> SUFFICES ASSUME PalIInv, flag
               PROVE  \E lo \in 0 .. pw_length : PalindromeAfter(lo)
    BY DEF ReportedIsThere
  <2> DEFINE hi == CopyEnd(a_p, b_p)
  <2>1. pw_length \in Nat /\ palindrome_min_num \in Nat \ {0}
    BY PalArguments DEF PalIInv
  <2>2. a_p \in Nat /\ b_p \in Nat /\ is_palindrome(a_p, hi)
    BY PalArguments DEF PalIInv
  <2>3. hi \in Int /\ hi <= pw_length
    BY <2>1, <2>2 DEF CopyEnd
  <2> HIDE DEF hi
  <2>4. hi - a_p >= palindrome_min_num * 2 /\ hi \in a_p .. pw_length
    BY <2>1, <2>2, <2>3 DEF is_palindrome
  <2>5. hi - a_p >= 2
    BY <2>1, <2>2, <2>3, <2>4
  <2>6. ASSUME NEW i \in a_p + 1 .. hi
        PROVE  pw[i] = pw[a_p + hi + 1 - i]
    <3>1. CASE i # hi
      BY <2>2, <2>3, <3>1 DEF is_palindrome
    <3>2. CASE i = hi
      <4>1. a_p + 1 \in a_p + 1 .. hi - 1
        BY <2>2, <2>3, <2>5
      <4>2. pw[a_p + 1] = pw[a_p + hi + 1 - (a_p + 1)]
        BY <2>2, <4>1 DEF is_palindrome
      <4>3. a_p + hi + 1 - (a_p + 1) = hi /\ a_p + hi + 1 - hi = a_p + 1
        BY <2>2, <2>3
      <4> QED
        BY <3>2, <4>2, <4>3
    <3> QED
      BY <3>1, <3>2
  <2>7. PalindromeAfter(a_p)
    BY <2>4, <2>6 DEF PalindromeAfter
  <2> QED
    BY <2>1, <2>2, <2>3, <2>4, <2>5, <2>7
<1> QED
  BY <1>1, PalInvariance, PTL

(* It misses none that starts among the first 2 * palindrome_min_num       *)
(* characters.                                                             *)
THEOREM SearchFindsEarly == PalSpec => []EarlyIsFound
<1>1. PalIInv => EarlyIsFound
  <2> SUFFICES ASSUME PalIInv, pal_done, ~flag,
                      NEW lo \in 0 .. palindrome_min_num * 2 - 1,
                      NEW hi \in lo .. pw_length,
                      hi - lo >= palindrome_min_num * 2,
                      \A i \in lo + 1 .. hi : pw[i] = pw[lo + hi + 1 - i]
               PROVE  FALSE
    BY DEF EarlyIsFound, EarlyPalindrome, PalindromeAfter
  <2> DEFINE y == pw_length - (hi - lo)
  <2>1. /\ pw_length \in Nat /\ palindrome_min_num \in Nat \ {0}
        /\ a_p \in Nat /\ b_p \in Nat
    BY PalArguments DEF PalIInv, PalTypeOK
  <2>2. lo < a_p
    BY <2>1 DEF PalIInv
  <2>3. y \in Nat /\ y <= pw_length - palindrome_min_num * 2 /\ lo \in Nat
    BY <2>1
  <2>4. CopyEnd(lo, y) = hi
    BY <2>1 DEF CopyEnd
  <2>5. is_palindrome(lo, hi)
    BY <2>1 DEF is_palindrome
  <2> HIDE DEF y
  <2> QED
    BY <2>2, <2>3, <2>4, <2>5 DEF PalIInv, Excluded
<1> QED
  BY <1>1, PalInvariance, PTL
=============================================================================
