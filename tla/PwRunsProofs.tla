---------------------------- MODULE PwRunsProofs ----------------------------
(***************************************************************************)
(* Machine-checked proofs about the two rules that look for runs of        *)
(* characters: PwConsecutive, for every password of any length and every   *)
(* positive CONSECUTIVE_SAME_CHARACTER_NUM, and PwMonotone, for every      *)
(* password, every positive MONOTONE_CHARACTER_NUM and every keyboard.     *)
(***************************************************************************)
EXTENDS PwConsecutive, PwMonotone, TLAPS

(***************************************************************************)
(* Runs of one character                                                   *)
(***************************************************************************)
(* The counter is the length of the longest run that ends at position      *)
(* i + 1, and no run of consecutive_num characters ends before or there.   *)
CounterInv ==
    /\ con_i + 1 <= Len(pw) \/ con_i = 0
    /\ consecutive_same_num <= con_i + 1
    /\ Len(pw) > 0 =>
          \A x \in con_i + 2 - consecutive_same_num .. con_i + 1 :
             pw[x] = pw[con_i + 1]
    /\ consecutive_same_num # con_i + 1 =>
          pw[con_i + 1 - consecutive_same_num] # pw[con_i + 1]
    /\ ~con_found /\ con_i > 0 => consecutive_same_num < consecutive_num
    /\ ~con_found /\ consecutive_num >= 2 =>
          \A at \in 1 .. con_i + 1 :
             at + consecutive_num - 1 <= con_i + 1 =>
                \E x \in at .. at + consecutive_num - 1 : pw[x] # pw[at]
    /\ con_found => con_done /\ consecutive_same_num >= consecutive_num /\ con_i > 0
    /\ con_done /\ ~con_found => con_i >= Len(pw) - 1

ConIInv == ConTypeOK /\ CounterInv

LEMMA ConArguments ==
  ASSUME ConTypeOK
  PROVE  Len(pw) \in Nat /\ consecutive_num \in Nat \ {0} /\ pw \in Seq(Char)
<1>1. pw \in Seq(Char)
  BY PasswordsAssumption DEF ConTypeOK
<1> QED
  BY <1>1, ConsecutiveNumsAssumption DEF ConTypeOK

LEMMA ConInitIInv == ConInit => ConIInv
<1> SUFFICES ASSUME ConInit PROVE ConIInv
  OBVIOUS
<1>1. ConTypeOK
  <2>1. pw \in Passwords /\ consecutive_num \in ConsecutiveNums
    BY DEF ConInit
  <2>2. con_i \in Nat /\ consecutive_same_num \in Nat \ {0}
    BY DEF ConInit
  <2>3. con_found \in BOOLEAN /\ con_done \in BOOLEAN
    BY Zenon DEF ConInit
  <2> QED
    BY <2>1, <2>2, <2>3 DEF ConTypeOK
<1>2. /\ con_i = 0 /\ consecutive_same_num = 1 /\ ~con_found /\ ~con_done
      /\ consecutive_num \in Nat \ {0}
  BY <1>1, ConArguments DEF ConInit
<1>3. \A x \in con_i + 2 - consecutive_same_num .. con_i + 1 : x = con_i + 1
  BY <1>2
<1>4. ASSUME consecutive_num >= 2, NEW at \in 1 .. con_i + 1
      PROVE  ~(at + consecutive_num - 1 <= con_i + 1)
  BY <1>2, <1>4
<1>5. CounterInv
  BY <1>2, <1>3, <1>4 DEF CounterInv
<1> QED
  BY <1>1, <1>5 DEF ConIInv

LEMMA ConNextIInv == ConIInv /\ [ConNext]_con_vars => ConIInv'
<1> SUFFICES ASSUME ConIInv, [ConNext]_con_vars PROVE ConIInv'
  OBVIOUS
<1>1. /\ Len(pw) \in Nat /\ consecutive_num \in Nat \ {0} /\ con_i \in Nat
      /\ consecutive_same_num \in Nat \ {0}
  BY ConArguments DEF ConIInv, ConTypeOK
<1>2. CASE ConCompare
  <2> DEFINE c == consecutive_same_num
             k == consecutive_num
             d == IF pw[con_i + 1] = pw[con_i + 2] THEN c + 1 ELSE 1
  <2>1. /\ pw' = pw /\ consecutive_num' = k /\ con_i' = con_i + 1
        /\ consecutive_same_num' = d
        /\ con_found' = (d >= k) /\ con_done' = (d >= k)
    BY <1>2 DEF ConCompare
  <2>2. con_i + 2 <= Len(pw) /\ ~con_done /\ ~con_found
    BY <1>1, <1>2 DEF ConCompare, ConIInv, CounterInv
  <2>3. ConTypeOK'
    BY <1>1, <2>1 DEF ConIInv, ConTypeOK
  <2>4. /\ d \in Nat \ {0}
        /\ d <= con_i + 2
        /\ \A x \in con_i + 3 - d .. con_i + 2 : pw[x] = pw[con_i + 2]
        /\ d # con_i + 2 => pw[con_i + 2 - d] # pw[con_i + 2]
    <3>1. CASE pw[con_i + 1] = pw[con_i + 2]
      <4>1. d = c + 1 /\ c <= con_i + 1
        BY <3>1 DEF ConIInv, CounterInv
      <4>2. \A x \in con_i + 2 - c .. con_i + 1 : pw[x] = pw[con_i + 1]
        BY <1>1, <2>2 DEF ConIInv, CounterInv
      <4>3. c # con_i + 1 => pw[con_i + 1 - c] # pw[con_i + 1]
        BY DEF ConIInv, CounterInv
      <4> QED
        BY <1>1, <3>1, <4>1, <4>2, <4>3
    <3>2. CASE pw[con_i + 1] # pw[con_i + 2]
      <4>1. d = 1 /\ con_i + 2 - d = con_i + 1 /\ con_i + 3 - d = con_i + 2
        BY <1>1, <3>2
      <4>2. \A x \in con_i + 2 .. con_i + 2 : x = con_i + 2
        BY <1>1
      <4> QED
        BY <1>1, <3>2, <4>1, <4>2
    <3> QED
      BY <3>1, <3>2
  <2> HIDE DEF d
  <2>5. ASSUME ~(d >= k), k >= 2, NEW at \in 1 .. con_i + 2,
               at + k - 1 <= con_i + 2
        PROVE  \E x \in at .. at + k - 1 : pw[x] # pw[at]
    <3>1. CASE at + k - 1 <= con_i + 1
      <4>1. at \in 1 .. con_i + 1
        BY <1>1, <2>5, <3>1
      <4> QED
        BY <2>2, <2>5, <3>1, <4>1 DEF ConIInv, CounterInv
    <3>2. CASE at + k - 1 = con_i + 2
      <4>1. con_i + 2 - d \in at .. at + k - 1 /\ con_i + 2 \in at .. at + k - 1
        BY <1>1, <2>4, <2>5, <3>2
      <4>2. d # con_i + 2
        BY <1>1, <2>4, <2>5, <3>2
      <4> QED
        BY <2>4, <4>1, <4>2
    <3> QED
      BY <1>1, <2>5, <3>1, <3>2
  <2>6. CounterInv'
    <3>1. /\ con_i' + 1 = con_i + 2
          /\ con_i' + 2 - d = con_i + 3 - d
          /\ con_i' + 1 - d = con_i + 2 - d
          /\ con_i' \in Nat /\ con_i' > 0
      BY <1>1, <2>1, <2>4
    <3>2. \A x \in con_i' + 2 - d .. con_i' + 1 : pw[x] = pw[con_i' + 1]
      BY <2>4, <3>1
    <3>3. d # con_i' + 1 => pw[con_i' + 1 - d] # pw[con_i' + 1]
      BY <2>4, <3>1
    <3>4. (con_found' <=> d >= k) /\ (con_done' <=> d >= k)
      BY <2>1
    <3>5. ~con_found' /\ k >= 2 =>
             \A at \in 1 .. con_i' + 1 : at + k - 1 <= con_i' + 1 =>
                 \E x \in at .. at + k - 1 : pw[x] # pw[at]
      BY <2>5, <3>1, <3>4
    <3>6. con_i' + 1 <= Len(pw) /\ d <= con_i' + 1 /\ (~(d >= k) => d < k)
      <4>1. con_i' + 1 <= Len(pw) /\ d <= con_i' + 1
        BY <2>2, <2>4, <3>1
      <4>2. d \in Int /\ k \in Int
        BY <1>1, <2>4
      <4> QED
        BY <4>1, <4>2
    <3>7. /\ con_i' + 1 <= Len(pw')
          /\ consecutive_same_num' <= con_i' + 1
          /\ Len(pw') > 0 =>
                \A x \in con_i' + 2 - consecutive_same_num' .. con_i' + 1 :
                    pw'[x] = pw'[con_i' + 1]
          /\ consecutive_same_num' # con_i' + 1 =>
                pw'[con_i' + 1 - consecutive_same_num'] # pw'[con_i' + 1]
      BY <2>1, <3>2, <3>3, <3>6
    <3>8. /\ ~con_found' /\ con_i' > 0 => consecutive_same_num' < consecutive_num'
          /\ con_found' => /\ con_done' /\ consecutive_same_num' >= consecutive_num'
                       /\ con_i' > 0
          /\ con_done' /\ ~con_found' => con_i' >= Len(pw') - 1
      BY <2>1, <3>1, <3>4, <3>6
    <3>9. ~con_found' /\ consecutive_num' >= 2 =>
             \A at \in 1 .. con_i' + 1 : at + consecutive_num' - 1 <= con_i' + 1 =>
                 \E x \in at .. at + consecutive_num' - 1 : pw'[x] # pw'[at]
      BY <2>1, <3>5
    <3> QED
      BY <3>7, <3>8, <3>9 DEF CounterInv
  <2> QED
    BY <2>3, <2>6 DEF ConIInv
<1>3. CASE ConReturnFalse
  BY <1>1, <1>3 DEF ConReturnFalse, ConIInv, CounterInv, ConTypeOK
<1>4. CASE UNCHANGED con_vars
  BY <1>4 DEF con_vars, ConIInv, CounterInv, ConTypeOK
<1> QED
  BY <1>2, <1>3, <1>4 DEF ConNext

(* The function decides the question it is named for.                      *)
THEOREM DecidesRuns == ConSpec => []ExactRuns
<1>1. ConIInv => ExactRuns
  <2> SUFFICES ASSUME ConIInv, con_done PROVE ExactRuns
    BY DEF ExactRuns
  <2> DEFINE c == consecutive_same_num
             k == consecutive_num
  <2>1. /\ Len(pw) \in Nat /\ k \in Nat \ {0} /\ con_i \in Nat /\ c \in Nat \ {0}
    BY ConArguments DEF ConIInv, ConTypeOK
  <2>2. CASE con_found
    <3>1. con_i + 1 <= Len(pw) /\ con_i > 0 /\ c >= k /\ c <= con_i + 1
      BY <2>1, <2>2 DEF ConIInv, CounterInv
    <3>2. \A x \in con_i + 2 - c .. con_i + 1 : pw[x] = pw[con_i + 1]
      BY <2>1, <3>1 DEF ConIInv, CounterInv
    <3>3. con_i + 2 - c \in 1 .. Len(pw)
      BY <2>1, <3>1
    <3>4. SameFrom(con_i + 2 - c, k)
      BY <2>1, <3>1, <3>2 DEF SameFrom
    <3> QED
      BY <2>1, <2>2, <3>1, <3>3, <3>4 DEF ExactRuns, SameInARow
  <2>3. CASE ~con_found
    <3> SUFFICES ASSUME Len(pw) >= 2, NEW at \in 1 .. Len(pw), SameFrom(at, k)
                 PROVE  FALSE
      BY <2>3 DEF ExactRuns, SameInARow
    <3>1. con_i + 1 = Len(pw) /\ k >= 2
      BY <2>1, <2>3 DEF ConIInv, CounterInv
    <3> QED
      BY <2>1, <2>3, <3>1 DEF ConIInv, CounterInv, SameFrom
  <2> QED
    BY <2>2, <2>3
<1> QED
  BY <1>1, ConInitIInv, ConNextIInv, PTL DEF ConSpec

(***************************************************************************)
(* The keyboard                                                            *)
(***************************************************************************)
LEMMA RowsAreSequences ==
  ASSUME NEW r \in DOMAIN Keyboard
  PROVE  /\ Keyboard[r] \in Seq(Char)
         /\ Len(Keyboard[r]) \in Nat
         /\ DOMAIN Keyboard[r] = 1 .. Len(Keyboard[r])
         /\ \A j \in DOMAIN Keyboard[r] : Keyboard[r][j] \in Char
<1>1. Keyboard[r] \in Seq(Char)
  BY KeyboardAssumption
<1> QED
  BY <1>1

LEMMA KeysHaveAPlace ==
  ASSUME NEW c \in Keys
  PROVE  /\ c \in Char
         /\ \E r \in DOMAIN Keyboard : \E j \in DOMAIN Keyboard[r] :
               Keyboard[r][j] = c
<1>1. PICK r \in DOMAIN Keyboard : \E j \in DOMAIN Keyboard[r] :
               Keyboard[r][j] = c
  BY DEF Keys
<1> QED
  BY <1>1, RowsAreSequences

LEMMA RightOfKey ==
  ASSUME NEW c \in Keys
  PROVE  \E r \in DOMAIN Keyboard : \E j \in DOMAIN Keyboard[r] :
            /\ Keyboard[r][j] = c
            /\ RightOf[c] = IF j < Len(Keyboard[r])
                            THEN Keyboard[r][j + 1] ELSE 0
<1>1. PICK r \in DOMAIN Keyboard : \E j \in DOMAIN Keyboard[r] :
               Keyboard[r][j] = c
  BY KeysHaveAPlace
<1>2. PICK j \in DOMAIN Keyboard[r] : Keyboard[r][j] = c
  BY <1>1
<1> DEFINE e == IF j < Len(Keyboard[r]) THEN Keyboard[r][j + 1] ELSE 0
<1>3. e \in Keys \cup {0}
  <2>1. CASE j < Len(Keyboard[r])
    <3>1. j + 1 \in DOMAIN Keyboard[r]
      BY <1>2, <2>1, RowsAreSequences
    <3> QED
      BY <2>1, <3>1 DEF Keys
  <2> QED
    BY <2>1
<1> QED
  BY <1>2, <1>3 DEF RightOf

LEMMA LeftOfKey ==
  ASSUME NEW c \in Keys
  PROVE  \E r \in DOMAIN Keyboard : \E j \in DOMAIN Keyboard[r] :
            /\ Keyboard[r][j] = c
            /\ LeftOf[c] = IF j > 1 THEN Keyboard[r][j - 1] ELSE 0
<1>1. PICK r \in DOMAIN Keyboard : \E j \in DOMAIN Keyboard[r] :
               Keyboard[r][j] = c
  BY KeysHaveAPlace
<1>2. PICK j \in DOMAIN Keyboard[r] : Keyboard[r][j] = c
  BY <1>1
<1> DEFINE e == IF j > 1 THEN Keyboard[r][j - 1] ELSE 0
<1>3. e \in Keys \cup {0}
  <2>1. CASE j > 1
    <3>1. j - 1 \in DOMAIN Keyboard[r]
      BY <1>2, <2>1, RowsAreSequences
    <3> QED
      BY <2>1, <3>1 DEF Keys
  <2> QED
    BY <2>1
<1> QED
  BY <1>2, <1>3 DEF LeftOf

(* What get_adjacent_character answers for a key; its two answers differ.  *)
LEMMA NeighbourKeys ==
  ASSUME NEW c \in Keys
  PROVE  /\ RightOf[c] \in Char \cup {0}
         /\ LeftOf[c] \in Char \cup {0}
         /\ RightOf[c] # 0 => RightOf[c] # LeftOf[c]
<1>1. PICK r \in DOMAIN Keyboard : \E j \in DOMAIN Keyboard[r] :
            /\ Keyboard[r][j] = c
            /\ RightOf[c] = IF j < Len(Keyboard[r])
                            THEN Keyboard[r][j + 1] ELSE 0
  BY RightOfKey
<1>2. PICK j \in DOMAIN Keyboard[r] :
            /\ Keyboard[r][j] = c
            /\ RightOf[c] = IF j < Len(Keyboard[r])
                            THEN Keyboard[r][j + 1] ELSE 0
  BY <1>1
<1>3. PICK s \in DOMAIN Keyboard : \E k \in DOMAIN Keyboard[s] :
            /\ Keyboard[s][k] = c
            /\ LeftOf[c] = IF k > 1 THEN Keyboard[s][k - 1] ELSE 0
  BY LeftOfKey
<1>4. PICK k \in DOMAIN Keyboard[s] :
            /\ Keyboard[s][k] = c
            /\ LeftOf[c] = IF k > 1 THEN Keyboard[s][k - 1] ELSE 0
  BY <1>3
<1>5. r = s /\ j = k
  BY <1>2, <1>4, KeyboardAssumption
<1>6. /\ j \in 1 .. Len(Keyboard[r]) /\ Len(Keyboard[r]) \in Nat
      /\ \A x \in 1 .. Len(Keyboard[r]) : Keyboard[r][x] \in Char
      /\ DOMAIN Keyboard[r] = 1 .. Len(Keyboard[r])
  BY <1>2, RowsAreSequences
<1>7. RightOf[c] \in Char \cup {0} /\ LeftOf[c] \in Char \cup {0}
  BY <1>2, <1>4, <1>5, <1>6
<1>8. ASSUME RightOf[c] # 0, RightOf[c] = LeftOf[c] PROVE FALSE
  <2>1. j < Len(Keyboard[r]) /\ RightOf[c] = Keyboard[r][j + 1]
    BY <1>2, <1>8
  <2>2. j > 1 /\ LeftOf[c] = Keyboard[r][j - 1]
    BY <1>4, <1>5, <1>8
  <2>3. j + 1 \in DOMAIN Keyboard[r] /\ j - 1 \in DOMAIN Keyboard[r]
    BY <1>6, <2>1, <2>2
  <2>4. Keyboard[r][j + 1] = Keyboard[r][j - 1]
    BY <1>8, <2>1, <2>2
  <2>5. ASSUME NEW x \in DOMAIN Keyboard[r], NEW y \in DOMAIN Keyboard[r],
               Keyboard[r][x] = Keyboard[r][y]
        PROVE  x = y
    BY <2>5, KeyboardAssumption
  <2>6. j + 1 = j - 1
    BY <2>3, <2>4, <2>5
  <2> QED
    BY <1>6, <2>6
<1> QED
  BY <1>7, <1>8

(***************************************************************************)
(* The loop.  G stands for one kind of step.                               *)
(***************************************************************************)
(* The counter c is at least the length of the stretch of such steps that  *)
(* ends after n pairs.                                                     *)
Counts(G, n, c) == \A at \in 1 .. n + 1 : at .. n \subseteq G => c >= n + 2 - at

(* Among the first n pairs there is no run of k characters.                *)
NoRun(G, n, k) == \A at \in 1 .. n + 1 :
                     at + k - 1 <= n + 1 => ~(at .. at + k - 2 \subseteq G)

(* The last s of the first n pairs are such steps.                         *)
Stretch(G, n, s) == s <= n /\ \A x \in n + 1 - s .. n : x \in G

LEMMA CountsNext ==
  ASSUME NEW G, NEW n \in Nat, NEW c \in Nat, NEW d \in Nat \ {0},
         Counts(G, n, c), n + 1 \in G => d = c + 1
  PROVE  Counts(G, n + 1, d)
<1> SUFFICES ASSUME NEW at \in 1 .. n + 2, at .. n + 1 \subseteq G
             PROVE  d >= n + 3 - at
  BY DEF Counts
<1>1. CASE at = n + 2
  BY <1>1
<1>2. CASE at # n + 2
  <2>1. at \in 1 .. n + 1 /\ n + 1 \in at .. n + 1
    BY <1>2
  <2>2. at .. n \subseteq at .. n + 1
    BY <2>1
  <2>3. c >= n + 2 - at
    BY <2>1, <2>2 DEF Counts
  <2> QED
    BY <2>1, <2>3
<1> QED
  BY <1>1, <1>2

LEMMA NoRunNext ==
  ASSUME NEW G, NEW n \in Nat, NEW k \in Nat, NEW d \in Nat, k >= 2, d < k,
         Counts(G, n + 1, d), NoRun(G, n, k)
  PROVE  NoRun(G, n + 1, k)
<1> SUFFICES ASSUME NEW at \in 1 .. n + 2, at + k - 1 <= n + 2,
                    at .. at + k - 2 \subseteq G
             PROVE  FALSE
  BY DEF NoRun
<1>1. CASE at + k - 1 = n + 2
  <2>1. at .. n + 1 \subseteq G
    BY <1>1
  <2>2. d >= n + 3 - at
    BY <2>1 DEF Counts
  <2> QED
    BY <1>1, <2>2
<1>2. CASE at + k - 1 # n + 2
  <2>1. at \in 1 .. n + 1 /\ at + k - 1 <= n + 1
    BY <1>2
  <2> QED
    BY <2>1 DEF NoRun
<1> QED
  BY <1>1, <1>2

LEMMA StretchNext ==
  ASSUME NEW G, NEW n \in Nat, NEW s \in Nat, Stretch(G, n, s), n + 1 \in G
  PROVE  Stretch(G, n + 1, s + 1)
<1>1. s + 1 <= n + 1 /\ (n + 1) + 1 - (s + 1) = n + 1 - s
  BY DEF Stretch
<1>2. ASSUME NEW x \in n + 1 - s .. n + 1 PROVE x \in G
  BY <1>2 DEF Stretch
<1> QED
  BY <1>1, <1>2 DEF Stretch

LEMMA StretchIsRun ==
  ASSUME NEW G, NEW n \in Nat, NEW s \in Nat, NEW k \in Nat \ {0},
         Stretch(G, n, s), s >= k - 1, n + 1 <= Len(pw), Len(pw) \in Nat
  PROVE  Run(G, k)
<1> DEFINE at == n + 2 - k
<1>1. at \in 1 .. Len(pw) /\ at + k - 1 <= Len(pw) /\ at + k - 2 = n
  BY DEF Stretch
<1>2. ASSUME NEW x \in at .. at + k - 2 PROVE x \in G
  <2>1. x \in n + 1 - s .. n
    BY <1>1
  <2> QED
    BY <2>1 DEF Stretch
<1> QED
  BY <1>1, <1>2 DEF Run

NearCodes == DownSteps \cup UpSteps
NearKeys == RightSteps \cup LeftSteps \cup Keyless
LeftInRow == LeftSteps \ RowEnds

MonLoopInv ==
    /\ mon_i = 0 \/ mon_i + 1 <= Len(pw)
    /\ Counts(DownSteps, mon_i, increase)
    /\ Counts(UpSteps, mon_i, decrease)
    /\ Counts(RightSteps, mon_i, kb_increase)
    /\ Counts(LeftInRow, mon_i, kb_decrease)
    /\ ~mon_found /\ mon_i > 0 => /\ increase < monotone_num
                          /\ decrease < monotone_num
                          /\ kb_increase < monotone_num
                          /\ kb_decrease < monotone_num
    /\ ~mon_found /\ monotone_num >= 2 => /\ NoRun(DownSteps, mon_i, monotone_num)
                                      /\ NoRun(UpSteps, mon_i, monotone_num)
                                      /\ NoRun(RightSteps, mon_i, monotone_num)
                                      /\ NoRun(LeftInRow, mon_i, monotone_num)
    /\ Stretch(NearCodes, mon_i, increase + decrease - 2)
    /\ Stretch(NearKeys, mon_i, kb_increase + kb_decrease - 2)
    /\ mon_found => /\ mon_done
                /\ mon_i > 0
                /\ \/ increase >= monotone_num
                   \/ decrease >= monotone_num
                   \/ kb_increase >= monotone_num
                   \/ kb_decrease >= monotone_num
    /\ mon_done /\ ~mon_found => mon_i >= Len(pw) - 1

MonIInv == MonTypeOK /\ MonLoopInv

LEMMA MonArguments ==
  ASSUME MonTypeOK
  PROVE  /\ pw \in Seq(Char) /\ Len(pw) \in Nat
         /\ \A x \in 1 .. Len(pw) : pw[x] \in Char
         /\ monotone_num \in Nat \ {0} /\ mon_i \in Nat
         /\ increase \in Nat \ {0} /\ decrease \in Nat \ {0}
         /\ kb_increase \in Nat \ {0} /\ kb_decrease \in Nat \ {0}
<1>1. pw \in Seq(Char)
  BY PasswordsAssumption DEF MonTypeOK
<1>2. monotone_num \in Nat \ {0}
  BY MonotoneNumsAssumption DEF MonTypeOK
<1> QED
  BY <1>1, <1>2 DEF MonTypeOK

LEMMA MonInitIInv == MonInit => MonIInv
<1> SUFFICES ASSUME MonInit PROVE MonIInv
  OBVIOUS
<1>1. MonTypeOK
  <2>1. {increase, decrease, kb_increase, kb_decrease} \subseteq Nat \ {0}
    BY DEF MonInit
  <2>2. mon_found \in BOOLEAN /\ mon_done \in BOOLEAN
    BY Zenon DEF MonInit
  <2> QED
    BY <2>1, <2>2 DEF MonInit, MonTypeOK
<1>2. \A G : Counts(G, 0, 1) /\ Stretch(G, 0, 0)
  BY DEF Counts, Stretch
<1>3. monotone_num >= 2 => \A G : NoRun(G, 0, monotone_num)
  BY <1>1, MonArguments DEF NoRun
<1>4. 1 + 1 - 2 = 0
  OBVIOUS
<1>5. MonLoopInv
  BY <1>2, <1>3, <1>4 DEF MonInit, MonLoopInv
<1> QED
  BY <1>1, <1>5 DEF MonIInv

LEMMA PairAt ==
  ASSUME MonTypeOK, mon_i < Len(pw) - 1
  PROVE  /\ mon_i + 1 \in Pairs /\ (mon_i + 1) + 1 = mon_i + 2
         /\ pw[mon_i + 1] \in Char /\ pw[mon_i + 2] \in Char
<1>1. Len(pw) \in Nat /\ mon_i \in Nat
  BY MonArguments
<1>2. mon_i + 1 \in 1 .. Len(pw) - 1 /\ mon_i + 2 \in 1 .. Len(pw)
      /\ mon_i + 1 \in 1 .. Len(pw)
  BY <1>1
<1>3. \A x \in 1 .. Len(pw) : pw[x] \in Char
  BY MonArguments
<1> QED
  BY <1>1, <1>2, <1>3 DEF Pairs

(* What one iteration does to the counters of codes and of keys.           *)
LEMMA CompareCodes ==
  ASSUME MonTypeOK, MonCompare
  PROVE  /\ increase' \in Nat \ {0} /\ decrease' \in Nat \ {0}
         /\ mon_i + 1 \in DownSteps => increase' = increase + 1
         /\ mon_i + 1 \in UpSteps => decrease' = decrease + 1
         /\ \/ increase' = 1 /\ decrease' = 1
            \/ /\ mon_i + 1 \in NearCodes
               /\ increase' + decrease' = (increase + decrease) + 1
<1>1. /\ mon_i + 1 \in Pairs
      /\ pw[mon_i + 1] \in Int /\ pw[mon_i + 2] \in Int /\ (mon_i + 1) + 1 = mon_i + 2
      /\ increase \in Nat \ {0} /\ decrease \in Nat \ {0}
  <2>1. mon_i < Len(pw) - 1
    BY DEF MonCompare
  <2>2. \A x \in Char : x \in Int /\ x # 0
    BY DEF Char
  <2> QED
    BY <2>1, <2>2, PairAt, MonArguments
<1>2. CASE pw[mon_i + 1] = pw[mon_i + 2] + 1
  <2>1. increase' = increase + 1 /\ decrease' = decrease
    BY <1>2 DEF MonCompare, CountCodes
  <2>2. mon_i + 1 \in DownSteps /\ mon_i + 1 \notin UpSteps
    BY <1>1, <1>2 DEF DownSteps, UpSteps
  <2> QED
    BY <1>1, <2>1, <2>2 DEF NearCodes
<1>3. CASE pw[mon_i + 1] = pw[mon_i + 2] - 1
  <2>1. pw[mon_i + 1] # pw[mon_i + 2] + 1
    BY <1>1, <1>3
  <2>2. increase' = increase /\ decrease' = decrease + 1
    BY <1>3, <2>1 DEF MonCompare, CountCodes
  <2>3. mon_i + 1 \in UpSteps /\ mon_i + 1 \notin DownSteps
    BY <1>1, <1>3, <2>1 DEF DownSteps, UpSteps
  <2> QED
    BY <1>1, <2>2, <2>3 DEF NearCodes
<1>4. CASE pw[mon_i + 1] # pw[mon_i + 2] + 1 /\ pw[mon_i + 1] # pw[mon_i + 2] - 1
  <2>1. increase' = 1 /\ decrease' = 1
    BY <1>4 DEF MonCompare, CountCodes
  <2>2. mon_i + 1 \notin UpSteps /\ mon_i + 1 \notin DownSteps
    BY <1>1, <1>4 DEF DownSteps, UpSteps
  <2> QED
    BY <2>1, <2>2
<1> QED
  BY <1>2, <1>3, <1>4

LEMMA CompareKeys ==
  ASSUME MonTypeOK, MonCompare
  PROVE  /\ kb_increase' \in Nat \ {0} /\ kb_decrease' \in Nat \ {0}
         /\ {next', last'} \subseteq Char \cup {0}
         /\ mon_i + 1 \in RightSteps => kb_increase' = kb_increase + 1
         /\ mon_i + 1 \in LeftInRow => kb_decrease' = kb_decrease + 1
         /\ \/ kb_increase' = 1 /\ kb_decrease' = 1
            \/ /\ mon_i + 1 \in NearKeys
               /\ kb_increase' + kb_decrease' = (kb_increase + kb_decrease) + 1
<1> DEFINE c == pw[mon_i + 1]
           d == pw[mon_i + 2]
<1>1. /\ mon_i + 1 \in Pairs /\ d # 0 /\ (mon_i + 1) + 1 = mon_i + 2
      /\ kb_increase \in Nat \ {0} /\ kb_decrease \in Nat \ {0}
  <2>1. mon_i < Len(pw) - 1
    BY DEF MonCompare
  <2>2. \A x \in Char : x \in Int /\ x # 0
    BY DEF Char
  <2> QED
    BY <2>1, <2>2, PairAt, MonArguments
<1>2. /\ c \in Keys => next' = RightOf[c] /\ last' = LeftOf[c]
      /\ c \notin Keys => next' = next /\ last' = last
  BY DEF MonCompare, get_adjacent_character
<1>3. {next', last'} \subseteq Char \cup {0}
  BY <1>2, NeighbourKeys DEF MonTypeOK
<1>4. /\ mon_i + 1 \in RightSteps <=> c \in Keys /\ d = RightOf[c]
      /\ mon_i + 1 \in LeftSteps <=> c \in Keys /\ d = LeftOf[c]
      /\ mon_i + 1 \in RowEnds <=> c \in Keys /\ RightOf[c] = 0
      /\ mon_i + 1 \in Keyless <=> c \notin Keys
  BY <1>1 DEF RightSteps, LeftSteps, RowEnds, Keyless
<1>5. mon_i + 1 \in LeftInRow => c \in Keys /\ d = LeftOf[c] /\ RightOf[c] # 0
  BY <1>4 DEF LeftInRow
<1>6. CASE next' # 0 /\ d = next'
  <2>1. kb_increase' = kb_increase + 1 /\ kb_decrease' = kb_decrease
    BY <1>6 DEF MonCompare, CountKeys
  <2>2. mon_i + 1 \in NearKeys
    BY <1>2, <1>4, <1>6 DEF NearKeys
  <2>3. mon_i + 1 \notin LeftInRow
    BY <1>2, <1>5, <1>6, NeighbourKeys
  <2> QED
    BY <1>1, <1>3, <2>1, <2>2, <2>3
<1>7. CASE next' # 0 /\ d # next' /\ d = last'
  <2>1. kb_increase' = kb_increase /\ kb_decrease' = kb_decrease + 1
    BY <1>7 DEF MonCompare, CountKeys
  <2>2. mon_i + 1 \in NearKeys
    BY <1>2, <1>4, <1>7 DEF NearKeys
  <2>3. mon_i + 1 \notin RightSteps
    BY <1>2, <1>4, <1>7
  <2> QED
    BY <1>1, <1>3, <2>1, <2>2, <2>3
<1>8. CASE ~(next' # 0 /\ (d = next' \/ d = last'))
  <2>1. kb_increase' = 1 /\ kb_decrease' = 1
    BY <1>8 DEF MonCompare, CountKeys
  <2>2. mon_i + 1 \notin RightSteps
    BY <1>1, <1>2, <1>4, <1>8
  <2>3. mon_i + 1 \notin LeftInRow
    BY <1>2, <1>5, <1>8
  <2> QED
    BY <1>3, <2>1, <2>2, <2>3
<1> QED
  BY <1>6, <1>7, <1>8

(* A counter and its steps survive an iteration that reports nothing.      *)
LEMMA CounterNext ==
  ASSUME NEW G, NEW n \in Nat, NEW k \in Nat \ {0},
         NEW c \in Nat \ {0}, NEW d \in Nat \ {0},
         Counts(G, n, c), n + 1 \in G => d = c + 1,
         k >= 2 => NoRun(G, n, k)
  PROVE  /\ Counts(G, n + 1, d)
         /\ d < k => (k >= 2 => NoRun(G, n + 1, k))
<1>1. Counts(G, n + 1, d)
  BY CountsNext
<1> QED
  BY <1>1, NoRunNext

LEMMA StretchStep ==
  ASSUME NEW G, NEW n \in Nat,
         NEW a \in Nat \ {0}, NEW b \in Nat \ {0},
         NEW c \in Nat \ {0}, NEW d \in Nat \ {0},
         Stretch(G, n, a + b - 2),
         \/ c = 1 /\ d = 1
         \/ n + 1 \in G /\ c + d = (a + b) + 1
  PROVE  Stretch(G, n + 1, c + d - 2)
<1>1. CASE c = 1 /\ d = 1
  BY <1>1 DEF Stretch
<1>2. CASE n + 1 \in G /\ c + d = (a + b) + 1
  <2>1. c + d - 2 = (a + b - 2) + 1 /\ a + b - 2 \in Nat
    BY <1>2
  <2> QED
    BY <1>2, <2>1, StretchNext
<1> QED
  BY <1>1, <1>2

LEMMA MonNextIInv == MonIInv /\ [MonNext]_mon_vars => MonIInv'
<1> SUFFICES ASSUME MonIInv, [MonNext]_mon_vars PROVE MonIInv'
  OBVIOUS
<1>1. MonTypeOK /\ MonLoopInv
  BY DEF MonIInv
<1>2. /\ Len(pw) \in Nat /\ monotone_num \in Nat \ {0} /\ mon_i \in Nat
      /\ increase \in Nat \ {0} /\ decrease \in Nat \ {0}
      /\ kb_increase \in Nat \ {0} /\ kb_decrease \in Nat \ {0}
  BY <1>1, MonArguments
<1>3. CASE MonCompare
  <2> DEFINE k == monotone_num
             reported == \/ increase' >= k \/ decrease' >= k
                         \/ kb_increase' >= k \/ kb_decrease' >= k
  <2>1. /\ pw' = pw /\ monotone_num' = k /\ mon_i' = mon_i + 1
        /\ mon_found' = reported /\ mon_done' = mon_found'
        /\ ~mon_done /\ mon_i < Len(pw) - 1
    BY <1>3 DEF MonCompare
  <2>2. /\ increase' \in Nat \ {0} /\ decrease' \in Nat \ {0}
        /\ mon_i + 1 \in DownSteps => increase' = increase + 1
        /\ mon_i + 1 \in UpSteps => decrease' = decrease + 1
        /\ \/ increase' = 1 /\ decrease' = 1
           \/ /\ mon_i + 1 \in NearCodes
              /\ increase' + decrease' = (increase + decrease) + 1
    BY <1>1, <1>3, CompareCodes
  <2>3. /\ kb_increase' \in Nat \ {0} /\ kb_decrease' \in Nat \ {0}
        /\ {next', last'} \subseteq Char \cup {0}
        /\ mon_i + 1 \in RightSteps => kb_increase' = kb_increase + 1
        /\ mon_i + 1 \in LeftInRow => kb_decrease' = kb_decrease + 1
        /\ \/ kb_increase' = 1 /\ kb_decrease' = 1
           \/ /\ mon_i + 1 \in NearKeys
              /\ kb_increase' + kb_decrease' = (kb_increase + kb_decrease) + 1
    BY <1>1, <1>3, CompareKeys
  <2>4. ~mon_found
    BY <1>1, <2>1 DEF MonLoopInv
  <2>5. MonTypeOK'
    <3>1. {increase', decrease', kb_increase', kb_decrease'} \subseteq Nat \ {0}
      BY <2>2, <2>3
    <3>2. mon_i' \in Nat /\ mon_found' \in BOOLEAN /\ mon_done' \in BOOLEAN
      BY <1>2, <2>1
    <3> QED
      BY <1>1, <2>1, <2>3, <3>1, <3>2 DEF MonTypeOK
  <2>6. /\ Counts(DownSteps, mon_i + 1, increase')
        /\ increase' < k => (k >= 2 => NoRun(DownSteps, mon_i + 1, k))
    BY <1>1, <1>2, <2>2, <2>4, CounterNext DEF MonLoopInv
  <2>7. /\ Counts(UpSteps, mon_i + 1, decrease')
        /\ decrease' < k => (k >= 2 => NoRun(UpSteps, mon_i + 1, k))
    BY <1>1, <1>2, <2>2, <2>4, CounterNext DEF MonLoopInv
  <2>8. /\ Counts(RightSteps, mon_i + 1, kb_increase')
        /\ kb_increase' < k => (k >= 2 => NoRun(RightSteps, mon_i + 1, k))
    BY <1>1, <1>2, <2>3, <2>4, CounterNext DEF MonLoopInv
  <2>9. /\ Counts(LeftInRow, mon_i + 1, kb_decrease')
        /\ kb_decrease' < k => (k >= 2 => NoRun(LeftInRow, mon_i + 1, k))
    BY <1>1, <1>2, <2>3, <2>4, CounterNext DEF MonLoopInv
  <2>10. Stretch(NearCodes, mon_i + 1, increase' + decrease' - 2)
    BY <1>1, <1>2, <2>2, StretchStep DEF MonLoopInv
  <2>11. Stretch(NearKeys, mon_i + 1, kb_increase' + kb_decrease' - 2)
    BY <1>1, <1>2, <2>3, StretchStep DEF MonLoopInv
  <2>12. ~reported => /\ increase' < k /\ decrease' < k
                      /\ kb_increase' < k /\ kb_decrease' < k
    <3>1. \A x, y \in Nat : ~(x >= y) => x < y
      OBVIOUS
    <3> QED
      BY <1>2, <2>2, <2>3, <3>1
  <2>13. (mon_i + 1) + 1 <= Len(pw) /\ mon_i + 1 > 0
    BY <1>2, <2>1
  <2>14. /\ DownSteps' = DownSteps /\ UpSteps' = UpSteps
         /\ RightSteps' = RightSteps /\ LeftInRow' = LeftInRow
         /\ NearCodes' = NearCodes /\ NearKeys' = NearKeys
    BY <2>1 DEF DownSteps, UpSteps, RightSteps, LeftSteps, LeftInRow, RowEnds,
                Keyless, NearCodes, NearKeys, Pairs
  <2>15. MonLoopInv'
    <3>1. ~mon_found' => /\ increase' < k /\ decrease' < k
                     /\ kb_increase' < k /\ kb_decrease' < k
      BY <2>1, <2>12
    <3>2. ~mon_found' /\ k >= 2 => /\ NoRun(DownSteps, mon_i + 1, k)
                               /\ NoRun(UpSteps, mon_i + 1, k)
                               /\ NoRun(RightSteps, mon_i + 1, k)
                               /\ NoRun(LeftInRow, mon_i + 1, k)
      BY <2>6, <2>7, <2>8, <2>9, <3>1
    <3>3. /\ mon_found' => mon_done' /\ reported
          /\ ~(mon_done' /\ ~mon_found')
      BY <2>1
    <3> QED
      BY <2>1, <2>6, <2>7, <2>8, <2>9, <2>10, <2>11, <2>13, <2>14,
         <3>1, <3>2, <3>3 DEF MonLoopInv
  <2> QED
    BY <2>5, <2>15 DEF MonIInv
<1>4. CASE MonReturnFalse
  <2>1. /\ DownSteps' = DownSteps /\ UpSteps' = UpSteps
        /\ RightSteps' = RightSteps /\ LeftInRow' = LeftInRow
        /\ NearCodes' = NearCodes /\ NearKeys' = NearKeys
    BY <1>4 DEF MonReturnFalse, DownSteps, UpSteps, RightSteps, LeftSteps,
                LeftInRow, RowEnds, Keyless, NearCodes, NearKeys, Pairs
  <2>2. MonTypeOK'
    BY <1>1, <1>4 DEF MonReturnFalse, MonTypeOK, counters
  <2>3. MonLoopInv'
    BY <1>1, <1>4, <2>1 DEF MonReturnFalse, MonLoopInv, counters
  <2> QED
    BY <2>2, <2>3 DEF MonIInv
<1>5. CASE UNCHANGED mon_vars
  <2>1. /\ DownSteps' = DownSteps /\ UpSteps' = UpSteps
        /\ RightSteps' = RightSteps /\ LeftInRow' = LeftInRow
        /\ NearCodes' = NearCodes /\ NearKeys' = NearKeys
    BY <1>5 DEF mon_vars, DownSteps, UpSteps, RightSteps, LeftSteps,
                LeftInRow, RowEnds, Keyless, NearCodes, NearKeys, Pairs
  <2>2. MonTypeOK'
    BY <1>1, <1>5 DEF mon_vars, counters, MonTypeOK
  <2>3. MonLoopInv'
    BY <1>1, <1>5, <2>1 DEF mon_vars, counters, MonLoopInv
  <2> QED
    BY <2>2, <2>3 DEF MonIInv
<1> QED
  BY <1>3, <1>4, <1>5 DEF MonNext

LEMMA MonInvariance == MonSpec => []MonIInv
  BY MonInitIInv, MonNextIInv, PTL DEF MonSpec

(***************************************************************************)
(* The theorems                                                            *)
(***************************************************************************)
(* Whatever runs is found, on any keyboard, but for a run to the left that *)
(* starts at the end of a row.                                             *)
THEOREM FindsRuns == MonSpec => []RunsAreFound
<1>1. MonIInv => RunsAreFound
  <2> SUFFICES ASSUME MonIInv, mon_done, ~mon_found, Len(pw) >= 2
               PROVE  /\ ~Run(DownSteps, monotone_num)
                      /\ ~Run(UpSteps, monotone_num)
                      /\ ~Run(RightSteps, monotone_num)
                      /\ ~Run(LeftInRow, monotone_num)
    BY DEF RunsAreFound, MonotoneRun, LeftInRow
  <2>1. /\ Len(pw) \in Nat /\ monotone_num \in Nat \ {0} /\ mon_i \in Nat
        /\ increase \in Nat \ {0}
    BY MonArguments DEF MonIInv
  <2>2. mon_i + 1 = Len(pw) /\ mon_i > 0
    BY <2>1 DEF MonIInv, MonLoopInv
  <2>3. monotone_num >= 2
    BY <2>1, <2>2 DEF MonIInv, MonLoopInv
  <2>4. ASSUME NEW G, NoRun(G, mon_i, monotone_num) PROVE ~Run(G, monotone_num)
    BY <2>1, <2>2, <2>4 DEF Run, NoRun
  <2> QED
    BY <2>3, <2>4 DEF MonIInv, MonLoopInv
<1> QED
  BY <1>1, MonInvariance, PTL

(* Only stretches of neighbours are reported.                              *)
THEOREM ReportsNeighbours == MonSpec => []ReportedAreNeighbours
<1>1. MonIInv => ReportedAreNeighbours
  <2> SUFFICES ASSUME MonIInv, mon_found
               PROVE  Run(NearCodes, monotone_num) \/ Run(NearKeys, monotone_num)
    BY DEF ReportedAreNeighbours, Neighbours, NearCodes, NearKeys
  <2> DEFINE s == increase + decrease - 2
             t == kb_increase + kb_decrease - 2
             k == monotone_num
  <2>1. /\ Len(pw) \in Nat /\ k \in Nat \ {0} /\ mon_i \in Nat
        /\ increase \in Nat \ {0} /\ decrease \in Nat \ {0}
        /\ kb_increase \in Nat \ {0} /\ kb_decrease \in Nat \ {0}
    BY MonArguments DEF MonIInv
  <2>2. s \in Nat /\ t \in Nat /\ mon_i + 1 <= Len(pw)
    BY <2>1 DEF MonIInv, MonLoopInv
  <2>3. s >= k - 1 \/ t >= k - 1
    BY <2>1 DEF MonIInv, MonLoopInv
  <2>4. Stretch(NearCodes, mon_i, s) /\ Stretch(NearKeys, mon_i, t)
    BY DEF MonIInv, MonLoopInv
  <2> QED
    BY <2>1, <2>2, <2>3, <2>4, StretchIsRun
<1> QED
  BY <1>1, MonInvariance, PTL
=============================================================================
