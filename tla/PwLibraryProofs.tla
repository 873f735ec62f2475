-------------------------- MODULE PwLibraryProofs --------------------------
(***************************************************************************)
(* Machine-checked proofs about PwLibrary: how strong a password is, how   *)
(* the policy gets out of dde.conf, what a stored hash says, and what the  *)
(* check and the strength have to do with each other.                      *)
(***************************************************************************)
EXTENDS PwLibrary, PwCheckProofs, SequenceTheorems

(***************************************************************************)
(* The strength of a password                                              *)
(***************************************************************************)
LEMMA StrengthClassesFinite == IsFiniteSet(StrengthClasses)
<1>1. IsFiniteSet({Lower})
  BY FS_Singleton
<1>2. IsFiniteSet({Lower} \cup {Upper})
  BY <1>1, FS_AddElement
<1>3. IsFiniteSet(({Lower} \cup {Upper}) \cup {Number})
  BY <1>2, FS_AddElement
<1>4. IsFiniteSet((({Lower} \cup {Upper}) \cup {Number}) \cup {Character})
  BY <1>3, FS_AddElement
<1>5. StrengthClasses
        = (({Lower} \cup {Upper}) \cup {Number}) \cup {Character}
  BY Zenon DEF StrengthClasses
<1> QED
  BY <1>4, <1>5

LEMMA MoreTextMoreTypes ==
  ASSUME NEW s \in Seq(Char), NEW n \in 0 .. Len(s)
  PROVE  /\ type(SubSeq(s, 1, n)) <= type(s)
         /\ type(SubSeq(s, 1, n)) \in Nat /\ type(s) \in Nat
<1> DEFINE Used(t) == {class \in StrengthClasses : class \cap Range(t) # {}}
<1>1. Range(SubSeq(s, 1, n)) \subseteq Range(s)
  BY DEF Range
<1>2. Used(SubSeq(s, 1, n)) \in SUBSET Used(s)
  BY <1>1
<1>3. /\ IsFiniteSet(Used(s)) /\ IsFiniteSet(Used(SubSeq(s, 1, n)))
  <2>1. Used(s) \in SUBSET StrengthClasses
        /\ Used(SubSeq(s, 1, n)) \in SUBSET StrengthClasses
    OBVIOUS
  <2> HIDE DEF Used
  <2> QED
    BY <2>1, StrengthClassesFinite, FS_Subset
<1> HIDE DEF Used
<1>4. /\ Cardinality(Used(SubSeq(s, 1, n))) <= Cardinality(Used(s))
      /\ Cardinality(Used(SubSeq(s, 1, n))) \in Nat
      /\ Cardinality(Used(s)) \in Nat
  BY <1>2, <1>3, FS_Subset, FS_CardinalityType
<1> QED
  BY <1>4, Zenon DEF type, Used

(* For any four numbers: a longer text meets whatever its start meets.     *)
LEMMA NothingWeakens == Weakened = {}
<1> SUFFICES ASSUME NEW s \in Passwords, NEW st \in Standards,
                    NEW n \in 0 .. Len(s)
             PROVE  ~(Level(SubSeq(s, 1, n), st) > Level(s, st))
  BY DEF Weakened, Drops
<1>1. s \in Seq(Char) /\ Len(s) \in Nat
  BY PasswordsAssumption
<1>2. Len(SubSeq(s, 1, n)) = n
  BY <1>1
<1>3. /\ type(SubSeq(s, 1, n)) <= type(s)
      /\ type(SubSeq(s, 1, n)) \in Nat /\ type(s) \in Nat
  BY <1>1, MoreTextMoreTypes
<1>4. /\ st.length_high \in Int /\ st.length_middle \in Int
      /\ st.type_high \in Int /\ st.type_middle \in Int
  BY StandardsAssumption
<1> QED
  BY <1>1, <1>2, <1>3, <1>4 DEF Level

(* Whatever numbers dde.conf has, the password is not weaker than what it  *)
(* starts with (get_new_passwd_strength_level_by_conf).                    *)
THEOREM TypingOnStrengthens == Spec => []StrengthNeverDrops
<1>1. StrengthNeverDrops
  BY NothingWeakens DEF StrengthNeverDrops
<1> QED
  BY <1>1, PTL

(***************************************************************************)
(* The check and the strength                                              *)
(***************************************************************************)
(* Under a policy that refines the four classes every group that is used   *)
(* stands for a class of its own.                                          *)
LEMMA GroupsStandForClasses ==
  ASSUME PolicyRefinesClasses
  PROVE  /\ Cardinality(TypesUsed) \in Nat /\ type(pw) \in Nat
         /\ Cardinality(TypesUsed) <= type(pw)
<1> DEFINE Used == {class \in StrengthClasses : class \cap Range(pw) # {}}
           around == [g \in TypesUsed |->
                        CHOOSE class \in StrengthClasses :
                           Values(g) \subseteq class]
<1>1. ASSUME NEW g \in TypesUsed
      PROVE  around[g] \in StrengthClasses /\ Values(g) \subseteq around[g]
  BY DEF PolicyRefinesClasses, TypesUsed
<1>2. ASSUME NEW g \in TypesUsed PROVE around[g] \in Used
  <2>1. PICK x \in g : character_type[x] \in Range(pw)
    BY DEF TypesUsed
  <2>2. character_type[x] \in around[g]
    BY <1>1, <2>1 DEF Values
  <2> QED
    BY <1>1, <2>1, <2>2
<1>3. ASSUME NEW g \in TypesUsed, NEW h \in TypesUsed, around[g] = around[h]
      PROVE  g = h
  <2>1. Values(g) \cup Values(h) \subseteq around[g]
    BY <1>1, <1>3
  <2>2. g \in Classes /\ h \in Classes
    BY DEF TypesUsed
  <2> QED
    BY <1>1, <2>1, <2>2 DEF PolicyRefinesClasses
<1>4. around \in Injection(TypesUsed, Used)
  <2>1. around \in [TypesUsed -> Used]
    BY <1>2
  <2> HIDE DEF around
  <2> QED
    BY <1>3, <2>1 DEF Injection, IsInjective
<1>5. IsFiniteSet(Used)
  <2>1. Used \in SUBSET StrengthClasses
    OBVIOUS
  <2> QED
    BY <2>1, StrengthClassesFinite, FS_Subset
<1> HIDE DEF Used, around
<1>6. /\ IsFiniteSet(TypesUsed)
      /\ Cardinality(TypesUsed) <= Cardinality(Used)
  BY <1>4, <1>5, FS_Injection
<1>7. Cardinality(TypesUsed) \in Nat /\ Cardinality(Used) \in Nat
  BY <1>5, <1>6, FS_CardinalityType
<1> QED
  BY <1>6, <1>7, Zenon DEF type, Used

(* For every password, policy and standard: where dde.conf demands as much *)
(* as the standard does for a level, and the groups of the policy refine   *)
(* the four classes, every accepted password is rated at that level        *)
(* (deepin_pw_check_by_conf and get_new_passwd_strength_level_by_conf).    *)
THEOREM AcceptedAreStrong == Spec => []AcceptedIsStrong
<1>1. CheckInv /\ TypesAreCounted => AcceptedIsStrong
  <2> SUFFICES ASSUME CheckInv, TypesAreCounted, rule = "returned",
                      ret = "PW_NO_ERR", On("STRONG_PASSWORD"), WellFormed,
                      PolicyRefinesClasses, NEW st \in Standards
               PROVE  /\ options.min_len >= st.length_high
                         /\ character_num_required >= st.type_high
                           => Level(pw, st) = 3
                      /\ options.min_len >= st.length_middle
                         /\ character_num_required >= st.type_middle
                           => Level(pw, st) >= 2
    BY DEF AcceptedIsStrong
  <2>1. Len(pw) >= options.min_len /\ typ_ret = "PW_NO_ERR"
    BY DEF CheckInv, Accepted, LengthPassed, Arguments
  <2>2. Cardinality(TypesUsed) >= character_num_required
    BY <2>1 DEF TypesAreCounted
  <2>3. /\ Len(pw) \in Nat /\ options.min_len \in Int
        /\ character_num_required \in Int
    BY DEF CheckInv, Arguments
  <2>4. /\ st.length_high \in Int /\ st.length_middle \in Int
        /\ st.type_high \in Int /\ st.type_middle \in Int
    BY StandardsAssumption
  <2>5. type(pw) \in Nat /\ type(pw) >= character_num_required
    BY <2>2, <2>3, GroupsStandForClasses
  <2> QED
    BY <2>1, <2>3, <2>4, <2>5 DEF Level
<1> QED
  BY <1>1, CheckInvariance, CountsTypes, PTL

(***************************************************************************)
(* The way of the policy through dde.conf                                  *)
(***************************************************************************)
(* There is only one place where skipping can end.                         *)
LEMMA SkipEnds ==
  ASSUME NEW s, Len(s) \in Nat, DOMAIN s = 1 .. Len(s), NEW c,
         NEW from \in 1 .. Len(s) + 1, NEW n \in from .. Len(s) + 1,
         \A y \in from .. n - 1 : s[y] = c,
         n \in DOMAIN s => s[n] # c
  PROVE  Skip(s, from, c) = n
<1> DEFINE P(x) == /\ \A y \in from .. x - 1 : s[y] = c
                   /\ x \in DOMAIN s => s[x] # c
<1>1. ASSUME NEW x \in from .. Len(s) + 1, P(x) PROVE x = n
  <2>1. ~(x < n)
    BY <1>1
  <2>2. ~(n < x)
    BY <1>1
  <2> QED
    BY <2>1, <2>2
<1>2. P(n)
  OBVIOUS
<1> HIDE DEF P
<1>3. (CHOOSE x \in from .. Len(s) + 1 : P(x)) = n
  BY <1>1, <1>2
<1> QED
  BY <1>3 DEF P, Skip

(* The line of an administrator, with quotes, reads as it was meant, ...   *)
LEMMA QuotedLineReads ==
  ASSUME NEW v \in Seq(Char), v # <<>>, v[1] \notin {Space, Quote}
  PROVE  get_validate_policy(QuotedLine(v)) = v
<1> DEFINE line == QuotedLine(v)
<1>1. /\ Len(v) \in Nat \ {0} /\ DOMAIN v = 1 .. Len(v)
      /\ Space \in Char /\ Quote \in Char
  BY DEF Space, Quote, Char
<1>2. /\ line \in Seq(Char) /\ Len(line) = Len(v) + 3
      /\ DOMAIN line = 1 .. Len(v) + 3
      /\ line[1] = Space /\ line[2] = Quote /\ line[Len(v) + 3] = Quote
      /\ \A x \in 1 .. Len(v) : line[x + 2] = v[x]
  BY <1>1 DEF QuotedLine
<1>3. line[3] = v[1]
  BY <1>1, <1>2
<1>4. Space # Quote
  BY DEF Space, Quote
<1> HIDE DEF line
<1>5. Skip(line, 1, Space) = 2
  BY <1>1, <1>2, <1>4, SkipEnds
<1>6. Skip(line, 2, Quote) = 3
  BY <1>1, <1>2, <1>3, SkipEnds
<1>7. get_validate_policy(line) = SubSeq(line, 3, Len(v) + 2)
  BY <1>1, <1>2, <1>5, <1>6 DEF get_validate_policy
<1>8. SubSeq(line, 3, Len(v) + 2) = v
  BY <1>1, <1>2
<1> QED
  BY <1>7, <1>8 DEF line

(* ... and so does the line of the upgrade tool, without.                  *)
LEMMA ToolLineReads ==
  ASSUME NEW v \in Seq(Char), v # <<>>, v[1] \notin {Space, Quote}
  PROVE  get_validate_policy(ToolLine(v)) = v
<1> DEFINE line == ToolLine(v)
<1>1. /\ Len(v) \in Nat \ {0} /\ DOMAIN v = 1 .. Len(v)
      /\ Space \in Char
  BY DEF Space, Char
<1>2. /\ line \in Seq(Char) /\ Len(line) = Len(v) + 1
      /\ DOMAIN line = 1 .. Len(v) + 1
      /\ line[1] = Space
      /\ \A x \in 1 .. Len(v) : line[x + 1] = v[x]
  BY <1>1 DEF ToolLine
<1>3. line[2] = v[1]
  BY <1>1, <1>2
<1> HIDE DEF line
<1>4. Skip(line, 1, Space) = 2
  BY <1>1, <1>2, <1>3, SkipEnds
<1>5. Skip(line, 2, Quote) = 2
  BY <1>1, <1>2, <1>3, SkipEnds
<1>6. get_validate_policy(line) = SubSeq(line, 2, Len(v) + 1)
  BY <1>1, <1>2, <1>4, <1>5 DEF get_validate_policy
<1>7. SubSeq(line, 2, Len(v) + 1) = v
  BY <1>1, <1>2
<1> QED
  BY <1>6, <1>7 DEF line

(* For every policy and every other text that starts with neither a space  *)
(* nor a quote: what the library and the upgrade tool read from the line   *)
(* of either form is the text, and still is after the tool has rewritten   *)
(* the line (get_validate_policy, update_conf).                            *)
THEOREM PolicySurvives == Spec => []PolicyLinesAreExact
<1>1. Garbled = {}
  BY QuotedLineReads, ToolLineReads, PasswordsAssumption,
     CharacterTypesAssumption DEF Garbled
<1>2. PolicyLinesAreExact
  BY <1>1 DEF PolicyLinesAreExact
<1> QED
  BY <1>2, PTL

(***************************************************************************)
(* Stored hashes: lengths                                                  *)
(***************************************************************************)
Shorter(l, n) == IF l < n THEN l ELSE n

(* What bigcrypt looks at: 16 segments of eight characters.                *)
Span == 8 * 16

(* How long segment j of l characters is.                                  *)
Width(l, j) == IF l < 8 * j THEN l - 8 * (j - 1) ELSE 8

Sizes == SEGMENT_SIZE = 8 /\ MAX_PASS_LEN = 16

LEMMA SizesAre == Sizes
  BY DEF Sizes, SEGMENT_SIZE, MAX_PASS_LEN

(* There are as many segments as the text has, and at most 16.             *)
LEMMA SegmentCount ==
  ASSUME NEW l \in Nat
  PROVE  /\ n_seg(l) \in 1 .. 16
         /\ 8 * (n_seg(l) - 1) <= l
         /\ n_seg(l) < 16 => l <= 8 * n_seg(l)
         /\ n_seg(l) = 1 <=> l <= 8
<1>1. CASE l = 0
  BY <1>1, SizesAre DEF Sizes, n_seg
<1>2. CASE l > 0
  <2> DEFINE q == (l - 1) \div 8
  <2>1. q \in Nat /\ 8 * q <= l - 1 /\ l - 1 < 8 * q + 8
    BY <1>2
  <2>2. n_seg(l) = IF 1 + q > 16 THEN 16 ELSE 1 + q
    BY <1>2, SizesAre DEF Sizes, n_seg
  <2> HIDE DEF q
  <2> QED
    BY <2>1, <2>2
<1> QED
  BY <1>1, <1>2

LEMMA WidthIs ==
  ASSUME NEW l \in Nat, NEW j \in 1 .. 16, 8 * (j - 1) <= l
  PROVE  /\ Width(l, j) \in 0 .. 8
         /\ Width(l, j) = Shorter(l - 8 * (j - 1), 8)
  BY DEF Width, Shorter

(* The segments end where bigcrypt stops looking, ...                      *)
LEMMA SegmentsCover ==
  ASSUME NEW l \in Nat, NEW n \in 1 .. 16, n = n_seg(l)
  PROVE  Shorter(l, Span) = 8 * (n - 1) + Width(l, n)
<1>1. 8 * (n - 1) <= l /\ (n < 16 => l <= 8 * n)
  BY SegmentCount
<1> QED
  BY <1>1 DEF Shorter, Span, Width

(* ... every character that it looks at is in one of them, ...             *)
LEMMA PlaceInSegment ==
  ASSUME NEW l \in Nat, NEW i \in 1 .. Shorter(l, Span)
  PROVE  \E j \in 1 .. n_seg(l) : \E k \in 1 .. Width(l, j) :
            i = 8 * (j - 1) + k
<1> DEFINE j == 1 + (i - 1) \div 8
           k == i - 8 * (j - 1)
<1>1. i \in Int /\ 1 <= i /\ i <= 8 * 16 /\ i <= l
  BY DEF Shorter, Span
<1>2. j \in Int /\ 1 <= j /\ k \in 1 .. 8 /\ 8 * (j - 1) + k = i
  BY <1>1
<1> HIDE DEF j, k
<1>3. j \in 1 .. 16 /\ 8 * (j - 1) < l
  BY <1>1, <1>2
<1>4. n_seg(l) \in 1 .. 16 /\ (n_seg(l) < 16 => l <= 8 * n_seg(l))
  BY SegmentCount
<1>5. j \in 1 .. n_seg(l)
  BY <1>3, <1>4
<1>6. k \in 1 .. Width(l, j)
  BY <1>1, <1>2, <1>3 DEF Width
<1> QED
  BY <1>2, <1>5, <1>6

(* ... and nothing else is.                                                *)
LEMMA SegmentWithin ==
  ASSUME NEW l \in Nat, NEW j \in 1 .. n_seg(l), NEW k \in 1 .. Width(l, j)
  PROVE  8 * (j - 1) + k \in 1 .. Shorter(l, Span)
<1>1. n_seg(l) \in 1 .. 16 /\ 8 * (n_seg(l) - 1) <= l
  BY SegmentCount
<1>2. j \in 1 .. 16 /\ 8 * (j - 1) <= l
  BY <1>1
<1>3. Width(l, j) \in 0 .. 8
  BY <1>2, WidthIs
<1> QED
  BY <1>2, <1>3 DEF Width, Shorter, Span

(* What goes on behind it does not matter.                                 *)
LEMMA SegmentsOfSpan ==
  ASSUME NEW l \in Nat, NEW m \in Nat, Shorter(l, Span) = Shorter(m, Span)
  PROVE  /\ n_seg(l) = n_seg(m)
         /\ \A j \in 1 .. n_seg(l) : Width(l, j) = Width(m, j)
<1>1. l = m \/ (l >= 8 * 16 /\ m >= 8 * 16)
  BY DEF Shorter, Span
<1>2. ASSUME NEW x \in Nat, x >= 8 * 16
      PROVE  n_seg(x) = 16 /\ \A j \in 1 .. 16 : Width(x, j) = 8
  <2>1. n_seg(x) \in 1 .. 16 /\ (n_seg(x) < 16 => x <= 8 * n_seg(x))
    BY SegmentCount
  <2> QED
    BY <1>2, <2>1 DEF Width
<1> QED
  BY <1>1, <1>2

(***************************************************************************)
(* Stored hashes: segments                                                 *)
(***************************************************************************)
LEMMA UpToIs ==
  ASSUME NEW s \in Seq(Char), NEW n \in Nat
  PROVE  /\ UpTo(n, s) \in Seq(Char)
         /\ Len(s) \in Nat
         /\ Len(UpTo(n, s)) = Shorter(Len(s), n)
         /\ Shorter(Len(s), n) \in Nat
         /\ \A i \in 1 .. Shorter(Len(s), n) : UpTo(n, s)[i] = s[i]
  BY DEF UpTo, Shorter

LEMMA UpToTwice ==
  ASSUME NEW s \in Seq(Char), NEW n \in Nat, NEW m \in Nat, m <= n
  PROVE  UpTo(m, UpTo(n, s)) = UpTo(m, s)
<1> DEFINE t == UpTo(n, s)
<1>1. /\ t \in Seq(Char) /\ Len(s) \in Nat /\ Len(t) \in Nat
      /\ Len(t) = Shorter(Len(s), n)
      /\ \A i \in 1 .. Shorter(Len(s), n) : t[i] = s[i]
  BY UpToIs
<1> HIDE DEF t
<1>2. /\ Shorter(Len(t), m) = Shorter(Len(s), m)
      /\ Shorter(Len(s), m) <= Shorter(Len(s), n)
      /\ Shorter(Len(s), m) \in Nat /\ Shorter(Len(s), n) \in Nat
  BY <1>1 DEF Shorter
<1>3. /\ UpTo(m, t) \in Seq(Char) /\ Len(UpTo(m, t)) = Shorter(Len(s), m)
      /\ \A i \in 1 .. Shorter(Len(s), m) : UpTo(m, t)[i] = t[i]
  BY <1>1, <1>2, UpToIs
<1>4. /\ UpTo(m, s) \in Seq(Char) /\ Len(UpTo(m, s)) = Shorter(Len(s), m)
      /\ \A i \in 1 .. Shorter(Len(s), m) : UpTo(m, s)[i] = s[i]
  BY UpToIs
<1>5. \A i \in 1 .. Shorter(Len(s), m) : UpTo(m, t)[i] = UpTo(m, s)[i]
  BY <1>1, <1>2, <1>3, <1>4
<1>6. UpTo(m, t) = UpTo(m, s)
  BY <1>3, <1>4, <1>5, SeqEqual
<1> QED
  BY <1>6 DEF t

LEMMA TailIs ==
  ASSUME NEW s \in Seq(Char), NEW n \in Nat, n <= Len(s)
  PROVE  /\ SubSeq(s, n + 1, Len(s)) \in Seq(Char)
         /\ Len(SubSeq(s, n + 1, Len(s))) = Len(s) - n
         /\ \A i \in 1 .. Len(s) - n : SubSeq(s, n + 1, Len(s))[i] = s[n + i]
  OBVIOUS

(* What crypt(3) sees when it is shown the text from segment j on.         *)
Rest(s, j) == SubSeq(s, (j - 1) * SEGMENT_SIZE + 1, Len(s))
Segment(s, j) == UpTo(SEGMENT_SIZE, Rest(s, j))

LEMMA SegmentIs ==
  ASSUME NEW s \in Seq(Char), NEW j \in 1 .. n_seg(Len(s))
  PROVE  /\ Segment(s, j) \in Seq(Char)
         /\ Len(Segment(s, j)) = Width(Len(s), j)
         /\ \A i \in 1 .. Width(Len(s), j) :
               Segment(s, j)[i] = s[8 * (j - 1) + i]
<1> DEFINE t == Rest(s, j)
<1>1. /\ Len(s) \in Nat /\ n_seg(Len(s)) \in 1 .. 16
      /\ 8 * (n_seg(Len(s)) - 1) <= Len(s)
  BY SegmentCount
<1>2. j \in 1 .. 16 /\ 8 * (j - 1) <= Len(s)
  BY <1>1
<1>3. t = SubSeq(s, 8 * (j - 1) + 1, Len(s)) /\ Segment(s, j) = UpTo(8, t)
  BY <1>2, SizesAre DEF Rest, Segment, Sizes
<1>4. /\ t \in Seq(Char) /\ Len(t) = Len(s) - 8 * (j - 1)
      /\ \A i \in 1 .. Len(t) : t[i] = s[8 * (j - 1) + i]
  <2> DEFINE n == 8 * (j - 1)
  <2>1. n \in Nat /\ n <= Len(s) /\ t = SubSeq(s, n + 1, Len(s))
    BY <1>2, <1>3
  <2> HIDE DEF n, t
  <2>2. /\ t \in Seq(Char) /\ Len(t) = Len(s) - n
        /\ \A i \in 1 .. Len(t) : t[i] = s[n + i]
    BY <2>1, TailIs
  <2> QED
    BY <2>2 DEF n
<1> HIDE DEF t
<1>5. /\ Width(Len(s), j) = Shorter(Len(t), 8)
      /\ Width(Len(s), j) \in 0 .. 8
  BY <1>1, <1>2, <1>4, WidthIs
<1>6. /\ UpTo(8, t) \in Seq(Char) /\ Len(UpTo(8, t)) = Width(Len(s), j)
      /\ \A i \in 1 .. Width(Len(s), j) : UpTo(8, t)[i] = t[i]
  <2> DEFINE w == Shorter(Len(t), 8)
  <2>1. /\ UpTo(8, t) \in Seq(Char) /\ Len(UpTo(8, t)) = w
        /\ \A i \in 1 .. w : UpTo(8, t)[i] = t[i]
    BY <1>4, UpToIs
  <2> QED
    BY <1>5, <2>1
<1>7. Width(Len(s), j) <= Len(t) /\ Width(Len(s), j) \in Nat
  <2>1. Len(t) \in Nat
    BY <1>4
  <2>2. Shorter(Len(t), 8) <= Len(t)
    BY <2>1 DEF Shorter
  <2> QED
    BY <1>5, <2>2
<1>8. ASSUME NEW i \in 1 .. Width(Len(s), j)
      PROVE  UpTo(8, t)[i] = s[8 * (j - 1) + i]
  <2>1. i \in 1 .. Len(t)
    <3>1. Len(t) \in Nat
      BY <1>4
    <3> QED
      BY <1>7, <3>1
  <2>2. UpTo(8, t)[i] = t[i]
    BY <1>6
  <2>3. t[i] = s[8 * (j - 1) + i]
    BY <1>4, <2>1
  <2> QED
    BY <2>2, <2>3
<1> QED
  BY <1>3, <1>6, <1>8

(* The segments say as much as the first 128 characters.                   *)
SameSegments(a, b) ==
    /\ n_seg(Len(a)) = n_seg(Len(b))
    /\ \A j \in 1 .. n_seg(Len(a)) : Segment(a, j) = Segment(b, j)

LEMMA SegmentsDecide ==
  ASSUME NEW a \in Seq(Char), NEW b \in Seq(Char), SameSegments(a, b)
  PROVE  UpTo(Span, a) = UpTo(Span, b)
<1> DEFINE n == n_seg(Len(a))
<1>1. /\ Len(a) \in Nat /\ Len(b) \in Nat
      /\ n \in 1 .. 16 /\ n \in 1 .. n /\ n_seg(Len(b)) = n
  BY SegmentCount DEF SameSegments
<1>2. \A j \in 1 .. n : /\ Segment(b, j) = Segment(a, j)
                        /\ Width(Len(b), j) = Width(Len(a), j)
  BY <1>1, SegmentIs DEF SameSegments
<1> DEFINE m == Shorter(Len(a), Span)
<1>3. Shorter(Len(b), Span) = m
  <2>1. Shorter(Len(a), Span) = 8 * (n - 1) + Width(Len(a), n)
    BY <1>1, SegmentsCover
  <2>2. Shorter(Len(b), Span) = 8 * (n - 1) + Width(Len(b), n)
    BY <1>1, SegmentsCover
  <2> QED
    BY <1>1, <1>2, <2>1, <2>2
<1>4. ASSUME NEW i \in 1 .. m PROVE a[i] = b[i]
  <2>1. PICK j \in 1 .. n : \E k \in 1 .. Width(Len(a), j) :
                               i = 8 * (j - 1) + k
    BY <1>1, PlaceInSegment
  <2>2. PICK k \in 1 .. Width(Len(a), j) : i = 8 * (j - 1) + k
    BY <2>1
  <2>3. Segment(a, j)[k] = a[8 * (j - 1) + k]
    BY SegmentIs
  <2>4. Segment(b, j)[k] = b[8 * (j - 1) + k]
    BY <1>1, <1>2, SegmentIs
  <2> QED
    BY <1>2, <2>2, <2>3, <2>4
<1>5. Span \in Nat
  BY DEF Span
<1>6. /\ UpTo(Span, a) \in Seq(Char) /\ Len(UpTo(Span, a)) = m
      /\ \A i \in 1 .. m : UpTo(Span, a)[i] = a[i]
  BY <1>5, UpToIs
<1>7. /\ UpTo(Span, b) \in Seq(Char) /\ Len(UpTo(Span, b)) = m
      /\ \A i \in 1 .. m : UpTo(Span, b)[i] = b[i]
  BY <1>3, <1>5, UpToIs
<1> HIDE DEF m
<1> QED
  BY <1>4, <1>6, <1>7, SeqEqual

LEMMA StartDecidesSegments ==
  ASSUME NEW a \in Seq(Char), NEW b \in Seq(Char),
         UpTo(Span, a) = UpTo(Span, b)
  PROVE  SameSegments(a, b)
<1> DEFINE m == Shorter(Len(a), Span)
<1>1. Span \in Nat
  BY DEF Span
<1>2. /\ Len(a) \in Nat /\ Len(b) \in Nat
      /\ Shorter(Len(b), Span) = m
      /\ \A i \in 1 .. m : a[i] = b[i]
  <2>1. /\ Len(a) \in Nat /\ Len(UpTo(Span, a)) = m
        /\ \A i \in 1 .. m : UpTo(Span, a)[i] = a[i]
    BY <1>1, UpToIs
  <2>2. /\ Len(b) \in Nat /\ Len(UpTo(Span, b)) = Shorter(Len(b), Span)
        /\ \A i \in 1 .. Shorter(Len(b), Span) : UpTo(Span, b)[i] = b[i]
    BY <1>1, UpToIs
  <2> HIDE DEF m
  <2> QED
    BY <2>1, <2>2
<1>3. /\ n_seg(Len(a)) = n_seg(Len(b))
      /\ \A j \in 1 .. n_seg(Len(a)) : Width(Len(a), j) = Width(Len(b), j)
  BY <1>2, SegmentsOfSpan
<1>4. ASSUME NEW j \in 1 .. n_seg(Len(a))
      PROVE  Segment(a, j) = Segment(b, j)
  <2>1. /\ Segment(a, j) \in Seq(Char)
        /\ Len(Segment(a, j)) = Width(Len(a), j)
        /\ \A i \in 1 .. Width(Len(a), j) :
              Segment(a, j)[i] = a[8 * (j - 1) + i]
    BY SegmentIs
  <2>2. /\ Segment(b, j) \in Seq(Char)
        /\ Len(Segment(b, j)) = Width(Len(a), j)
        /\ \A i \in 1 .. Width(Len(a), j) :
              Segment(b, j)[i] = b[8 * (j - 1) + i]
    BY <1>3, SegmentIs
  <2>3. \A i \in 1 .. Width(Len(a), j) : 8 * (j - 1) + i \in 1 .. m
    BY <1>2, SegmentWithin
  <2>4. \A i \in 1 .. Width(Len(a), j) : Segment(a, j)[i] = Segment(b, j)[i]
    BY <1>2, <2>1, <2>2, <2>3
  <2> QED
    BY <2>1, <2>2, <2>4, SeqEqual
<1> QED
  BY <1>3, <1>4 DEF SameSegments

(***************************************************************************)
(* Stored hashes: the chain of blocks                                      *)
(***************************************************************************)
(* c is what bigcrypt makes of the first n segments of s.                  *)
IsCipher(c, s, salt, n) ==
    c = [j \in 1 .. n |-> Crypt(Rest(s, j), IF j = 1 THEN salt ELSE c[j - 1])]

(* There is one: it grows block by block.                                  *)
LEMMA CipherExists ==
  ASSUME NEW s, NEW salt, NEW n \in Nat
  PROVE  \E c : IsCipher(c, s, salt, n)
<1> DEFINE NoCipher == {m \in Nat : \A c : ~IsCipher(c, s, salt, m)}
<1>1. SUFFICES ASSUME NoCipher # {} PROVE FALSE
  OBVIOUS
<1> DEFINE m == Min(NoCipher)
<1>2. m \in NoCipher /\ \A x \in NoCipher : m <= x
  <2>1. NoCipher \in SUBSET Nat
    OBVIOUS
  <2> HIDE DEF NoCipher
  <2> QED
    BY <1>1, <2>1, LeastIsThere
<1> HIDE DEF m
<1>3. m \in Nat /\ \A c : ~IsCipher(c, s, salt, m)
  BY <1>2
<1>4. CASE m = 0
  <2>1. IsCipher([j \in 1 .. 0 |-> salt], s, salt, m)
    BY <1>4 DEF IsCipher
  <2> QED
    BY <1>3, <2>1
<1>5. CASE m > 0
  <2>1. m - 1 \in Nat /\ m - 1 \notin NoCipher
    BY <1>2, <1>3, <1>5
  <2>2. PICK c : IsCipher(c, s, salt, m - 1)
    BY <2>1
  <2> DEFINE Next1(d, j) == Crypt(Rest(s, j), IF j = 1 THEN salt ELSE d[j - 1])
             d == [j \in 1 .. m |-> Next1(c, j)]
  <2>3. ASSUME NEW j \in 1 .. m - 1 PROVE d[j] = c[j]
    <3>1. c[j] = Next1(c, j)
      BY <2>2 DEF IsCipher
    <3> QED
      BY <1>3, <3>1
  <2>4. ASSUME NEW j \in 1 .. m PROVE Next1(d, j) = Next1(c, j)
    <3> HIDE DEF d
    <3>1. CASE j = 1
      BY <3>1
    <3>2. CASE j # 1
      <4>1. j - 1 \in 1 .. m - 1
        BY <1>3, <3>2
      <4> QED
        BY <2>3, <3>2, <4>1
    <3> QED
      BY <3>1, <3>2
  <2>5. d = [j \in 1 .. m |-> Next1(d, j)]
    <3> HIDE DEF Next1
    <3> QED
      BY <2>4
  <2> HIDE DEF d
  <2>6. IsCipher(d, s, salt, m)
    BY <2>5 DEF IsCipher
  <2> QED
    BY <1>3, <2>6
<1> QED
  BY <1>3, <1>4, <1>5

(* The blocks of bigcrypt, for a salt of k blocks.                         *)
Cipher(key, salt, k) ==
    CHOOSE c : IsCipher(c, keybuf(key, k), salt, n_seg(Len(keybuf(key, k))))

LEMMA BigcryptIs ==
  ASSUME NEW key, NEW salt, NEW k, n_seg(Len(keybuf(key, k))) \in Nat
  PROVE  /\ IsCipher(Cipher(key, salt, k), keybuf(key, k), salt,
                     n_seg(Len(keybuf(key, k))))
         /\ bigcrypt(key, salt, k) = Hash("crypt", salt, Cipher(key, salt, k))
<1>1. IsCipher(Cipher(key, salt, k), keybuf(key, k), salt,
               n_seg(Len(keybuf(key, k))))
  BY CipherExists DEF Cipher
<1>2. bigcrypt(key, salt, k) = Hash("crypt", salt, Cipher(key, salt, k))
  BY DEF bigcrypt, Cipher, IsCipher, Rest
<1> QED
  BY <1>1, <1>2

(* Equal blocks come from equal segments, ...                              *)
LEMMA CipherShowsSegments ==
  ASSUME NEW c, NEW s, NEW t, NEW salt, NEW n \in Nat,
         IsCipher(c, s, salt, n), IsCipher(c, t, salt, n)
  PROVE  \A j \in 1 .. n : Segment(s, j) = Segment(t, j)
<1> SUFFICES ASSUME NEW j \in 1 .. n PROVE Segment(s, j) = Segment(t, j)
  OBVIOUS
<1>1. /\ c[j] = Crypt(Rest(s, j), IF j = 1 THEN salt ELSE c[j - 1])
      /\ c[j] = Crypt(Rest(t, j), IF j = 1 THEN salt ELSE c[j - 1])
  BY DEF IsCipher
<1> QED
  BY <1>1 DEF Crypt, Segment

(* ... and equal segments give equal blocks.                               *)
LEMMA SegmentsGiveCipher ==
  ASSUME NEW c, NEW d, NEW s, NEW t, NEW salt, NEW n \in Nat,
         IsCipher(c, s, salt, n), IsCipher(d, t, salt, n),
         \A j \in 1 .. n : Segment(s, j) = Segment(t, j)
  PROVE  c = d
<1>1. /\ DOMAIN c = 1 .. n /\ DOMAIN d = 1 .. n
      /\ c = [j \in 1 .. n |-> c[j]] /\ d = [j \in 1 .. n |-> d[j]]
  BY DEF IsCipher
<1>2. ASSUME NEW j \in 1 .. n, j # 1 => c[j - 1] = d[j - 1]
      PROVE  c[j] = d[j]
  <2>1. /\ c[j] = Crypt(Rest(s, j), IF j = 1 THEN salt ELSE c[j - 1])
        /\ d[j] = Crypt(Rest(t, j), IF j = 1 THEN salt ELSE d[j - 1])
    BY DEF IsCipher
  <2>2. UpTo(SEGMENT_SIZE, Rest(s, j)) = UpTo(SEGMENT_SIZE, Rest(t, j))
    BY DEF Segment
  <2> QED
    BY <1>2, <2>1, <2>2 DEF Crypt
<1> DEFINE Apart == {j \in 1 .. n : c[j] # d[j]}
<1>3. Apart = {}
  <2>1. SUFFICES ASSUME Apart # {} PROVE FALSE
    OBVIOUS
  <2> DEFINE m == Min(Apart)
  <2>2. m \in Apart /\ \A x \in Apart : m <= x
    <3>1. Apart \in SUBSET Nat
      OBVIOUS
    <3> HIDE DEF Apart
    <3> QED
      BY <2>1, <3>1, LeastIsThere
  <2> HIDE DEF m
  <2>3. m \in 1 .. n /\ c[m] # d[m]
    BY <2>2
  <2>4. m # 1 => c[m - 1] = d[m - 1]
    <3>1. m # 1 => m - 1 \in 1 .. n /\ ~(m <= m - 1)
      BY <2>3
    <3> QED
      BY <2>2, <3>1
  <2> QED
    BY <1>2, <2>3, <2>4
<1> QED
  BY <1>1, <1>3

(***************************************************************************)
(* Stored hashes: verdicts                                                 *)
(***************************************************************************)
LEMMA OneBlock ==
  ASSUME NEW c, NEW s \in Seq(Char), NEW salt, IsCipher(c, s, salt, 1)
  PROVE  c = <<Crypt(s, salt)>>
<1>1. Rest(s, 1) = s
  <2>1. Rest(s, 1) = SubSeq(s, 0 + 1, Len(s)) /\ Len(s) \in Nat
    BY SizesAre DEF Rest, Sizes
  <2>2. /\ SubSeq(s, 0 + 1, Len(s)) \in Seq(Char)
        /\ Len(SubSeq(s, 0 + 1, Len(s))) = Len(s)
        /\ \A i \in 1 .. Len(s) : SubSeq(s, 0 + 1, Len(s))[i] = s[i]
    BY <2>1, TailIs
  <2>3. SubSeq(s, 0 + 1, Len(s)) = s
    BY <2>2, SeqEqual
  <2> QED
    BY <2>1, <2>3
<1>2. c = [j \in 1 .. 1 |-> Crypt(s, salt)]
  BY <1>1 DEF IsCipher
<1> QED
  BY <1>2

LEMMA BlocksLen ==
  ASSUME NEW c, NEW s, NEW salt, NEW n \in Nat, IsCipher(c, s, salt, n)
  PROVE  Len(c) = n
<1> DEFINE S == {c[j] : j \in 1 .. n}
<1>1. c \in [1 .. n -> S]
  BY DEF IsCipher
<1>2. c \in Seq(S)
  <2> HIDE DEF S
  <2> QED
    BY <1>1, SeqDef
<1> HIDE DEF S
<1>3. Len(c) \in Nat /\ 1 .. n = 1 .. Len(c)
  BY <1>1, <1>2, LenProperties
<1> QED
  BY <1>3

LEMMA KeybufIs ==
  ASSUME NEW key \in Seq(Char), NEW k \in Nat
  PROVE  /\ keybuf(key, k) \in Seq(Char)
         /\ k = 1 => /\ keybuf(key, k) = UpTo(8, key)
                     /\ n_seg(Len(keybuf(key, k))) = 1
         /\ k # 1 => /\ UpTo(8, keybuf(key, k)) = UpTo(8, key)
                     /\ UpTo(Span, keybuf(key, k)) = UpTo(Span, key)
         /\ n_seg(Len(keybuf(key, k))) \in 1 .. 16
<1>1. /\ KEYBUF_SIZE \in Nat /\ Span \in Nat
      /\ 8 <= KEYBUF_SIZE /\ Span <= KEYBUF_SIZE
  BY SizesAre DEF KEYBUF_SIZE, SALT_SIZE, Sizes, Span
<1>2. keybuf(key, k) = IF k = 1 THEN UpTo(8, key) ELSE UpTo(KEYBUF_SIZE, key)
  BY SizesAre DEF keybuf, Sizes
<1>3. keybuf(key, k) \in Seq(Char) /\ Len(keybuf(key, k)) \in Nat
  <2>1. UpTo(8, key) \in Seq(Char) /\ UpTo(KEYBUF_SIZE, key) \in Seq(Char)
    BY <1>1, UpToIs
  <2>2. keybuf(key, k) \in Seq(Char)
    BY <1>2, <2>1
  <2> QED
    BY <2>2
<1>4. CASE k = 1
  <2>1. Len(UpTo(8, key)) = Shorter(Len(key), 8) /\ Len(key) \in Nat
    BY UpToIs
  <2>2. Shorter(Len(key), 8) <= 8
    BY <2>1 DEF Shorter
  <2>3. keybuf(key, k) = UpTo(8, key) /\ Len(keybuf(key, k)) <= 8
    BY <1>2, <1>4, <2>1, <2>2
  <2> QED
    BY <1>3, <1>4, <2>3, SegmentCount
<1>5. CASE k # 1
  <2>1. /\ UpTo(8, UpTo(KEYBUF_SIZE, key)) = UpTo(8, key)
        /\ UpTo(Span, UpTo(KEYBUF_SIZE, key)) = UpTo(Span, key)
    BY <1>1, UpToTwice
  <2> QED
    BY <1>2, <1>3, <1>5, <2>1, SegmentCount
<1> QED
  BY <1>4, <1>5

(* What bigcrypt returns, for a salt of k blocks.                          *)
LEMMA CipherOf ==
  ASSUME NEW key \in Seq(Char), NEW salt, NEW k \in Nat
  PROVE  /\ IsCipher(Cipher(key, salt, k), keybuf(key, k), salt,
                     n_seg(Len(keybuf(key, k))))
         /\ bigcrypt(key, salt, k) = Hash("crypt", salt, Cipher(key, salt, k))
         /\ Len(Cipher(key, salt, k)) = n_seg(Len(keybuf(key, k)))
<1>1. n_seg(Len(keybuf(key, k))) \in Nat
  <2>1. n_seg(Len(keybuf(key, k))) \in 1 .. 16
    BY KeybufIs
  <2> QED
    BY <2>1
<1>2. IsCipher(Cipher(key, salt, k), keybuf(key, k), salt,
               n_seg(Len(keybuf(key, k))))
  BY <1>1, BigcryptIs
<1>3. bigcrypt(key, salt, k) = Hash("crypt", salt, Cipher(key, salt, k))
  BY <1>1, BigcryptIs
<1>4. Len(Cipher(key, salt, k)) = n_seg(Len(keybuf(key, k)))
  BY <1>1, <1>2, BlocksLen
<1> QED
  BY <1>2, <1>3, <1>4

LEMMA SameBlocks ==
  ASSUME NEW p, NEW q, NEW kind, NEW salt
  PROVE  Hash(kind, salt, p) = Hash(kind, salt, q) <=> p = q
  BY DEF Hash

LEMMA SameSingle == ASSUME NEW x, NEW y PROVE <<x>> = <<y>> <=> x = y
  OBVIOUS

LEMMA SamePair ==
  ASSUME NEW x, NEW y, NEW z PROVE <<x, z>> = <<y, z>> <=> x = y
  OBVIOUS

LEMMA SameFirstBlock ==
  ASSUME NEW a, NEW b, NEW salt
  PROVE  Hash("crypt", salt, <<Crypt(a, salt)>>) = Hash("crypt", salt, <<Crypt(b, salt)>>)
           <=> UpTo(8, a) = UpTo(8, b)
<1>1. Hash("crypt", salt, <<Crypt(a, salt)>>) = Hash("crypt", salt, <<Crypt(b, salt)>>)
        <=> <<Crypt(a, salt)>> = <<Crypt(b, salt)>>
  <2> DEFINE x == <<Crypt(a, salt)>>
             y == <<Crypt(b, salt)>>
  <2> HIDE DEF x, y
  <2>1. Hash("crypt", salt, x) = Hash("crypt", salt, y) <=> x = y
    BY SameBlocks
  <2> QED
    BY <2>1 DEF x, y
<1>2. <<Crypt(a, salt)>> = <<Crypt(b, salt)>>
        <=> Crypt(a, salt) = Crypt(b, salt)
  BY SameSingle
<1>3. Crypt(a, salt) = Crypt(b, salt) <=> UpTo(8, a) = UpTo(8, b)
  <2>1. SEGMENT_SIZE = 8
    BY SizesAre DEF Sizes
  <2>2. <<UpTo(8, a), salt>> = <<UpTo(8, b), salt>> <=> UpTo(8, a) = UpTo(8, b)
    BY SamePair
  <2> QED
    BY <2>1, <2>2 DEF Crypt
<1> QED
  BY <1>1, <1>2, <1>3

(* A hash of one block: the first eight characters decide.                 *)
LEMMA ClassicVerdict ==
  ASSUME NEW p \in Seq(Char), NEW key \in Seq(Char), NEW salt
  PROVE  bigcrypt(p, salt, 1) = Hash("crypt", salt, <<Crypt(key, salt)>>)
           <=> UpTo(8, p) = UpTo(8, key)
<1>1. /\ keybuf(p, 1) \in Seq(Char) /\ n_seg(Len(keybuf(p, 1))) = 1
      /\ keybuf(p, 1) = UpTo(8, p)
  BY KeybufIs
<1>2. /\ IsCipher(Cipher(p, salt, 1), keybuf(p, 1), salt,
                  n_seg(Len(keybuf(p, 1))))
      /\ bigcrypt(p, salt, 1) = Hash("crypt", salt, Cipher(p, salt, 1))
  BY CipherOf
<1>3. IsCipher(Cipher(p, salt, 1), keybuf(p, 1), salt, 1)
  BY <1>1, <1>2
<1>4. Cipher(p, salt, 1) = <<Crypt(keybuf(p, 1), salt)>>
  BY <1>1, <1>3, OneBlock
<1>5. UpTo(8, keybuf(p, 1)) = UpTo(8, p)
  BY <1>1, UpToTwice
<1>6. bigcrypt(p, salt, 1) = Hash("crypt", salt, <<Crypt(keybuf(p, 1), salt)>>)
  BY <1>2, <1>4
<1>7. Hash("crypt", salt, <<Crypt(keybuf(p, 1), salt)>>)
          = Hash("crypt", salt, <<Crypt(key, salt)>>)
        <=> UpTo(8, keybuf(p, 1)) = UpTo(8, key)
  BY SameFirstBlock
<1> QED
  BY <1>5, <1>6, <1>7

(* Two chains of blocks with one salt are the same exactly if the first    *)
(* 128 characters are.                                                     *)
LEMMA CiphersAgree ==
  ASSUME NEW s \in Seq(Char), NEW t \in Seq(Char), NEW c, NEW d, NEW salt,
         IsCipher(c, t, salt, n_seg(Len(t))),
         IsCipher(d, s, salt, n_seg(Len(s)))
  PROVE  d = c <=> UpTo(Span, s) = UpTo(Span, t)
<1>1. n_seg(Len(s)) \in Nat /\ n_seg(Len(t)) \in Nat
  <2>1. Len(s) \in Nat /\ Len(t) \in Nat
    OBVIOUS
  <2>2. n_seg(Len(s)) \in 1 .. 16 /\ n_seg(Len(t)) \in 1 .. 16
    BY <2>1, SegmentCount
  <2> QED
    BY <2>2
<1>2. Len(c) = n_seg(Len(t))
  BY <1>1, BlocksLen
<1>3. Len(d) = n_seg(Len(s))
  BY <1>1, BlocksLen
<1>4. ASSUME d = c PROVE UpTo(Span, s) = UpTo(Span, t)
  <2>1. n_seg(Len(s)) = n_seg(Len(t))
    BY <1>2, <1>3, <1>4
  <2>2. IsCipher(c, s, salt, n_seg(Len(t)))
    BY <1>4, <2>1
  <2>3. \A j \in 1 .. n_seg(Len(t)) : Segment(s, j) = Segment(t, j)
    BY <1>1, <2>2, CipherShowsSegments
  <2>4. SameSegments(s, t)
    BY <2>1, <2>3 DEF SameSegments
  <2> QED
    BY <2>4, SegmentsDecide
<1>5. ASSUME UpTo(Span, s) = UpTo(Span, t) PROVE d = c
  <2>1. SameSegments(s, t)
    BY <1>5, StartDecidesSegments
  <2>2. /\ n_seg(Len(s)) = n_seg(Len(t))
        /\ \A j \in 1 .. n_seg(Len(t)) : Segment(s, j) = Segment(t, j)
    BY <2>1 DEF SameSegments
  <2>3. IsCipher(d, s, salt, n_seg(Len(t)))
    BY <2>2
  <2>4. \A j \in 1 .. n_seg(Len(t)) : Segment(t, j) = Segment(s, j)
    BY <2>2
  <2> QED
    BY <1>1, <2>3, <2>4, SegmentsGiveCipher
<1> QED
  BY <1>4, <1>5

(* A hash of several blocks: the first 128 characters decide.              *)
LEMMA SegmentedVerdict ==
  ASSUME NEW p \in Seq(Char), NEW key \in Seq(Char), NEW salt,
         NEW k \in Nat, k # 1
  PROVE  bigcrypt(p, salt, k) = bigcrypt(key, salt, 0)
           <=> UpTo(Span, p) = UpTo(Span, key)
<1>1. /\ keybuf(p, k) \in Seq(Char)
      /\ UpTo(Span, keybuf(p, k)) = UpTo(Span, p)
  BY KeybufIs
<1>2. /\ keybuf(key, 0) \in Seq(Char)
      /\ UpTo(Span, keybuf(key, 0)) = UpTo(Span, key)
  <2>1. 0 \in Nat /\ 0 # 1
    OBVIOUS
  <2> QED
    BY <2>1, KeybufIs
<1>3. /\ IsCipher(Cipher(p, salt, k), keybuf(p, k), salt,
                  n_seg(Len(keybuf(p, k))))
      /\ bigcrypt(p, salt, k) = Hash("crypt", salt, Cipher(p, salt, k))
  BY CipherOf
<1>4. /\ IsCipher(Cipher(key, salt, 0), keybuf(key, 0), salt,
                  n_seg(Len(keybuf(key, 0))))
      /\ bigcrypt(key, salt, 0) = Hash("crypt", salt, Cipher(key, salt, 0))
  <2>1. 0 \in Nat
    OBVIOUS
  <2> QED
    BY <2>1, CipherOf
<1>5. Cipher(p, salt, k) = Cipher(key, salt, 0)
        <=> UpTo(Span, keybuf(p, k)) = UpTo(Span, keybuf(key, 0))
  BY <1>1, <1>2, <1>3, <1>4, CiphersAgree
<1>6. Hash("crypt", salt, Cipher(p, salt, k)) = Hash("crypt", salt, Cipher(key, salt, 0))
        <=> Cipher(p, salt, k) = Cipher(key, salt, 0)
  BY SameBlocks
<1> QED
  BY <1>1, <1>2, <1>3, <1>4, <1>5, <1>6

(* The blocks a traditional hash of key may have, ...                      *)
Blocks(key, salt) == {<<Crypt(key, salt)>>, Cipher(key, salt, 0)}

(* ... and what they say of p.                                             *)
LEMMA BlocksVerdict ==
  ASSUME NEW p \in Seq(Char), NEW key \in Seq(Char), NEW salt,
         NEW blocks \in Blocks(key, salt)
  PROVE  /\ Len(blocks) = 1 =>
              (bigcrypt(p, salt, Len(blocks)) = Hash("crypt", salt, blocks)
                 <=> UpTo(8, p) = UpTo(8, key))
         /\ Len(blocks) # 1 =>
              (bigcrypt(p, salt, Len(blocks)) = Hash("crypt", salt, blocks)
                 <=> UpTo(Span, p) = UpTo(Span, key))
<1>1. CASE blocks = <<Crypt(key, salt)>>
  <2>1. Len(blocks) = 1
    BY <1>1
  <2>2. bigcrypt(p, salt, 1) = Hash("crypt", salt, <<Crypt(key, salt)>>)
          <=> UpTo(8, p) = UpTo(8, key)
    BY ClassicVerdict
  <2> QED
    BY <1>1, <2>1, <2>2
<1>2. CASE blocks = Cipher(key, salt, 0)
  <2> DEFINE k == n_seg(Len(keybuf(key, 0)))
  <2>1. /\ keybuf(key, 0) \in Seq(Char) /\ k \in 1 .. 16
        /\ UpTo(8, keybuf(key, 0)) = UpTo(8, key)
    <3>1. 0 \in Nat /\ 0 # 1
      OBVIOUS
    <3> QED
      BY <3>1, KeybufIs
  <2>2. /\ IsCipher(Cipher(key, salt, 0), keybuf(key, 0), salt, k)
        /\ bigcrypt(key, salt, 0) = Hash("crypt", salt, Cipher(key, salt, 0))
        /\ Len(Cipher(key, salt, 0)) = k
    <3>1. 0 \in Nat
      OBVIOUS
    <3> QED
      BY <3>1, CipherOf
  <2> HIDE DEF k
  <2>3. Len(blocks) = k /\ k \in Nat
    <3>1. Len(blocks) = k
      BY <1>2, <2>2
    <3>2. k \in Nat
      BY <2>1
    <3> QED
      BY <3>1, <3>2
  <2>4. CASE k = 1
    <3>1. IsCipher(Cipher(key, salt, 0), keybuf(key, 0), salt, 1)
      BY <2>2, <2>4
    <3>2. blocks = <<Crypt(keybuf(key, 0), salt)>>
      BY <1>2, <2>1, <3>1, OneBlock
    <3>3. bigcrypt(p, salt, 1)
              = Hash("crypt", salt, <<Crypt(keybuf(key, 0), salt)>>)
            <=> UpTo(8, p) = UpTo(8, keybuf(key, 0))
      BY <2>1, ClassicVerdict
    <3> QED
      BY <2>1, <2>3, <2>4, <3>2, <3>3
  <2>5. CASE k # 1
    <3>1. bigcrypt(p, salt, k) = bigcrypt(key, salt, 0)
            <=> UpTo(Span, p) = UpTo(Span, key)
      BY <2>3, <2>5, SegmentedVerdict
    <3> QED
      BY <1>2, <2>2, <2>3, <2>5, <3>1
  <2> QED
    BY <2>4, <2>5
<1> QED
  BY <1>1, <1>2 DEF Blocks

(* Hashes as records: what strip_hpux_aging leaves of them.                *)
Hashes(kind, salt, blocks) ==
    [kind : {kind}, salt : {salt}, blocks : {blocks}, aging : BOOLEAN]

LEMMA HashFields ==
  ASSUME NEW kind, NEW salt, NEW blocks, NEW hash \in Hashes(kind, salt, blocks)
  PROVE  hash.kind = kind /\ hash.salt = salt /\ hash.blocks = blocks
  BY DEF Hashes

LEMMA HashAges ==
  ASSUME NEW kind, NEW salt, NEW blocks,
         NEW hash \in Hashes(kind, salt, blocks), NEW aging \in BOOLEAN
  PROVE  /\ [hash EXCEPT !.aging = aging] \in Hashes(kind, salt, blocks)
         /\ [hash EXCEPT !.aging = aging].aging = aging
  BY DEF Hashes

LEMMA YoungHash ==
  ASSUME NEW kind, NEW salt, NEW blocks
  PROVE  /\ Hash(kind, salt, blocks) \in Hashes(kind, salt, blocks)
         /\ \A hash \in Hashes(kind, salt, blocks) :
               ~hash.aging => hash = Hash(kind, salt, blocks)
<1>1. Hash(kind, salt, blocks) \in Hashes(kind, salt, blocks)
  BY DEF Hash, Hashes
<1>2. ASSUME NEW hash \in Hashes(kind, salt, blocks), hash.aging = FALSE
      PROVE  hash = Hash(kind, salt, blocks)
  BY <1>2 DEF Hash, Hashes
<1>3. ASSUME NEW hash \in Hashes(kind, salt, blocks)
      PROVE  hash.aging \in BOOLEAN
  BY DEF Hashes
<1> QED
  BY <1>1, <1>2, <1>3

LEMMA Verdict ==
  ASSUME NEW n, NEW P, n = IF P THEN 0 ELSE 1
  PROVE  n = 0 <=> P
  OBVIOUS

(* With or without an age, verify_pwd asks bigcrypt.                       *)
LEMMA TraditionalVerdict ==
  ASSUME NEW p, NEW salt, NEW blocks, NEW nullok,
         NEW hash \in Hashes("crypt", salt, blocks)
  PROVE  verify_pwd(p, hash, nullok) = 0
           <=> bigcrypt(p, salt, Len(blocks)) = Hash("crypt", salt, blocks)
<1> DEFINE young == Hash("crypt", salt, blocks)
           back  == [hash EXCEPT !.aging = FALSE]
<1>1. /\ young \in Hashes("crypt", salt, blocks)
      /\ back \in Hashes("crypt", salt, blocks) /\ back.aging = FALSE
  <2>1. young \in Hashes("crypt", salt, blocks)
    BY YoungHash
  <2>2. back \in Hashes("crypt", salt, blocks) /\ back.aging = FALSE
    BY HashAges
  <2> QED
    BY <2>1, <2>2
<1> HIDE DEF young, back
<1>2. back = young
  BY <1>1, YoungHash DEF young
<1>3. /\ hash.kind = "crypt" /\ young.kind = "crypt"
      /\ young.salt = salt /\ young.blocks = blocks
  BY <1>1, HashFields
<1>4. strip_hpux_aging(hash) = young
  BY <1>2, <1>3 DEF strip_hpux_aging, back
<1>5. verify_pwd(p, hash, nullok)
        = IF bigcrypt(p, salt, Len(blocks)) = young THEN 0 ELSE 1
  BY <1>3, <1>4 DEF verify_pwd
<1>6. verify_pwd(p, hash, nullok) = 0
        <=> bigcrypt(p, salt, Len(blocks)) = young
  BY <1>5, Verdict
<1> QED
  BY <1>6 DEF young

(* A method with a name sees the whole password.                           *)
LEMMA NamedVerdict ==
  ASSUME NEW p, NEW key, NEW salt, NEW nullok,
         NEW kind \in {"$1$", "$5$"}, UpTo(8, salt) = salt
  PROVE  /\ Hash(kind, salt, <<key>>).kind = kind
         /\ verify_pwd(p, Hash(kind, salt, <<key>>), nullok) = 0 <=> p = key
<1> DEFINE hash == Hash(kind, salt, <<key>>)
<1>1. /\ hash.kind = kind /\ hash.salt = salt /\ kind # "crypt"
      /\ strip_hpux_aging(hash) = hash
  <2>1. hash \in Hashes(kind, salt, <<key>>)
    BY YoungHash
  <2>2. hash.kind = kind /\ hash.salt = salt
    BY <2>1, HashFields
  <2> HIDE DEF hash
  <2> QED
    BY <2>2 DEF strip_hpux_aging
<1>2. verify_pwd(p, hash, nullok)
        = IF Hash(kind, salt, <<p>>) = hash THEN 0 ELSE 1
  <2>1. CASE kind = "$1$"
    <3>1. crypt_md5(p, salt) = Hash(kind, salt, <<p>>)
      BY <2>1 DEF crypt_md5
    <3> HIDE DEF hash
    <3> QED
      BY <1>1, <2>1, <3>1 DEF verify_pwd
  <2>2. CASE kind = "$5$"
    <3> HIDE DEF hash
    <3> QED
      BY <1>1, <2>2 DEF verify_pwd
  <2> QED
    BY <2>1, <2>2
<1>3. Hash(kind, salt, <<p>>) = Hash(kind, salt, <<key>>) <=> p = key
  <2> DEFINE x == <<p>>
             y == <<key>>
  <2> HIDE DEF x, y
  <2>1. Hash(kind, salt, x) = Hash(kind, salt, y) <=> x = y
    BY SameBlocks
  <2>2. x = y <=> p = key
    BY SameSingle DEF x, y
  <2> QED
    BY <2>1, <2>2 DEF x, y
<1>4. verify_pwd(p, hash, nullok) = 0 <=> Hash(kind, salt, <<p>>) = hash
  BY <1>2, Verdict
<1> QED
  BY <1>1, <1>3, <1>4

(* A locked account refuses; an empty hash asks nullok.                    *)
LEMMA NoPasswordVerdict ==
  ASSUME NEW p, NEW salt, NEW blocks
  PROVE  /\ \A nullok : verify_pwd(p, Hash("locked", salt, blocks), nullok) = 1
         /\ verify_pwd(p, Hash("empty", salt, blocks), TRUE) = 0
         /\ verify_pwd(p, Hash("empty", salt, blocks), FALSE) = 1
<1>1. ASSUME NEW kind \in {"locked", "empty"}
      PROVE  /\ Hash(kind, salt, blocks).kind = kind
             /\ strip_hpux_aging(Hash(kind, salt, blocks))
                  = Hash(kind, salt, blocks)
  <2> DEFINE hash == Hash(kind, salt, blocks)
  <2>1. hash \in Hashes(kind, salt, blocks)
    BY YoungHash
  <2>2. hash.kind = kind
    BY <2>1, HashFields
  <2> HIDE DEF hash
  <2>3. strip_hpux_aging(hash) = hash
    BY <2>2 DEF strip_hpux_aging
  <2> QED
    BY <2>2, <2>3 DEF hash
<1>2. ASSUME NEW nullok
      PROVE  verify_pwd(p, Hash("locked", salt, blocks), nullok) = 1
  <2> DEFINE hash == Hash("locked", salt, blocks)
  <2>1. hash.kind = "locked" /\ strip_hpux_aging(hash) = hash
    BY <1>1
  <2> HIDE DEF hash
  <2>2. verify_pwd(p, hash, nullok) = 1
    BY <2>1 DEF verify_pwd
  <2> QED
    BY <2>2 DEF hash
<1>3. /\ verify_pwd(p, Hash("empty", salt, blocks), TRUE) = 0
      /\ verify_pwd(p, Hash("empty", salt, blocks), FALSE) = 1
  <2> DEFINE hash == Hash("empty", salt, blocks)
  <2>1. hash.kind = "empty" /\ strip_hpux_aging(hash) = hash
    BY <1>1
  <2> HIDE DEF hash
  <2>2. verify_pwd(p, hash, TRUE) = 0 /\ verify_pwd(p, hash, FALSE) = 1
    BY <2>1 DEF verify_pwd
  <2> QED
    BY <2>2 DEF hash
<1> QED
  BY <1>2, <1>3

LEMMA ShortText ==
  ASSUME NEW salt \in Salts
  PROVE  UpTo(8, salt) = salt
<1>1. salt \in [1 .. 2 -> Char] /\ 2 \in Nat
  BY SaltsAssumption DEF SALT_SIZE
<1>2. salt \in Seq(Char)
  <2>1. \E n \in Nat : salt \in [1 .. n -> Char]
    BY <1>1
  <2> QED
    BY <2>1, SeqDef
<1>3. Len(salt) = 2
  BY <1>1, <1>2, LenProperties
<1>4. UpTo(8, salt) = SubSeq(salt, 1, Len(salt))
  BY <1>3 DEF UpTo
<1> QED
  BY <1>2, <1>4, SubSeqFull

(* What a stored hash is: traditional or by a method with a name.          *)
LEMMA StoredHash ==
  ASSUME NEW key \in Seq(Char), NEW salt, NEW hash \in Stored(key, salt)
  PROVE  \/ \E blocks \in Blocks(key, salt) :
               hash \in Hashes("crypt", salt, blocks)
         \/ \E kind \in {"$1$", "$5$"} : hash = Hash(kind, salt, <<key>>)
<1> DEFINE bare == {Hash("crypt", salt, <<Crypt(key, salt)>>),
                    bigcrypt(key, salt, 0)}
<1>1. bigcrypt(key, salt, 0) = Hash("crypt", salt, Cipher(key, salt, 0))
  <2>1. 0 \in Nat
    OBVIOUS
  <2> QED
    BY <2>1, CipherOf
<1>2. \A young \in bare : \E blocks \in Blocks(key, salt) :
                            young \in Hashes("crypt", salt, blocks)
  BY <1>1, YoungHash DEF Blocks
<1>3. \/ hash \in bare
      \/ \E young \in bare : hash = [young EXCEPT !.aging = TRUE]
      \/ \E kind \in {"$1$", "$5$"} : hash = Hash(kind, salt, <<key>>)
  BY DEF Stored
<1> HIDE DEF bare
<1>4. CASE hash \in bare
  BY <1>2, <1>4
<1>5. CASE \E young \in bare : hash = [young EXCEPT !.aging = TRUE]
  <2>1. PICK young \in bare : hash = [young EXCEPT !.aging = TRUE]
    BY <1>5
  <2>2. PICK blocks \in Blocks(key, salt) :
               young \in Hashes("crypt", salt, blocks)
    BY <1>2
  <2>3. [young EXCEPT !.aging = TRUE] \in Hashes("crypt", salt, blocks)
    BY <2>2, HashAges
  <2> QED
    BY <2>1, <2>3
<1> QED
  BY <1>3, <1>4, <1>5

LEMMA StoredVerdict ==
  ASSUME NEW p \in Seq(Char), NEW key \in Seq(Char), NEW salt \in Salts,
         NEW hash \in Stored(key, salt), NEW nullok
  PROVE  Agree(hash, p, key) = (verify_pwd(p, hash, nullok) = 0)
<1>1. CASE \E blocks \in Blocks(key, salt) :
              hash \in Hashes("crypt", salt, blocks)
  <2>1. PICK blocks \in Blocks(key, salt) :
               hash \in Hashes("crypt", salt, blocks)
    BY <1>1
  <2>2. verify_pwd(p, hash, nullok) = 0
          <=> bigcrypt(p, salt, Len(blocks)) = Hash("crypt", salt, blocks)
    BY <2>1, TraditionalVerdict
  <2>3. hash.kind = "crypt" /\ hash.blocks = blocks
    BY <2>1, HashFields
  <2>4. /\ Len(blocks) = 1 =>
              (bigcrypt(p, salt, Len(blocks)) = Hash("crypt", salt, blocks)
                 <=> UpTo(8, p) = UpTo(8, key))
        /\ Len(blocks) # 1 =>
              (bigcrypt(p, salt, Len(blocks)) = Hash("crypt", salt, blocks)
                 <=> UpTo(Span, p) = UpTo(Span, key))
    BY BlocksVerdict
  <2>5. Span = 128
    BY DEF Span
  <2> HIDE DEF Span
  <2>6. CASE Len(blocks) = 1
    <3>1. Agree(hash, p, key) = (UpTo(8, p) = UpTo(8, key))
      BY <2>3, <2>6 DEF Agree
    <3> QED
      BY <2>2, <2>4, <2>6, <3>1
  <2>7. CASE Len(blocks) # 1
    <3>1. Agree(hash, p, key) = (UpTo(Span, p) = UpTo(Span, key))
      BY <2>3, <2>5, <2>7 DEF Agree
    <3> QED
      BY <2>2, <2>4, <2>7, <3>1
  <2> QED
    BY <2>6, <2>7
<1>2. CASE \E kind \in {"$1$", "$5$"} : hash = Hash(kind, salt, <<key>>)
  <2>1. PICK kind \in {"$1$", "$5$"} : hash = Hash(kind, salt, <<key>>)
    BY <1>2
  <2>2. UpTo(8, salt) = salt
    BY ShortText
  <2>3. /\ Hash(kind, salt, <<key>>).kind = kind
        /\ verify_pwd(p, Hash(kind, salt, <<key>>), nullok) = 0 <=> p = key
    BY <2>2, NamedVerdict
  <2>4. hash.kind # "crypt" /\ (verify_pwd(p, hash, nullok) = 0 <=> p = key)
    BY <2>1, <2>3
  <2>5. Agree(hash, p, key) = (p = key)
    BY <2>4 DEF Agree
  <2> QED
    BY <2>4, <2>5
<1> QED
  BY <1>1, <1>2, StoredHash

(* verify_pwd of lib/passwd_compare.c decides about every password as the  *)
(* stored hash says: eight characters count for a hash of one block, 128   *)
(* for bigcrypt's, all of them for a method with a name, with or without   *)
(* an age; nothing opens a locked account.                                 *)
THEOREM HashesAreExact == Spec => []StoredHashesAreExact
<1>1. ASSUME NEW p \in Passwords, NEW key \in Secrets, NEW salt \in Salts
      PROVE  ~Wrong(p, key, salt)
  <2>1. p \in Seq(Char) /\ key \in Seq(Char)
    BY PasswordsAssumption, SecretsAssumption
  <2>2. \A nullok \in BOOLEAN : \A hash \in Stored(key, salt) :
           Agree(hash, p, key) = (verify_pwd(p, hash, nullok) = 0)
    BY <2>1, StoredVerdict, Zenon
  <2>3. ASSUME NEW nullok \in BOOLEAN
        PROVE  /\ verify_pwd(p, Hash("locked", salt, <<>>), nullok) # 0
               /\ nullok = (verify_pwd(p, Hash("empty", <<>>, <<>>), nullok) = 0)
    <3>1. /\ verify_pwd(p, Hash("locked", salt, <<>>), nullok) = 1
          /\ verify_pwd(p, Hash("empty", <<>>, <<>>), TRUE) = 0
          /\ verify_pwd(p, Hash("empty", <<>>, <<>>), FALSE) = 1
      BY NoPasswordVerdict
    <3>2. verify_pwd(p, Hash("locked", salt, <<>>), nullok) # 0
      BY <3>1
    <3>3. /\ TRUE = (verify_pwd(p, Hash("empty", <<>>, <<>>), TRUE) = 0)
          /\ FALSE = (verify_pwd(p, Hash("empty", <<>>, <<>>), FALSE) = 0)
      <4> DEFINE open == verify_pwd(p, Hash("empty", <<>>, <<>>), TRUE)
                 shut == verify_pwd(p, Hash("empty", <<>>, <<>>), FALSE)
      <4>1. open = 0 /\ shut = 1
        BY <3>1
      <4> HIDE DEF open, shut
      <4>2. TRUE = (open = 0) /\ FALSE = (shut = 0)
        BY <4>1
      <4> QED
        BY <4>2 DEF open, shut
    <3>4. nullok = (verify_pwd(p, Hash("empty", <<>>, <<>>), nullok) = 0)
      <4>1. CASE nullok = TRUE
        BY <3>3, <4>1, Zenon
      <4>2. CASE nullok = FALSE
        BY <3>3, <4>2, Zenon
      <4> QED
        BY <4>1, <4>2
    <3> QED
      BY <3>2, <3>4, Zenon
  <2> QED
    BY <2>2, <2>3, Zenon DEF Wrong
<1>2. Misjudged = {}
  BY <1>1 DEF Misjudged
<1>3. StoredHashesAreExact
  BY <1>2 DEF StoredHashesAreExact
<1> QED
  BY <1>3, PTL

=============================================================================
