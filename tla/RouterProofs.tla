------------------------------- MODULE RouterProofs -------------------------------
(***************************************************************************)
(* Proofs about Router as it is used by Routing, for any patterns, URLs    *)
(* and any number of registrations; and about the requests that Routing    *)
(* hands to it, for any keys, values, flags and cookies.                   *)
(***************************************************************************)
EXTENDS Routing, SequenceTheorems, FunctionTheorems, FiniteSetTheorems, WellFoundedInduction,
        TLAPS

\* Segments of patterns and URLs
Segments == Seq(STRING) \ {<<>>}

-----------------------------------------------------------------------------
(***************************************************************************)
(* Strings.                                                                *)
(***************************************************************************)

LEMMA LeastMember ==
  ASSUME NEW S \in SUBSET Nat, S # {}
  PROVE  Min(S) \in S /\ \A j \in S : Min(S) <= j
<1>1. \E i \in S : \A j \in S : ~(j < i)
  <2>1. \E i \in S : \A j \in S : ~(<<j, i>> \in OpToRel(<, Nat))
    BY NatLessThanWellFounded, WFMin, Zenon
  <2> QED BY <2>1, Zenon DEF OpToRel
<1>2. \E i \in S : \A j \in S : i <= j
  BY <1>1
<1> QED BY <1>2 DEF Min

LEMMA GreatestMember ==
  ASSUME NEW k \in Nat, NEW S \in SUBSET (0..k), S # {}
  PROVE  Max(S) \in S /\ \A j \in S : Max(S) >= j
<1> DEFINE T == {k - i : i \in S}
<1>1. T \in SUBSET Nat /\ T # {}
  <2>1. \A i \in S : k - i \in Nat
    OBVIOUS
  <2>2. T \subseteq Nat
    BY <2>1
  <2> QED BY <2>2
<1>2. PICK m \in T : \A j \in T : m <= j
  BY <1>1, LeastMember
<1>3. PICK i \in S : m = k - i
  BY <1>2
<1>4. \A j \in S : i >= j
  <2> SUFFICES ASSUME NEW j \in S PROVE i >= j
    OBVIOUS
  <2>1. k - i <= k - j
    BY <1>2, <1>3
  <2> QED BY <2>1
<1>5. \E x \in S : \A j \in S : x >= j
  BY <1>4
<1> QED BY <1>5 DEF Max

\* Two strings begin with the same n characters
LEMMA SameStart ==
  ASSUME NEW S, NEW s \in Seq(S), NEW t \in Seq(S), NEW n \in Nat, n <= Len(s), n <= Len(t)
  PROVE  SubSeq(s, 1, n) = SubSeq(t, 1, n) <=> \A i \in 1..n : s[i] = t[i]
<1> DEFINE a == SubSeq(s, 1, n)
           b == SubSeq(t, 1, n)
<1>1. \A i \in 1..n : s[i] \in S /\ t[i] \in S
  BY LenProperties, ElementOfSeq
<1>2. a \in Seq(S) /\ Len(a) = n /\ \A i \in 1..n : a[i] = s[i]
  BY <1>1, SubSeqProperties
<1>3. b \in Seq(S) /\ Len(b) = n /\ \A i \in 1..n : b[i] = t[i]
  BY <1>1, SubSeqProperties
<1> HIDE DEF a, b
<1>4. a = b => \A i \in 1..n : s[i] = t[i]
  BY <1>2, <1>3
<1>5. (\A i \in 1..n : s[i] = t[i]) => a = b
  BY <1>2, <1>3, SeqEqual
<1> QED BY <1>4, <1>5 DEF a, b

LEMMA StrEqualMeans ==
  ASSUME NEW s \in Seq(STRING), NEW t \in Seq(STRING), NEW n \in Nat
  PROVE  StrEqual(s, t, n) <=> /\ n # 0 /\ n <= Len(s) /\ n <= Len(t)
                               /\ \A i \in 1..n : s[i] = t[i]
BY SameStart DEF StrEqual

\* Where the wildcard of a segment is
LEMMA WildMeans ==
  ASSUME NEW p \in Seq(STRING)
  PROVE  /\ WildLoc(p) \in Nat
         /\ IsWild(p) => /\ WildLoc(p) < Len(p) /\ p[WildLoc(p) + 1] = Open
                         /\ \A i \in 1..WildLoc(p) : p[i] # Open
                         /\ TextBefore(p) \in Seq(STRING) /\ Len(TextBefore(p)) = WildLoc(p)
                         /\ \A i \in 1..WildLoc(p) : TextBefore(p)[i] = p[i]
         /\ ~IsWild(p) => \A i \in 1..Len(p) : p[i] # Open
<1> DEFINE l == Len(p)
           S == Places(p, Open) \cup {l + 1}
           m == Min(S)
           w == m - 1
           b == SubSeq(p, 1, w)
<1>1. l \in Nat /\ DOMAIN p = 1..l
  BY LenProperties
<1>2. \A i : i \in Places(p, Open) <=> i \in 1..l /\ p[i] = Open
  BY <1>1 DEF Places
<1>3. \A i \in 1..l : p[i] \in STRING
  BY ElementOfSeq
<1>4. TextBefore(p) = b /\ WildLoc(p) = Len(b)
  BY DEF TextBefore, WildLoc, Before
<1>5. IsWild(p) <=> \E i \in 1..l : p[i] = Open
  BY DEF IsWild, Contains
<1> HIDE DEF l
<1>6. m \in S /\ \A j \in S : m <= j
  <2>1. S \in SUBSET Nat /\ S # {}
    <3>1. \A i \in S : i \in Nat
      BY <1>1, <1>2
    <3>2. l + 1 \in S
      OBVIOUS
    <3> QED BY <3>1, <3>2
  <2> QED BY <2>1, LeastMember
<1> HIDE DEF m
<1>7. m \in 1..(l + 1) /\ (m = l + 1 \/ p[m] = Open)
  <2>1. m = l + 1 \/ (m \in 1..l /\ p[m] = Open)
    BY <1>2, <1>6
  <2> QED BY <1>1, <2>1
<1>8. \A i \in 1..l : p[i] = Open => m <= i
  BY <1>2, <1>6
<1> HIDE DEF S
<1>9. w \in 0..l /\ w \in Nat /\ w + 1 = m
  BY <1>1, <1>7
<1>10. \A i \in 1..w : p[i] # Open /\ p[i] \in STRING
  <2> SUFFICES ASSUME NEW i \in 1..w PROVE p[i] # Open /\ p[i] \in STRING
    OBVIOUS
  <2>1. i \in 1..l /\ ~(m <= i)
    BY <1>1, <1>7, <1>9
  <2> QED BY <1>3, <1>8, <2>1
<1> HIDE DEF w
<1>11. b \in Seq(STRING) /\ Len(b) = w /\ \A i \in 1..w : b[i] = p[i]
  BY <1>9, <1>10, SubSeqProperties
<1> HIDE DEF b
<1>12. IsWild(p) => w < l /\ p[w + 1] = Open
  <2> SUFFICES ASSUME IsWild(p) PROVE w < l /\ p[w + 1] = Open
    OBVIOUS
  <2>1. PICK i \in 1..l : p[i] = Open
    BY <1>5
  <2>2. m <= i
    BY <1>8, <2>1
  <2>3. m <= l /\ m # l + 1
    BY <1>1, <1>7, <2>1, <2>2
  <2> QED BY <1>1, <1>7, <1>9, <2>3
<1> QED BY <1>4, <1>5, <1>9, <1>10, <1>11, <1>12 DEF l

\* LongestCommonPrefix
LEMMA CommonMeans ==
  ASSUME NEW s \in Seq(STRING), NEW t \in Seq(STRING)
  PROVE  LET k == CommonLength(s, t) IN
         /\ k \in Nat /\ k <= Len(s) /\ k <= Len(t)
         /\ \A i \in 1..k : s[i] = t[i]
         /\ k < Len(s) /\ k < Len(t) => s[k + 1] # t[k + 1]
<1> DEFINE m == Min({Len(s), Len(t)})
           S == {n \in 0..m : SubSeq(s, 1, n) = SubSeq(t, 1, n)}
           k == CommonLength(s, t)
<1>1. Len(s) \in Nat /\ Len(t) \in Nat
  BY LenProperties
<1>2. m \in {Len(s), Len(t)} /\ \A j \in {Len(s), Len(t)} : m <= j
  <2>1. {Len(s), Len(t)} \in SUBSET Nat /\ {Len(s), Len(t)} # {}
    BY <1>1
  <2> QED BY <2>1, LeastMember
<1>3. m \in Nat /\ m <= Len(s) /\ m <= Len(t)
  BY <1>1, <1>2
<1>4. \A n \in Nat : n <= Len(s) /\ n <= Len(t) => n <= m
  BY <1>2
<1> HIDE DEF m
<1>5. \A n \in 0..m : n \in S <=> \A i \in 1..n : s[i] = t[i]
  <2> SUFFICES ASSUME NEW n \in 0..m
               PROVE  n \in S <=> \A i \in 1..n : s[i] = t[i]
    OBVIOUS
  <2>1. n \in Nat /\ n <= Len(s) /\ n <= Len(t)
    BY <1>1, <1>3
  <2> QED BY <2>1, SameStart
<1>6. S \in SUBSET (0..m) /\ 0 \in S
  BY <1>3, <1>5
<1> HIDE DEF S
<1>7. k = Max(S)
  BY DEF CommonLength, S, m
<1> HIDE DEF k
<1>8. k \in S /\ \A j \in S : k >= j
  BY <1>3, <1>6, <1>7, GreatestMember
<1>9. k \in 0..m
  BY <1>6, <1>8
<1>10. \A i \in 1..k : s[i] = t[i]
  BY <1>5, <1>8, <1>9
<1>11. ASSUME k < Len(s), k < Len(t), s[k + 1] = t[k + 1]
       PROVE  FALSE
  <2> DEFINE n == k + 1
  <2>1. n \in 0..m
    BY <1>1, <1>3, <1>4, <1>9, <1>11
  <2>2. \A i \in 1..n : s[i] = t[i]
    BY <1>9, <1>10, <1>11
  <2>3. n \in S
    BY <1>5, <2>1, <2>2
  <2> QED BY <1>8, <1>9, <2>3
<1> QED BY <1>1, <1>3, <1>9, <1>10, <1>11 DEF k

LEMMA UniversalMeans ==
  ASSUME NEW p \in Segments, IsWild(p)
  PROVE  Universal(p) <=> WildLoc(p) = 0
<1>1. p \in Seq(STRING) /\ Len(p) \in Nat \ {0}
  BY EmptySeq DEF Segments
<1>2. WildLoc(p) \in Nat /\ p[WildLoc(p) + 1] = Open /\ \A i \in 1..WildLoc(p) : p[i] # Open
  BY <1>1, WildMeans
<1>3. ASSUME WildLoc(p) = 0 PROVE p[1] = Open
  <2>1. WildLoc(p) + 1 = 1
    BY <1>3
  <2> QED BY <1>2, <2>1
<1>4. ASSUME WildLoc(p) # 0 PROVE p[1] # Open
  <2>1. 1 \in 1..WildLoc(p)
    BY <1>2, <1>4
  <2> QED BY <1>2, <2>1
<1> QED BY <1>3, <1>4 DEF Universal

\* Search takes a segment exactly if the segment of the pattern stands for it
LEMMA TakesIsStands ==
  ASSUME NEW c \in Segments, NEW s \in Segments
  PROVE  /\ Takes(c, s) <=> Stands(c, s)
         /\ IsWild(c) => (Stands(c, s) <=> /\ WildLoc(c) < Len(s)
                                           /\ \A i \in 1..WildLoc(c) : c[i] = s[i]
                                           /\ WildLoc(c) # 0 => s[WildLoc(c) + 1] # Open)
<1> DEFINE w == WildLoc(c)
           k == CommonLength(c, s)
           tb == TextBefore(c)
<1>1. c \in Seq(STRING) /\ s \in Seq(STRING) /\ Len(c) \in Nat /\ Len(s) \in Nat \ {0}
  BY EmptySeq, LenProperties DEF Segments
<1>2. CASE ~IsWild(c)
  BY <1>2 DEF Takes, Stands
<1>3. CASE IsWild(c)
  <2>1. w \in Nat /\ w < Len(c) /\ c[w + 1] = Open
    BY <1>1, <1>3, WildMeans
  <2>2. tb \in Seq(STRING) /\ Len(tb) = w /\ \A i \in 1..w : tb[i] = c[i]
    BY <1>1, <1>3, WildMeans
  <2>3. /\ k \in Nat /\ k <= Len(c) /\ k <= Len(s)
        /\ \A i \in 1..k : c[i] = s[i]
        /\ (k < Len(c) /\ k < Len(s) => c[k + 1] # s[k + 1])
    BY <1>1, CommonMeans
  <2>4. Universal(c) <=> w = 0
    BY <1>3, UniversalMeans
  <2>5. tb # <<>> <=> w # 0
    <3>1. tb = <<>> => w = 0
      BY <2>2, EmptySeq
    <3>2. tb # <<>> => Len(tb) \in Nat \ {0}
      BY <2>2, EmptySeq
    <3> QED BY <2>2, <3>1, <3>2
  <2>6. Stands(c, s) <=> /\ IsPrefix(tb, s) /\ Len(s) > Len(tb)
                         /\ tb # <<>> => s[Len(tb) + 1] # Open
    BY <1>3 DEF Stands
  <2>7. Takes(c, s) <=> Universal(c) \/ (k = w /\ Len(s) > w)
    BY <1>3 DEF Takes
  <2> HIDE DEF w, k, tb
  <2>8. IsPrefix(tb, s) <=> w <= Len(s) /\ \A i \in 1..w : tb[i] = s[i]
    <3>1. CASE w <= Len(s)
      <4>1. SubSeq(tb, 1, w) = SubSeq(s, 1, w) <=> \A i \in 1..w : tb[i] = s[i]
        BY <1>1, <2>1, <2>2, <3>1, SameStart
      <4> QED BY <2>2, <3>1, <4>1 DEF IsPrefix
    <3>2. CASE ~(w <= Len(s))
      BY <2>2, <3>2 DEF IsPrefix
    <3> QED BY <3>1, <3>2
  <2>9. Stands(c, s) <=> /\ w < Len(s)
                         /\ \A i \in 1..w : c[i] = s[i]
                         /\ w # 0 => s[w + 1] # Open
    <3>1. (\A i \in 1..w : tb[i] = s[i]) <=> \A i \in 1..w : c[i] = s[i]
      BY <2>2
    <3>2. IsPrefix(tb, s) <=> w <= Len(s) /\ \A i \in 1..w : c[i] = s[i]
      BY <2>8, <3>1
    <3>3. Len(s) > Len(tb) <=> w < Len(s)
      BY <1>1, <2>1, <2>2
    <3>4. w < Len(s) => w <= Len(s)
      BY <1>1, <2>1
    <3>5. (tb # <<>> => s[Len(tb) + 1] # Open) <=> (w # 0 => s[w + 1] # Open)
      BY <2>2, <2>5
    <3> QED BY <2>6, <3>2, <3>3, <3>4, <3>5
  <2>10. ASSUME Takes(c, s) PROVE Stands(c, s)
    <3>1. CASE w = 0
      BY <1>1, <2>9, <3>1
    <3>2. CASE w # 0
      <4>1. k = w /\ Len(s) > w
        BY <2>4, <2>7, <2>10, <3>2
      <4> QED BY <1>1, <2>1, <2>3, <2>9, <4>1
    <3> QED BY <3>1, <3>2
  <2>11. ASSUME Stands(c, s), w # 0 PROVE k = w
    <3>1. w < Len(s) /\ (\A i \in 1..w : c[i] = s[i]) /\ s[w + 1] # Open
      BY <2>9, <2>11
    <3>2. ~(k < w)
      <4> SUFFICES ASSUME k < w PROVE FALSE
        OBVIOUS
      <4> DEFINE n == k + 1
                 x == Len(c)
                 y == Len(s)
      <4>0. x \in Nat /\ y \in Nat /\ k \in Nat /\ w \in Nat /\ w < x /\ w < y /\ k < w
        BY <1>1, <2>1, <2>3, <3>1
      <4> HIDE DEF x, y
      <4>1. k < x /\ k < y /\ n \in 1..w
        BY <4>0
      <4>2. c[n] # s[n]
        BY <2>3, <4>1 DEF x, y
      <4> QED BY <3>1, <4>1, <4>2
    <3>3. ~(k > w)
      <4> SUFFICES ASSUME k > w PROVE FALSE
        OBVIOUS
      <4> DEFINE n == w + 1
      <4>0. w \in Nat /\ k \in Nat /\ k > w
        BY <2>1, <2>3
      <4>1. n \in 1..k
        BY <4>0
      <4>2. c[n] = s[n]
        BY <2>3, <4>1
      <4> QED BY <2>1, <3>1, <4>2
    <3> QED BY <2>1, <2>3, <3>2, <3>3
  <2>12. ASSUME Stands(c, s) PROVE Takes(c, s)
    <3>1. w < Len(s)
      BY <2>9, <2>12
    <3> QED BY <1>1, <2>1, <2>4, <2>7, <2>11, <2>12, <3>1
  <2> QED BY <1>3, <2>9, <2>10, <2>12 DEF w
<1> QED BY <1>2, <1>3

-----------------------------------------------------------------------------
(***************************************************************************)
(* The tree.                                                               *)
(***************************************************************************)

Paths == Seq(Segments)

\* What the tree is made of: whole paths, numbered so that no two nodes of one length have
\* the same number; and of two siblings the older one allowed the younger one
TreeInv ==
  /\ \A n \in Nodes : n \in Paths /\ tree[n] \in 0..Len(log)
  /\ \A n \in Nodes : \A i \in 0..Len(n) : SubSeq(n, 1, i) \in Nodes
  /\ \A m, n \in Nodes : Len(m) = Len(n) /\ tree[m] = tree[n] => m = n
  /\ \A c, d \in Nodes : Len(c) = Len(d) /\ Len(c) > 0 /\ Front(c) = Front(d)
                           /\ tree[c] < tree[d] => ~Conflict(Last(c), Last(d))

RouterInv == TypeOKRouter /\ TreeInv

LEMMA PathsTyped == Patterns \subseteq Paths /\ Urls \subseteq Paths
<1> SUFFICES ASSUME NEW s \in Patterns \cup Urls PROVE s \in Paths
  OBVIOUS
<1>1. s \in Seq(Seq(STRING)) /\ \A i \in DOMAIN s : s[i] # <<>>
  BY SegmentsAssumption
<1>2. Len(s) \in Nat /\ DOMAIN s = 1..Len(s) /\ s \in [1..Len(s) -> Seq(STRING)]
  BY <1>1, LenProperties
<1>3. s \in [1..Len(s) -> Segments]
  BY <1>1, <1>2 DEF Segments
<1>4. s \in UNION {[1..n -> Segments] : n \in Nat}
  BY <1>2, <1>3
<1> QED BY <1>4, SeqDef DEF Paths

\* Parts of a path
LEMMA PartMeans ==
  ASSUME NEW n \in Paths, NEW i \in 0..Len(n)
  PROVE  /\ Len(n) \in Nat /\ DOMAIN n = 1..Len(n)
         /\ SubSeq(n, 1, i) \in Paths /\ Len(SubSeq(n, 1, i)) = i
         /\ \A j \in 1..i : SubSeq(n, 1, i)[j] = n[j]
         /\ i # 0 => /\ n[i] \in Segments
                     /\ Last(SubSeq(n, 1, i)) = n[i]
                     /\ Front(SubSeq(n, 1, i)) = SubSeq(n, 1, i - 1)
<1> DEFINE s == SubSeq(n, 1, i)
           k == Len(n)
<1>1. k \in Nat /\ DOMAIN n = 1..k /\ \A j \in 1..k : n[j] \in Segments
  BY LenProperties, ElementOfSeq DEF Paths
<1> HIDE DEF k
<1>2. i \in Nat /\ i <= k
  BY <1>1 DEF k
<1>3. \A j \in 1..i : n[j] \in Segments
  BY <1>1, <1>2
<1>4. s \in Paths /\ Len(s) = i /\ \A j \in 1..i : s[j] = n[j]
  BY <1>2, <1>3, SubSeqProperties DEF Paths
<1>5. ASSUME i # 0
      PROVE  /\ n[i] \in Segments /\ Last(s) = n[i]
             /\ Front(s) = SubSeq(n, 1, i - 1)
  <2> DEFINE j == i - 1
  <2>1. i \in 1..i /\ j \in Nat /\ j <= i /\ j <= k
    BY <1>1, <1>2, <1>5
  <2>2. Last(s) = n[i] /\ n[i] \in Segments
    BY <1>3, <1>4, <2>1 DEF Last
  <2>3. Front(s) = SubSeq(s, 1, j)
    BY <1>4 DEF Front
  <2>4. n \in Seq(Segments) /\ s \in Seq(Segments) /\ j <= Len(n) /\ j <= Len(s)
    BY <1>4, <2>1 DEF Paths, k
  <2>5. \A x \in 1..j : s[x] = n[x]
    BY <1>4, <2>1
  <2> HIDE DEF s, j
  <2>6. SubSeq(s, 1, j) = SubSeq(n, 1, j)
    BY <2>1, <2>4, <2>5, SameStart
  <2> QED BY <2>2, <2>3, <2>6 DEF j
<1> QED BY <1>1, <1>4, <1>5 DEF k

\* Two paths that agree are the same
LEMMA PathsEqual ==
  ASSUME NEW m \in Paths, NEW n \in Paths, Len(m) = Len(n), m # n
  PROVE  \E i \in 1..Len(n) : m[i] # n[i] /\ SubSeq(m, 1, i - 1) = SubSeq(n, 1, i - 1)
<1> DEFINE S == {i \in 1..Len(n) : m[i] # n[i]}
           i == Min(S)
           j == i - 1
           k == Len(n)
<1>1. k \in Nat /\ m \in Seq(Segments) /\ n \in Seq(Segments)
  BY LenProperties DEF Paths
<1>2. S # {}
  BY <1>1, SeqEqual
<1>3. i \in S /\ \A x \in S : i <= x
  <2>1. S \in SUBSET Nat
    BY <1>1
  <2> QED BY <1>2, <2>1, LeastMember
<1>4. i \in 1..k /\ m[i] # n[i] /\ \A x \in 1..k : m[x] # n[x] => i <= x
  BY <1>3
<1> HIDE DEF i, S, k
<1>5. j \in Nat /\ j <= k /\ \A x \in 1..j : x \in 1..k /\ ~(i <= x)
  BY <1>1, <1>4
<1>6. \A x \in 1..j : m[x] = n[x]
  BY <1>4, <1>5
<1> HIDE DEF j
<1>7. SubSeq(m, 1, j) = SubSeq(n, 1, j)
  BY <1>1, <1>5, <1>6, SameStart DEF k
<1> QED BY <1>4, <1>7 DEF k, j

-----------------------------------------------------------------------------
(***************************************************************************)
(* Registering.                                                            *)
(***************************************************************************)

\* What Insert passes: the parts of the pattern before the first segment where it stops
LEMMA PassedMeans ==
  ASSUME NEW pattern \in Patterns
  PROVE  \E stop \in 1..(Len(pattern) + 1) :
           /\ \A n : n \in Passed(pattern) <=> \E i \in 0..(stop - 1) : n = SubSeq(pattern, 1, i)
           /\ \A i \in 1..(stop - 1) : i \notin Stops(pattern)
           /\ Stops(pattern) = {} => stop = Len(pattern) + 1
<1> DEFINE l == Len(pattern)
           S == Stops(pattern) \cup {l + 1}
           stop == Min(S)
<1>1. l \in Nat /\ DOMAIN pattern = 1..l
  BY PathsTyped, LenProperties DEF Paths
<1>2. \A i \in Stops(pattern) : i \in 1..l
  BY <1>1 DEF Stops
<1>3. Passed(pattern) = {SubSeq(pattern, 1, i) : i \in 0..(stop - 1)}
  BY DEF Passed
<1> HIDE DEF l
<1>4. stop \in S /\ \A i \in S : stop <= i
  <2>1. \A i \in S : i \in Nat
    BY <1>1, <1>2
  <2>2. S \in SUBSET Nat /\ S # {}
    BY <2>1
  <2> QED BY <2>2, LeastMember
<1> HIDE DEF stop
<1>5. stop \in 1..(l + 1)
  BY <1>1, <1>2, <1>4
<1>6. \A i \in 1..(stop - 1) : i \notin Stops(pattern)
  <2> SUFFICES ASSUME NEW i \in 1..(stop - 1), i \in Stops(pattern) PROVE FALSE
    OBVIOUS
  <2>1. stop <= i
    BY <1>4
  <2> QED BY <1>1, <1>5, <2>1
<1>7. Stops(pattern) = {} => stop = l + 1
  BY <1>4
<1> QED BY <1>3, <1>5, <1>6, <1>7 DEF l

\* A new node has no sibling yet that has its segment, and all its siblings allow it
LEMMA NewNode ==
  ASSUME RouterInv, NEW pattern \in Patterns, NEW i \in 1..Len(pattern),
         i \notin Stops(pattern), SubSeq(pattern, 1, i) \notin Nodes,
         NEW c \in Nodes, Len(c) = i, Front(c) = SubSeq(pattern, 1, i - 1)
  PROVE  ~Conflict(Last(c), pattern[i])
<1> DEFINE s == pattern[i]
           p == SubSeq(pattern, 1, i - 1)
           d == SubSeq(pattern, 1, i)
<1>1. pattern \in Paths /\ Len(pattern) \in Nat /\ DOMAIN pattern = 1..Len(pattern)
  BY PathsTyped, LenProperties DEF Paths
<1>2. i \in Nat /\ i \in 0..Len(pattern) /\ i - 1 \in 0..Len(pattern) /\ i # 0
  BY <1>1
<1>3. d \in Paths /\ Len(d) = i /\ Last(d) = s /\ Front(d) = p
  BY <1>1, <1>2, PartMeans
<1>4. Len(p) = i - 1
  BY <1>1, <1>2, PartMeans
<1>5. ~Refused(p, s)
  BY <1>1 DEF Stops
<1> HIDE DEF s, p, d
<1>6. c \in Children(p)
  <2>1. Len(c) = Len(p) + 1
    BY <1>2, <1>4
  <2> QED BY <2>1 DEF Children, p
<1>7. ASSUME NEW e \in Children(p), Last(e) = s
      PROVE  FALSE
  <2>1. e \in Nodes /\ Len(e) = i /\ Front(e) = p
    BY <1>2, <1>4, <1>7 DEF Children
  <2>2. e \in Paths
    BY <2>1 DEF RouterInv, TreeInv
  <2>3. e = d
    <3> SUFFICES ASSUME e # d PROVE FALSE
      OBVIOUS
    <3>1. PICK j \in 1..Len(d) : e[j] # d[j]
      BY <1>3, <2>1, <2>2, PathsEqual
    <3>2. CASE j = i
      BY <1>3, <1>7, <2>1, <3>1, <3>2 DEF Last
    <3>3. CASE j # i
      <4> DEFINE k == i - 1
      <4>1. j \in 1..k /\ k \in Nat /\ k <= i
        BY <1>2, <1>3, <3>1, <3>3
      <4>2. SubSeq(e, 1, k) = SubSeq(d, 1, k)
        BY <1>3, <2>1 DEF Front
      <4>3. e \in Seq(Segments) /\ d \in Seq(Segments) /\ k <= Len(e) /\ k <= Len(d)
        BY <1>3, <2>1, <2>2, <4>1 DEF Paths
      <4> HIDE DEF k
      <4>4. \A x \in 1..k : e[x] = d[x]
        BY <4>1, <4>2, <4>3, SameStart
      <4> QED BY <3>1, <4>1, <4>4
    <3> QED BY <3>2, <3>3
  <2> QED BY <2>1, <2>3 DEF d
<1> QED BY <1>5, <1>6, <1>7 DEF Refused, s

\* A call of Register, whatever becomes of it: the old nodes stay, and the new ones are
\* parts of the pattern, behind nodes that allow them
LEMMA Grows ==
  ASSUME RouterInv, NEW pattern \in Patterns, Register(pattern)
  PROVE  LET call == Len(log) + 1 IN
         /\ call \in Nat /\ call <= MaxCalls
         /\ log' = Append(log, pattern) /\ Len(log') = call /\ log' \in Seq(Patterns)
         /\ Nodes \subseteq Nodes' /\ DOMAIN handler' = Nodes'
         /\ \A n \in Nodes : tree'[n] = tree[n] /\ tree[n] < call
         /\ \A n \in Nodes' \ Nodes :
              /\ tree'[n] = call
              /\ n \in Paths
              /\ n = SubSeq(pattern, 1, Len(n))
              /\ Len(n) \in 1..Len(pattern) /\ Len(n) \notin Stops(pattern)
              /\ \A i \in 0..Len(n) : SubSeq(n, 1, i) \in Nodes'
         /\ \A n \in Nodes' :
              handler'[n] = IF n = pattern /\ Accepted(pattern) THEN call
                            ELSE IF n \in Nodes THEN handler[n] ELSE 0
<1> DEFINE call == Len(log) + 1
           all == Nodes \cup Passed(pattern)
<1>1. log \in Seq(Patterns) /\ Len(log) \in Nat
  BY LenProperties DEF RouterInv, TypeOKRouter
<1>2. /\ call <= MaxCalls
      /\ tree' = [n \in all |-> IF n \in Nodes THEN tree[n] ELSE call]
      /\ handler' = [n \in all |-> IF n = pattern /\ Accepted(pattern) THEN call
                                   ELSE IF n \in Nodes THEN handler[n] ELSE 0]
      /\ log' = Append(log, pattern)
  BY DEF Register
<1>3. Len(log') = call /\ log' \in Seq(Patterns)
  BY <1>1, <1>2, AppendProperties
<1>4. Nodes' = all /\ DOMAIN handler' = all
  BY <1>2 DEF Nodes
<1>5. \A n \in Nodes : tree[n] < call
  BY <1>1 DEF RouterInv, TypeOKRouter
<1>6. PICK stop \in 1..(Len(pattern) + 1) :
        /\ \A n : n \in Passed(pattern) <=> \E i \in 0..(stop - 1) : n = SubSeq(pattern, 1, i)
        /\ \A i \in 1..(stop - 1) : i \notin Stops(pattern)
  BY PassedMeans
<1>7. pattern \in Paths /\ Len(pattern) \in Nat
  BY PathsTyped, LenProperties DEF Paths
<1>8. ASSUME NEW n \in Nodes' \ Nodes
      PROVE  /\ n \in Paths /\ n = SubSeq(pattern, 1, Len(n))
             /\ Len(n) \in 1..Len(pattern) /\ Len(n) \notin Stops(pattern)
             /\ \A i \in 0..Len(n) : SubSeq(n, 1, i) \in Nodes'
  <2>1. PICK k \in 0..(stop - 1) : n = SubSeq(pattern, 1, k)
    BY <1>4, <1>6, <1>8
  <2>2. k \in 0..Len(pattern) /\ k \in Nat
    BY <1>6, <1>7
  <2>3. n \in Paths /\ Len(n) = k /\ \A j \in 1..k : n[j] = pattern[j]
    BY <1>7, <2>1, <2>2, PartMeans
  <2>4. k # 0
    <3> SUFFICES ASSUME k = 0 PROVE FALSE
      OBVIOUS
    <3>1. n = Root
      BY <2>3, EmptySeq DEF Root, Paths
    <3> QED BY <1>8, <3>1 DEF RouterInv, TypeOKRouter
  <2>5. k \in 1..(stop - 1) /\ k \in 1..Len(pattern)
    BY <1>7, <2>2, <2>4
  <2>6. k \notin Stops(pattern)
    BY <1>6, <2>5
  <2>7. ASSUME NEW i \in 0..k
        PROVE  SubSeq(n, 1, i) \in Nodes'
    <3>1. i \in Nat /\ i <= k /\ i \in 0..(stop - 1) /\ i \in 0..Len(pattern)
      BY <1>6, <2>2
    <3>2. n \in Seq(Segments) /\ pattern \in Seq(Segments) /\ i <= Len(n) /\ i <= Len(pattern)
      BY <1>7, <2>2, <2>3, <3>1 DEF Paths
    <3>3. \A x \in 1..i : n[x] = pattern[x]
      BY <2>2, <2>3, <3>1
    <3>4. SubSeq(n, 1, i) = SubSeq(pattern, 1, i)
      BY <3>1, <3>2, <3>3, SameStart
    <3> QED BY <1>4, <1>6, <3>1, <3>4
  <2> QED BY <2>1, <2>3, <2>5, <2>6, <2>7
<1> HIDE DEF all
<1>9. \A n \in Nodes : n \in all /\ tree'[n] = tree[n]
  BY <1>2 DEF all
<1>10. \A n \in Nodes' \ Nodes : tree'[n] = call
  BY <1>2, <1>4
<1>11. \A n \in Nodes' :
         handler'[n] = IF n = pattern /\ Accepted(pattern) THEN call
                       ELSE IF n \in Nodes THEN handler[n] ELSE 0
  BY <1>2, <1>4
<1>12. call \in Nat /\ Nodes \subseteq Nodes' /\ DOMAIN handler' = Nodes'
  <2>1. call \in Nat
    BY <1>1
  <2> QED BY <1>4, <1>9, <2>1
<1>13. /\ call \in Nat /\ call <= MaxCalls
       /\ log' = Append(log, pattern) /\ Len(log') = call /\ log' \in Seq(Patterns)
       /\ Nodes \subseteq Nodes' /\ DOMAIN handler' = Nodes'
  BY <1>2, <1>3, <1>12
<1> HIDE DEF call
<1>14. \A n \in Nodes : tree'[n] = tree[n] /\ tree[n] < call
  BY <1>5, <1>9
<1>15. \A n \in Nodes' \ Nodes :
         /\ tree'[n] = call
         /\ n \in Paths
         /\ n = SubSeq(pattern, 1, Len(n))
         /\ Len(n) \in 1..Len(pattern) /\ Len(n) \notin Stops(pattern)
         /\ \A i \in 0..Len(n) : SubSeq(n, 1, i) \in Nodes'
  BY <1>8, <1>10, Zenon
<1> QED BY <1>11, <1>13, <1>14, <1>15, Zenon DEF call

LEMMA InitRouterInv == InitRouter => RouterInv
<1> SUFFICES ASSUME InitRouter PROVE RouterInv
  OBVIOUS
<1>1. Nodes = {Root} /\ DOMAIN handler = {Root} /\ tree[Root] = 0 /\ handler[Root] = 0 /\ log = <<>>
  BY DEF InitRouter, Nodes
<1>2. Len(Root) = 0 /\ Root \in Paths /\ Len(log) = 0 /\ log \in Seq(Patterns)
  BY <1>1, EmptySeq DEF Root, Paths
<1>3. \A i \in 0..0 : SubSeq(Root, 1, i) = Root
  BY SubSeqEmpty DEF Root
<1>4. TypeOKRouter
  BY <1>1, <1>2, CallsAssumption DEF TypeOKRouter
<1>5. \A n \in Nodes : n \in Paths /\ tree[n] \in 0..Len(log)
  BY <1>1, <1>2
<1>6. \A n \in Nodes : \A i \in 0..Len(n) : SubSeq(n, 1, i) \in Nodes
  BY <1>1, <1>2, <1>3
<1> QED BY <1>1, <1>2, <1>4, <1>5, <1>6 DEF RouterInv, TreeInv

LEMMA RegisterInv ==
  ASSUME RouterInv, NEW pattern \in Patterns, Register(pattern)
  PROVE  RouterInv'
<1> DEFINE call == Len(log) + 1
<1>1. /\ call \in Nat /\ call <= MaxCalls
      /\ log' = Append(log, pattern) /\ Len(log') = call /\ log' \in Seq(Patterns)
      /\ Nodes \subseteq Nodes' /\ DOMAIN handler' = Nodes'
  BY Grows
<1>2. \A n \in Nodes : tree'[n] = tree[n] /\ tree[n] < call
  BY Grows
<1>3. \A n \in Nodes' \ Nodes :
        /\ tree'[n] = call
        /\ n \in Paths
        /\ n = SubSeq(pattern, 1, Len(n))
        /\ Len(n) \in 1..Len(pattern) /\ Len(n) \notin Stops(pattern)
        /\ \A i \in 0..Len(n) : SubSeq(n, 1, i) \in Nodes'
  BY Grows
<1>4. \A n \in Nodes' :
        handler'[n] = IF n = pattern /\ Accepted(pattern) THEN call
                      ELSE IF n \in Nodes THEN handler[n] ELSE 0
  BY Grows
<1>5. Len(log) \in Nat /\ call = Len(log) + 1 /\ log \in Seq(Patterns)
  BY LenProperties DEF RouterInv, TypeOKRouter
<1> HIDE DEF call
<1>6. /\ Root \in Nodes /\ DOMAIN handler = Nodes
      /\ \A n \in Nodes : /\ tree[n] \in 0..Len(log) /\ handler[n] \in 0..Len(log)
                          /\ handler[n] # 0 => log[handler[n]] = n
  BY DEF RouterInv, TypeOKRouter
<1>7. ASSUME NEW n \in Nodes'
      PROVE  /\ tree'[n] \in 0..call /\ handler'[n] \in 0..call
             /\ handler'[n] # 0 => log'[handler'[n]] = n
  <2>1. log'[call] = pattern /\ \A i \in 1..Len(log) : log'[i] = log[i]
    BY <1>1, <1>5, AppendProperties
  <2>2. tree'[n] \in 0..call
    <3>1. CASE n \in Nodes
      <4>1. tree'[n] = tree[n] /\ tree[n] \in 0..Len(log)
        BY <1>2, <1>6, <3>1
      <4> QED BY <1>5, <4>1
    <3>2. CASE n \notin Nodes
      <4>1. tree'[n] = call
        BY <1>3, <3>2
      <4> QED BY <1>1, <4>1
    <3> QED BY <3>1, <3>2
  <2>3. CASE n = pattern /\ Accepted(pattern)
    BY <1>1, <1>4, <2>1, <2>2, <2>3
  <2>4. CASE ~(n = pattern /\ Accepted(pattern)) /\ n \in Nodes
    <3>1. handler'[n] = handler[n]
      BY <1>4, <2>4
    <3>2. handler[n] \in 0..Len(log) /\ (handler[n] # 0 => log[handler[n]] = n)
      BY <1>6, <2>4
    <3>3. handler[n] # 0 => log'[handler[n]] = n
      BY <1>5, <2>1, <3>2
    <3>4. handler[n] \in 0..call
      BY <1>5, <3>2
    <3> QED BY <2>2, <3>1, <3>3, <3>4
  <2>5. CASE ~(n = pattern /\ Accepted(pattern)) /\ n \notin Nodes
    BY <1>1, <1>4, <2>2, <2>5
  <2> QED BY <2>3, <2>4, <2>5
<1>8. TypeOKRouter'
  BY <1>1, <1>6, <1>7 DEF TypeOKRouter
<1>9. ASSUME NEW n \in Nodes'
      PROVE  /\ n \in Paths /\ tree'[n] \in 0..Len(log')
             /\ \A i \in 0..Len(n) : SubSeq(n, 1, i) \in Nodes'
  <2>1. CASE n \in Nodes
    BY <1>1, <1>7, <2>1 DEF RouterInv, TreeInv
  <2>2. CASE n \notin Nodes
    BY <1>1, <1>3, <1>7, <2>2
  <2> QED BY <2>1, <2>2
<1>10. ASSUME NEW m \in Nodes', NEW n \in Nodes', Len(m) = Len(n), tree'[m] = tree'[n]
       PROVE  m = n
  <2>1. CASE m \in Nodes /\ n \in Nodes
    BY <1>2, <1>10, <2>1 DEF RouterInv, TreeInv
  <2>2. CASE m \notin Nodes /\ n \notin Nodes
    BY <1>3, <1>10, <2>2
  <2>3. CASE m \in Nodes /\ n \notin Nodes
    BY <1>1, <1>2, <1>3, <1>5, <1>6, <1>10, <2>3
  <2>4. CASE m \notin Nodes /\ n \in Nodes
    BY <1>1, <1>2, <1>3, <1>5, <1>6, <1>10, <2>4
  <2> QED BY <2>1, <2>2, <2>3, <2>4
<1>11. ASSUME NEW c \in Nodes', NEW d \in Nodes', Len(c) = Len(d), Len(c) > 0,
              Front(c) = Front(d), tree'[c] < tree'[d]
       PROVE  ~Conflict(Last(c), Last(d))
  <2>1. CASE c \in Nodes /\ d \in Nodes
    BY <1>2, <1>11, <2>1 DEF RouterInv, TreeInv
  <2>2. CASE c \in Nodes /\ d \notin Nodes
    <3> DEFINE i == Len(d)
    <3>1. i \in 1..Len(pattern) /\ i \notin Stops(pattern) /\ d = SubSeq(pattern, 1, i)
      BY <1>3, <2>2
    <3> HIDE DEF i
    <3>2. pattern \in Paths /\ Len(pattern) \in Nat
      BY PathsTyped, LenProperties DEF Paths
    <3>3. i \in 0..Len(pattern) /\ i # 0
      BY <3>1, <3>2
    <3>4. Last(d) = pattern[i] /\ Front(d) = SubSeq(pattern, 1, i - 1)
      BY <3>1, <3>2, <3>3, PartMeans
    <3>5. Len(c) = i /\ Front(c) = SubSeq(pattern, 1, i - 1) /\ SubSeq(pattern, 1, i) \notin Nodes
      BY <1>11, <2>2, <3>1, <3>4 DEF i
    <3>6. ~Conflict(Last(c), pattern[i])
      BY <2>2, <3>1, <3>5, NewNode
    <3> QED BY <3>4, <3>6
  <2>3. CASE c \notin Nodes
    <3>1. tree'[c] = call /\ tree'[d] \in 0..call
      BY <1>3, <1>7, <2>3
    <3> QED BY <1>1, <1>11, <3>1
  <2> QED BY <2>1, <2>2, <2>3
<1>12. TreeInv'
  BY <1>9, <1>10, <1>11 DEF TreeInv
<1> QED BY <1>8, <1>12 DEF RouterInv

-----------------------------------------------------------------------------
(***************************************************************************)
(* Searching.                                                              *)
(***************************************************************************)

\* Paths with the same parent and the same last segment are the same
LEMMA SamePath ==
  ASSUME NEW m \in Paths, NEW n \in Paths, Len(m) = Len(n), Len(n) > 0,
         Front(m) = Front(n), Last(m) = Last(n)
  PROVE  m = n
<1> SUFFICES ASSUME m # n PROVE FALSE
  OBVIOUS
<1> DEFINE l == Len(n)
           k == l - 1
<1>1. PICK j \in 1..l : m[j] # n[j]
  BY PathsEqual
<1>2. l \in Nat \ {0} /\ m \in Seq(Segments) /\ n \in Seq(Segments)
  BY LenProperties DEF Paths
<1>3. CASE j = l
  BY <1>1, <1>3 DEF Last
<1>4. CASE j # l
  <2>1. j \in 1..k /\ k \in Nat /\ k <= Len(m) /\ k <= Len(n)
    BY <1>2, <1>4
  <2>2. SubSeq(m, 1, k) = SubSeq(n, 1, k)
    BY DEF Front
  <2> HIDE DEF k, l
  <2>3. \A x \in 1..k : m[x] = n[x]
    BY <1>2, <2>1, <2>2, SameStart
  <2> QED BY <1>1, <2>1, <2>3
<1> QED BY <1>3, <1>4

\* What is known of a node that is reached
LEMMA ReachedMeans ==
  ASSUME RouterInv, NEW u \in Urls, NEW n \in Nodes, Len(n) = Len(u)
  PROVE  /\ u \in Paths /\ n \in Paths /\ Len(n) \in Nat
         /\ DOMAIN n = 1..Len(n) /\ DOMAIN u = 1..Len(n)
         /\ \A i \in 1..Len(n) :
              /\ SubSeq(n, 1, i) \in Nodes /\ Len(SubSeq(n, 1, i)) = i
              /\ SubSeq(n, 1, i - 1) \in Nodes
              /\ SubSeq(n, 1, i) \in Children(SubSeq(n, 1, i - 1))
              /\ Last(SubSeq(n, 1, i)) = n[i] /\ Front(SubSeq(n, 1, i)) = SubSeq(n, 1, i - 1)
              /\ n[i] \in Segments /\ u[i] \in Segments
<1>1. u \in Paths /\ n \in Paths /\ Len(n) \in Nat /\ DOMAIN n = 1..Len(n) /\ DOMAIN u = 1..Len(n)
  BY PathsTyped, LenProperties DEF RouterInv, TreeInv, Paths
<1>2. ASSUME NEW i \in 1..Len(n)
      PROVE  /\ SubSeq(n, 1, i) \in Nodes /\ Len(SubSeq(n, 1, i)) = i
             /\ SubSeq(n, 1, i - 1) \in Nodes
             /\ SubSeq(n, 1, i) \in Children(SubSeq(n, 1, i - 1))
             /\ Last(SubSeq(n, 1, i)) = n[i] /\ Front(SubSeq(n, 1, i)) = SubSeq(n, 1, i - 1)
             /\ n[i] \in Segments /\ u[i] \in Segments
  <2> DEFINE j == i - 1
  <2>1. i \in 0..Len(n) /\ j \in 0..Len(n) /\ i # 0 /\ i = j + 1
    BY <1>1
  <2>2. SubSeq(n, 1, i) \in Nodes /\ SubSeq(n, 1, j) \in Nodes
    BY <2>1 DEF RouterInv, TreeInv
  <2>3. /\ Len(SubSeq(n, 1, i)) = i /\ Last(SubSeq(n, 1, i)) = n[i]
        /\ Front(SubSeq(n, 1, i)) = SubSeq(n, 1, j) /\ n[i] \in Segments
    BY <1>1, <2>1, PartMeans
  <2>4. Len(SubSeq(n, 1, j)) = j
    BY <1>1, <2>1, PartMeans
  <2>5. u[i] \in Segments
    BY <1>1, ElementOfSeq DEF Paths
  <2> HIDE DEF j
  <2>6. SubSeq(n, 1, i) \in Children(SubSeq(n, 1, j))
    BY <2>1, <2>2, <2>3, <2>4 DEF Children
  <2> QED BY <2>2, <2>3, <2>5, <2>6 DEF j
<1> QED BY <1>1, <1>2

\* A search ends at one node at most, and finds what that node has
FoundIs ==
  \A u \in Urls :
    /\ Reached(u) = {} => Found(u) = 0
    /\ \A n \in Reached(u) : Reached(u) = {n} /\ Found(u) = handler[n]

LEMMA FoundOnce == RouterInv => FoundIs
<1> SUFFICES ASSUME RouterInv, NEW u \in Urls
             PROVE  /\ Reached(u) = {} => Found(u) = 0
                    /\ \A n \in Reached(u) : Reached(u) = {n} /\ Found(u) = handler[n]
  BY DEF FoundIs
<1>1. ASSUME NEW m \in Reached(u), NEW n \in Reached(u), m # n
      PROVE  FALSE
  <2>1. m \in Nodes /\ n \in Nodes /\ Len(m) = Len(u) /\ Len(n) = Len(u)
    BY <1>1 DEF Reached
  <2>2. m \in Paths /\ n \in Paths /\ Len(m) \in Nat /\ DOMAIN m = 1..Len(m) /\ DOMAIN n = 1..Len(n)
    BY <2>1, ReachedMeans
  <2>3. PICK i \in 1..Len(n) : m[i] # n[i] /\ SubSeq(m, 1, i - 1) = SubSeq(n, 1, i - 1)
    BY <1>1, <2>1, <2>2, PathsEqual
  <2>4. /\ IsFirst(SubSeq(m, 1, i), SubSeq(n, 1, i - 1), u[i])
        /\ IsFirst(SubSeq(n, 1, i), SubSeq(n, 1, i - 1), u[i])
    <3>1. i \in DOMAIN m /\ i \in DOMAIN n
      BY <2>1, <2>2
    <3> QED BY <2>3, <3>1 DEF Reached
  <2>5. /\ SubSeq(m, 1, i) \in Nodes /\ Len(SubSeq(m, 1, i)) = i /\ Last(SubSeq(m, 1, i)) = m[i]
        /\ SubSeq(n, 1, i) \in Nodes /\ Len(SubSeq(n, 1, i)) = i /\ Last(SubSeq(n, 1, i)) = n[i]
    BY <2>1, ReachedMeans
  <2> DEFINE c == SubSeq(m, 1, i)
             d == SubSeq(n, 1, i)
  <2> HIDE DEF c, d
  <2>6. tree[c] <= tree[d] /\ tree[d] <= tree[c]
    BY <2>4 DEF IsFirst, c, d
  <2>7. tree[c] \in Nat /\ tree[d] \in Nat
    BY <2>5 DEF RouterInv, TypeOKRouter, c, d
  <2>8. tree[c] = tree[d]
    BY <2>6, <2>7
  <2>9. c = d
    BY <2>5, <2>8 DEF RouterInv, TreeInv, c, d
  <2> QED BY <2>3, <2>5, <2>9 DEF c, d
<1>2. \A n \in Reached(u) : Reached(u) = {n}
  BY <1>1
<1> QED BY <1>2 DEF Found

\* The text before a wildcard and what the wildcard stands for are the segment
LEMMA StandsForRest ==
  ASSUME NEW c \in Segments, NEW s \in Segments, IsWild(c), Stands(c, s)
  PROVE  TextBefore(c) \o SubSeq(s, WildLoc(c) + 1, Len(s)) = s
<1> DEFINE w == WildLoc(c)
           l == Len(s)
           tb == TextBefore(c)
<1>1. c \in Seq(STRING) /\ s \in Seq(STRING) /\ l \in Nat
  BY LenProperties DEF Segments
<1>2. w \in Nat /\ tb \in Seq(STRING) /\ Len(tb) = w /\ \A i \in 1..w : tb[i] = c[i]
  BY <1>1, WildMeans
<1>3. w < l /\ \A i \in 1..w : c[i] = s[i]
  BY TakesIsStands
<1> HIDE DEF w, tb
<1>4. tb = SubSeq(s, 1, w)
  <2>1. w <= l /\ w <= Len(tb) /\ \A i \in 1..w : tb[i] = s[i]
    BY <1>1, <1>2, <1>3
  <2>2. SubSeq(tb, 1, w) = SubSeq(s, 1, w)
    BY <1>1, <1>2, <2>1, SameStart
  <2>3. SubSeq(tb, 1, Len(tb)) = tb
    BY <1>2, SubSeqFull
  <2> QED BY <1>2, <2>2, <2>3
<1>5. SubSeq(s, 1, w) \o SubSeq(s, w + 1, l) = s
  <2>1. w \in (1 - 1)..l /\ l \in w..l /\ 1 \in 1..(l + 1)
    BY <1>1, <1>2, <1>3
  <2>2. SubSeq(s, 1, w) \o SubSeq(s, w + 1, l) = SubSeq(s, 1, l)
    BY <1>1, <2>1, ConcatAdjacentSubSeq
  <2> QED BY <1>1, <2>2, SubSeqFull
<1> QED BY <1>4, <1>5 DEF w, tb

\* Every node that is reached stands for the URL, and its parameters are what they should be
LEMMA ReachedMatches ==
  ASSUME RouterInv, NEW u \in Urls, NEW n \in Reached(u)
  PROVE  /\ Matches(n, u)
         /\ \A i \in DOMAIN n : IsWild(n[i]) =>
              \/ TextBefore(n[i]) \o Params(n, u)[WildName(n[i])] = u[i]
              \/ \E j \in DOMAIN n : j > i /\ IsWild(n[j]) /\ WildName(n[j]) = WildName(n[i])
<1>1. n \in Nodes /\ Len(n) = Len(u)
  BY DEF Reached
<1>2. Len(n) \in Nat /\ DOMAIN n = 1..Len(n) /\ DOMAIN u = 1..Len(n)
  BY <1>1, ReachedMeans
<1>3. ASSUME NEW i \in 1..Len(n)
      PROVE  n[i] \in Segments /\ u[i] \in Segments /\ Stands(n[i], u[i])
  <2>1. Last(SubSeq(n, 1, i)) = n[i] /\ n[i] \in Segments /\ u[i] \in Segments
    BY <1>1, ReachedMeans
  <2>2. Takes(n[i], u[i])
    BY <1>2, <2>1 DEF Reached, IsFirst
  <2> QED BY <2>1, <2>2, TakesIsStands
<1>4. Matches(n, u)
  BY <1>1, <1>2, <1>3 DEF Matches
<1>5. ASSUME NEW i \in 1..Len(n), IsWild(n[i])
      PROVE  \/ TextBefore(n[i]) \o Params(n, u)[WildName(n[i])] = u[i]
             \/ \E j \in DOMAIN n : j > i /\ IsWild(n[j]) /\ WildName(n[j]) = WildName(n[i])
  <2> DEFINE Wild == {j \in DOMAIN n : IsWild(n[j])}
             name == WildName(n[i])
             T == {j \in Wild : WildName(n[j]) = name}
             k == Max(T)
  <2>1. Params(n, u)[name] = SubSeq(u[k], WildLoc(n[k]) + 1, Len(u[k]))
    <3>1. name \in {WildName(n[j]) : j \in Wild}
      BY <1>2, <1>5
    <3> QED BY <3>1 DEF Params
  <2>2. \A j : j \in T <=> j \in 1..Len(n) /\ IsWild(n[j]) /\ WildName(n[j]) = name
    BY <1>2
  <2> HIDE DEF T
  <2>3. k \in T /\ \A j \in T : k >= j
    <3>1. i \in T /\ T \in SUBSET (0..Len(n))
      BY <1>2, <1>5, <2>2
    <3> QED BY <1>2, <3>1, GreatestMember
  <2> HIDE DEF k
  <2>4. k \in 1..Len(n) /\ IsWild(n[k]) /\ WildName(n[k]) = name /\ k >= i
    BY <1>5, <2>2, <2>3
  <2>5. CASE k = i
    <3>1. TextBefore(n[i]) \o SubSeq(u[i], WildLoc(n[i]) + 1, Len(u[i])) = u[i]
      BY <1>3, <1>5, StandsForRest
    <3> QED BY <2>1, <2>5, <3>1
  <2>6. CASE k # i
    <3>1. k > i /\ k \in DOMAIN n
      BY <1>2, <2>4, <2>6
    <3> QED BY <2>4, <3>1
  <2> QED BY <2>5, <2>6
<1> QED BY <1>2, <1>4, <1>5

LEMMA FoundMatchesHolds == RouterInv => FoundMatches
<1> SUFFICES ASSUME RouterInv, NEW u \in Urls, Found(u) # 0
             PROVE  LET n      == log[Found(u)]
                        params == Params(n, u)
                    IN  /\ Matches(n, u)
                        /\ \A i \in DOMAIN n : IsWild(n[i]) =>
                             \/ TextBefore(n[i]) \o params[WildName(n[i])] = u[i]
                             \/ \E j \in DOMAIN n :
                                  j > i /\ IsWild(n[j]) /\ WildName(n[j]) = WildName(n[i])
  BY DEF FoundMatches
<1>1. PICK n \in Reached(u) : Found(u) = handler[n]
  BY FoundOnce DEF FoundIs
<1>2. log[Found(u)] = n
  BY <1>1 DEF RouterInv, TypeOKRouter, Reached
<1> QED BY <1>1, <1>2, ReachedMatches

\* Siblings that stand for the same segment: one does not allow the other, or they overlap
LEMMA SiblingsApart ==
  ASSUME NEW c \in Segments, NEW d \in Segments, NEW s \in Segments, c # d,
         Stands(c, s), Stands(d, s)
  PROVE  Conflict(c, d) \/ Overlap(c, d)
<1>1. c \in Seq(STRING) /\ d \in Seq(STRING) /\ s \in Seq(STRING) /\ Len(s) \in Nat
  BY LenProperties DEF Segments
<1>2. WildLoc(c) \in Nat /\ WildLoc(d) \in Nat
  BY <1>1, WildMeans
<1>3. IsWild(c) => WildLoc(c) < Len(s) /\ \A i \in 1..WildLoc(c) : c[i] = s[i]
  BY TakesIsStands
<1>4. IsWild(d) => WildLoc(d) < Len(s) /\ \A i \in 1..WildLoc(d) : d[i] = s[i]
  BY TakesIsStands
<1>5. CASE ~IsWild(c) /\ ~IsWild(d)
  BY <1>5 DEF Stands
<1>6. CASE ~IsWild(c) /\ IsWild(d)
  <2>1. c = s
    BY <1>6 DEF Stands
  <2>2. WildLoc(d) < Len(d)
    BY <1>1, <1>6, WildMeans
  <2>3. Universal(d) <=> WildLoc(d) = 0
    BY <1>6, UniversalMeans
  <2>4. WildLoc(d) # 0 => StrEqual(c, d, WildLoc(d))
    <3> SUFFICES ASSUME WildLoc(d) # 0 PROVE StrEqual(c, d, WildLoc(d))
      OBVIOUS
    <3>1. Len(d) \in Nat /\ WildLoc(d) <= Len(d) /\ WildLoc(d) <= Len(c)
      BY <1>1, <1>2, <1>4, <1>6, <2>1, <2>2, LenProperties
    <3>2. \A i \in 1..WildLoc(d) : c[i] = d[i]
      BY <1>4, <1>6, <2>1
    <3> QED BY <1>1, <1>2, <3>1, <3>2, StrEqualMeans
  <2> QED BY <1>6, <2>3, <2>4 DEF Conflict
<1>7. CASE IsWild(c) /\ ~IsWild(d)
  <2>1. d = s
    BY <1>7 DEF Stands
  <2>2. WildLoc(c) < Len(c)
    BY <1>1, <1>7, WildMeans
  <2>3. Universal(c) <=> WildLoc(c) = 0
    BY <1>7, UniversalMeans
  <2>4. WildLoc(c) # 0 => StrEqual(d, c, WildLoc(c)) /\ Len(d) > WildLoc(c)
    <3> SUFFICES ASSUME WildLoc(c) # 0 PROVE StrEqual(d, c, WildLoc(c)) /\ Len(d) > WildLoc(c)
      OBVIOUS
    <3>1. /\ Len(c) \in Nat /\ WildLoc(c) <= Len(c) /\ WildLoc(c) <= Len(d)
          /\ Len(d) > WildLoc(c)
      BY <1>1, <1>2, <1>3, <1>7, <2>1, <2>2, LenProperties
    <3>2. \A i \in 1..WildLoc(c) : d[i] = c[i]
      BY <1>3, <1>7, <2>1
    <3> QED BY <1>1, <1>2, <3>1, <3>2, StrEqualMeans
  <2> QED BY <1>7, <2>3, <2>4 DEF Conflict
<1>8. CASE IsWild(c) /\ IsWild(d)
  <2> DEFINE p == TextBefore(c)
             q == TextBefore(d)
             v == WildLoc(c)
             w == WildLoc(d)
  <2>1. /\ p \in Seq(STRING) /\ Len(p) = v /\ \A i \in 1..v : p[i] = c[i]
        /\ q \in Seq(STRING) /\ Len(q) = w /\ \A i \in 1..w : q[i] = d[i]
    BY <1>1, <1>8, WildMeans
  <2>2. (\A i \in 1..v : c[i] = s[i]) /\ (\A i \in 1..w : d[i] = s[i])
    BY <1>3, <1>4, <1>8
  <2>3. v \in Nat /\ w \in Nat
    BY <1>2
  <2> HIDE DEF p, q, v, w
  <2>4. CASE v <= w
    <3>1. \A i \in 1..v : p[i] = q[i]
      BY <2>1, <2>2, <2>3, <2>4
    <3>2. SubSeq(p, 1, v) = SubSeq(q, 1, v)
      BY <2>1, <2>3, <2>4, <3>1, SameStart
    <3>3. IsPrefix(p, q)
      BY <2>1, <2>4, <3>2 DEF IsPrefix
    <3> QED BY <1>8, <3>3 DEF Overlap, p, q
  <2>5. CASE ~(v <= w)
    <3>1. w <= v
      BY <2>3, <2>5
    <3>2. \A i \in 1..w : q[i] = p[i]
      BY <2>1, <2>2, <2>3, <3>1
    <3>3. SubSeq(q, 1, w) = SubSeq(p, 1, w)
      BY <2>1, <2>3, <3>1, <3>2, SameStart
    <3>4. IsPrefix(q, p)
      BY <2>1, <3>1, <3>3 DEF IsPrefix
    <3> QED BY <1>8, <3>4 DEF Overlap, p, q
  <2> QED BY <2>4, <2>5
<1> QED BY <1>5, <1>6, <1>7, <1>8

LEMMA FoundUnlessHiddenHolds == RouterInv => FoundUnlessHidden
<1> SUFFICES ASSUME RouterInv, NEW n \in Nodes, ~Hidden(n), NEW u \in Urls, Matches(n, u)
             PROVE  Found(u) = handler[n]
  BY DEF FoundUnlessHidden
<1>1. Len(n) = Len(u) /\ \A i \in DOMAIN n : Stands(n[i], u[i])
  BY DEF Matches
<1>2. n \in Paths /\ Len(n) \in Nat /\ DOMAIN n = 1..Len(n)
  BY <1>1, ReachedMeans
<1>3. ASSUME NEW i \in 1..Len(n)
      PROVE  IsFirst(SubSeq(n, 1, i), SubSeq(n, 1, i - 1), u[i])
  <2> DEFINE c == SubSeq(n, 1, i)
             p == SubSeq(n, 1, i - 1)
             s == u[i]
  <2>1. /\ c \in Nodes /\ Len(c) = i /\ c \in Children(p)
        /\ Last(c) = n[i] /\ Front(c) = p /\ n[i] \in Segments /\ s \in Segments
    BY <1>1, ReachedMeans
  <2>2. Stands(n[i], s)
    BY <1>1, <1>2
  <2>3. ~(\E d \in Children(p) : Overlap(Last(d), n[i]) /\ tree[d] < tree[c])
    BY <1>2 DEF Hidden
  <2> HIDE DEF c, p, s
  <2>4. ASSUME NEW d \in Children(p), Takes(Last(d), s), ~(tree[c] <= tree[d])
        PROVE  FALSE
    <3>1. d \in Nodes /\ Len(d) = i /\ Front(d) = p
      BY <2>1, <2>4 DEF Children
    <3>2. c \in Paths /\ d \in Paths /\ tree[d] < tree[c]
      BY <2>1, <2>4, <3>1 DEF RouterInv, TreeInv
    <3>3. Last(d) \in Segments
      <4>1. i \in 1..Len(d) /\ d \in Seq(Segments)
        BY <1>2, <3>1, <3>2 DEF Paths
      <4>2. d[i] \in Segments
        BY <4>1, ElementOfSeq
      <4> QED BY <3>1, <4>2 DEF Last
    <3>4. Last(d) # n[i]
      <4> SUFFICES ASSUME Last(d) = n[i] PROVE FALSE
        OBVIOUS
      <4>1. d = c
        BY <1>2, <2>1, <3>1, <3>2, SamePath
      <4> QED BY <2>1, <3>2, <4>1 DEF RouterInv, TreeInv
    <3>5. Stands(Last(d), s)
      BY <2>1, <2>4, <3>3, TakesIsStands
    <3>6. ~Conflict(Last(d), n[i])
      BY <1>2, <2>1, <3>1, <3>2 DEF RouterInv, TreeInv
    <3>7. ~Overlap(Last(d), n[i])
      BY <2>3, <3>2
    <3> QED BY <2>1, <2>2, <3>3, <3>4, <3>5, <3>6, <3>7, SiblingsApart
  <2>5. Takes(Last(c), s)
    BY <2>1, <2>2, TakesIsStands
  <2> QED BY <2>1, <2>4, <2>5 DEF IsFirst, c, p, s
<1>4. n \in Reached(u)
  BY <1>1, <1>2, <1>3 DEF Reached
<1> QED BY <1>4, FoundOnce DEF FoundIs

\* A call of Register changes what is found for a URL only where nothing was found, and
\* only if it is accepted: old nodes stay first, and new ones are behind them
LEMMA RegisterKeepsFound ==
  ASSUME RouterInv, FoundIs, FoundIs', NEW pattern \in Patterns, Register(pattern),
         NEW u \in Urls, Found(u)' # Found(u)
  PROVE  /\ Found(u) = 0 /\ Found(u)' = Len(log')
         /\ Accepted(pattern) /\ log'[Found(u)'] = pattern
<1> DEFINE call == Len(log) + 1
<1>1. /\ log' = Append(log, pattern) /\ Len(log') = call /\ Nodes \subseteq Nodes'
      /\ Len(log) \in Nat
  BY Grows, LenProperties DEF RouterInv, TypeOKRouter
<1>2. \A n \in Nodes : tree'[n] = tree[n] /\ tree[n] < call /\ tree[n] \in 0..Len(log)
  BY Grows DEF RouterInv, TypeOKRouter
<1>3. \A n \in Nodes' \ Nodes : tree'[n] = call
  BY Grows
<1>4. \A n \in Nodes' :
        handler'[n] = IF n = pattern /\ Accepted(pattern) THEN call
                      ELSE IF n \in Nodes THEN handler[n] ELSE 0
  BY Grows
<1>5. log'[call] = pattern
  <2>1. log \in Seq(Patterns)
    BY DEF RouterInv, TypeOKRouter
  <2> QED BY <1>1, <2>1, AppendProperties
<1> HIDE DEF call
<1>6. Reached(u)' = {n \in Nodes' : /\ Len(n) = Len(u)
                                    /\ \A i \in DOMAIN n :
                                         IsFirst(SubSeq(n, 1, i), SubSeq(n, 1, i - 1), u[i])'}
  BY DEF Reached
<1>7. ASSUME NEW c, NEW p, NEW s, c \in Nodes
      PROVE  IsFirst(c, p, s)' <=> IsFirst(c, p, s)
  <2>1. \A d : d \in Children(p)' <=> d \in Nodes' /\ Len(d) = Len(p) + 1 /\ Front(d) = p
    BY DEF Children
  <2>2. \A d : d \in Children(p) <=> d \in Nodes /\ Len(d) = Len(p) + 1 /\ Front(d) = p
    BY DEF Children
  <2>3. c \in Children(p)' <=> c \in Children(p)
    BY <1>1, <1>7, <2>1, <2>2
  <2>4. \A d \in Children(p)' : d \in Children(p) \/ tree'[c] <= tree'[d]
    <3> SUFFICES ASSUME NEW d \in Children(p)', d \notin Children(p) PROVE tree'[c] <= tree'[d]
      OBVIOUS
    <3>1. tree'[d] = call
      BY <1>3, <2>1, <2>2
    <3> QED BY <1>1, <1>2, <1>7, <3>1 DEF call
  <2>5. \A d \in Children(p) : d \in Children(p)' /\ tree'[d] = tree[d] /\ tree'[c] = tree[c]
    BY <1>1, <1>2, <1>7, <2>1, <2>2
  <2> QED BY <2>3, <2>4, <2>5 DEF IsFirst
<1>8. ASSUME NEW n \in Nodes, Len(n) = Len(u)
      PROVE  n \in Reached(u)' <=> n \in Reached(u)
  <2>1. DOMAIN n = 1..Len(n) /\ \A i \in 1..Len(n) : SubSeq(n, 1, i) \in Nodes
    BY <1>8, ReachedMeans
  <2>2. \A i \in DOMAIN n : IsFirst(SubSeq(n, 1, i), SubSeq(n, 1, i - 1), u[i])'
                              <=> IsFirst(SubSeq(n, 1, i), SubSeq(n, 1, i - 1), u[i])
    BY <1>7, <2>1
  <2>3. n \in Nodes'
    BY <1>1
  <2> QED BY <1>6, <1>8, <2>2, <2>3 DEF Reached
<1>9. /\ Reached(u) = {} => Found(u) = 0
      /\ \A n \in Reached(u) : Reached(u) = {n} /\ Found(u) = handler[n]
  BY DEF FoundIs
<1>10. /\ Reached(u)' = {} => Found(u)' = 0
       /\ \A n \in Reached(u)' : Found(u)' = handler'[n]
  BY DEF FoundIs
<1>11. CASE Reached(u) # {}
  <2>1. PICK n : n \in Reached(u)
    BY <1>11
  <2>2. n \in Nodes /\ n \in Reached(u)' /\ Found(u) = handler[n]
    BY <1>8, <1>9, <2>1 DEF Reached
  <2>3. Found(u)' = handler'[n] /\ n \in Nodes'
    BY <1>1, <1>10, <2>2
  <2>4. n = pattern /\ Accepted(pattern) /\ Found(u)' = call
    BY <1>4, <2>2, <2>3
  <2>5. handler[n] = 0
    BY <2>2, <2>4 DEF Accepted
  <2> QED BY <1>1, <1>5, <2>2, <2>4, <2>5
<1>12. CASE Reached(u) = {}
  <2>1. Found(u) = 0
    BY <1>9, <1>12
  <2>2. PICK n : n \in Reached(u)'
    BY <1>10, <2>1
  <2>3. n \in Nodes' /\ Found(u)' = handler'[n] /\ Len(n) = Len(u)
    BY <1>6, <1>10, <2>2
  <2>4. n \notin Nodes
    BY <1>8, <1>12, <2>2, <2>3
  <2>5. n = pattern /\ Accepted(pattern) /\ Found(u)' = call
    BY <1>4, <2>1, <2>3, <2>4
  <2> QED BY <1>1, <1>5, <2>1, <2>5
<1> QED BY <1>11, <1>12

-----------------------------------------------------------------------------
(***************************************************************************)
(* Theorems.                                                               *)
(***************************************************************************)

Inv == TypeOK /\ TreeInv

LEMMA NextInv == Inv /\ [Next]_vars => Inv'
<1> SUFFICES ASSUME Inv, [Next]_vars PROVE Inv'
  OBVIOUS
<1> USE DEF Inv
<1>1. RouterInv /\ asked \in Requests \cup {None} /\ stage \in {"line", "header", "handled"}
      /\ (asked = None => stage = "line")
  BY DEF TypeOK, RouterInv
<1>2. ASSUME UNCHANGED routerVars PROVE TypeOKRouter' /\ TreeInv'
  BY <1>1, <1>2 DEF RouterInv, TypeOKRouter, TreeInv, Nodes, routerVars
<1>3. CASE RegisterRoute
  <2>1. RouterInv'
    BY <1>1, <1>3, RegisterInv DEF RegisterRoute
  <2> QED BY <1>1, <1>3, <2>1 DEF RegisterRoute, requestVars, RouterInv, TypeOK
<1>4. CASE ParseCookies
  BY <1>1, <1>2, <1>4 DEF ParseCookies, TypeOK
<1>5. CASE ParseForm
  BY <1>1, <1>2, <1>5 DEF ParseForm, TypeOK
<1>6. CASE Reset
  BY <1>1, <1>2, <1>6 DEF Reset, TypeOK
<1>7. ASSUME NEW r \in Requests, SetURL(r) PROVE Inv'
  BY <1>1, <1>2, <1>7 DEF SetURL, TypeOK
<1>8. CASE UNCHANGED vars
  BY <1>1, <1>2, <1>8 DEF vars, requestVars, TypeOK
<1> QED BY <1>3, <1>4, <1>5, <1>6, <1>7, <1>8 DEF Next

LEMMA Invariance == Spec => []Inv
<1>1. Init => Inv
  <2> SUFFICES ASSUME Init PROVE Inv
    OBVIOUS
  <2>1. RouterInv
    BY InitRouterInv DEF Init
  <2> QED BY <2>1 DEF Inv, RouterInv, TypeOK, Init
<1> QED BY <1>1, NextInv, PTL DEF Spec

\* The variables of the tree and of the request have their types; a node has a handler only
\* of a call that registered just this pattern.
THEOREM TypeCorrect == Spec => []TypeOK
<1>1. Inv => TypeOK
  BY DEF Inv
<1> QED BY <1>1, Invariance, PTL

LEMMA InvFound == Inv => FoundIs
BY FoundOnce DEF Inv, RouterInv, TypeOK

\* SearchHandler: a handler that is found was registered with a pattern that matches the
\* URL, and its parameters are what the wildcards of the pattern stand for.
THEOREM HandlersMatch == Spec => []FoundMatches
<1>1. Inv => FoundMatches
  BY FoundMatchesHolds DEF Inv, RouterInv, TypeOK
<1> QED BY <1>1, Invariance, PTL

\* SearchHandler never goes back, and yet finds every registered pattern for every URL it
\* matches, unless an older sibling with an overlapping prefix hides it: what Insert refuses
\* is enough for that.
THEOREM PatternsFound == Spec => []FoundUnlessHidden
<1>1. Inv => FoundUnlessHidden
  BY FoundUnlessHiddenHolds DEF Inv, RouterInv, TypeOK
<1> QED BY <1>1, Invariance, PTL

\* InsertRoute: neither an accepted nor a refused registration changes what is found for a
\* URL that has a handler, and a refused one gives no URL a handler.
THEOREM FoundKept == Spec => FoundStays
<1>1. Inv /\ FoundIs /\ FoundIs' /\ [Next]_vars => [KeepsFound]_routerVars
  <2> SUFFICES ASSUME Inv, FoundIs, FoundIs', [Next]_vars
               PROVE  [KeepsFound]_routerVars
    OBVIOUS
  <2>1. RouterInv
    BY DEF Inv, TypeOK, RouterInv
  <2>2. CASE RegisterRoute
    <3>1. PICK pattern \in Patterns : Register(pattern)
      BY <2>2 DEF RegisterRoute
    <3>2. ASSUME NEW u \in Urls, Found(u)' # Found(u)
          PROVE  Found(u) = 0 /\ Found(u)' = Len(log') /\ Accepted(log'[Found(u)'])
      BY <2>1, <3>1, <3>2, RegisterKeepsFound
    <3> QED BY <3>2 DEF KeepsFound
  <2>3. CASE ~RegisterRoute
    BY <2>3 DEF Next, ParseCookies, ParseForm, Reset, SetURL, vars, routerVars
  <2> QED BY <2>2, <2>3
<1> QED BY <1>1, Invariance, InvFound, PTL DEF Spec, FoundStays

-----------------------------------------------------------------------------
(***************************************************************************)
(* Places and characters.                                                  *)
(***************************************************************************)

\* The first place of a character divides a string
LEMMA FirstPlace ==
  ASSUME NEW S, NEW s \in Seq(S), NEW c, NEW k \in 1..Len(s), s[k] = c,
         \A i \in 1..(k - 1) : s[i] # c
  PROVE  /\ Before(s, c) = SubSeq(s, 1, k - 1) /\ Behind(s, c) = SubSeq(s, k + 1, Len(s))
         /\ Contains(s, c)
<1>1. Len(s) \in Nat /\ DOMAIN s = 1..Len(s) /\ k \in Places(s, c)
  BY LenProperties DEF Places
<1>2. \A i \in Places(s, c) : i \in Nat /\ k <= i
  BY <1>1 DEF Places
<1>3. ASSUME NEW d \in Nat, k <= d PROVE Min(Places(s, c) \cup {d}) = k
  <2> DEFINE P == Places(s, c) \cup {d}
  <2>1. P \in SUBSET Nat /\ k \in P /\ \A i \in P : i \in Nat /\ k <= i
    BY <1>1, <1>2, <1>3
  <2> HIDE DEF P
  <2>2. Min(P) \in P /\ Min(P) <= k
    BY <2>1, LeastMember
  <2>3. \A m : m \in P /\ m <= k => m = k
    BY <1>1, <2>1
  <2>4. Min(P) = k
    BY <2>2, <2>3
  <2> QED BY <2>4 DEF P
<1>4. Min(Places(s, c) \cup {Len(s) + 1}) = k /\ Min(Places(s, c) \cup {Len(s)}) = k
  BY <1>1, <1>3
<1>5. Before(s, c) = SubSeq(s, 1, k - 1)
  BY <1>4 DEF Before
<1>6. Behind(s, c) = SubSeq(s, k + 1, Len(s))
  BY <1>4 DEF Behind
<1>7. Contains(s, c)
  BY DEF Contains
<1> QED BY <1>5, <1>6, <1>7

\* Without the character all of it is before
LEMMA NoPlace ==
  ASSUME NEW S, NEW s \in Seq(S), NEW c, \A i \in 1..Len(s) : s[i] # c
  PROVE  Before(s, c) = s /\ ~Contains(s, c)
<1>1. Len(s) \in Nat /\ Places(s, c) = {}
  BY LenProperties DEF Places
<1>2. Min({Len(s) + 1}) = Len(s) + 1 /\ Places(s, c) \cup {Len(s) + 1} = {Len(s) + 1}
  BY <1>1, LeastMember
<1>3. Before(s, c) = SubSeq(s, 1, Len(s))
  <2>1. Before(s, c) = SubSeq(s, 1, (Len(s) + 1) - 1)
    BY <1>2, Zenon DEF Before
  <2> QED BY <1>1, <2>1
<1> QED BY <1>3, SubSeqFull DEF Contains

\* Characters on the wire.  (That a literal is in STRING is more than the provers know.)
Chars == STRING \cup Range(PercentEncoded) \cup {"&", "=", "?", ";", " "}
           \cup {r.path : r \in Requests}

Texts == Seq(STRING \ Range(PercentEncoded))

\* UnEscape reads what Escape writes, and what it writes is no delimiter
LEMMA EscapeIs ==
  ASSUME NEW s \in Texts
  PROVE  LET e == Escape(s)
         IN  /\ e \in Seq(Chars) /\ UnEscape(e) = s
             /\ \A i \in 1..Len(e) : e[i] \notin {"&", "=", "?"}
<1> DEFINE e == Escape(s)
           P == PercentEncoded
<1>1. s \in Seq(STRING \ Range(P)) /\ Len(s) \in Nat /\ DOMAIN s = 1..Len(s)
  BY LenProperties DEF Texts
<1>2. DOMAIN P = {"&", "=", "+", " ", "z", "/", "?", "%", "{", "}"}
  BY DEF PercentEncoded
<1>3. /\ P["&"] = "%26" /\ P["="] = "%3D" /\ P["+"] = "%2B" /\ P[" "] = "%20" /\ P["z"] = "%7A"
      /\ P["/"] = "%2F" /\ P["?"] = "%3F" /\ P["%"] = "%25" /\ P["{"] = "%7B" /\ P["}"] = "%7D"
  BY DEF PercentEncoded
<1>4. /\ \A c, d \in DOMAIN P : P[c] = P[d] => c = d
      /\ \A c \in DOMAIN P : P[c] \notin Unknown /\ P[c] \notin {"&", "=", "?", "+"}
  <2> HIDE DEF P
  <2>1. \A c, d \in DOMAIN P : P[c] = P[d] => c = d
    BY <1>3, <1>2
  <2>2. \A c \in DOMAIN P : P[c] \notin {"&", "=", "?", "+", "%", "{", "}"}
    BY <1>3, <1>2
  <2> QED BY <2>1, <2>2 DEF Unknown
<1>5. \A c \in DOMAIN P : P[c] \in Range(P) /\ AntiFunction(P)[P[c]] = c
  <2> TAKE c \in DOMAIN P
  <2>1. P[c] \in Range(P)
    BY DEF Range
  <2>2. AntiFunction(P)[P[c]] = CHOOSE d \in DOMAIN P : P[c] \in Range(P) => P[d] = P[c]
    BY <2>1, Zenon DEF AntiFunction, Inverse
  <2>3. \A d \in DOMAIN P : (P[c] \in Range(P) => P[d] = P[c]) <=> d = c
    BY <1>4, <2>1
  <2> HIDE DEF P
  <2> QED BY <2>1, <2>2, <2>3
<1> HIDE DEF P
<1>6. \A i \in 1..Len(s) : /\ s[i] \in STRING /\ s[i] \notin Range(P)
                           /\ e[i] = IF s[i] \in DOMAIN P THEN P[s[i]] ELSE s[i]
  <2> TAKE i \in 1..Len(s)
  <2>1. s[i] \in STRING \ Range(P)
    BY <1>1, ElementOfSeq
  <2> QED BY <1>1, <2>1 DEF Escape, P
<1>7. \A i \in 1..Len(s) : /\ e[i] \in Chars /\ e[i] \notin Unknown
                           /\ e[i] \notin {"&", "=", "?"} /\ Decoded(e[i]) = s[i]
  <2> TAKE i \in 1..Len(s)
  <2>1. CASE s[i] \in DOMAIN P
    <3>1. e[i] = P[s[i]] /\ P[s[i]] \in Range(P) /\ AntiFunction(P)[P[s[i]]] = s[i]
      BY <1>5, <1>6, <2>1
    <3>2. P[s[i]] \notin Unknown /\ P[s[i]] \notin {"&", "=", "?", "+"}
      BY <1>4, <2>1
    <3>3. P[s[i]] \in Chars
      BY <3>1 DEF Chars, P
    <3>4. Decoded(P[s[i]]) = s[i]
      <4>1. P[s[i]] # "+"
        BY <3>2
      <4> QED BY <3>1, <4>1, Zenon DEF Decoded, P
    <3> HIDE DEF e
    <3> QED BY <3>1, <3>2, <3>3, <3>4
  <2>2. CASE s[i] \notin DOMAIN P
    <3>1. s[i] \notin Unknown /\ s[i] \notin {"&", "=", "?", "+"}
      BY <1>2, <2>2 DEF Unknown
    <3>2. e[i] = s[i] /\ s[i] \notin Range(P) /\ s[i] \in STRING
      BY <1>6, <2>2
    <3>3. Decoded(s[i]) = s[i]
      BY <3>1, <3>2 DEF Decoded, P
    <3> HIDE DEF e
    <3> QED BY <3>1, <3>2, <3>3 DEF Chars
  <2> QED BY <2>1, <2>2
<1>8. e \in [1..Len(s) -> Chars]
  <2>1. e = [i \in 1..Len(s) |-> e[i]]
    BY <1>1 DEF Escape
  <2> HIDE DEF e
  <2> QED BY <1>7, <2>1
<1>9. e \in Seq(Chars) /\ Len(e) = Len(s)
  <2> HIDE DEF e
  <2> QED BY <1>1, <1>8
<1> DEFINE known == {i \in 0..Len(e) : \A j \in 1..i : e[j] \notin Unknown}
<1>10. known \in SUBSET (0..Len(s)) /\ Len(s) \in known
  <2> HIDE DEF e
  <2> QED BY <1>1, <1>7, <1>9
<1>11. Max(known) = Len(s)
  <2> HIDE DEF known
  <2>1. Max(known) \in known /\ Max(known) >= Len(s)
    BY <1>1, <1>10, GreatestMember
  <2>2. \A i \in known : i \in Nat /\ i <= Len(s)
    BY <1>1, <1>10
  <2>3. Max(known) \in Nat /\ Max(known) <= Len(s)
    BY <2>1, <2>2
  <2> QED BY <1>1, <2>1, <2>3
<1>12. UnEscape(e) = [i \in 1..Len(s) |-> Decoded(e[i])]
  <2> HIDE DEF e
  <2> QED BY <1>11 DEF UnEscape
<1>13. UnEscape(e) = s
  <2> DEFINE u == UnEscape(e)
  <2>1. u = [i \in 1..Len(s) |-> s[i]]
    <3> HIDE DEF e
    <3> QED BY <1>7, <1>12
  <2>2. s = [i \in 1..Len(s) |-> s[i]]
    BY <1>1, LenProperties
  <2> QED BY <2>1, <2>2
<1> HIDE DEF e
<1> QED BY <1>7, <1>9, <1>13 DEF e

\* An increasing enumeration of a set is the one Sorted chooses
LEMMA SortedIs ==
  ASSUME NEW S \in SUBSET Nat, NEW n \in Nat, NEW e \in [1..n -> S],
         \A i, j \in 1..n : i < j => e[i] < e[j], \A x \in S : \E i \in 1..n : e[i] = x
  PROVE  Sorted(S) = e
<1>1. \A i, j \in 1..n : e[i] = e[j] => i = j
  <2> TAKE i, j \in 1..n
  <2>1. e[i] \in Nat /\ e[j] \in Nat
    OBVIOUS
  <2> QED BY <2>1
<1>2. e \in Bijection(1..n, S)
  BY <1>1, Fun_IsBij
<1>3. Cardinality(S) = n /\ IsFiniteSet(1..n) /\ Cardinality(1..n) = n
  <2>1. ExistsBijection(1..n, S)
    BY <1>2 DEF ExistsBijection
  <2> QED BY <2>1, FS_CountingElements, FS_Interval
<1> DEFINE Orders(f) == \A i, j \in DOMAIN f : i < j => f[i] < f[j]
           f == CHOOSE f \in [1..n -> S] : Orders(f)
<1>4. f \in [1..n -> S] /\ Orders(f)
  <2>1. DOMAIN e = 1..n
    OBVIOUS
  <2>2. Orders(e)
    BY <2>1
  <2> HIDE DEF Orders
  <2> QED BY <2>2
<1>5. Sorted(S) = f
  BY <1>3 DEF Sorted
<1> HIDE DEF f
<1>6. \A i, j \in 1..n : i < j => f[i] < f[j]
  BY <1>4
<1>7. \A i, j \in 1..n : f[i] = f[j] => i = j
  <2> TAKE i, j \in 1..n
  <2>1. f[i] \in Nat /\ f[j] \in Nat
    BY <1>4
  <2> QED BY <1>6, <2>1
<1>8. \A x \in S : \E i \in 1..n : f[i] = x
  <2>1. f \in Injection(1..n, S)
    BY <1>4, <1>7, Fun_IsInj
  <2>2. IsFiniteSet(S)
    BY <1>2, <1>3, FS_Bijection DEF ExistsBijection
  <2>3. f \in Surjection(1..n, S)
    BY <1>3, <2>1, <2>2, FS_Injection
  <2> QED BY <2>3, Fun_SurjectionProperties
<1> HIDE DEF Orders
<1> DEFINE Wrong == {k \in Nat : k \in 1..n /\ f[k] # e[k]}
<1>9. Wrong = {}
  <2> SUFFICES ASSUME Wrong # {} PROVE FALSE
    OBVIOUS
  <2> DEFINE m == Min(Wrong)
  <2>1. m \in Wrong /\ \A j \in Wrong : m <= j
    BY LeastMember
  <2> HIDE DEF m
  <2>2. m \in 1..n /\ f[m] # e[m]
    BY <2>1
  <2>3. \A j \in 1..n : j < m => f[j] = e[j]
    <3> TAKE j \in 1..n
    <3> HAVE j < m
    <3>1. j \notin Wrong
      BY <2>1, <2>2
    <3> QED BY <3>1
  <2>4. f[m] \in S /\ e[m] \in S /\ f[m] \in Nat /\ e[m] \in Nat
    BY <1>4, <2>2
  <2>5. CASE f[m] < e[m]
    <3>1. PICK j \in 1..n : e[j] = f[m]
      BY <2>4
    <3>2. j < m
      <4>1. ~(m < j) /\ j # m
        BY <2>2, <2>4, <2>5, <3>1
      <4> QED BY <2>2, <4>1
    <3> QED BY <1>7, <2>2, <2>3, <3>1, <3>2
  <2>6. CASE e[m] < f[m]
    <3>1. PICK j \in 1..n : f[j] = e[m]
      BY <1>8, <2>4
    <3>2. j < m
      <4>1. ~(m < j) /\ j # m
        BY <1>6, <2>2, <2>4, <2>6, <3>1
      <4> QED BY <2>2, <4>1
    <3> QED BY <1>1, <2>2, <2>3, <3>1, <3>2
  <2> QED BY <2>2, <2>4, <2>5, <2>6
<1>10. f = e
  <2>1. \A k \in 1..n : f[k] = e[k]
    BY <1>9
  <2> QED BY <1>4, <2>1
<1> QED BY <1>5, <1>10

-----------------------------------------------------------------------------
(***************************************************************************)
(* Join.                                                                   *)
(***************************************************************************)

\* A concatenation has the elements of the first sequence and then those of the second
LEMMA ConcatIs ==
  ASSUME NEW S, NEW a \in Seq(S), NEW b \in Seq(S)
  PROVE  /\ a \o b \in Seq(S) /\ Len(a) \in Nat /\ Len(b) \in Nat
         /\ Len(a \o b) = Len(a) + Len(b)
         /\ \A i \in 1..Len(a) : (a \o b)[i] = a[i]
         /\ \A i \in 1..Len(b) : (a \o b)[Len(a) + i] = b[i]
<1>1. Len(a) \in Nat /\ Len(b) \in Nat
  BY LenProperties
<1> DEFINE c == a \o b
<1>2. /\ c \in Seq(S) /\ Len(c) = Len(a) + Len(b)
      /\ \A i \in 1..(Len(a) + Len(b)) : c[i] = IF i <= Len(a) THEN a[i] ELSE b[i - Len(a)]
  BY ConcatProperties
<1> HIDE DEF c
<1>3. \A i \in 1..Len(a) : c[i] = a[i]
  BY <1>1, <1>2
<1>4. \A i \in 1..Len(b) : c[Len(a) + i] = b[i]
  <2> TAKE i \in 1..Len(b)
  <2>1. /\ Len(a) + i \in 1..(Len(a) + Len(b)) /\ ~(Len(a) + i <= Len(a))
        /\ (Len(a) + i) - Len(a) = i
    BY <1>1
  <2> QED BY <1>2, <2>1
<1> QED BY <1>1, <1>2, <1>3, <1>4 DEF c

\* Where the elements of three sequences are in their concatenation
LEMMA ThreeAre ==
  ASSUME NEW S, NEW a \in Seq(S), NEW b \in Seq(S), NEW c \in Seq(S)
  PROVE  /\ Len(a) \in Nat /\ Len(b) \in Nat /\ Len(c) \in Nat
         /\ Len(a \o b \o c) = Len(a) + Len(b) + Len(c)
         /\ \A p \in 1..Len(a) : (a \o b \o c)[p] = a[p]
         /\ \A p \in 1..Len(b) : (a \o b \o c)[Len(a) + p] = b[p]
         /\ \A p \in 1..Len(c) : (a \o b \o c)[Len(a) + Len(b) + p] = c[p]
<1>1. ASSUME NEW x \in Seq(S), NEW y \in Seq(S)
      PROVE  /\ x \o y \in Seq(S) /\ Len(x) \in Nat /\ Len(y) \in Nat
             /\ Len(x \o y) = Len(x) + Len(y)
             /\ \A i \in 1..Len(x) : (x \o y)[i] = x[i]
             /\ \A i \in 1..Len(y) : (x \o y)[Len(x) + i] = y[i]
  BY ConcatIs
<1> DEFINE ab == a \o b
           abc == ab \o c
<1>2. /\ ab \in Seq(S) /\ Len(a) \in Nat /\ Len(b) \in Nat
      /\ Len(ab) = Len(a) + Len(b)
      /\ \A i \in 1..Len(a) : ab[i] = a[i]
      /\ \A i \in 1..Len(b) : ab[Len(a) + i] = b[i]
  BY <1>1, Zenon
<1> HIDE DEF ab
<1>3. /\ Len(c) \in Nat /\ Len(abc) = Len(ab) + Len(c)
      /\ \A i \in 1..Len(ab) : abc[i] = ab[i]
      /\ \A i \in 1..Len(c) : abc[Len(ab) + i] = c[i]
  BY <1>1, <1>2, Zenon
<1> HIDE DEF abc
<1>4. \A p \in 1..Len(a) : abc[p] = a[p]
  <2> TAKE p \in 1..Len(a)
  <2>1. p \in 1..Len(ab)
    BY <1>2
  <2> QED BY <1>2, <1>3, <2>1
<1>5. \A p \in 1..Len(b) : abc[Len(a) + p] = b[p]
  <2> TAKE p \in 1..Len(b)
  <2>1. Len(a) + p \in 1..Len(ab)
    BY <1>2
  <2> QED BY <1>2, <1>3, <2>1
<1>6. Len(abc) = Len(a) + Len(b) + Len(c)
  BY <1>2, <1>3
<1>7. \A p \in 1..Len(c) : abc[Len(a) + Len(b) + p] = c[p]
  BY <1>2, <1>3
<1> QED BY <1>2, <1>3, <1>4, <1>5, <1>6, <1>7, Zenon DEF abc, ab

\* The first part, the first two joined, ... the first n
Joins(S, parts, sep, n) ==
  {J \in [1..n -> Seq(S)] : /\ J[1] = parts[1]
                            /\ \A i \in 2..n : J[i] = J[i - 1] \o sep \o parts[i]}

LEMMA JoinsExist ==
  ASSUME NEW S, NEW parts \in Seq(Seq(S)), NEW sep \in Seq(S), NEW n \in 1..Len(parts)
  PROVE  \E J : J \in Joins(S, parts, sep, n)
<1> DEFINE Has(k) == \E J : J \in Joins(S, parts, sep, k)
           Wrong == {k \in Nat : k \in 1..Len(parts) /\ ~Has(k)}
<1>1. Len(parts) \in Nat /\ \A i \in 1..Len(parts) : parts[i] \in Seq(S)
  BY LenProperties, ElementOfSeq
<1> SUFFICES ASSUME Wrong # {} PROVE FALSE
  <2>1. n \in Nat
    BY <1>1
  <2> QED BY <2>1, Zenon
<1> DEFINE m == Min(Wrong)
<1>2. m \in Wrong /\ \A j \in Wrong : m <= j
  BY LeastMember
<1> HIDE DEF m
<1>3. m \in Nat /\ m \in 1..Len(parts) /\ ~Has(m)
  BY <1>2
<1>4. m # 1
  <2>1. [i \in 1..1 |-> parts[1]] \in Joins(S, parts, sep, 1)
    BY <1>1, <1>3 DEF Joins
  <2> QED BY <1>3, <2>1
<1>5. PICK J : J \in Joins(S, parts, sep, m - 1)
  <2>1. m - 1 \in Nat /\ m - 1 \in 1..Len(parts) /\ ~(m <= m - 1)
    BY <1>1, <1>3, <1>4
  <2>2. m - 1 \notin Wrong
    BY <1>2, <2>1
  <2> QED BY <2>1, <2>2, Zenon
<1> DEFINE new == J[m - 1] \o sep \o parts[m]
           K == [i \in 1..m |-> IF i = m THEN new ELSE J[i]]
<1>6. /\ J \in [1..(m - 1) -> Seq(S)] /\ J[1] = parts[1]
      /\ \A i \in 2..(m - 1) : J[i] = J[i - 1] \o sep \o parts[i]
  BY <1>5 DEF Joins
<1>7. new \in Seq(S)
  <2>1. J[m - 1] \in Seq(S) /\ parts[m] \in Seq(S)
    BY <1>1, <1>3, <1>4, <1>6
  <2>2. J[m - 1] \o sep \in Seq(S)
    BY <2>1, ConcatProperties
  <2> QED BY <2>1, <2>2, ConcatProperties
<1> HIDE DEF new
<1>8. K \in [1..m -> Seq(S)] /\ K[1] = parts[1]
  BY <1>3, <1>4, <1>6, <1>7
<1>9. \A i \in 2..m : K[i] = K[i - 1] \o sep \o parts[i]
  <2> TAKE i \in 2..m
  <2>1. i \in 1..m /\ i - 1 \in 1..m /\ i - 1 # m
    BY <1>3
  <2>2. K[i - 1] = J[i - 1]
    BY <2>1, Zenon
  <2>3. CASE i = m
    <3>1. K[i] = new
      BY <2>1, <2>3, Zenon
    <3> QED BY <2>2, <2>3, <3>1, Zenon DEF new
  <2>4. CASE i # m
    <3>1. K[i] = J[i]
      BY <2>1, <2>4, Zenon
    <3>2. i \in 2..(m - 1)
      BY <1>3, <2>4
    <3> QED BY <1>6, <2>2, <3>1, <3>2, Zenon
  <2> QED BY <2>3, <2>4
<1>10. K \in Joins(S, parts, sep, m)
  BY <1>8, <1>9, Zenon DEF Joins
<1> QED BY <1>3, <1>10

\* Join is the last of them
LEMMA JoinIsLast ==
  ASSUME NEW S, NEW parts \in Seq(Seq(S)), Len(parts) # 0, NEW sep \in Seq(S),
         NEW J \in Joins(S, parts, sep, Len(parts))
  PROVE  Join(parts, sep) = J[Len(parts)]
<1> DEFINE n == Len(parts)
           Step(f) == [i \in DOMAIN parts |-> IF i = 1 THEN parts[1]
                                               ELSE f[i - 1] \o sep \o parts[i]]
           f == CHOOSE f : f = Step(f)
<1>1. n \in Nat /\ DOMAIN parts = 1..n /\ parts # <<>>
  BY LenProperties, EmptySeq
<1>2. /\ J \in [1..n -> Seq(S)] /\ J[1] = parts[1]
      /\ \A i \in 2..n : J[i] = J[i - 1] \o sep \o parts[i]
  BY DEF Joins
<1>3. J = Step(J)
  <2>1. \A i \in 1..n : J[i] = IF i = 1 THEN parts[1] ELSE J[i - 1] \o sep \o parts[i]
    <3> TAKE i \in 1..n
    <3>1. i = 1 \/ i \in 2..n
      BY <1>1
    <3> QED BY <1>2, <3>1
  <2>2. J = [i \in 1..n |-> J[i]]
    BY <1>2
  <2> QED BY <1>1, <2>1, <2>2
<1>4. f = Step(f)
  <2> HIDE DEF Step
  <2> QED BY <1>3, Zenon
<1>5. \A i \in 1..n : f[i] = IF i = 1 THEN parts[1] ELSE f[i - 1] \o sep \o parts[i]
  <2> HIDE DEF f
  <2> QED BY <1>1, <1>4
<1>6. Join(parts, sep) = f[n]
  BY <1>1, Zenon DEF Join, f
<1> HIDE DEF f
<1> DEFINE Wrong == {k \in Nat : k \in 1..n /\ f[k] # J[k]}
<1>7. Wrong = {}
  <2> SUFFICES ASSUME Wrong # {} PROVE FALSE
    OBVIOUS
  <2> DEFINE m == Min(Wrong)
  <2>1. m \in Wrong /\ \A j \in Wrong : m <= j
    BY LeastMember
  <2> HIDE DEF m
  <2>2. m \in 1..n /\ f[m] # J[m]
    BY <2>1
  <2>3. m # 1
    BY <1>2, <1>5, <2>2
  <2>4. m - 1 \in 1..n /\ m - 1 \in Nat /\ m \in 2..n /\ ~(m <= m - 1)
    BY <1>1, <2>2, <2>3
  <2>5. f[m - 1] = J[m - 1]
    BY <2>1, <2>4
  <2> QED BY <1>2, <1>5, <2>2, <2>3, <2>4, <2>5
<1>8. f[n] = J[n]
  <2>1. n \in Nat /\ n \in 1..n
    BY <1>1
  <2>2. n \notin Wrong
    BY <1>7, Zenon
  <2> QED BY <2>1, <2>2, Zenon
<1> QED BY <1>6, <1>8, Zenon

\* Where the parts end in what is joined: each begins behind the separator behind the one
\* before it, and nothing else is there
JoinEnds(S, parts, sep) ==
  {L \in [1..Len(parts) -> Nat] :
     /\ Join(parts, sep) \in Seq(S) /\ Len(Join(parts, sep)) = L[Len(parts)]
     /\ L[1] = Len(parts[1])
     /\ \A i \in 2..Len(parts) : L[i] = L[i - 1] + Len(sep) + Len(parts[i])
     /\ \A i \in 1..Len(parts) : \A j \in i..Len(parts) : L[i] <= L[j]
     /\ \A i \in 1..Len(parts) : \A j \in 1..Len(parts[i]) :
          Join(parts, sep)[L[i] - Len(parts[i]) + j] = parts[i][j]
     /\ \A i \in 1..(Len(parts) - 1) : \A j \in 1..Len(sep) :
          Join(parts, sep)[L[i] + j] = sep[j]}

LEMMA JoinIs ==
  ASSUME NEW S, NEW parts \in Seq(Seq(S)), Len(parts) # 0, NEW sep \in Seq(S)
  PROVE  \E L : L \in JoinEnds(S, parts, sep)
<1> DEFINE n == Len(parts)
           s == Join(parts, sep)
<1>1. n \in Nat \ {0} /\ Len(sep) \in Nat
      /\ \A i \in 1..n : parts[i] \in Seq(S) /\ Len(parts[i]) \in Nat
  BY LenProperties, ElementOfSeq
<1>2. n \in 1..Len(parts)
  BY <1>1
<1>3. PICK J : J \in Joins(S, parts, sep, n)
  BY <1>2, JoinsExist
<1>4. /\ J \in [1..n -> Seq(S)] /\ J[1] = parts[1]
      /\ \A i \in 2..n : J[i] = J[i - 1] \o sep \o parts[i]
  BY <1>3 DEF Joins
<1>5. s = J[n]
  BY <1>3, JoinIsLast
<1> HIDE DEF n, s
<1> DEFINE L == [i \in 1..n |-> Len(J[i])]
<1>6. L \in [1..n -> Nat] /\ \A i \in 1..n : L[i] = Len(J[i]) /\ J[i] \in Seq(S)
  BY <1>4, LenProperties
<1> HIDE DEF L
<1>7. ASSUME NEW a \in Seq(S), NEW c \in Seq(S)
       PROVE  /\ Len(a \o sep \o c) = Len(a) + Len(sep) + Len(c)
              /\ \A p \in 1..Len(a) : (a \o sep \o c)[p] = a[p]
              /\ \A p \in 1..Len(sep) : (a \o sep \o c)[Len(a) + p] = sep[p]
              /\ \A p \in 1..Len(c) : (a \o sep \o c)[Len(a) + Len(sep) + p] = c[p]
  BY ThreeAre
<1>8. ASSUME NEW i \in 2..n
      PROVE  /\ i - 1 \in 1..n /\ i \in 1..n
             /\ L[i] = L[i - 1] + Len(sep) + Len(parts[i])
             /\ \A p \in 1..L[i - 1] : J[i][p] = J[i - 1][p]
             /\ \A p \in 1..Len(sep) : J[i][L[i - 1] + p] = sep[p]
             /\ \A p \in 1..Len(parts[i]) : J[i][L[i - 1] + Len(sep) + p] = parts[i][p]
  <2>1. i - 1 \in 1..n /\ i \in 1..n
    BY <1>1
  <2> DEFINE a == J[i - 1]
             c == parts[i]
  <2>2. a \in Seq(S) /\ Len(a) = L[i - 1] /\ c \in Seq(S)
    BY <1>1, <1>6, <2>1
  <2>3. J[i] = a \o sep \o c /\ L[i] = Len(J[i])
    BY <1>4, <1>6, <2>1
  <2> HIDE DEF a, c
  <2>4. /\ Len(a \o sep \o c) = Len(a) + Len(sep) + Len(c)
        /\ \A p \in 1..Len(a) : (a \o sep \o c)[p] = a[p]
        /\ \A p \in 1..Len(sep) : (a \o sep \o c)[Len(a) + p] = sep[p]
        /\ \A p \in 1..Len(c) : (a \o sep \o c)[Len(a) + Len(sep) + p] = c[p]
    BY <1>7, <2>2, Zenon
  <2>5. /\ L[i] = L[i - 1] + Len(sep) + Len(c)
        /\ \A p \in 1..L[i - 1] : J[i][p] = a[p]
        /\ \A p \in 1..Len(sep) : J[i][L[i - 1] + p] = sep[p]
        /\ \A p \in 1..Len(c) : J[i][L[i - 1] + Len(sep) + p] = c[p]
    BY <2>2, <2>3, <2>4, Zenon
  <2> QED BY <2>1, <2>5, Zenon DEF a, c
<1>9. ASSUME NEW k \in 1..n
      PROVE  \A m \in k..n : L[k] <= L[m] /\ \A p \in 1..L[k] : J[m][p] = J[k][p]
  <2> DEFINE In(m) == L[k] <= L[m] /\ \A p \in 1..L[k] : J[m][p] = J[k][p]
             Wrong == {m \in Nat : m \in k..n /\ ~In(m)}
  <2> SUFFICES ASSUME Wrong # {} PROVE FALSE
    <3>1. \A m \in k..n : m \in Nat
      BY <1>1
    <3> QED BY <3>1, Zenon
  <2> DEFINE m == Min(Wrong)
  <2>1. m \in Wrong /\ \A j \in Wrong : m <= j
    BY LeastMember
  <2> HIDE DEF m
  <2>2. m \in k..n /\ ~In(m)
    BY <2>1
  <2>3. m # k
    <3>1. In(k)
      BY <1>6
    <3> QED BY <2>2, <3>1
  <2>4. m - 1 \in k..n /\ m \in 2..n /\ m - 1 \in Nat /\ ~(m <= m - 1)
    BY <1>1, <2>2, <2>3
  <2>5. In(m - 1)
    <3> HIDE DEF In
    <3>1. m - 1 \notin Wrong
      BY <2>1, <2>4
    <3> QED BY <2>4, <3>1
  <2>6. L[m] \in Nat /\ L[m - 1] \in Nat /\ L[k] \in Nat /\ Len(parts[m]) \in Nat
    BY <1>1, <1>6, <1>8, <2>4
  <2>7. L[m - 1] <= L[m]
    BY <1>1, <1>8, <2>4, <2>6
  <2>8. \A p \in 1..L[k] : p \in 1..L[m - 1]
    BY <2>5, <2>6
  <2>9. \A p \in 1..L[k] : J[m][p] = J[k][p]
    BY <1>8, <2>4, <2>5, <2>8
  <2> QED BY <2>2, <2>5, <2>6, <2>7, <2>9
<1>10. s \in Seq(S) /\ Len(s) = L[n] /\ L[1] = Len(parts[1])
  BY <1>1, <1>4, <1>5, <1>6
<1>11. \A i \in 1..n : \A j \in 1..Len(parts[i]) : s[L[i] - Len(parts[i]) + j] = parts[i][j]
  <2> TAKE i \in 1..n
  <2> TAKE j \in 1..Len(parts[i])
  <2>1. Len(parts[i]) \in Nat /\ L[i] \in Nat /\ n \in i..n
    BY <1>1, <1>6
  <2>2. \A p \in 1..L[i] : s[p] = J[i][p]
    BY <1>5, <1>9, <2>1
  <2>3. CASE i = 1
    <3>1. L[i] = Len(parts[i]) /\ L[i] - Len(parts[i]) + j = j /\ j \in 1..L[i]
      BY <1>10, <2>1, <2>3
    <3> QED BY <1>4, <2>2, <2>3, <3>1
  <2>4. CASE i # 1
    <3>1. i \in 2..n
      BY <1>1, <2>4
    <3>2. L[i] = L[i - 1] + Len(sep) + Len(parts[i]) /\ L[i - 1] \in Nat
      BY <1>6, <1>8, <3>1
    <3> DEFINE p == L[i - 1] + Len(sep) + j
    <3>3. L[i] - Len(parts[i]) + j = p /\ p \in 1..L[i]
      <4>1. ASSUME NEW a \in Nat, NEW b \in Nat, NEW c \in Nat, NEW l \in 1..c
            PROVE  ((a + b) + c) - c + l = a + b + l /\ a + b + l \in 1..(a + b + c)
        OBVIOUS
      <4>2. L[i - 1] \in Nat /\ Len(sep) \in Nat /\ Len(parts[i]) \in Nat /\ j \in 1..Len(parts[i])
        BY <1>1, <2>1, <3>2
      <4>3. /\ ((L[i - 1] + Len(sep)) + Len(parts[i])) - Len(parts[i]) + j = p
            /\ p \in 1..(L[i - 1] + Len(sep) + Len(parts[i]))
        BY <4>1, <4>2, Zenon
      <4> QED BY <3>2, <4>3, Zenon
    <3>4. J[i][p] = parts[i][j]
      BY <1>8, <3>1
    <3> HIDE DEF p
    <3> QED BY <2>2, <3>3, <3>4
  <2> QED BY <2>3, <2>4
<1>12. \A i \in 1..(n - 1) : \A j \in 1..Len(sep) : s[L[i] + j] = sep[j]
  <2> TAKE i \in 1..(n - 1)
  <2> TAKE j \in 1..Len(sep)
  <2> DEFINE k == i + 1
  <2>1. k \in 2..n /\ k \in 1..n /\ n \in k..n /\ k - 1 = i /\ i \in 1..n
    BY <1>1
  <2> HIDE DEF k
  <2>2. L[k] = L[i] + Len(sep) + Len(parts[k]) /\ L[i] \in Nat /\ Len(parts[k]) \in Nat
    BY <1>1, <1>6, <1>8, <2>1
  <2>3. L[i] + j \in 1..L[k]
    BY <1>1, <2>2
  <2>4. J[k][L[i] + j] = sep[j]
    BY <1>8, <2>1
  <2>5. s[L[i] + j] = J[k][L[i] + j]
    BY <1>5, <1>9, <2>1, <2>3
  <2> QED BY <2>4, <2>5
<1>13. \A i \in 2..n : L[i] = L[i - 1] + Len(sep) + Len(parts[i])
  BY <1>8
<1>14. \A i \in 1..n : \A j \in i..n : L[i] <= L[j]
  BY <1>9
<1>15. L \in JoinEnds(S, parts, sep)
  BY <1>6, <1>10, <1>11, <1>12, <1>13, <1>14 DEF n, s, JoinEnds
<1> QED BY <1>15

-----------------------------------------------------------------------------
(***************************************************************************)
(* StrSplit.                                                               *)
(***************************************************************************)

\* What stands at a place of a string
LEMMA PieceIs ==
  ASSUME NEW S, NEW s \in Seq(S), NEW t \in Seq(S), NEW m \in Nat, NEW n \in Nat, 1 <= m,
         n = m + Len(t) - 1, n <= Len(s), \A j \in 1..Len(t) : s[m + j - 1] = t[j]
  PROVE  SubSeq(s, m, n) = t
<1>1. Len(s) \in Nat /\ Len(t) \in Nat
  BY LenProperties
<1>2. \A i \in m..n : s[i] \in S
  BY <1>1, ElementOfSeq
<1> DEFINE u == SubSeq(s, m, n)
<1>3. m \in Int /\ n \in Int
  OBVIOUS
<1>4. /\ u \in Seq(S) /\ Len(u) = IF m <= n THEN n - m + 1 ELSE 0
      /\ \A i \in 1..(n - m + 1) : u[i] = s[m + i - 1]
  BY <1>2, <1>3, SubSeqProperties
<1> HIDE DEF u
<1>5. Len(u) = Len(t)
  BY <1>1, <1>4
<1>6. n - m + 1 = Len(t)
  BY <1>1
<1>7. \A i \in 1..Len(u) : u[i] = t[i]
  BY <1>4, <1>5, <1>6
<1>8. u = t
  BY <1>4, <1>5, <1>7, SeqEqual
<1> QED BY <1>8 DEF u

\* Nothing has no parts
LEMMA SplitNothing ==
  ASSUME NEW c
  PROVE  StrSplit(<<>>, c) = <<>>
<1> DEFINE e == [i \in 1..0 |-> i]
           Starts == {i \in DOMAIN <<>> : <<>>[i] # c /\ (i = 1 \/ <<>>[i - 1] = c)}
<1>1. DOMAIN <<>> = {}
  BY LenProperties, EmptySeq
<1>2. Starts = {}
  BY <1>1
<1>3. Sorted({}) = e
  <2>1. e \in [1..0 -> {}] /\ 0 \in Nat /\ {} \in SUBSET Nat
    OBVIOUS
  <2>2. \A i, j \in 1..0 : i < j => e[i] < e[j]
    OBVIOUS
  <2> HIDE DEF e
  <2> QED BY <2>1, <2>2, SortedIs
<1> DEFINE starts == Sorted(Starts)
<1>4. DOMAIN starts = {}
  <2>1. DOMAIN e = {}
    OBVIOUS
  <2> HIDE DEF e, Starts
  <2> QED BY <1>2, <1>3, <2>1
<1>5. StrSplit(<<>>, c) = [k \in DOMAIN starts |-> Before(SubSeq(<<>>, starts[k], Len(<<>>)), c)]
  BY DEF StrSplit
<1> HIDE DEF starts
<1>6. <<>> = [k \in {} |-> Before(SubSeq(<<>>, starts[k], Len(<<>>)), c)]
  OBVIOUS
<1> QED BY <1>4, <1>5, <1>6

\* There is something in each part, and the separator in none
IsParts(list, c) ==
  \A i \in 1..Len(list) : list[i] # <<>> /\ \A j \in 1..Len(list[i]) : list[i][j] # c

\* The parts of what was joined are the parts
LEMMA SplitJoin ==
  ASSUME NEW S, NEW list \in Seq(Seq(S)), NEW c \in S, IsParts(list, c)
  PROVE  StrSplit(Join(list, <<c>>), c) = list
<1> DEFINE n == Len(list)
           sep == <<c>>
           s == Join(list, sep)
<1>1. /\ n \in Nat /\ DOMAIN list = 1..n
      /\ \A i \in 1..n : list[i] \in Seq(S) /\ Len(list[i]) \in Nat \ {0}
      /\ \A i \in 1..n : list[i] # <<>> /\ \A j \in 1..Len(list[i]) : list[i][j] # c
      /\ sep \in Seq(S) /\ Len(sep) = 1 /\ sep[1] = c
  <2>1. n \in Nat /\ DOMAIN list = 1..n
    BY LenProperties
  <2>2. \A i \in 1..n : list[i] \in Seq(S) /\ list[i] # <<>>
    BY ElementOfSeq DEF IsParts
  <2>3. \A i \in 1..n : Len(list[i]) \in Nat \ {0}
    BY <2>2, EmptySeq
  <2> QED BY <2>1, <2>2, <2>3 DEF IsParts
<1> HIDE DEF sep
<1>2. CASE n = 0
  <2>1. list = <<>>
    BY <1>2, EmptySeq
  <2>2. s = <<>>
    BY <2>1, Zenon DEF Join
  <2> QED BY <2>1, <2>2, SplitNothing DEF sep
<1>3. CASE n # 0
  <2> DEFINE l == [i \in 1..n |-> Len(list[i])]
  <2>1. l \in [1..n -> Nat] /\ \A i \in 1..n : l[i] = Len(list[i]) /\ l[i] >= 1
    BY <1>1
  <2> HIDE DEF l
  <2>2. PICK L \in [1..n -> Nat] : L \in JoinEnds(S, list, sep)
    <3>1. PICK L : L \in JoinEnds(S, list, sep)
      BY <1>1, <1>3, JoinIs
    <3>2. L \in [1..n -> Nat]
      BY <3>1 DEF JoinEnds
    <3> QED BY <3>1, <3>2, Zenon
  <2>3. /\ s \in Seq(S) /\ Len(s) = L[n] /\ L[1] = Len(list[1])
        /\ \A i \in 2..n : L[i] = L[i - 1] + Len(sep) + Len(list[i])
        /\ \A i \in 1..n : \A j \in i..n : L[i] <= L[j]
        /\ \A i \in 1..n : \A j \in 1..Len(list[i]) :
               s[L[i] - Len(list[i]) + j] = list[i][j]
        /\ \A i \in 1..(n - 1) : \A j \in 1..Len(sep) : s[L[i] + j] = sep[j]
    BY <2>2 DEF JoinEnds
  <2> HIDE DEF s, n
  <2>4. \A i \in 1..n : \A j \in i..n : L[i] <= L[j]
    BY <2>3
  <2>5. \A i \in 1..n : \A j \in 1..Len(list[i]) : s[L[i] - Len(list[i]) + j] = list[i][j]
    BY <2>3
  <2>6. \A i \in 1..(n - 1) : \A j \in 1..Len(sep) : s[L[i] + j] = sep[j]
    BY <2>3
  <2>7. DOMAIN s = 1..L[n] /\ n \in 1..n /\ 1 \in 1..n
    <3>1. DOMAIN s = 1..Len(s)
      BY <2>3, LenProperties
    <3> QED BY <1>1, <1>3, <2>3, <3>1
  <2> DEFINE b == [i \in 1..n |-> L[i] - l[i] + 1]
  <2>8. \A i \in 1..n : L[i] \in Nat /\ l[i] \in Nat /\ b[i] = L[i] - l[i] + 1 /\ b[i] <= L[i]
    <3>1. \A i \in 1..n : L[i] \in Nat /\ l[i] \in Nat /\ l[i] >= 1
      BY <2>1, <2>3
    <3>2. \A i \in 1..n : b[i] = L[i] - l[i] + 1
      OBVIOUS
    <3> HIDE DEF b
    <3> QED BY <3>1, <3>2
  <2> HIDE DEF b
  <2>9. b[1] = 1 /\ \A i \in 2..n : i - 1 \in 1..n /\ b[i] = L[i - 1] + 2
    <3>1. b[1] = 1
      BY <2>1, <2>3, <2>7, <2>8
    <3>2. ASSUME NEW i \in 2..n PROVE i - 1 \in 1..n /\ b[i] = L[i - 1] + 2
      <4>1. i - 1 \in 1..n /\ i \in 1..n
        BY <1>1
      <4>2. L[i] = L[i - 1] + 1 + l[i]
        BY <1>1, <2>1, <2>3, <4>1
      <4> QED BY <2>8, <4>1, <4>2
    <3> QED BY <3>1, <3>2
  <2>10. \A i \in 1..n : b[i] \in Nat /\ b[i] >= 1
    <3> TAKE i \in 1..n
    <3>1. i = 1 \/ i \in 2..n
      BY <1>1
    <3> QED BY <2>8, <2>9, <3>1
  <2>11. \A i, j \in 1..n : i < j => L[i] + 2 <= b[j]
    <3> TAKE i, j \in 1..n
    <3> HAVE i < j
    <3>1. j \in 2..n /\ j - 1 \in i..n /\ j - 1 \in 1..n
      BY <1>1
    <3>2. L[i] <= L[j - 1] /\ b[j] = L[j - 1] + 2
      BY <2>3, <2>9, <3>1
    <3> QED BY <2>8, <3>1, <3>2
  \* what stands where
  <2>12. ASSUME NEW i \in 1..n, NEW p \in b[i]..L[i]
        PROVE  p - b[i] + 1 \in 1..l[i] /\ s[p] = list[i][p - b[i] + 1] /\ s[p] # c
    <3> DEFINE j == p - b[i] + 1
    <3>1. j \in 1..l[i] /\ L[i] - l[i] + j = p
      <4>1. /\ b[i] \in Nat /\ L[i] \in Nat /\ l[i] \in Nat /\ b[i] = L[i] - l[i] + 1
            /\ p \in Nat /\ b[i] <= p /\ p <= L[i]
        BY <2>8, <2>10
      <4>2. ASSUME NEW x \in Nat, NEW y \in Nat, NEW z \in Nat, x <= p, p <= y,
                   x = y - z + 1, p \in Nat
            PROVE  p - x + 1 \in 1..z /\ y - z + (p - x + 1) = p
        BY <4>2
      <4> QED BY <4>1, <4>2, Zenon
    <3> HIDE DEF j
    <3>2. j \in 1..Len(list[i]) /\ s[L[i] - Len(list[i]) + j] = list[i][j] /\ list[i][j] # c
      <4>1. j \in 1..Len(list[i])
        BY <2>1, <3>1
      <4>2. s[L[i] - Len(list[i]) + j] = list[i][j]
        BY <2>5, <4>1, Zenon
      <4>3. list[i][j] # c
        BY <1>1, <4>1 DEF n
      <4> QED BY <4>1, <4>2, <4>3
    <3>3. s[p] = list[i][j] /\ s[p] # c
      BY <2>1, <3>1, <3>2
    <3> QED BY <3>1, <3>3 DEF j
  <2>13. \A i \in 1..(n - 1) : s[L[i] + 1] = c
    <3> TAKE i \in 1..(n - 1)
    <3>1. 1 \in 1..Len(sep)
      BY <1>1
    <3>2. s[L[i] + 1] = sep[1]
      BY <2>6, <3>1, Zenon
    <3> QED BY <1>1, <3>2
  <2>14. ASSUME NEW p \in 1..L[n]
        PROVE  (\E i \in 1..n : p \in b[i]..L[i]) \/ (\E i \in 1..(n - 1) : p = L[i] + 1)
    <3> DEFINE Ends == {i \in Nat : i \in 1..n /\ p <= L[i]}
               m == Min(Ends)
    <3>1. Ends # {}
      BY <2>7, <2>8
    <3>2. m \in Ends /\ \A i \in Ends : m <= i
      BY <3>1, LeastMember
    <3> HIDE DEF m
    <3>3. m \in 1..n /\ p <= L[m] /\ L[m] \in Nat /\ b[m] \in Nat
      BY <2>8, <2>10, <3>2
    <3>4. CASE m = 1
      BY <2>9, <3>3, <3>4
    <3>5. CASE m # 1
      <4>1. m \in 2..n /\ m - 1 \in 1..(n - 1) /\ m - 1 \in 1..n /\ m - 1 \in Nat /\ ~(m <= m - 1)
        BY <1>1, <3>3, <3>5
      <4>2. ~(p <= L[m - 1]) /\ b[m] = L[m - 1] + 2 /\ L[m - 1] \in Nat
        BY <2>8, <2>9, <3>2, <4>1
      <4>3. p \in Nat
        BY <2>7
      <4>4. ASSUME NEW e \in Nat, NEW k \in Nat, NEW d \in Nat, p <= k, ~(p <= e), d = e + 2
            PROVE  p = e + 1 \/ p \in d..k
        BY <4>3, <4>4
      <4>5. p = L[m - 1] + 1 \/ p \in b[m]..L[m]
        BY <3>3, <4>2, <4>4, Zenon
      <4> QED BY <3>3, <4>1, <4>5
    <3> QED BY <3>4, <3>5
  \* the starts of the parts are those StrSplit finds
  <2> DEFINE Starts == {i \in DOMAIN s : s[i] # c /\ (i = 1 \/ s[i - 1] = c)}
  <2>15. \A i \in 1..n : b[i] \in Starts
    <3> TAKE i \in 1..n
    <3>1. n \in i..n /\ L[i] <= L[n] /\ L[n] \in Nat
      BY <1>1, <2>3, <2>7, <2>8
    <3>2. b[i] \in 1..L[n] /\ b[i] \in b[i]..L[i]
      BY <2>8, <2>10, <3>1
    <3>3. s[b[i]] # c
      BY <2>12, <3>2
    <3>4. b[i] = 1 \/ s[b[i] - 1] = c
      <4>1. CASE i = 1
        BY <2>9, <4>1
      <4>2. CASE i # 1
        <5>1. i \in 2..n /\ i - 1 \in 1..(n - 1) /\ i - 1 \in 1..n
          BY <1>1, <4>2
        <5>2. b[i] - 1 = L[i - 1] + 1
          BY <2>8, <2>9, <5>1
        <5>3. s[L[i - 1] + 1] = c
          BY <2>13, <5>1
        <5> QED BY <5>2, <5>3
      <4> QED BY <4>1, <4>2
    <3> QED BY <2>7, <3>2, <3>3, <3>4
  <2>16. \A p \in Starts : \E i \in 1..n : b[i] = p
    <3> TAKE p \in Starts
    <3>1. p \in 1..L[n] /\ s[p] # c /\ (p = 1 \/ s[p - 1] = c)
      BY <2>7
    <3>2. ~(\E i \in 1..(n - 1) : p = L[i] + 1)
      BY <2>13, <3>1
    <3>3. PICK i \in 1..n : p \in b[i]..L[i]
      BY <2>14, <3>1, <3>2
    <3>4. ASSUME p # b[i] PROVE FALSE
      <4>1. p - 1 \in b[i]..L[i] /\ p # 1
        BY <2>8, <2>10, <3>3, <3>4
      <4>2. s[p - 1] # c
        BY <2>12, <4>1
      <4> QED BY <3>1, <4>1, <4>2
    <3> QED BY <3>4
  <2>17. Sorted(Starts) = b
    <3>1. b \in [1..n -> Starts]
      <4>1. b = [i \in 1..n |-> b[i]]
        BY DEF b
      <4> HIDE DEF Starts
      <4> QED BY <2>15, <4>1
    <3>2. Starts \in SUBSET Nat
      BY <2>7, <2>8
    <3>3. \A i, j \in 1..n : i < j => b[i] < b[j]
      <4> TAKE i, j \in 1..n
      <4> HAVE i < j
      <4> QED BY <2>8, <2>10, <2>11
    <3> HIDE DEF Starts
    <3> QED BY <1>1, <2>16, <3>1, <3>2, <3>3, SortedIs
  \* and each part ends where it did
  <2>18. ASSUME NEW k \in 1..n PROVE Before(SubSeq(s, b[k], Len(s)), c) = list[k]
    <3> DEFINE t == SubSeq(s, b[k], Len(s))
               d == L[n] - b[k] + 1
    <3>1. n \in k..n /\ L[k] <= L[n] /\ L[n] \in Nat /\ b[k] <= L[n] /\ Len(s) = L[n]
      <4>1. n \in k..n /\ Len(s) = L[n] /\ n \in 1..n
        BY <1>1, <2>3, <2>7
      <4>2. L[k] <= L[n]
        BY <2>4, <4>1, Zenon
      <4>3. L[n] \in Nat /\ L[k] \in Nat /\ b[k] \in Nat /\ b[k] <= L[k]
        BY <2>8, <2>10, <4>1
      <4> QED BY <4>1, <4>2, <4>3
    <3>2. t \in Seq(S) /\ Len(t) = d /\ d \in Nat /\ \A j \in 1..d : t[j] = s[b[k] + j - 1]
      <4>1. \A i \in b[k]..L[n] : s[i] \in S
        BY <2>3, <2>10, <3>1, ElementOfSeq
      <4>2. b[k] \in Int /\ L[n] \in Int /\ d \in Nat
        BY <2>10, <3>1
      <4>3. b[k] <= L[n] /\ t = SubSeq(s, b[k], L[n])
        BY <2>10, <3>1
      <4>4. ASSUME NEW x \in Int, NEW y \in Int, \A i \in x..y : s[i] \in S
            PROVE  /\ SubSeq(s, x, y) \in Seq(S)
                   /\ Len(SubSeq(s, x, y)) = IF x <= y THEN y - x + 1 ELSE 0
                   /\ \A i \in 1..(y - x + 1) : SubSeq(s, x, y)[i] = s[x + i - 1]
        BY <4>4, SubSeqProperties
      <4>5. /\ SubSeq(s, b[k], L[n]) \in Seq(S)
            /\ Len(SubSeq(s, b[k], L[n])) = IF b[k] <= L[n] THEN L[n] - b[k] + 1 ELSE 0
            /\ \A i \in 1..(L[n] - b[k] + 1) : SubSeq(s, b[k], L[n])[i] = s[b[k] + i - 1]
        BY <4>1, <4>2, <4>4, Zenon
      <4> QED BY <4>2, <4>3, <4>5
    <3> HIDE DEF t
    <3>3. /\ l[k] \in 1..d /\ list[k] \in Seq(S)
          /\ \A j \in 1..l[k] : t[j] = list[k][j] /\ t[j] # c
      <4>1. l[k] \in 1..d
        BY <2>1, <2>8, <2>10, <3>1
      <4>2. ASSUME NEW j \in 1..l[k] PROVE t[j] = list[k][j] /\ t[j] # c
        <5> DEFINE p == b[k] + j - 1
        <5> DEFINE x == b[k]
                   y == L[k]
                   z == l[k]
        <5>1. /\ x \in Nat /\ y \in Nat /\ z \in Nat /\ x = y - z + 1 /\ j \in 1..z
              /\ p = x + j - 1
          BY <2>8, <2>10, <4>1
        <5>2. j \in 1..d
          BY <3>2, <4>1
        <5> HIDE DEF x, y, z, p
        <5>3. p \in x..y /\ p - x + 1 = j
          BY <5>1
        <5>4. p \in b[k]..L[k] /\ p - b[k] + 1 = j /\ j \in 1..d
          BY <5>3, <5>2 DEF x, y
        <5>5. s[p] = list[k][j] /\ s[p] # c
          BY <2>12, <5>4
        <5>6. t[j] = s[p]
          BY <3>2, <5>4 DEF p
        <5> QED BY <5>5, <5>6
      <4> QED BY <1>1, <4>1, <4>2
    <3>4. SubSeq(t, 1, l[k]) = list[k]
      <4>1. l[k] = 1 + Len(list[k]) - 1 /\ l[k] \in Nat /\ l[k] <= Len(t) /\ 1 \in Nat /\ 1 <= 1
        BY <1>1, <2>1, <3>2, <3>3
      <4>2. \A j \in 1..Len(list[k]) : t[1 + j - 1] = list[k][j]
        <5> TAKE j \in 1..Len(list[k])
        <5>1. j \in 1..l[k] /\ 1 + j - 1 = j
          BY <1>1, <2>1
        <5> QED BY <3>3, <5>1
      <4> HIDE DEF d
      <4> QED BY <3>2, <3>3, <4>1, <4>2, PieceIs
    <3>5. CASE k = n
      <4>1. d = l[k]
        BY <2>8, <3>5
      <4>2. \A j \in 1..Len(t) : t[j] # c
        BY <3>2, <3>3, <4>1
      <4>3. Before(t, c) = t
        BY <3>2, <4>2, NoPlace
      <4>4. SubSeq(t, 1, Len(t)) = t
        BY <3>2, SubSeqFull
      <4> QED BY <3>2, <3>4, <4>1, <4>3, <4>4 DEF t
    <3>6. CASE k # n
      <4> DEFINE m == l[k] + 1
      <4>1. k \in 1..(n - 1) /\ k + 1 \in 1..n /\ k < k + 1
        BY <1>1, <3>6
      <4>2. L[k] + 2 <= b[k + 1] /\ b[k + 1] <= L[k + 1] /\ L[k + 1] <= L[n]
            /\ b[k + 1] \in Nat /\ L[k + 1] \in Nat
        <5>1. n \in (k + 1)..n
          BY <1>1, <4>1
        <5>2. L[k + 1] <= L[n]
          BY <2>4, <4>1, <5>1, Zenon
        <5>3. L[k] + 2 <= b[k + 1]
          BY <2>11, <4>1
        <5>4. b[k + 1] <= L[k + 1] /\ b[k + 1] \in Nat /\ L[k + 1] \in Nat
          BY <2>8, <2>10, <4>1
        <5> QED BY <5>2, <5>3, <5>4
      <4>3. m \in 1..d /\ b[k] + m - 1 = L[k] + 1 /\ m - 1 = l[k]
        <5>1. /\ b[k] \in Nat /\ L[k] \in Nat /\ l[k] \in Nat /\ L[n] \in Nat
              /\ b[k] = L[k] - l[k] + 1 /\ L[k] + 2 <= L[n]
          <6>1. /\ b[k] \in Nat /\ L[k] \in Nat /\ l[k] \in Nat /\ L[n] \in Nat
                /\ b[k] = L[k] - l[k] + 1
            BY <2>8, <2>10, <3>1
          <6>2. L[k] + 2 <= L[n]
            BY <4>2, <6>1
          <6> QED BY <6>1, <6>2
        <5> DEFINE x == b[k]
                   y == L[k]
                   z == l[k]
                   w == L[n]
        <5>2. /\ x \in Nat /\ y \in Nat /\ z \in Nat /\ w \in Nat
              /\ x = y - z + 1 /\ y + 2 <= w /\ m = z + 1 /\ d = w - x + 1
          BY <5>1
        <5> HIDE DEF x, y, z, w, m, d
        <5>3. m \in 1..d /\ x + m - 1 = y + 1 /\ m - 1 = z
          BY <5>2
        <5> QED BY <5>3 DEF x, y, z, w
      <4> HIDE DEF m, d
      <4>4. t[m] = c
        BY <2>13, <3>2, <4>1, <4>3
      <4>5. m \in 1..Len(t) /\ \A j \in 1..(m - 1) : t[j] # c
        BY <3>2, <3>3, <4>3
      <4>6. Before(t, c) = SubSeq(t, 1, m - 1)
        BY <3>2, <4>4, <4>5, FirstPlace
      <4> QED BY <3>4, <4>3, <4>6 DEF t
    <3> QED BY <3>5, <3>6
  <2>19. DOMAIN b = 1..n
    BY DEF b
  <2>20. StrSplit(s, c) = [k \in DOMAIN Sorted(Starts) |->
                              Before(SubSeq(s, Sorted(Starts)[k], Len(s)), c)]
    BY DEF StrSplit
  <2> HIDE DEF Starts
  <2>21. StrSplit(s, c) = [k \in 1..n |-> Before(SubSeq(s, b[k], Len(s)), c)]
    BY <2>17, <2>19, <2>20
  <2>22. StrSplit(s, c) = [k \in 1..n |-> list[k]]
    BY <2>18, <2>21
  <2>23. list = [k \in 1..n |-> list[k]]
    BY <1>1, LenProperties
  <2> QED BY <2>22, <2>23 DEF s, sep
<1> QED BY <1>2, <1>3

-----------------------------------------------------------------------------
(***************************************************************************)
(* Query::ParseString.                                                     *)
(***************************************************************************)

\* The two steps of folds: with a part of a text, and with a pair
Taken(kind, q, x) == IF kind = "part" THEN AddPart(q, x) ELSE Add(q, x[1], x[2])

\* What FoldLeft calls iter
FoldOf(kind, q, list, h, n) ==
  [s \in SUBSET (1..n) |-> IF s = {} THEN q
                           ELSE Taken(kind, h[s \ {Max(s)}], list[Max(s)])]

LEMMA FoldsExist ==
  ASSUME NEW kind, NEW q, NEW list, NEW n \in Nat
  PROVE  \E h : h = FoldOf(kind, q, list, h, n)
<1> DEFINE Has(k) == \E h : h = FoldOf(kind, q, list, h, k)
           Wrong == {k \in Nat : k \in 0..n /\ ~Has(k)}
<1> SUFFICES ASSUME Wrong # {} PROVE FALSE
  <2>1. n \in Nat /\ n \in 0..n
    OBVIOUS
  <2> QED BY <2>1, Zenon
<1> DEFINE k == Min(Wrong)
<1>1. k \in Wrong /\ \A j \in Wrong : k <= j
  BY LeastMember
<1> HIDE DEF k
<1>2. k \in Nat /\ k \in 0..n /\ ~Has(k)
  BY <1>1
<1>3. k # 0
  <2>1. ASSUME k = 0 PROVE FALSE
    <3> DEFINE h == [s \in SUBSET (1..0) |-> q]
    <3>1. h = FoldOf(kind, q, list, h, 0)
      <4>1. \A s \in SUBSET (1..0) : s = {}
        OBVIOUS
      <4>2. \A s \in SUBSET (1..0) : h[s] = IF s = {} THEN q
                                            ELSE Taken(kind, h[s \ {Max(s)}], list[Max(s)])
        BY <4>1
      <4> HIDE DEF h
      <4>3. h = [s \in SUBSET (1..0) |-> h[s]]
        BY DEF h
      <4> QED BY <4>2, <4>3 DEF FoldOf
    <3> HIDE DEF h
    <3> QED BY <1>2, <2>1, <3>1
  <2> QED BY <2>1
<1>4. PICK g : g = FoldOf(kind, q, list, g, k - 1)
  <2>1. k - 1 \in Nat /\ k - 1 \in 0..n /\ ~(k <= k - 1)
    BY <1>2, <1>3
  <2>2. k - 1 \notin Wrong
    BY <1>1, <2>1
  <2> QED BY <2>1, <2>2, Zenon
<1>5. \A s \in SUBSET (1..(k - 1)) :
        g[s] = IF s = {} THEN q ELSE Taken(kind, g[s \ {Max(s)}], list[Max(s)])
  <2> DEFINE F == FoldOf(kind, q, list, g, k - 1)
  <2>1. \A s \in SUBSET (1..(k - 1)) :
          F[s] = IF s = {} THEN q ELSE Taken(kind, g[s \ {Max(s)}], list[Max(s)])
    BY DEF FoldOf
  <2>2. g = F
    BY <1>4
  <2> HIDE DEF F
  <2> QED BY <2>1, <2>2
<1> DEFINE h == [s \in SUBSET (1..k) |-> IF k \in s THEN Taken(kind, g[s \ {k}], list[k]) ELSE g[s]]
<1>6. ASSUME NEW s \in SUBSET (1..k)
      PROVE  h[s] = IF s = {} THEN q ELSE Taken(kind, h[s \ {Max(s)}], list[Max(s)])
  <2>1. h[s] = IF k \in s THEN Taken(kind, g[s \ {k}], list[k]) ELSE g[s]
    OBVIOUS
  <2>2. ASSUME NEW t \in SUBSET (1..k), k \notin t PROVE t \in SUBSET (1..(k - 1)) /\ h[t] = g[t]
    <3>1. t \in SUBSET (1..(k - 1))
      BY <1>2, <2>2
    <3>2. h[t] = g[t]
      BY <2>2
    <3> QED BY <3>1, <3>2
  <2> HIDE DEF h
  <2>3. CASE k \in s
    <3>1. s \in SUBSET (0..k) /\ s # {}
      BY <2>3
    <3>2. Max(s) \in s /\ Max(s) >= k
      BY <1>2, <2>3, <3>1, GreatestMember
    <3>3. Max(s) = k
      <4>1. Max(s) \in 1..k
        BY <3>2
      <4> QED BY <1>2, <3>2, <4>1
    <3>4. s \ {k} \in SUBSET (1..k) /\ k \notin s \ {k}
      OBVIOUS
    <3>5. h[s \ {k}] = g[s \ {k}]
      BY <2>2, <3>4, Zenon
    <3> QED BY <2>1, <2>3, <3>1, <3>3, <3>5
  <2>4. CASE k \notin s
    <3>1. h[s] = g[s] /\ s \in SUBSET (1..(k - 1))
      BY <2>2, <2>4, Zenon
    <3>2. CASE s # {}
      <4>1. s \in SUBSET (0..k)
        OBVIOUS
      <4>2. Max(s) \in s
        BY <1>2, <3>2, <4>1, GreatestMember
      <4>3. s \ {Max(s)} \in SUBSET (1..k) /\ k \notin s \ {Max(s)}
        BY <2>4
      <4>4. h[s \ {Max(s)}] = g[s \ {Max(s)}]
        BY <2>2, <4>3, Zenon
      <4> QED BY <1>5, <3>1, <3>2, <4>4
    <3>3. CASE s = {}
      BY <1>5, <3>1, <3>3
    <3> QED BY <3>2, <3>3
  <2> QED BY <2>3, <2>4
<1>7. h = [s \in SUBSET (1..k) |-> h[s]]
  OBVIOUS
<1> HIDE DEF h
<1>8. h = FoldOf(kind, q, list, h, k)
  <2>1. [s \in SUBSET (1..k) |-> h[s]] = FoldOf(kind, q, list, h, k)
    BY <1>6 DEF FoldOf
  <2> QED BY <1>7, <2>1, Zenon
<1> QED BY <1>2, <1>8

\* The values a fold goes through
Steps(kind, q, list, n, A) ==
  /\ DOMAIN A = 0..n /\ A[0] = q
  /\ \A k \in 1..n : A[k] = Taken(kind, A[k - 1], list[k])

LEMMA StepsOf ==
  ASSUME NEW kind, NEW q, NEW list, NEW n \in Nat, NEW h, h = FoldOf(kind, q, list, h, n)
  PROVE  \E A : Steps(kind, q, list, n, A) /\ A[n] = h[1..n]
<1> DEFINE A == [k \in 0..n |-> h[1..k]]
<1>1. \A s \in SUBSET (1..n) :
        h[s] = IF s = {} THEN q ELSE Taken(kind, h[s \ {Max(s)}], list[Max(s)])
  <2> DEFINE F == FoldOf(kind, q, list, h, n)
  <2>1. \A s \in SUBSET (1..n) :
          F[s] = IF s = {} THEN q ELSE Taken(kind, h[s \ {Max(s)}], list[Max(s)])
    BY DEF FoldOf
  <2>2. h = F
    OBVIOUS
  <2> HIDE DEF F
  <2> QED BY <2>1, <2>2
<1>2. DOMAIN A = 0..n /\ \A k \in 0..n : A[k] = h[1..k]
  OBVIOUS
<1> HIDE DEF A
<1>3. A[0] = q
  <2>1. 1..0 = {} /\ {} \in SUBSET (1..n) /\ 0 \in 0..n
    OBVIOUS
  <2> QED BY <1>1, <1>2, <2>1
<1>4. ASSUME NEW k \in 1..n PROVE A[k] = Taken(kind, A[k - 1], list[k])
  <2> DEFINE s == 1..k
  <2>1. s \in SUBSET (1..n) /\ s # {} /\ s \in SUBSET (0..k) /\ k \in s /\ k \in Nat
    OBVIOUS
  <2>2. \A j \in s : j \in Nat /\ j <= k
    OBVIOUS
  <2>3. s \ {k} = 1..(k - 1) /\ k - 1 \in 0..n /\ k \in 0..n
    OBVIOUS
  <2>4. A[k] = h[s] /\ A[k - 1] = h[1..(k - 1)]
    BY <1>2, <2>3
  <2> HIDE DEF s
  <2>5. Max(s) \in s /\ Max(s) >= k
    BY <2>1, GreatestMember
  <2>6. Max(s) = k
    <3>1. Max(s) \in Nat /\ Max(s) <= k
      BY <2>2, <2>5, Zenon
    <3> QED BY <2>1, <2>5, <3>1
  <2> QED BY <1>1, <2>1, <2>3, <2>4, <2>6
<1>5. A[n] = h[1..n]
  BY <1>2
<1> QED BY <1>2, <1>3, <1>4, <1>5 DEF Steps

\* What Query::ParseString makes of parts, one after the other
LEMMA PartsFolded ==
  ASSUME NEW S, NEW list \in Seq(S), NEW q
  PROVE  \E A : /\ Steps("part", q, list, Len(list), A)
               /\ FoldLeft(AddPart, q, list) = A[Len(list)]
<1> DEFINE n == Len(list)
           Body(h) == [s \in SUBSET DOMAIN list |->
                         IF s = {} THEN q ELSE AddPart(h[s \ {Max(s)}], list[Max(s)])]
           f == CHOOSE h : h = Body(h)
<1>1. n \in Nat /\ DOMAIN list = 1..n
  BY LenProperties
<1>2. \A h : FoldOf("part", q, list, h, n) = Body(h)
  BY <1>1 DEF FoldOf, Taken
<1>3. PICK h : h = FoldOf("part", q, list, h, n)
  BY <1>1, FoldsExist
<1>4. h = Body(h)
  <2> HIDE DEF Body
  <2> QED BY <1>2, <1>3, Zenon
<1>5. f = Body(f)
  <2> HIDE DEF Body
  <2> QED BY <1>4, Zenon
<1>6. FoldLeft(AddPart, q, list) = f[1..n]
  BY <1>1, Zenon DEF FoldLeft, MapThenFoldSet
<1> HIDE DEF f
<1>7. f = FoldOf("part", q, list, f, n)
  <2> HIDE DEF Body
  <2> QED BY <1>2, <1>5, Zenon
<1> QED BY <1>1, <1>6, <1>7, StepsOf

\* ... and what the pairs mean
LEMMA PairsFolded ==
  ASSUME NEW S, NEW list \in Seq(S)
  PROVE  \E A : /\ Steps("pair", NoQuery, list, Len(list), A)
               /\ Meaning(list) = A[Len(list)]
<1> DEFINE n == Len(list)
           Body(h) == [s \in SUBSET DOMAIN list |->
                         IF s = {} THEN NoQuery
                         ELSE Add(h[s \ {Max(s)}], list[Max(s)][1], list[Max(s)][2])]
           f == CHOOSE h : h = Body(h)
<1>1. n \in Nat /\ DOMAIN list = 1..n
  BY LenProperties
<1>2. \A h : FoldOf("pair", NoQuery, list, h, n) = Body(h)
  BY <1>1 DEF FoldOf, Taken
<1>3. PICK h : h = FoldOf("pair", NoQuery, list, h, n)
  BY <1>1, FoldsExist
<1>4. h = Body(h)
  <2> HIDE DEF Body
  <2> QED BY <1>2, <1>3, Zenon
<1>5. f = Body(f)
  <2> HIDE DEF Body
  <2> QED BY <1>4, Zenon
<1>6. Meaning(list) = f[1..n]
  BY <1>1, Zenon DEF Meaning, FoldLeft, MapThenFoldSet
<1> HIDE DEF f
<1>7. f = FoldOf("pair", NoQuery, list, f, n)
  <2> HIDE DEF Body
  <2> QED BY <1>2, <1>5, Zenon
<1> QED BY <1>1, <1>6, <1>7, StepsOf

\* A pair that was escaped is read as it was
LEMMA PairIs ==
  ASSUME NEW k \in Texts, NEW v \in Texts
  PROVE  LET e == Escape(k) \o <<"=">> \o Escape(v)
         IN  /\ e \in Seq(Chars) /\ e # <<>> /\ \A i \in 1..Len(e) : e[i] # "&"
             /\ \A q : AddPart(q, e) = Add(q, k, v)
<1> DEFINE a == Escape(k)
           b == Escape(v)
           s == <<"=">>
           e == a \o s \o b
<1>1. /\ a \in Seq(Chars) /\ UnEscape(a) = k
      /\ \A i \in 1..Len(a) : a[i] # "&" /\ a[i] # "="
  BY EscapeIs
<1>2. /\ b \in Seq(Chars) /\ UnEscape(b) = v
      /\ \A i \in 1..Len(b) : b[i] # "&" /\ b[i] # "="
  BY EscapeIs
<1>3. s \in Seq(Chars) /\ Len(s) = 1 /\ s[1] = "="
  <2>1. "=" \in Chars
    BY DEF Chars
  <2> QED BY <2>1
<1> DEFINE m == Len(a)
           n == Len(b)
<1> HIDE DEF a, b, s
<1>4. /\ m \in Nat /\ n \in Nat /\ Len(e) = m + 1 + n
      /\ \A p \in 1..m : e[p] = a[p]
      /\ e[m + 1] = "="
      /\ \A p \in 1..n : e[m + 1 + p] = b[p]
  <2>1. ASSUME NEW x \in Seq(Chars), NEW y \in Seq(Chars), NEW z \in Seq(Chars)
        PROVE  /\ Len(x) \in Nat /\ Len(y) \in Nat /\ Len(z) \in Nat
               /\ Len(x \o y \o z) = Len(x) + Len(y) + Len(z)
               /\ \A p \in 1..Len(x) : (x \o y \o z)[p] = x[p]
               /\ \A p \in 1..Len(y) : (x \o y \o z)[Len(x) + p] = y[p]
               /\ \A p \in 1..Len(z) : (x \o y \o z)[Len(x) + Len(y) + p] = z[p]
    BY ThreeAre
  <2>2. /\ Len(a) \in Nat /\ Len(s) \in Nat /\ Len(b) \in Nat
        /\ Len(a \o s \o b) = Len(a) + Len(s) + Len(b)
        /\ \A p \in 1..Len(a) : (a \o s \o b)[p] = a[p]
        /\ \A p \in 1..Len(s) : (a \o s \o b)[Len(a) + p] = s[p]
        /\ \A p \in 1..Len(b) : (a \o s \o b)[Len(a) + Len(s) + p] = b[p]
    BY <1>1, <1>2, <1>3, <2>1, Zenon
  <2> HIDE DEF e
  <2> QED BY <1>3, <2>2 DEF e
<1>5. e \in Seq(Chars)
  BY <1>1, <1>2, <1>3, ConcatProperties
<1> HIDE DEF e, m, n
<1>6. Len(e) \in Nat /\ Len(e) # 0
  BY <1>4
<1>7. e # <<>>
  BY <1>6, EmptySeq
<1>8. \A i \in 1..Len(e) : e[i] # "&"
  <2> TAKE i \in 1..Len(e)
  <2>1. CASE i \in 1..m
    BY <1>1, <1>4, <2>1 DEF m
  <2>2. CASE i = m + 1
    BY <1>4, <2>2
  <2>3. CASE i > m + 1
    <3> DEFINE p == i - (m + 1)
    <3>1. p \in 1..n /\ m + 1 + p = i
      BY <1>4, <2>3
    <3> HIDE DEF p
    <3>2. e[m + 1 + p] = b[p]
      BY <1>4, <3>1, Zenon
    <3>3. b[p] # "&"
      BY <1>2, <3>1 DEF n
    <3> QED BY <3>1, <3>2, <3>3
  <2> QED BY <1>4, <2>1, <2>2, <2>3
<1>9. /\ Before(e, "=") = SubSeq(e, 1, (m + 1) - 1)
      /\ Behind(e, "=") = SubSeq(e, (m + 1) + 1, Len(e)) /\ Contains(e, "=")
  <2>1. m + 1 \in 1..Len(e) /\ e[m + 1] = "="
    BY <1>4
  <2>2. \A i \in 1..((m + 1) - 1) : e[i] # "="
    BY <1>1, <1>4 DEF m
  <2> QED BY <1>5, <2>1, <2>2, FirstPlace
<1>10. Before(e, "=") = a
  <2>1. (m + 1) - 1 = 1 + Len(a) - 1 /\ (m + 1) - 1 \in Nat /\ (m + 1) - 1 <= Len(e)
    BY <1>4 DEF m
  <2>2. \A j \in 1..Len(a) : e[1 + j - 1] = a[j]
    <3> TAKE j \in 1..Len(a)
    <3>1. 1 + j - 1 = j /\ j \in 1..m
      BY <1>4 DEF m
    <3> QED BY <1>4, <3>1
  <2>3. SubSeq(e, 1, (m + 1) - 1) = a
    BY <1>1, <1>5, <2>1, <2>2, PieceIs
  <2> QED BY <1>9, <2>3
<1>11. Behind(e, "=") = b
  <2>1. /\ Len(e) = (m + 1) + 1 + Len(b) - 1 /\ (m + 1) + 1 \in Nat /\ Len(e) \in Nat
        /\ Len(e) <= Len(e) /\ 1 <= (m + 1) + 1
    BY <1>4 DEF n
  <2>2. \A j \in 1..Len(b) : e[(m + 1) + 1 + j - 1] = b[j]
    <3> TAKE j \in 1..Len(b)
    <3>1. (m + 1) + 1 + j - 1 = m + 1 + j /\ j \in 1..n
      BY <1>4 DEF n
    <3> QED BY <1>4, <3>1
  <2>3. SubSeq(e, (m + 1) + 1, Len(e)) = b
    BY <1>2, <1>5, <2>1, <2>2, PieceIs
  <2> QED BY <1>9, <2>3
<1>12. \A q : AddPart(q, e) = Add(q, k, v)
  BY <1>1, <1>2, <1>9, <1>10, <1>11 DEF AddPart
<1> QED BY <1>5, <1>7, <1>8, <1>12 DEF e, a, b, s

\* Each pair of a query, encoded
LEMMA EncodedIs ==
  ASSUME NEW pairs \in Seq(Texts \X Texts)
  PROVE  LET e == Encoded(pairs)
         IN  /\ e \in Seq(Seq(Chars)) /\ Len(e) = Len(pairs)
             /\ \A i \in 1..Len(pairs) :
                  /\ e[i] # <<>> /\ \A j \in 1..Len(e[i]) : e[i][j] # "&"
                  /\ \A q : AddPart(q, e[i]) = Add(q, pairs[i][1], pairs[i][2])
<1> DEFINE e == Encoded(pairs)
           n == Len(pairs)
<1>1. /\ n \in Nat /\ DOMAIN pairs = 1..n
      /\ \A i \in 1..n : pairs[i][1] \in Texts /\ pairs[i][2] \in Texts
  <2>1. \A i \in 1..n : pairs[i] \in Texts \X Texts
    BY ElementOfSeq
  <2> QED BY <2>1, LenProperties
<1> HIDE DEF n
<1>2. e = [i \in 1..n |-> Escape(pairs[i][1]) \o <<"=">> \o Escape(pairs[i][2])]
  BY <1>1 DEF Encoded
<1> HIDE DEF e
<1>3. ASSUME NEW i \in 1..n
      PROVE  /\ e[i] \in Seq(Chars) /\ e[i] # <<>> /\ \A j \in 1..Len(e[i]) : e[i][j] # "&"
             /\ \A q : AddPart(q, e[i]) = Add(q, pairs[i][1], pairs[i][2])
  <2> DEFINE k == pairs[i][1]
             v == pairs[i][2]
             x == Escape(k) \o <<"=">> \o Escape(v)
  <2>1. k \in Texts /\ v \in Texts
    BY <1>1
  <2>2. e[i] = x
    BY <1>2
  <2> HIDE DEF k, v
  <2>3. /\ x \in Seq(Chars) /\ x # <<>> /\ \A j \in 1..Len(x) : x[j] # "&"
        /\ \A q : AddPart(q, x) = Add(q, k, v)
    BY <2>1, PairIs
  <2> HIDE DEF x
  <2> QED BY <2>2, <2>3 DEF k, v
<1>4. e \in [1..n -> Seq(Chars)]
  <2>1. e = [i \in 1..n |-> e[i]]
    BY <1>2
  <2> QED BY <1>3, <2>1
<1>5. e \in Seq(Seq(Chars)) /\ Len(e) = n
  BY <1>1, <1>4
<1> QED BY <1>3, <1>5 DEF e, n

\* A query or a form, with or without a flag, is read as what its pairs mean
LEMMA QueryIs ==
  ASSUME NEW pairs \in Seq(Texts \X Texts), NEW flag \in Seq(STRING \ {"&", "="})
  PROVE  LET parts == Encoded(pairs) \o (IF flag = <<>> THEN <<>> ELSE <<flag>>)
         IN  /\ parts \in Seq(Seq(Chars)) /\ StrSplit(Parts(parts), "&") = parts
             /\ ParsePairs(NoQuery, Parts(parts)) = Meaning(pairs)
             /\ parts = <<>> => pairs = <<>> /\ flag = <<>>
             /\ (Meaning(pairs) = NoQuery) <=> (pairs = <<>>)
<1> DEFINE e == Encoded(pairs)
           f == IF flag = <<>> THEN <<>> ELSE <<flag>>
           parts == e \o f
           n == Len(pairs)
           N == Len(parts)
<1>1. n \in Nat
  BY LenProperties
<1>2. /\ e \in Seq(Seq(Chars)) /\ Len(e) = n
      /\ \A i \in 1..n :
           /\ e[i] # <<>> /\ \A j \in 1..Len(e[i]) : e[i][j] # "&"
           /\ \A q : AddPart(q, e[i]) = Add(q, pairs[i][1], pairs[i][2])
  BY EncodedIs
<1>3. /\ flag \in Seq(Chars) /\ \A j \in 1..Len(flag) : flag[j] # "&" /\ flag[j] # "="
  <2>1. STRING \ {"&", "="} \subseteq Chars
    BY DEF Chars
  <2>2. \A j \in 1..Len(flag) : flag[j] \in STRING \ {"&", "="}
    BY ElementOfSeq
  <2> QED BY <2>1, <2>2, SeqMonotonic
<1>4. /\ f \in Seq(Seq(Chars)) /\ Len(f) = IF flag = <<>> THEN 0 ELSE 1
      /\ flag # <<>> => f[1] = flag
  BY <1>3, EmptySeq
<1> HIDE DEF e, f
<1>5. /\ parts \in Seq(Seq(Chars)) /\ N = n + Len(f)
      /\ \A i \in 1..n : parts[i] = e[i]
      /\ \A i \in 1..Len(f) : parts[n + i] = f[i]
  <2>1. ASSUME NEW x \in Seq(Seq(Chars)), NEW y \in Seq(Seq(Chars))
        PROVE  /\ x \o y \in Seq(Seq(Chars))
               /\ Len(x \o y) = Len(x) + Len(y)
               /\ \A i \in 1..Len(x) : (x \o y)[i] = x[i]
               /\ \A i \in 1..Len(y) : (x \o y)[Len(x) + i] = y[i]
    BY ConcatIs
  <2>2. /\ parts \in Seq(Seq(Chars)) /\ N = Len(e) + Len(f)
        /\ \A i \in 1..Len(e) : parts[i] = e[i]
        /\ \A i \in 1..Len(f) : parts[Len(e) + i] = f[i]
    BY <1>2, <1>4, <2>1, Zenon
  <2> HIDE DEF parts, N
  <2> QED BY <1>2, <2>2
<1> HIDE DEF parts, n, N
<1>6. /\ N = IF flag = <<>> THEN n ELSE n + 1
      /\ flag # <<>> => parts[n + 1] = flag
  BY <1>1, <1>4, <1>5
<1>7. ASSUME NEW i \in 1..N
      PROVE  parts[i] # <<>> /\ \A j \in 1..Len(parts[i]) : parts[i][j] # "&"
  <2>1. CASE i \in 1..n
    BY <1>2, <1>5, <2>1
  <2>2. CASE i \notin 1..n
    <3>1. i = n + 1 /\ flag # <<>>
      BY <1>1, <1>6, <2>2
    <3>2. parts[i] = flag
      BY <1>6, <3>1
    <3> QED BY <1>3, <3>1, <3>2
  <2> QED BY <2>1, <2>2
<1>8. StrSplit(Parts(parts), "&") = parts
  <2>1. "&" \in Chars
    BY DEF Chars
  <2>2. IsParts(parts, "&")
    BY <1>7 DEF N, IsParts
  <2>3. StrSplit(Join(parts, <<"&">>), "&") = parts
    BY <1>5, <2>1, <2>2, SplitJoin
  <2> QED BY <2>3 DEF Parts
<1>9. PICK A : Steps("part", NoQuery, parts, N, A) /\ FoldLeft(AddPart, NoQuery, parts) = A[N]
  BY <1>5, PartsFolded DEF N
<1>10. PICK B : Steps("pair", NoQuery, pairs, n, B) /\ Meaning(pairs) = B[n]
  BY PairsFolded DEF n
<1>11. A[0] = NoQuery /\ \A k \in 1..N : A[k] = AddPart(A[k - 1], parts[k])
  BY <1>9 DEF Steps, Taken
<1>12. B[0] = NoQuery /\ \A k \in 1..n : B[k] = Add(B[k - 1], pairs[k][1], pairs[k][2])
  BY <1>10 DEF Steps, Taken
<1>13. A[n] = B[n]
  <2> DEFINE Wrong == {k \in Nat : k \in 0..n /\ A[k] # B[k]}
  <2> SUFFICES ASSUME Wrong # {} PROVE FALSE
    BY <1>1
  <2> DEFINE k == Min(Wrong)
  <2>1. k \in Wrong /\ \A j \in Wrong : k <= j
    BY LeastMember
  <2> HIDE DEF k
  <2>2. k \in 0..n /\ A[k] # B[k] /\ k # 0
    BY <1>11, <1>12, <2>1
  <2>3. k - 1 \in Nat /\ k - 1 \in 0..n /\ ~(k <= k - 1) /\ k \in 1..n /\ k \in 1..N
    BY <1>1, <1>6, <2>2
  <2>4. A[k - 1] = B[k - 1]
    BY <2>1, <2>3
  <2>5. parts[k] = e[k]
    BY <1>5, <2>3
  <2>6. A[k] = AddPart(A[k - 1], e[k])
    BY <1>11, <2>3, <2>5
  <2>7. AddPart(A[k - 1], e[k]) = Add(A[k - 1], pairs[k][1], pairs[k][2])
    BY <1>2, <2>3, Zenon
  <2>8. B[k] = Add(B[k - 1], pairs[k][1], pairs[k][2])
    BY <1>12, <2>3
  <2> QED BY <2>2, <2>4, <2>6, <2>7, <2>8
<1>14. A[N] = A[n]
  <2>1. CASE flag = <<>>
    BY <1>6, <2>1
  <2>2. CASE flag # <<>>
    <3>1. N = n + 1 /\ n + 1 \in 1..N /\ (n + 1) - 1 = n /\ parts[n + 1] = flag
      BY <1>1, <1>6, <2>2
    <3>2. A[n + 1] = AddPart(A[n], flag)
      BY <1>11, <3>1
    <3>3. ~Contains(flag, "=")
      BY <1>3, NoPlace
    <3> QED BY <3>1, <3>2, <3>3 DEF AddPart
  <2> QED BY <2>1, <2>2
<1>15. ParsePairs(NoQuery, Parts(parts)) = Meaning(pairs)
  BY <1>8, <1>9, <1>10, <1>13, <1>14 DEF ParsePairs
<1>16. parts = <<>> => pairs = <<>> /\ flag = <<>>
  <2> HAVE parts = <<>>
  <2>1. N = 0
    BY EmptySeq DEF N
  <2>2. n = 0 /\ flag = <<>>
    BY <1>1, <1>6, <2>1
  <2> QED BY <2>2, EmptySeq DEF n
<1>17. Meaning(pairs) = NoQuery <=> pairs = <<>>
  <2>1. pairs = <<>> <=> n = 0
    BY EmptySeq DEF n
  <2>2. n = 0 => B[n] = NoQuery
    BY <1>12
  <2>3. n # 0 => B[n] # NoQuery
    <3> HAVE n # 0
    <3>1. n \in 1..n
      BY <1>1
    <3>2. B[n] = Add(B[n - 1], pairs[n][1], pairs[n][2])
      BY <1>12, <3>1
    <3>3. pairs[n][1] \in DOMAIN B[n]
      BY <3>2 DEF Add
    <3>4. DOMAIN NoQuery = {}
      BY EmptySeq, LenProperties DEF NoQuery
    <3> QED BY <3>3, <3>4
  <2> QED BY <1>10, <2>1, <2>2, <2>3
<1> QED BY <1>5, <1>8, <1>15, <1>16, <1>17 DEF parts, e, f

-----------------------------------------------------------------------------
(***************************************************************************)
(* ParseCookieString.                                                      *)
(***************************************************************************)

\* What ParseCookieString makes of the place k
EqualsFrom(s, k) == {i \in Places(s, "=") : i >= k}

CookieEnd(s, k) == SeparatorFrom(s, Min(EqualsFrom(s, k)) + 1)

CookiesAt(s, k, from) ==
  IF EqualsFrom(s, k) = {} \/ Min(EqualsFrom(s, k)) = k THEN <<>>
  ELSE << <<SubSeq(s, k, Min(EqualsFrom(s, k)) - 1),
            SubSeq(s, Min(EqualsFrom(s, k)) + 1, CookieEnd(s, k) - 1)>> >>
       \o from[CookieEnd(s, k) + 2]

\* It goes on behind the place, and not beyond the end
LEMMA CookieGoesOn ==
  ASSUME NEW S, NEW s \in Seq(S), NEW k \in 1..(Len(s) + 3), EqualsFrom(s, k) # {}
  PROVE  CookieEnd(s, k) + 2 \in (k + 1)..(Len(s) + 3)
<1> DEFINE E == EqualsFrom(s, k)
           eq == Min(E)
           D == {i \in (eq + 1)..(Len(s) - 1) : SubSeq(s, i, i + 1) = kCookieSeperator}
                  \cup {Len(s) + 1}
<1>1. Len(s) \in Nat /\ DOMAIN s = 1..Len(s)
  BY LenProperties
<1>2. E \in SUBSET Nat /\ E # {} /\ \A i \in E : i \in 1..Len(s) /\ i >= k
  BY <1>1 DEF EqualsFrom, Places
<1> HIDE DEF E
<1>3. eq \in 1..Len(s) /\ eq >= k
  BY <1>2, LeastMember
<1> HIDE DEF eq
<1>4. D \in SUBSET Nat /\ D # {} /\ \A i \in D : i >= eq + 1 /\ i <= Len(s) + 1 /\ i \in Nat
  BY <1>1, <1>3
<1>5. CookieEnd(s, k) = Min(D)
  BY DEF CookieEnd, SeparatorFrom, E, eq
<1> HIDE DEF D
<1>6. Min(D) \in Nat /\ Min(D) >= eq + 1 /\ Min(D) <= Len(s) + 1
  BY <1>4, LeastMember
<1> QED BY <1>1, <1>3, <1>5, <1>6

LEMMA CookiesAtExist ==
  ASSUME NEW S, NEW s \in Seq(S)
  PROVE  \E h : h = [k \in 1..(Len(s) + 3) |-> CookiesAt(s, k, h)]
<1> DEFINE N == Len(s) + 3
           Is(h, m) == h = [k \in m..N |-> CookiesAt(s, k, h)]
           Has(m) == \E h : Is(h, m)
           Wrong == {d \in Nat : d < N /\ ~Has(N - d)}
<1>1. N \in Nat /\ Len(s) \in Nat /\ DOMAIN s = 1..Len(s)
  BY LenProperties
<1> HIDE DEF N
<1> SUFFICES ASSUME Wrong # {} PROVE FALSE
  <2>1. N - 1 \in Nat /\ N - 1 < N /\ N - (N - 1) = 1
    BY <1>1 DEF N
  <2>2. Has(1)
    <3> HIDE DEF Has
    <3> QED BY <2>1
  <2> QED BY <2>2 DEF N
<1> DEFINE d == Min(Wrong)
           m == N - d
<1>2. d \in Wrong /\ \A j \in Wrong : d <= j
  BY LeastMember
<1> HIDE DEF d, Has
<1>3. d \in Nat /\ d < N /\ m \in 1..N /\ ~Has(m)
  BY <1>1, <1>2
  \* a function for the places behind m, if there are any
<1>4. PICK g : \A k \in (m + 1)..N : g[k] = CookiesAt(s, k, g)
  <2>1. CASE d = 0
    <3>1. (m + 1)..N = {}
      BY <1>1, <2>1
    <3> QED BY <3>1
  <2>2. CASE d # 0
    <3>1. d - 1 \in Nat /\ d - 1 < N /\ ~(d <= d - 1) /\ N - (d - 1) = m + 1
      BY <1>1, <1>3, <2>2
    <3>2. d - 1 \notin Wrong
      BY <1>2, <3>1
    <3>3. Has(m + 1)
      BY <3>1, <3>2
    <3>4. PICK g : Is(g, m + 1)
      BY <3>3 DEF Has
    <3> DEFINE F == [k \in (m + 1)..N |-> CookiesAt(s, k, g)]
    <3>5. \A k \in (m + 1)..N : F[k] = CookiesAt(s, k, g)
      OBVIOUS
    <3>6. g = F
      BY <3>4
    <3> HIDE DEF F
    <3> QED BY <3>5, <3>6
  <2> QED BY <2>1, <2>2
<1> HIDE DEF m
<1> DEFINE h == [k \in m..N |-> IF k = m THEN CookiesAt(s, k, g) ELSE g[k]]
<1>5. ASSUME NEW k \in m..N PROVE h[k] = CookiesAt(s, k, h)
  <2>1. k \in 1..(Len(s) + 3)
    BY <1>1, <1>3 DEF N
  <2>2. h[k] = CookiesAt(s, k, g)
    <3>1. k # m => k \in (m + 1)..N
      BY <1>1, <1>3
    <3> QED BY <1>4, <3>1
  <2>3. CookiesAt(s, k, g) = CookiesAt(s, k, h)
    <3>1. CASE EqualsFrom(s, k) = {}
      BY <3>1 DEF CookiesAt
    <3>2. CASE EqualsFrom(s, k) # {}
      <4> DEFINE e == CookieEnd(s, k) + 2
      <4>1. e \in (k + 1)..(Len(s) + 3)
        BY <2>1, <3>2, CookieGoesOn
      <4> HIDE DEF e
      <4>2. e \in m..N /\ e # m
        BY <1>1, <1>3, <4>1 DEF N
      <4>3. h[e] = g[e]
        BY <4>2
      <4> HIDE DEF h
      <4> QED BY <4>3 DEF CookiesAt, e
    <3> QED BY <3>1, <3>2
  <2> HIDE DEF h
  <2> QED BY <2>2, <2>3
<1>6. h = [k \in m..N |-> h[k]]
  OBVIOUS
<1> HIDE DEF h
<1>7. Is(h, m)
  <2>1. [k \in m..N |-> h[k]] = [k \in m..N |-> CookiesAt(s, k, h)]
    BY <1>5
  <2> QED BY <1>6, <2>1
<1> QED BY <1>3, <1>7 DEF Has

\* ParseCookieString, place by place
LEMMA CookiesAtAre ==
  ASSUME NEW S, NEW s \in Seq(S)
  PROVE  \E h : /\ \A k \in 1..(Len(s) + 3) : h[k] = CookiesAt(s, k, h)
               /\ ParseCookieString(s) = h[1]
<1> DEFINE Body(h) == [k \in 1..(Len(s) + 3) |-> CookiesAt(s, k, h)]
           f == CHOOSE h : h = [k \in 1..(Len(s) + 3) |->
                  LET equals == {i \in Places(s, "=") : i >= k}
                      eq     == Min(equals)
                      end    == SeparatorFrom(s, eq + 1)
                  IN  IF equals = {} \/ eq = k THEN <<>>
                      ELSE << <<SubSeq(s, k, eq - 1), SubSeq(s, eq + 1, end - 1)>> >> \o h[end + 2]]
<1>1. PICK h : h = Body(h)
  BY CookiesAtExist
<1>2. f = Body(f)
  <2>1. \A g : Body(g) = [k \in 1..(Len(s) + 3) |->
                  LET equals == {i \in Places(s, "=") : i >= k}
                      eq     == Min(equals)
                      end    == SeparatorFrom(s, eq + 1)
                  IN  IF equals = {} \/ eq = k THEN <<>>
                      ELSE << <<SubSeq(s, k, eq - 1), SubSeq(s, eq + 1, end - 1)>> >> \o g[end + 2]]
    BY Zenon DEF CookiesAt, CookieEnd, EqualsFrom
  <2> HIDE DEF Body
  <2> QED BY <1>1, <2>1, Zenon
<1>3. ParseCookieString(s) = f[1]
  BY Zenon DEF ParseCookieString
<1> HIDE DEF f
<1>4. \A k \in 1..(Len(s) + 3) : Body(f)[k] = CookiesAt(s, k, f)
  OBVIOUS
<1> HIDE DEF Body
<1> QED BY <1>2, <1>3, <1>4

CookieNames == Seq(STRING \ {"="}) \ {<<>>}

CookieValues == {v \in Seq(STRING) :
                   \A i \in 1..(Len(v) - 1) : SubSeq(v, i, i + 1) # kCookieSeperator}

\* The separator is where its two characters are
LEMMA SeparatorIs ==
  ASSUME NEW S, NEW t \in Seq(S), NEW p \in 1..(Len(t) - 1)
  PROVE  SubSeq(t, p, p + 1) = kCookieSeperator <=> t[p] = ";" /\ t[p + 1] = " "
<1> DEFINE u == SubSeq(t, p, p + 1)
           w == kCookieSeperator
           T == S \cup {";", " "}
<1>1. Len(t) \in Nat /\ p \in Nat /\ p + 1 \in 1..Len(t)
  BY LenProperties
<1>2. \A i \in p..(p + 1) : t[i] \in S
  BY <1>1, ElementOfSeq
<1>3. p \in Int /\ p + 1 \in Int
  BY <1>1
<1>4. /\ u \in Seq(S) /\ Len(u) = IF p <= p + 1 THEN p + 1 - p + 1 ELSE 0
      /\ \A i \in 1..(p + 1 - p + 1) : u[i] = t[p + i - 1]
  BY <1>2, <1>3, SubSeqProperties
<1> HIDE DEF u
<1>5. Len(u) = 2 /\ u[1] = t[p] /\ u[2] = t[p + 1]
  <2>1. /\ p <= p + 1 /\ p + 1 - p + 1 = 2 /\ 1 \in 1..2 /\ 2 \in 1..2
        /\ p + 1 - 1 = p /\ p + 2 - 1 = p + 1
    BY <1>1
  <2> QED BY <1>4, <2>1
<1>6. w \in Seq(T) /\ Len(w) = 2 /\ w[1] = ";" /\ w[2] = " "
  BY DEF kCookieSeperator
<1>7. u \in Seq(T)
  BY <1>4, SeqMonotonic
<1> HIDE DEF w, T
<1>8. ASSUME t[p] = ";", t[p + 1] = " " PROVE u = w
  <2>1. \A i \in 1..Len(u) : u[i] = w[i]
    <3>1. u[1] = w[1]
      BY <1>5, <1>6, <1>8, Zenon
    <3>2. u[2] = w[2]
      BY <1>5, <1>6, <1>8, Zenon
    <3>3. \A i \in 1..2 : i = 1 \/ i = 2
      OBVIOUS
    <3> QED BY <1>5, <3>1, <3>2, <3>3
  <2> QED BY <1>5, <1>6, <1>7, <2>1, SeqEqual
<1>9. ASSUME u = w PROVE t[p] = ";" /\ t[p + 1] = " "
  BY <1>5, <1>6, <1>9
<1> QED BY <1>8, <1>9 DEF u, w

\* A cookie as it stands in a string, from b to e, with a separator or nothing behind it
CookieStands(s, name, value, b, e) ==
  /\ 1 <= b /\ e = b + Len(name) + Len(value) /\ e <= Len(s)
  /\ \A j \in 1..Len(name) : s[b + j - 1] = name[j]
  /\ s[b + Len(name)] = "="
  /\ \A j \in 1..Len(value) : s[b + Len(name) + j] = value[j]
  /\ e = Len(s) \/ (e + 2 <= Len(s) /\ s[e + 1] = ";" /\ s[e + 2] = " ")

LEMMA CookieThere ==
  ASSUME NEW s \in Seq(Chars), NEW name \in CookieNames, NEW value \in CookieValues,
         NEW b \in Nat, NEW e \in Nat, CookieStands(s, name, value, b, e)
  PROVE  \A from : CookiesAt(s, b, from) = << <<name, value>> >> \o from[e + 3]
<1> DEFINE K == Len(name)
           V == Len(value)
           q == b + K
           E == EqualsFrom(s, b)
           D == {i \in (q + 1)..(Len(s) - 1) : SubSeq(s, i, i + 1) = kCookieSeperator}
                  \cup {Len(s) + 1}
<1>1. /\ name \in Seq(Chars) /\ K \in Nat \ {0} /\ \A j \in 1..K : name[j] # "="
  <2>1. name \in Seq(STRING \ {"="}) /\ name # <<>>
    BY DEF CookieNames
  <2>2. \A j \in 1..K : name[j] \in STRING \ {"="}
    BY <2>1, ElementOfSeq
  <2>3. STRING \ {"="} \subseteq Chars
    BY DEF Chars
  <2>4. K \in Nat \ {0}
    BY <2>1, EmptySeq
  <2> QED BY <2>1, <2>2, <2>3, <2>4, SeqMonotonic
<1>2. /\ value \in Seq(STRING) /\ value \in Seq(Chars) /\ V \in Nat
      /\ \A j \in 1..(V - 1) : ~(value[j] = ";" /\ value[j + 1] = " ")
  <2>1. value \in Seq(STRING) /\ \A i \in 1..(V - 1) : SubSeq(value, i, i + 1) # kCookieSeperator
    BY DEF CookieValues
  <2>2. STRING \subseteq Chars
    BY DEF Chars
  <2>3. \A i \in 1..(V - 1) : SubSeq(value, i, i + 1) = kCookieSeperator <=>
                                value[i] = ";" /\ value[i + 1] = " "
    BY <2>1, SeparatorIs
  <2> QED BY <2>1, <2>2, <2>3, SeqMonotonic, LenProperties
<1>3. Len(s) \in Nat /\ DOMAIN s = 1..Len(s)
  BY LenProperties
<1>4. /\ \A j \in 1..K : s[b + j - 1] = name[j]
      /\ s[q] = "=" /\ \A j \in 1..V : s[q + j] = value[j]
  BY DEF CookieStands
<1>5. 1 <= b /\ e = q + V /\ e <= Len(s)
  BY DEF CookieStands
<1>6. /\ e = Len(s) \/ (e + 2 <= Len(s) /\ s[e + 1] = ";" /\ s[e + 2] = " ")
  BY DEF CookieStands
<1>7. q = b + K
  OBVIOUS
<1> HIDE DEF K, V, q
<1>8. /\ q \in Nat /\ q > b /\ e = q + V /\ q \in 1..Len(s) /\ 1 <= b /\ e <= Len(s)
      /\ q = b + K /\ K \in Nat /\ V \in Nat /\ Len(s) \in Nat /\ q # b
  <2>1. K \in Nat /\ K # 0 /\ V \in Nat /\ Len(s) \in Nat
    BY <1>1, <1>2, <1>3
  <2> QED BY <2>1, <1>7, <1>5
<1>9. E # {} /\ Min(E) = q
  <2>1. q \in E
    BY <1>3, <1>4, <1>8 DEF EqualsFrom, Places
  <2>2. ASSUME NEW p \in E PROVE p \in Nat /\ p >= q
    <3>1. p \in 1..Len(s) /\ s[p] = "=" /\ p >= b
      BY <1>3 DEF EqualsFrom, Places
    <3>2. ASSUME p < q PROVE FALSE
      <4> DEFINE j == p - b + 1
      <4>1. j \in 1..K /\ b + j - 1 = p
        BY <1>1, <1>8, <3>1, <3>2
      <4> HIDE DEF j
      <4>2. s[b + j - 1] = name[j] /\ name[j] # "="
        BY <1>1, <1>4, <4>1
      <4> QED BY <3>1, <4>1, <4>2
    <3> QED BY <1>8, <3>1, <3>2
  <2> HIDE DEF E
  <2>3. E \in SUBSET Nat /\ E # {}
    BY <2>1, <2>2
  <2>4. Min(E) \in E /\ Min(E) <= q
    BY <2>1, <2>3, LeastMember
  <2>5. Min(E) \in Nat /\ Min(E) >= q
    BY <2>2, <2>4
  <2> QED BY <1>8, <2>3, <2>4, <2>5
<1> HIDE DEF E
<1>10. Min(D) = e + 1
  <2>1. ASSUME NEW p \in (q + 1)..(Len(s) - 1), SubSeq(s, p, p + 1) = kCookieSeperator
        PROVE  p >= e + 1
    <3>1. p \in 1..(Len(s) - 1)
      BY <1>3, <1>8
    <3>2. s[p] = ";" /\ s[p + 1] = " "
      BY <2>1, <3>1, SeparatorIs
    <3>3. ASSUME p < e PROVE FALSE
      <4> DEFINE j == p - q
      <4>1. j \in 1..(V - 1) /\ j \in 1..V /\ j + 1 \in 1..V /\ q + j = p /\ q + (j + 1) = p + 1
        BY <1>8, <3>1, <3>3
      <4> HIDE DEF j
      <4>2. s[q + j] = value[j] /\ s[q + (j + 1)] = value[j + 1]
        BY <1>4, <4>1
      <4> QED BY <1>2, <3>2, <4>1, <4>2
    <3>4. ASSUME p = e PROVE FALSE
      <4>1. e # Len(s)
        BY <1>8, <3>1, <3>4
      <4>2. s[e + 1] = ";"
        BY <1>6, <4>1
      <4> QED BY <3>2, <3>4, <4>2
    <3> QED BY <1>3, <1>8, <3>1, <3>3, <3>4
  <2>2. e + 1 \in D
    <3>1. CASE e = Len(s)
      BY <3>1
    <3>2. CASE e # Len(s)
      <4>1. e + 1 \in (q + 1)..(Len(s) - 1) /\ e + 1 \in 1..(Len(s) - 1) /\ (e + 1) + 1 = e + 2
        <5>1. e + 2 <= Len(s)
          BY <1>6, <3>2
        <5> QED BY <1>8, <5>1
      <4>2. s[e + 1] = ";" /\ s[(e + 1) + 1] = " "
        BY <1>6, <3>2, <4>1
      <4>3. SubSeq(s, e + 1, (e + 1) + 1) = kCookieSeperator
        BY <4>1, <4>2, SeparatorIs
      <4> QED BY <4>1, <4>3
    <3> QED BY <3>1, <3>2
  <2>3. \A p \in D : p \in Nat /\ p >= e + 1
    BY <1>3, <1>8, <2>1
  <2> HIDE DEF D
  <2>4. D \in SUBSET Nat /\ D # {}
    BY <2>2, <2>3
  <2>5. Min(D) \in D /\ Min(D) <= e + 1
    BY <2>2, <2>4, LeastMember
  <2>6. Min(D) \in Nat /\ Min(D) >= e + 1
    BY <2>3, <2>5
  <2> QED BY <2>5, <2>6
<1>11. CookieEnd(s, b) = e + 1
  BY <1>9, <1>10 DEF CookieEnd, SeparatorFrom, E
<1>12. SubSeq(s, b, q - 1) = name
  <2>1. q - 1 = b + Len(name) - 1 /\ q - 1 \in Nat /\ q - 1 <= Len(s) /\ 1 <= b /\ b \in Nat
    BY <1>8 DEF K
  <2>2. \A j \in 1..Len(name) : s[b + j - 1] = name[j]
    BY <1>4 DEF K
  <2> QED BY <1>1, <2>1, <2>2, PieceIs
<1>13. SubSeq(s, q + 1, (e + 1) - 1) = value
  <2>1. /\ (e + 1) - 1 = e /\ e = (q + 1) + Len(value) - 1 /\ 1 <= q + 1 /\ q + 1 \in Nat
        /\ e <= Len(s)
    BY <1>8 DEF V
  <2>2. \A j \in 1..Len(value) : s[(q + 1) + j - 1] = value[j]
    <3> TAKE j \in 1..Len(value)
    <3>1. (q + 1) + j - 1 = q + j /\ j \in 1..V
      BY <1>8 DEF V
    <3> QED BY <1>4, <3>1
  <2>3. SubSeq(s, q + 1, e) = value
    BY <1>2, <2>1, <2>2, PieceIs
  <2> QED BY <2>1, <2>3
<1>14. (e + 1) + 2 = e + 3 /\ q # b
  BY <1>8
<1> QED BY <1>9, <1>11, <1>12, <1>13, <1>14 DEF CookiesAt, E

\* A cookie as the client gives it back
LEMMA SerializedIs ==
  ASSUME NEW c \in CookieNames \X CookieValues
  PROVE  LET K == Len(c[1])
             V == Len(c[2])
             t == Serialize(c)
         IN  /\ t \in Seq(Chars) /\ K \in Nat /\ V \in Nat /\ Len(t) = K + 1 + V
             /\ \A j \in 1..K : t[j] = c[1][j]
             /\ t[K + 1] = "="
             /\ \A j \in 1..V : t[K + 1 + j] = c[2][j]
<1> DEFINE a == c[1]
           b == c[2]
           s == <<"=">>
           t == a \o s \o b
<1>1. a \in Seq(Chars) /\ b \in Seq(Chars) /\ a # <<>>
  <2>1. a \in Seq(STRING \ {"="}) /\ a # <<>> /\ b \in Seq(STRING)
    BY DEF CookieNames, CookieValues
  <2>2. STRING \ {"="} \subseteq Chars /\ STRING \subseteq Chars
    BY DEF Chars
  <2> QED BY <2>1, <2>2, SeqMonotonic
<1>2. s \in Seq(Chars) /\ Len(s) = 1 /\ s[1] = "="
  <2>1. "=" \in Chars
    BY DEF Chars
  <2> QED BY <2>1
<1>3. Serialize(c) = t
  BY <1>1 DEF Serialize
<1> HIDE DEF a, b, s
<1>4. ASSUME NEW x \in Seq(Chars), NEW y \in Seq(Chars), NEW z \in Seq(Chars)
      PROVE  /\ x \o y \o z \in Seq(Chars) /\ Len(x) \in Nat /\ Len(y) \in Nat /\ Len(z) \in Nat
             /\ Len(x \o y \o z) = Len(x) + Len(y) + Len(z)
             /\ \A p \in 1..Len(x) : (x \o y \o z)[p] = x[p]
             /\ \A p \in 1..Len(y) : (x \o y \o z)[Len(x) + p] = y[p]
             /\ \A p \in 1..Len(z) : (x \o y \o z)[Len(x) + Len(y) + p] = z[p]
  <2>1. x \o y \o z \in Seq(Chars)
    BY ConcatProperties
  <2> QED BY <2>1, ThreeAre
<1>5. /\ t \in Seq(Chars) /\ Len(a) \in Nat /\ Len(s) \in Nat /\ Len(b) \in Nat
      /\ Len(t) = Len(a) + Len(s) + Len(b)
      /\ \A p \in 1..Len(a) : t[p] = a[p]
      /\ \A p \in 1..Len(s) : t[Len(a) + p] = s[p]
      /\ \A p \in 1..Len(b) : t[Len(a) + Len(s) + p] = b[p]
  BY <1>1, <1>2, <1>4, Zenon
<1> HIDE DEF t
<1>6. t[Len(a) + 1] = "="
  <2>1. 1 \in 1..Len(s)
    BY <1>2
  <2> QED BY <1>2, <1>5, <2>1
<1>7. Len(t) = Len(a) + 1 + Len(b) /\ \A p \in 1..Len(b) : t[Len(a) + 1 + p] = b[p]
  BY <1>2, <1>5
<1> QED BY <1>3, <1>5, <1>6, <1>7 DEF a, b

\* The cookies of a client are read as they were
LEMMA CookiesRead ==
  ASSUME NEW cs \in Seq(CookieNames \X CookieValues), cs # <<>>
  PROVE  /\ ParseCookieString(Joined(cs)) = cs
         /\ Joined(cs) \in Seq(Chars) /\ Joined(cs) # <<>> /\ Joined(cs)[1] = cs[1][1][1]
<1> DEFINE n == Len(cs)
           list == [i \in DOMAIN cs |-> Serialize(cs[i])]
           sep == kCookieSeperator
           s == Join(list, sep)
           K == [i \in 1..n |-> Len(cs[i][1])]
           V == [i \in 1..n |-> Len(cs[i][2])]
<1>1. /\ n \in Nat /\ n # 0 /\ DOMAIN cs = 1..n
      /\ \A i \in 1..n : cs[i] \in CookieNames \X CookieValues
  <2>1. \A i \in 1..n : cs[i] \in CookieNames \X CookieValues
    BY ElementOfSeq
  <2> QED BY <2>1, LenProperties, EmptySeq
<1>2. \A i \in 1..n : list[i] = Serialize(cs[i]) /\ K[i] = Len(cs[i][1]) /\ V[i] = Len(cs[i][2])
  BY <1>1
<1> HIDE DEF K, V
<1>3. ASSUME NEW i \in 1..n
      PROVE  /\ list[i] \in Seq(Chars) /\ K[i] \in Nat /\ V[i] \in Nat
             /\ Len(list[i]) = K[i] + 1 + V[i]
             /\ \A j \in 1..K[i] : list[i][j] = cs[i][1][j]
             /\ list[i][K[i] + 1] = "="
             /\ \A j \in 1..V[i] : list[i][K[i] + 1 + j] = cs[i][2][j]
  <2> DEFINE c == cs[i]
  <2>1. c \in CookieNames \X CookieValues
    BY <1>1
  <2> HIDE DEF c
  <2>2. LET k == Len(c[1])
            v == Len(c[2])
            t == Serialize(c)
        IN  /\ t \in Seq(Chars) /\ k \in Nat /\ v \in Nat /\ Len(t) = k + 1 + v
            /\ \A j \in 1..k : t[j] = c[1][j]
            /\ t[k + 1] = "="
            /\ \A j \in 1..v : t[k + 1 + j] = c[2][j]
    BY <2>1, SerializedIs
  <2>3. list[i] = Serialize(c) /\ K[i] = Len(c[1]) /\ V[i] = Len(c[2])
    BY <1>2 DEF c
  <2> HIDE DEF list
  <2> QED BY <2>2, <2>3, Zenon DEF c
<1>4. /\ list \in Seq(Seq(Chars)) /\ Len(list) = n
      /\ sep \in Seq(Chars) /\ Len(sep) = 2 /\ sep[1] = ";" /\ sep[2] = " "
  <2>1. list \in Seq(Seq(Chars)) /\ Len(list) = n
    <3>1. list = [i \in 1..n |-> list[i]]
      BY <1>1
    <3> HIDE DEF list
    <3>2. list \in [1..n -> Seq(Chars)]
      BY <1>3, <3>1
    <3> QED BY <1>1, <3>2
  <2>2. ";" \in Chars /\ " " \in Chars
    BY DEF Chars
  <2>3. sep \in Seq(Chars) /\ Len(sep) = 2 /\ sep[1] = ";" /\ sep[2] = " "
    <3>1. ASSUME NEW x \in Chars, NEW y \in Chars
          PROVE  <<x, y>> \in Seq(Chars) /\ Len(<<x, y>>) = 2 /\ <<x, y>>[1] = x /\ <<x, y>>[2] = y
      OBVIOUS
    <3> QED BY <2>2, <3>1, Zenon DEF kCookieSeperator
  <2> HIDE DEF list, sep
  <2> QED BY <2>1, <2>3
<1>5. 1 \in 1..Len(sep) /\ 2 \in 1..Len(sep)
  <2>1. Len(sep) = 2
    BY <1>4
  <2> HIDE DEF sep
  <2> QED BY <2>1
<1> HIDE DEF list, sep
<1>6. PICK L \in [1..n -> Nat] : L \in JoinEnds(Chars, list, sep)
  <2>1. PICK L : L \in JoinEnds(Chars, list, sep)
    BY <1>1, <1>4, JoinIs
  <2>2. L \in [1..n -> Nat]
    BY <1>4, <2>1 DEF JoinEnds
  <2> QED BY <2>1, <2>2, Zenon
<1>7. /\ s \in Seq(Chars) /\ Len(s) = L[n] /\ L[1] = Len(list[1])
      /\ \A i \in 2..n : L[i] = L[i - 1] + Len(sep) + Len(list[i])
      /\ \A i \in 1..n : \A j \in i..n : L[i] <= L[j]
      /\ \A i \in 1..n : \A j \in 1..Len(list[i]) : s[L[i] - Len(list[i]) + j] = list[i][j]
      /\ \A i \in 1..(n - 1) : \A j \in 1..Len(sep) : s[L[i] + j] = sep[j]
  BY <1>4, <1>6 DEF JoinEnds
<1> HIDE DEF s, n
<1> DEFINE b == [i \in 1..n |-> L[i] - (K[i] + V[i])]
<1>8. \A i \in 1..n : L[i] \in Nat /\ K[i] \in Nat /\ V[i] \in Nat /\ b[i] = L[i] - (K[i] + V[i])
  BY <1>3, <1>6
<1> HIDE DEF b
<1>9. b[1] = 1 /\ \A i \in 2..n : i - 1 \in 1..n /\ i \in 1..n /\ b[i] = L[i - 1] + 3
  <2>1. 1 \in 1..n
    BY <1>1
  <2>2. b[1] = 1
    <3>1. L[1] = K[1] + 1 + V[1]
      BY <1>3, <1>7, <2>1
    <3> QED BY <1>8, <2>1, <3>1
  <2>3. ASSUME NEW i \in 2..n PROVE i - 1 \in 1..n /\ i \in 1..n /\ b[i] = L[i - 1] + 3
    <3>1. i - 1 \in 1..n /\ i \in 1..n
      BY <1>1
    <3>2. Len(sep) = 2 /\ Len(list[i]) = K[i] + 1 + V[i]
      BY <1>3, <1>4, <3>1
    <3>3. L[i] = L[i - 1] + 2 + (K[i] + 1 + V[i])
      BY <1>7, <3>2
    <3> QED BY <1>8, <3>1, <3>3
  <2> QED BY <2>2, <2>3
<1>10. ASSUME NEW i \in 1..n
      PROVE  /\ b[i] \in Nat /\ 1 <= b[i] /\ L[i] \in Nat
             /\ b[i] <= L[n] /\ L[i] <= L[n] /\ L[n] \in Nat
  <2>1. n \in i..n /\ n \in 1..n /\ (i = 1 \/ i \in 2..n)
    BY <1>1
  <2>2. L[i] <= L[n]
    BY <1>7, <2>1, Zenon
  <2> DEFINE x == L[i]
             y == L[n]
             z == b[i]
  <2>3. z \in Nat /\ 1 <= z
    BY <1>8, <1>9, <2>1
  <2>4. x \in Nat /\ y \in Nat /\ z <= x /\ x <= y
    BY <1>8, <2>1, <2>2
  <2> HIDE DEF x, y, z
  <2>5. z \in Nat /\ 1 <= z /\ x \in Nat /\ z <= y /\ x <= y /\ y \in Nat
    BY <2>3, <2>4
  <2> QED BY <2>5 DEF x, y, z
<1>11. ASSUME NEW i \in 1..n
       PROVE  CookieStands(s, cs[i][1], cs[i][2], b[i], L[i])
  <2> DEFINE k == K[i]
             v == V[i]
             e == L[i]
             p == b[i]
             t == list[i]
  <2>1. /\ k \in Nat /\ v \in Nat /\ e \in Nat /\ p \in Nat /\ p = e - (k + v) /\ 1 <= p
        /\ e <= Len(s) /\ Len(s) \in Nat
    BY <1>7, <1>8, <1>10
  <2>2. /\ Len(t) = k + 1 + v /\ \A j \in 1..k : t[j] = cs[i][1][j]
        /\ t[k + 1] = "=" /\ \A j \in 1..v : t[k + 1 + j] = cs[i][2][j]
    BY <1>3
  <2>3. \A j \in 1..Len(t) : s[e - Len(t) + j] = t[j]
    BY <1>7
  <2>4. k = Len(cs[i][1]) /\ v = Len(cs[i][2])
    BY <1>2
  <2> HIDE DEF k, v, e, p, t
  <2>5. \A j \in 1..k : s[p + j - 1] = cs[i][1][j]
    <3> TAKE j \in 1..k
    <3>1. j \in 1..Len(t) /\ e - Len(t) + j = p + j - 1
      BY <2>1, <2>2
    <3> QED BY <2>2, <2>3, <3>1
  <2>6. s[p + k] = "="
    <3>1. k + 1 \in 1..Len(t) /\ e - Len(t) + (k + 1) = p + k
      BY <2>1, <2>2
    <3> QED BY <2>2, <2>3, <3>1
  <2>7. \A j \in 1..v : s[p + k + j] = cs[i][2][j]
    <3> TAKE j \in 1..v
    <3>1. Len(t) = k + 1 + v
      BY <2>2
    <3>2. k + 1 + j \in 1..Len(t) /\ e - Len(t) + (k + 1 + j) = p + k + j
      BY <2>1, <3>1
    <3> QED BY <2>2, <2>3, <3>2
  <2>8. e = Len(s) \/ (e + 2 <= Len(s) /\ s[e + 1] = ";" /\ s[e + 2] = " ")
    <3>1. CASE i = n
      BY <1>7, <3>1 DEF e
    <3>2. CASE i # n
      <4>1. i \in 1..(n - 1) /\ i + 1 \in 2..n /\ (i + 1) - 1 = i /\ i + 1 \in 1..n
        BY <1>1, <3>2
      <4>2. b[i + 1] = e + 3 /\ b[i + 1] <= Len(s)
        BY <1>7, <1>9, <1>10, <4>1 DEF e
      <4>3. s[e + 1] = sep[1] /\ s[e + 2] = sep[2]
        BY <1>7, <1>5, <4>1, Zenon DEF e
      <4>4. e + 2 <= Len(s)
        BY <2>1, <4>2
      <4> QED BY <1>4, <4>3, <4>4
    <3> QED BY <3>1, <3>2
  <2>9. 1 <= p /\ e = p + k + v /\ e <= Len(s)
    BY <2>1
  <2> QED BY <2>4, <2>5, <2>6, <2>7, <2>8, <2>9 DEF CookieStands, p, e
<1>12. PICK h : /\ \A k \in 1..(Len(s) + 3) : h[k] = CookiesAt(s, k, h)
                /\ ParseCookieString(s) = h[1]
  BY <1>7, CookiesAtAre
<1>13. ASSUME NEW i \in 1..n PROVE h[b[i]] = <<cs[i]>> \o h[L[i] + 3]
  <2>1. cs[i][1] \in CookieNames /\ cs[i][2] \in CookieValues /\ cs[i] = <<cs[i][1], cs[i][2]>>
    BY <1>1
  <2>2. b[i] \in 1..(Len(s) + 3)
    BY <1>7, <1>10
  <2>3. b[i] \in Nat /\ L[i] \in Nat /\ s \in Seq(Chars)
    BY <1>7, <1>10
  <2>4. \A from : CookiesAt(s, b[i], from) = << <<cs[i][1], cs[i][2]>> >> \o from[L[i] + 3]
    BY <1>11, <2>1, <2>3, CookieThere
  <2> QED BY <1>12, <2>1, <2>2, <2>4
<1>14. h[L[n] + 3] = <<>>
  <2>1. n \in 1..n /\ Len(s) \in Nat /\ DOMAIN s = 1..Len(s)
    BY <1>1, <1>7, LenProperties
  <2>2. L[n] + 3 = Len(s) + 3 /\ Len(s) + 3 \in 1..(Len(s) + 3)
    BY <1>7, <2>1
  <2>3. EqualsFrom(s, Len(s) + 3) = {}
    BY <2>1 DEF EqualsFrom, Places
  <2>4. CookiesAt(s, Len(s) + 3, h) = <<>>
    BY <2>3 DEF CookiesAt
  <2> QED BY <1>12, <2>2, <2>4
<1> DEFINE Wrong == {d \in Nat : d < n /\ h[b[n - d]] # SubSeq(cs, n - d, n)}
<1>15. Wrong = {}
  <2> SUFFICES ASSUME Wrong # {} PROVE FALSE
    OBVIOUS
  <2> DEFINE d == Min(Wrong)
             i == n - d
  <2>1. d \in Wrong /\ \A j \in Wrong : d <= j
    BY LeastMember
  <2> HIDE DEF d
  <2>2. d \in Nat /\ d < n /\ i \in 1..n /\ h[b[i]] # SubSeq(cs, i, n)
    BY <1>1, <2>1
  <2>3. SubSeq(cs, i, n) = <<cs[i]>> \o SubSeq(cs, i + 1, n)
    <3>1. i \in 1..Len(cs) /\ n \in i..Len(cs)
      BY <1>1, <2>2 DEF n
    <3> HIDE DEF i
    <3> QED BY <3>1, SubSeqRecursiveFirst
  <2>4. h[L[i] + 3] = SubSeq(cs, i + 1, n)
    <3>1. CASE d = 0
      <4>1. i = n /\ n < i + 1 /\ n \in Int /\ i + 1 \in Int
        BY <1>1, <3>1
      <4>2. SubSeq(cs, i + 1, n) = <<>>
        BY <4>1, SubSeqEmpty
      <4> QED BY <1>14, <4>1, <4>2
    <3>2. CASE d # 0
      <4>1. d - 1 \in Nat /\ d - 1 < n /\ ~(d <= d - 1) /\ n - (d - 1) = i + 1 /\ i + 1 \in 2..n
            /\ (i + 1) - 1 = i
        BY <1>1, <2>2, <3>2
      <4>2. h[b[i + 1]] = SubSeq(cs, i + 1, n)
        BY <2>1, <4>1
      <4>3. b[i + 1] = L[i] + 3
        BY <1>9, <4>1
      <4> QED BY <4>2, <4>3
    <3> QED BY <3>1, <3>2
  <2> QED BY <1>13, <2>2, <2>3, <2>4
<1>16. h[1] = cs
  <2>1. n - 1 \in Nat /\ n - 1 < n /\ n - (n - 1) = 1
    BY <1>1
  <2>2. h[b[1]] = SubSeq(cs, 1, n)
    BY <1>15, <2>1
  <2>3. SubSeq(cs, 1, n) = cs
    BY SubSeqFull DEF n
  <2> QED BY <1>9, <2>2, <2>3
<1>17. Joined(cs) = s
  BY DEF Joined, s, list, sep
<1>18. s # <<>> /\ s[1] = cs[1][1][1]
  <2>1. 1 \in 1..n
    BY <1>1
  <2>2. cs[1][1] \in Seq(STRING \ {"="}) /\ cs[1][1] # <<>>
    BY <1>1, <2>1 DEF CookieNames
  <2>3. Len(cs[1][1]) \in Nat /\ Len(cs[1][1]) # 0
    BY <2>2, EmptySeq, LenProperties
  <2>4. /\ K[1] = Len(cs[1][1]) /\ K[1] \in Nat /\ V[1] \in Nat /\ 1 \in 1..K[1]
        /\ Len(list[1]) = K[1] + 1 + V[1]
        /\ \A j \in 1..K[1] : list[1][j] = cs[1][1][j]
    <3>1. K[1] = Len(cs[1][1])
      BY <1>2, <2>1
    <3>2. 1 \in 1..K[1]
      BY <2>3, <3>1
    <3> QED BY <1>3, <2>1, <3>1, <3>2
  <2> HIDE DEF list
  <2>5. list[1][1] = cs[1][1][1]
    BY <2>4
  <2>6. Len(list[1]) \in Nat /\ Len(list[1]) > 0 /\ 1 \in 1..Len(list[1])
    BY <2>4
  <2>7. L[1] - Len(list[1]) + 1 = 1 /\ L[1] <= L[n]
    <3>1. n \in 1..n
      BY <1>1
    <3>2. L[1] <= L[n]
      BY <1>7, <2>1, <3>1
    <3> QED BY <1>7, <2>6, <3>2
  <2>8. s[L[1] - Len(list[1]) + 1] = list[1][1]
    BY <1>7, <2>1, <2>6
  <2>9. Len(s) # 0
    <3>1. L[1] > 0 /\ L[1] \in Nat /\ L[n] \in Nat /\ Len(s) = L[n]
      BY <1>1, <1>7, <1>8, <2>1, <2>6
    <3> QED BY <2>7, <3>1
  <2> QED BY <1>7, <2>5, <2>7, <2>8, <2>9, EmptySeq
<1> QED BY <1>7, <1>12, <1>16, <1>17, <1>18

\* What StrTrimLeft takes from the value of a field is the blank behind the colon
LEMMA TrimmedIs ==
  ASSUME NEW s \in Seq(Chars), s # <<>>, s[1] \notin Blanks
  PROVE  StrTrimLeft(<<" ">> \o s) = s
<1> DEFINE a == <<" ">>
           t == a \o s
           P == {i \in DOMAIN t : t[i] \notin Blanks} \cup {Len(t) + 1}
<1>1. a \in Seq(Chars) /\ Len(a) = 1 /\ a[1] \in Blanks
  <2>1. " " \in Chars /\ " " \in Blanks
    BY DEF Chars, Blanks
  <2>2. ASSUME NEW x \in Chars PROVE <<x>> \in Seq(Chars) /\ Len(<<x>>) = 1 /\ <<x>>[1] = x
    OBVIOUS
  <2> QED BY <2>1, <2>2, Zenon
<1> HIDE DEF a
<1>2. /\ t \in Seq(Chars) /\ Len(s) \in Nat /\ Len(t) = 1 + Len(s)
      /\ \A i \in 1..1 : t[i] = a[i]
      /\ \A i \in 1..Len(s) : t[1 + i] = s[i]
  BY <1>1, ConcatIs
<1> HIDE DEF t
<1>3. Len(s) # 0
  BY EmptySeq
<1>4. DOMAIN t = 1..(1 + Len(s)) /\ t[1] \in Blanks /\ t[2] \notin Blanks
  <2>1. 1 \in 1..1 /\ 1 \in 1..Len(s) /\ 1 + 1 = 2
    BY <1>2, <1>3
  <2>2. t[1] = a[1] /\ t[2] = s[1]
    BY <1>2, <2>1
  <2>3. DOMAIN t = 1..(1 + Len(s))
    BY <1>2, LenProperties
  <2> QED BY <1>1, <2>2, <2>3
<1>5. P \in SUBSET Nat /\ 2 \in P /\ \A i \in P : i \in Nat /\ i >= 2
  <2>1. Len(t) + 1 \in Nat /\ Len(t) + 1 >= 2
    BY <1>2, <1>3
  <2>2. \A i \in DOMAIN t : i \in Nat /\ (i = 1 \/ i >= 2)
    BY <1>2, <1>4
  <2>3. 2 \in DOMAIN t
    BY <1>2, <1>3, <1>4
  <2> QED BY <1>4, <2>1, <2>2, <2>3
<1>6. Min(P) = 2
  <2> HIDE DEF P
  <2>1. Min(P) \in P /\ Min(P) <= 2
    BY <1>5, LeastMember
  <2>2. \A i : i \in P /\ i <= 2 => i = 2
    BY <1>5
  <2> QED BY <2>1, <2>2, Zenon
<1> DEFINE u == SubSeq(t, 2, 1 + Len(s))
<1>7. StrTrimLeft(t) = u
  BY <1>2, <1>6 DEF StrTrimLeft
<1>8. u \in Seq(Chars) /\ Len(u) = Len(s) /\ \A i \in 1..Len(s) : u[i] = t[1 + i]
  <2>1. \A i \in 2..(1 + Len(s)) : t[i] \in Chars
    BY <1>2, <1>4, ElementOfSeq
  <2>2. 2 \in Int /\ 1 + Len(s) \in Int /\ 2 <= 1 + Len(s)
    BY <1>2, <1>3
  <2>3. /\ u \in Seq(Chars)
        /\ Len(u) = IF 2 <= 1 + Len(s) THEN (1 + Len(s)) - 2 + 1 ELSE 0
        /\ \A i \in 1..((1 + Len(s)) - 2 + 1) : u[i] = t[2 + i - 1]
    BY <2>1, <2>2, SubSeqProperties
  <2>4. (1 + Len(s)) - 2 + 1 = Len(s) /\ \A i \in 1..Len(s) : 2 + i - 1 = 1 + i
    BY <1>2
  <2> HIDE DEF u
  <2> QED BY <1>2, <2>2, <2>3, <2>4
<1>9. u = s
  <2> HIDE DEF u
  <2> QED BY <1>2, <1>8, SeqEqual
<1> QED BY <1>7, <1>9 DEF t, a

-----------------------------------------------------------------------------
(***************************************************************************)
(* The request object.                                                     *)
(***************************************************************************)

LEMMA RequestsTyped ==
  ASSUME NEW r \in Requests
  PROVE  /\ r # None /\ r.path # "?" /\ r.path \in Chars
         /\ r.pairs \in Seq(Texts \X Texts) /\ r.form \in Seq(Texts \X Texts)
         /\ r.flag \in Seq(STRING \ {"&", "="})
         /\ r.cookies \in Seq(CookieNames \X CookieValues)
         /\ r.cookies # <<>> => r.cookies[1][1][1] \notin Blanks
BY RequestsAssumption DEF Chars, Texts, CookieNames, CookieValues

\* What is joined is text, and nothing if there are no parts
LEMMA PartsAre ==
  ASSUME NEW parts \in Seq(Seq(Chars))
  PROVE  Parts(parts) \in Seq(Chars) /\ (parts = <<>> => Parts(parts) = <<>>)
<1>1. CASE parts = <<>>
  <2>1. Parts(parts) = <<>>
    BY <1>1, Zenon DEF Parts, Join
  <2> QED BY <2>1, EmptySeq
<1>2. CASE parts # <<>>
  <2> DEFINE sep == <<"&">>
  <2>1. Len(parts) # 0
    BY <1>2, EmptySeq
  <2>2. "&" \in Chars
    BY DEF Chars
  <2>3. sep \in Seq(Chars)
    BY <2>2
  <2> HIDE DEF sep
  <2>4. PICK L : L \in JoinEnds(Chars, parts, sep)
    BY <2>1, <2>3, JoinIs
  <2>5. Join(parts, sep) \in Seq(Chars)
    BY <2>4 DEF JoinEnds
  <2> QED BY <1>2, <2>5 DEF Parts, sep
<1> QED BY <1>1, <1>2

\* The URL of a request, in an object without a query: its parameters, and its path unless
\* there is only a flag
LEMMA UrlIsRead ==
  ASSUME NEW r \in Requests, NEW u, u.query = NoQuery
  PROVE  /\ Set(u, Text(r)).query = Meaning(r.pairs)
         /\ (r.pairs # <<>> \/ r.flag = <<>>) => StringWithQuery(Set(u, Text(r))) = <<r.path>>
<1> DEFINE parts == Encoded(r.pairs) \o (IF r.flag = <<>> THEN <<>> ELSE <<r.flag>>)
           query == Parts(parts)
           text == Text(r)
           path == <<r.path>>
<1>1. /\ r.path # "?" /\ r.path \in Chars
      /\ r.pairs \in Seq(Texts \X Texts) /\ r.flag \in Seq(STRING \ {"&", "="})
  BY RequestsTyped
<1>2. /\ parts \in Seq(Seq(Chars)) /\ StrSplit(query, "&") = parts
      /\ ParsePairs(NoQuery, query) = Meaning(r.pairs)
      /\ parts = <<>> => r.pairs = <<>> /\ r.flag = <<>>
      /\ (Meaning(r.pairs) = NoQuery) <=> (r.pairs = <<>>)
  BY <1>1, QueryIs
<1>3. r.pairs = <<>> /\ r.flag = <<>> => parts = <<>>
  <2> HAVE r.pairs = <<>> /\ r.flag = <<>>
  <2>1. Encoded(r.pairs) \in Seq(Seq(Chars)) /\ Len(Encoded(r.pairs)) = Len(r.pairs)
    BY <1>1, EncodedIs
  <2>2. Encoded(r.pairs) = <<>>
    BY <2>1, EmptySeq
  <2>3. parts = <<>> \o <<>>
    BY <2>2
  <2>4. <<>> \in Seq(Seq(Chars))
    BY EmptySeq
  <2> QED BY <2>3, <2>4, ConcatEmptySeq
<1>4. query \in Seq(Chars) /\ (parts = <<>> => query = <<>>)
  BY <1>2, PartsAre
<1>5. text = path \o (IF query = <<>> THEN <<>> ELSE <<"?">> \o query)
  BY DEF Text
<1> HIDE DEF parts, query, text
<1>6. path \in Seq(Chars) /\ Len(path) = 1 /\ path[1] = r.path
  BY <1>1
<1> HIDE DEF path
<1>7. /\ Set(u, text).text = text
      /\ Set(u, text).query = IF Contains(text, "?") THEN ParsePairs(NoQuery, Behind(text, "?"))
                                                     ELSE NoQuery
  BY DEF Set, ParseQuery
<1>8. CASE query = <<>>
  <2>1. text = path
    BY <1>5, <1>6, <1>8, ConcatEmptySeq
  <2>2. ~Contains(text, "?")
    <3>1. \A i \in 1..Len(path) : path[i] # "?"
      BY <1>1, <1>6
    <3> QED BY <1>6, <2>1, <3>1, NoPlace
  <2>3. parts = <<>>
    BY <1>2, <1>8, SplitNothing
  <2> QED BY <1>2, <1>7, <2>1, <2>2, <2>3 DEF StringWithQuery, path, text
<1>9. CASE query # <<>>
  <2> DEFINE s == <<"?">>
             tail == s \o query
  <2>1. s \in Seq(Chars) /\ Len(s) = 1 /\ s[1] = "?"
    <3>1. "?" \in Chars
      BY DEF Chars
    <3> QED BY <3>1
  <2>2. text = path \o tail
    BY <1>5, <1>9
  <2> HIDE DEF s
  <2>3. ASSUME NEW x \in Seq(Chars), NEW y \in Seq(Chars)
        PROVE  /\ x \o y \in Seq(Chars) /\ Len(x) \in Nat /\ Len(y) \in Nat
               /\ Len(x \o y) = Len(x) + Len(y)
               /\ \A i \in 1..Len(x) : (x \o y)[i] = x[i]
               /\ \A i \in 1..Len(y) : (x \o y)[Len(x) + i] = y[i]
    BY ConcatIs
  <2>4. /\ tail \in Seq(Chars) /\ Len(query) \in Nat
        /\ Len(tail) = Len(s) + Len(query)
        /\ \A i \in 1..Len(s) : tail[i] = s[i]
        /\ \A i \in 1..Len(query) : tail[Len(s) + i] = query[i]
    BY <1>4, <2>1, <2>3, Zenon
  <2> HIDE DEF tail
  <2>5. /\ text \in Seq(Chars)
        /\ Len(text) = Len(path) + Len(tail)
        /\ \A i \in 1..Len(path) : text[i] = path[i]
        /\ \A i \in 1..Len(tail) : text[Len(path) + i] = tail[i]
    BY <1>6, <2>2, <2>3, <2>4, Zenon
  <2>6. Len(tail) = 1 + Len(query) /\ Len(text) = 2 + Len(query)
    BY <1>6, <2>1, <2>4, <2>5
  <2>7. text[1] = r.path
    BY <1>6, <2>5
  <2>8. text[2] = "?"
    <3>1. 1 \in 1..Len(tail) /\ 1 \in 1..Len(s) /\ Len(path) + 1 = 2
      BY <1>6, <2>1, <2>4, <2>6
    <3>2. text[Len(path) + 1] = tail[1] /\ tail[1] = s[1]
      BY <2>4, <2>5, <3>1, Zenon
    <3> QED BY <2>1, <3>1, <3>2
  <2>9. \A i \in 1..Len(query) : text[2 + i] = query[i]
    <3> TAKE i \in 1..Len(query)
    <3>1. 1 + i \in 1..Len(tail) /\ Len(path) + (1 + i) = 2 + i /\ Len(s) + i = 1 + i
      BY <1>6, <2>1, <2>4, <2>6
    <3>2. text[Len(path) + (1 + i)] = tail[1 + i]
      BY <2>5, <3>1, Zenon
    <3>3. tail[Len(s) + i] = query[i]
      BY <2>4, Zenon
    <3> QED BY <3>1, <3>2, <3>3
  <2>10. /\ Before(text, "?") = SubSeq(text, 1, 2 - 1)
         /\ Behind(text, "?") = SubSeq(text, 2 + 1, Len(text)) /\ Contains(text, "?")
    <3>1. 2 \in 1..Len(text) /\ \A i \in 1..(2 - 1) : text[i] # "?"
      BY <1>1, <2>4, <2>6, <2>7
    <3> QED BY <2>5, <2>8, <3>1, FirstPlace
  <2>11. Behind(text, "?") = query
    <3>1. /\ Len(text) = 3 + Len(query) - 1 /\ 3 \in Nat /\ Len(text) \in Nat /\ 1 <= 3
          /\ Len(text) <= Len(text) /\ 2 + 1 = 3
      BY <2>4, <2>6
    <3>2. \A j \in 1..Len(query) : text[3 + j - 1] = query[j]
      <4> TAKE j \in 1..Len(query)
      <4>1. 3 + j - 1 = 2 + j
        OBVIOUS
      <4> QED BY <2>9, <4>1
    <3>3. SubSeq(text, 3, Len(text)) = query
      BY <1>4, <2>5, <3>1, <3>2, PieceIs
    <3> QED BY <2>10, <3>1, <3>3
  <2>12. Before(text, "?") = path
    <3>1. /\ 1 = 1 + Len(path) - 1 /\ 1 \in Nat /\ 1 <= 1 /\ 1 <= Len(text) /\ 2 - 1 = 1
      BY <1>6, <2>4, <2>6
    <3>2. \A j \in 1..Len(path) : text[1 + j - 1] = path[j]
      <4> TAKE j \in 1..Len(path)
      <4>1. 1 + j - 1 = j
        OBVIOUS
      <4> QED BY <2>5, <4>1
    <3>3. SubSeq(text, 1, 1) = path
      BY <1>6, <2>5, <3>1, <3>2, PieceIs
    <3> QED BY <2>10, <3>1, <3>3
  <2>13. Set(u, text).query = Meaning(r.pairs)
    BY <1>2, <1>7, <2>10, <2>11
  <2>14. ASSUME r.pairs # <<>> \/ r.flag = <<>> PROVE StringWithQuery(Set(u, text)) = path
    <3>1. r.pairs # <<>>
      BY <1>3, <1>4, <1>9, <2>14
    <3>2. Set(u, text).query # NoQuery
      BY <1>2, <2>13, <3>1
    <3> QED BY <1>7, <2>12, <3>2 DEF StringWithQuery
  <2> QED BY <2>13, <2>14 DEF text, path
<1> QED BY <1>8, <1>9

\* A form is read as what its pairs mean
LEMMA FormIsRead ==
  ASSUME NEW pairs \in Seq(Texts \X Texts)
  PROVE  ParsePairs(NoQuery, Parts(Encoded(pairs))) = Meaning(pairs)
<1> DEFINE none == <<>>
<1>1. none \in Seq(STRING \ {"&", "="})
  BY EmptySeq
<1>2. ParsePairs(NoQuery, Parts(Encoded(pairs) \o (IF none = <<>> THEN <<>> ELSE <<none>>)))
        = Meaning(pairs)
  <2> HIDE DEF none
  <2> QED BY <1>1, QueryIs
<1>3. Encoded(pairs) \in Seq(Seq(Chars))
  BY EncodedIs
<1>4. Encoded(pairs) \o <<>> = Encoded(pairs)
  BY <1>3, ConcatEmptySeq
<1> QED BY <1>2, <1>4

\* The request object: empty between requests, and filled stage by stage
ReadInv ==
  /\ stage \in {"line", "header", "handled"}
  /\ asked \notin Requests => /\ asked = None /\ stage = "line"
                              /\ url.query = NoQuery /\ cookies = <<>> /\ form = NoQuery
  /\ asked \in Requests =>
       /\ url.query = Meaning(asked.pairs)
       /\ (asked.pairs # <<>> \/ asked.flag = <<>>) => StringWithQuery(url) = <<asked.path>>
       /\ cookies = IF stage = "line" THEN <<>> ELSE asked.cookies
       /\ form = IF stage = "handled" THEN Meaning(asked.form) ELSE NoQuery

LEMMA InitRead == Init => ReadInv
<1> SUFFICES ASSUME Init PROVE ReadInv
  OBVIOUS
<1>1. asked = None /\ stage = "line" /\ url = NewUrl(<<Root>>) /\ cookies = <<>> /\ form = NoQuery
  BY DEF Init
<1>2. asked \notin Requests
  BY <1>1, RequestsAssumption
<1>3. ~Contains(<<Root>>, "?")
  <2> DEFINE S == {Root}
             s == <<Root>>
  <2>1. s \in Seq(S) /\ \A i \in 1..Len(s) : s[i] # "?"
    BY RequestsAssumption
  <2> HIDE DEF S, s
  <2>2. ~Contains(s, "?")
    BY <2>1, NoPlace
  <2> QED BY <2>2 DEF s
<1>4. url.query = NoQuery
  BY <1>1, <1>3 DEF NewUrl, ParseQuery
<1> QED BY <1>1, <1>2, <1>4 DEF ReadInv

LEMMA NextRead == ReadInv /\ [Next]_vars => ReadInv'
<1> SUFFICES ASSUME ReadInv, [Next]_vars PROVE ReadInv'
  OBVIOUS
<1>1. None \notin Requests
  BY RequestsAssumption
<1>2. CASE RegisterRoute \/ UNCHANGED vars
  BY <1>2 DEF RegisterRoute, vars, requestVars, ReadInv
<1>3. ASSUME NEW r \in Requests, SetURL(r) PROVE ReadInv'
  <2>1. /\ asked = None /\ asked' = r /\ url' = Set(url, Text(r))
        /\ stage' = stage /\ cookies' = cookies /\ form' = form
    BY <1>3 DEF SetURL
  <2>2. asked \notin Requests
    BY <1>1, <2>1
  <2>3. url.query = NoQuery /\ stage = "line" /\ cookies = <<>> /\ form = NoQuery
    BY <2>2 DEF ReadInv
  <2>4. /\ url'.query = Meaning(r.pairs)
        /\ (r.pairs # <<>> \/ r.flag = <<>>) => StringWithQuery(url)' = <<r.path>>
    <3>1. StringWithQuery(url)' = StringWithQuery(Set(url, Text(r)))
      BY <2>1 DEF StringWithQuery
    <3> QED BY <2>1, <2>3, <3>1, UrlIsRead
  <2> QED BY <2>1, <2>3, <2>4 DEF ReadInv
<1>4. CASE ParseCookies
  <2>1. /\ asked # None /\ stage = "line" /\ stage' = "header"
        /\ cookies' = IF asked.cookies = <<>> THEN cookies
                      ELSE cookies \o ParseCookieString(StrTrimLeft(CookieField(asked)))
        /\ asked' = asked /\ url' = url /\ form' = form
    BY <1>4 DEF ParseCookies
  <2>2. asked \in Requests /\ cookies = <<>>
    BY <2>1 DEF ReadInv
  <2>3. cookies' = asked.cookies
    <3>1. CASE asked.cookies = <<>>
      BY <2>1, <2>2, <3>1
    <3>2. CASE asked.cookies # <<>>
      <4>1. asked.cookies \in Seq(CookieNames \X CookieValues)
        BY <2>2, RequestsTyped
      <4>2. ParseCookieString(StrTrimLeft(CookieField(asked))) = asked.cookies
        <5> DEFINE s == Joined(asked.cookies)
        <5>1. /\ ParseCookieString(s) = asked.cookies
              /\ s \in Seq(Chars) /\ s # <<>> /\ s[1] = asked.cookies[1][1][1]
          BY <3>2, <4>1, CookiesRead
        <5>2. s[1] \notin Blanks
          BY <2>2, <3>2, <5>1, RequestsTyped
        <5> HIDE DEF s
        <5>3. StrTrimLeft(<<" ">> \o s) = s
          BY <5>1, <5>2, TrimmedIs
        <5> QED BY <5>1, <5>3 DEF CookieField, s
      <4>3. <<>> \o asked.cookies = asked.cookies
        BY <4>1, ConcatEmptySeq
      <4> QED BY <2>1, <2>2, <3>2, <4>2, <4>3
    <3> QED BY <3>1, <3>2
  <2> QED BY <2>1, <2>2, <2>3 DEF ReadInv, StringWithQuery
<1>5. CASE ParseForm
  <2>1. /\ stage = "header" /\ stage' = "handled"
        /\ form' = ParsePairs(form, Parts(Encoded(asked.form)))
        /\ asked' = asked /\ url' = url /\ cookies' = cookies
    BY <1>5 DEF ParseForm
  <2>2. asked \in Requests /\ form = NoQuery
    BY <2>1 DEF ReadInv
  <2>3. form' = Meaning(asked.form)
    <3>1. asked.form \in Seq(Texts \X Texts)
      BY <2>2, RequestsTyped
    <3> QED BY <2>1, <2>2, <3>1, FormIsRead
  <2> QED BY <2>1, <2>2, <2>3 DEF ReadInv, StringWithQuery
<1>6. CASE Reset
  <2>1. /\ asked' = None /\ stage' = "line" /\ url' = ResetUrl
        /\ cookies' = <<>> /\ form' = NoQuery
    BY <1>6 DEF Reset
  <2> QED BY <1>1, <2>1 DEF ReadInv, ResetUrl
<1> QED BY <1>2, <1>3, <1>4, <1>5, <1>6 DEF Next

\* The handler gets the parameters, the cookies and the form of its own request, whatever
\* characters they have, and the request is routed by its path unless it has only a flag
\* (URL, Query::ParseString, ParseCookieString, HTTPRequest::Reset).
THEOREM RequestsRead == Spec => []RequestIsRead
<1>1. ReadInv => RequestIsRead
  BY DEF ReadInv, RequestIsRead
<1> QED BY <1>1, InitRead, NextRead, PTL DEF Spec
=============================================================================
