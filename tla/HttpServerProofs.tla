-------------------------- MODULE HttpServerProofs --------------------------
(***************************************************************************)
(* Proofs about the HTTP server: about HttpConn, for any messages that     *)
(* clients may send and any pieces in which they arrive, and about         *)
(* FileCache, for any connections, files and descriptors.                  *)
(*                                                                         *)
(* HttpConn.  A stream is the concatenation of its messages and a message  *)
(* that of its lines; so the read buffer is always a piece of the message  *)
(* whose turn it is, from where the parser stands to what has arrived, and *)
(* the state and the request say what is before that piece (ReadTo).  The  *)
(* lemmas on ReadLine, ReadBlank and ReadBody say what the parser finds at *)
(* the beginning of such a piece.  They hold because the client waits:     *)
(* nothing of the next message arrives before the response is sent.        *)
(*                                                                         *)
(* FileCache.  CacheInv is inductive by itself.                            *)
(***************************************************************************)
EXTENDS HttpConn, FileCache, SequenceTheorems, WellFoundedInduction, TLAPS

-----------------------------------------------------------------------------
(***************************************************************************)
(* Sequences of sequences.                                                 *)
(***************************************************************************)

\* What Min is, where there is one
LEMMA LeastMember ==
  ASSUME NEW S \in SUBSET Nat, S # {}
  PROVE  Min(S) \in S /\ \A j \in S : Min(S) <= j
<1>1. \E i \in S : \A j \in S : ~(j < i)
  <2>1. \E i \in S : \A j \in S : ~(<<j, i>> \in OpToRel(<, Nat))
    BY NatLessThanWellFounded, WFMin, Zenon
  <2> QED BY <2>1, Zenon DEF OpToRel
<1>2. \E i \in S : \A j \in S : i <= j
  BY <1>1
<1> QED BY <1>2 DEF Min

\* The concatenations of the first 0, 1, .. n of the sequences in s
Sums(S, s, n) == {g \in [0..n -> Seq(S)] : g[0] = <<>> /\ \A i \in 1..n : g[i] = g[i - 1] \o s[i]}

LEMMA SumsExist ==
  ASSUME NEW S, NEW s \in Seq(Seq(S)), NEW n \in 0..Len(s)
  PROVE  \E g : g \in Sums(S, s, n)
<1>0. Len(s) \in Nat /\ \A i \in 1..Len(s) : s[i] \in Seq(S)
  BY LenProperties, ElementOfSeq
<1> DEFINE Wrong == {k \in Nat : k <= Len(s) /\ ~\E g : g \in Sums(S, s, k)}
<1> SUFFICES ASSUME Wrong # {} PROVE FALSE
  BY <1>0
<1> DEFINE m == Min(Wrong)
<1>1. m \in Wrong /\ \A j \in Wrong : m <= j
  BY LeastMember
<1>2. m \in Nat /\ m <= Len(s) /\ ~\E g : g \in Sums(S, s, m)
  BY <1>1
<1> HIDE DEF m
<1>3. m # 0
  <2>1. [i \in 0..0 |-> <<>>] \in Sums(S, s, 0)
    BY EmptySeq DEF Sums
  <2> QED BY <1>2, <2>1
<1>4. PICK g : g \in Sums(S, s, m - 1)
  <2>1. m - 1 \in Nat /\ m - 1 <= Len(s) /\ ~(m <= m - 1)
    BY <1>0, <1>2, <1>3
  <2>2. m - 1 \notin Wrong
    BY <1>1, <2>1
  <2> QED BY <2>1, <2>2, Zenon
<1> DEFINE h == [i \in 0..m |-> IF i = m THEN g[m - 1] \o s[m] ELSE g[i]]
<1>5. /\ g \in [0..(m - 1) -> Seq(S)] /\ g[0] = <<>>
      /\ \A i \in 1..(m - 1) : g[i] = g[i - 1] \o s[i]
  BY <1>4 DEF Sums
<1>6. g[m - 1] \o s[m] \in Seq(S)
  <2>1. g[m - 1] \in Seq(S) /\ s[m] \in Seq(S)
    BY <1>0, <1>2, <1>3, <1>5
  <2> QED BY <2>1, ConcatProperties
<1>7. h \in [0..m -> Seq(S)] /\ h[0] = <<>>
  BY <1>2, <1>3, <1>5, <1>6
<1>8. \A i \in 1..m : h[i] = h[i - 1] \o s[i]
  <2> TAKE i \in 1..m
  <2>1. i \in 0..m /\ i - 1 \in 0..m /\ i - 1 # m
    BY <1>2
  <2>2. h[i - 1] = g[i - 1]
    BY <2>1, Zenon
  <2>3. CASE i = m
    <3>1. h[i] = g[m - 1] \o s[m]
      BY <2>1, <2>3, Zenon
    <3> QED BY <2>2, <2>3, <3>1, Zenon
  <2>4. CASE i # m
    <3>1. h[i] = g[i]
      BY <2>1, <2>4, Zenon
    <3>2. i \in 1..(m - 1)
      BY <1>2, <2>4
    <3> QED BY <1>5, <2>2, <3>1, <3>2, Zenon
  <2> QED BY <2>3, <2>4
<1>9. h \in Sums(S, s, m)
  BY <1>7, <1>8, Zenon DEF Sums
<1> QED BY <1>2, <1>9

\* FlattenSeq adds up what is in a sequence
LEMMA FlattenIsSum ==
  ASSUME NEW S, NEW s \in Seq(Seq(S)), NEW g \in Sums(S, s, Len(s))
  PROVE  FlattenSeq(s) = g[Len(s)]
<1>0. Len(s) \in Nat /\ \A i \in 1..Len(s) : s[i] \in Seq(S)
  BY LenProperties, ElementOfSeq
<1>1. CASE Len(s) = 0
  <2>1. s = <<>>
    BY <1>1, EmptySeq, SeqEqual
  <2> QED BY <1>1, <2>1 DEF FlattenSeq, Sums
<1>2. CASE Len(s) # 0
  <2> DEFINE n == Len(s)
             Step(f) == [i \in 1..n |-> IF i = 1 THEN s[i] ELSE f[i - 1] \o s[i]]
             f == CHOOSE f : f = Step(f)
             e == [i \in 1..n |-> g[i]]
  <2>1. /\ g \in [0..n -> Seq(S)] /\ g[0] = <<>>
        /\ \A i \in 1..n : g[i] = g[i - 1] \o s[i]
    BY DEF Sums
  <2>2. g[1] = s[1]
    <3>1. 1 \in 1..n /\ 1 - 1 = 0
      BY <1>0, <1>2
    <3>2. g[1] = g[1 - 1] \o s[1]
      BY <2>1, <3>1, Zenon
    <3>3. g[1] = <<>> \o s[1]
      BY <2>1, <3>1, <3>2, Zenon
    <3> QED BY <1>0, <3>1, <3>3, ConcatEmptySeq
  <2>3. e = Step(e)
    <3> SUFFICES ASSUME NEW i \in 1..n
                 PROVE  e[i] = IF i = 1 THEN s[i] ELSE e[i - 1] \o s[i]
      OBVIOUS
    <3>1. e[i] = g[i]
      BY Zenon
    <3>2. CASE i = 1
      BY <2>2, <3>1, <3>2
    <3>3. CASE i # 1
      <4>1. i - 1 \in 1..n
        BY <1>0, <3>3
      <4>2. e[i - 1] = g[i - 1]
        BY <4>1, Zenon
      <4> QED BY <2>1, <3>1, <3>3, <4>2, Zenon
    <3> QED BY <3>2, <3>3
  <2>4. f = Step(f)
    <3> HIDE DEF Step, e
    <3> QED BY <2>3, Zenon
  <2>5. \A i \in 1..n : f[i] = IF i = 1 THEN s[i] ELSE f[i - 1] \o s[i]
    <3> HIDE DEF f
    <3> QED BY <2>4, <1>0
  <2> HIDE DEF f
  <2>6. \A i \in 1..n : f[i] = g[i]
    <3> DEFINE Wrong == {k \in Nat : k \in 1..n /\ f[k] # g[k]}
    <3> SUFFICES ASSUME Wrong # {} PROVE FALSE
      BY <1>0
    <3> DEFINE m == Min(Wrong)
    <3>1. m \in Wrong /\ \A j \in Wrong : m <= j
      BY LeastMember
    <3> HIDE DEF m
    <3>2. m \in 1..n /\ f[m] # g[m]
      BY <3>1
    <3>3. m # 1
      BY <2>2, <2>5, <3>2
    <3>4. m - 1 \in 1..n
      BY <1>0, <3>2, <3>3
    <3>5. f[m - 1] = g[m - 1]
      <4>1. m - 1 \notin Wrong
        BY <1>0, <3>1, <3>2
      <4> QED BY <1>0, <3>4, <4>1
    <3> QED BY <1>0, <2>1, <2>5, <3>2, <3>3, <3>5
  <2>7. FlattenSeq(s) = f[n]
    BY <1>2, Zenon DEF FlattenSeq, f
  <2> QED BY <1>0, <1>2, <2>6, <2>7
<1> QED BY <1>1, <1>2

\* The sums of the first k sequences are the first k sums
LEMMA FlattenFirst ==
  ASSUME NEW S, NEW s \in Seq(Seq(S)), NEW g \in Sums(S, s, Len(s)), NEW k \in 0..Len(s)
  PROVE  FlattenSeq(SubSeq(s, 1, k)) = g[k]
<1>0. Len(s) \in Nat /\ k \in Nat /\ k <= Len(s) /\ \A i \in 1..Len(s) : s[i] \in Seq(S)
  BY LenProperties, ElementOfSeq
<1> DEFINE t == SubSeq(s, 1, k)
           h == [i \in 0..k |-> g[i]]
<1>1. t \in Seq(Seq(S)) /\ Len(t) = k /\ \A i \in 1..k : t[i] = s[i]
  <2>1. \A i \in 1..k : s[i] \in Seq(S)
    BY <1>0
  <2> QED BY <1>0, <2>1, SubSeqProperties
<1> HIDE DEF t
<1>2. /\ g \in [0..Len(s) -> Seq(S)] /\ g[0] = <<>>
      /\ \A i \in 1..Len(s) : g[i] = g[i - 1] \o s[i]
  BY DEF Sums
<1>3. h \in Sums(S, t, Len(t))
  <2>1. h \in [0..k -> Seq(S)] /\ h[0] = <<>>
    BY <1>0, <1>2
  <2>2. \A i \in 1..k : h[i] = h[i - 1] \o t[i]
    <3> TAKE i \in 1..k
    <3>1. i \in 0..k /\ i - 1 \in 0..k /\ i \in 1..Len(s)
      BY <1>0
    <3>2. h[i] = g[i] /\ h[i - 1] = g[i - 1]
      BY <3>1, Zenon
    <3> QED BY <1>1, <1>2, <3>1, <3>2, Zenon
  <2> QED BY <1>1, <2>1, <2>2, Zenon DEF Sums
<1>4. FlattenSeq(t) = h[Len(t)]
  BY <1>1, <1>3, FlattenIsSum
<1>5. h[k] = g[k]
  BY <1>0
<1> QED BY <1>1, <1>4, <1>5 DEF t

\* A concatenation has the elements of the first sequence and then those of the second
LEMMA ConcatIs ==
  ASSUME NEW S, NEW a \in Seq(S), NEW b \in Seq(S)
  PROVE  /\ a \o b \in Seq(S) /\ Len(a) \in Nat /\ Len(b) \in Nat
         /\ Len(a \o b) = Len(a) + Len(b)
         /\ \A i \in 1..Len(a) : (a \o b)[i] = a[i]
         /\ \A i \in 1..Len(b) : (a \o b)[Len(a) + i] = b[i]
<1>1. Len(a) \in Nat /\ Len(b) \in Nat
  BY LenProperties
<1>2. /\ a \o b \in Seq(S) /\ Len(a \o b) = Len(a) + Len(b)
      /\ \A i \in 1..(Len(a) + Len(b)) : (a \o b)[i] = IF i <= Len(a) THEN a[i]
                                                                     ELSE b[i - Len(a)]
  BY ConcatProperties
<1> DEFINE c == a \o b
<1> HIDE DEF c
<1>3. \A i \in 1..Len(a) : c[i] = a[i]
  BY <1>1, <1>2 DEF c
<1>4. \A i \in 1..Len(b) : c[Len(a) + i] = b[i]
  <2> TAKE i \in 1..Len(b)
  <2>1. /\ Len(a) + i \in 1..(Len(a) + Len(b)) /\ ~(Len(a) + i <= Len(a))
        /\ (Len(a) + i) - Len(a) = i
    BY <1>1
  <2> QED BY <1>2, <2>1 DEF c
<1> QED BY <1>1, <1>2, <1>3, <1>4 DEF c

\* What was there stays in front
LEMMA SumsGrow ==
  ASSUME NEW S, NEW s \in Seq(Seq(S)), NEW n \in 0..Len(s), NEW g \in Sums(S, s, n),
         NEW k \in 0..n
  PROVE  \A j \in k..n : Len(g[k]) <= Len(g[j]) /\ \A i \in 1..Len(g[k]) : g[j][i] = g[k][i]
<1>0. /\ Len(s) \in Nat /\ n \in Nat /\ n <= Len(s) /\ k \in Nat /\ k <= n
  BY LenProperties
<1>00. \A j \in 0..n : g[j] \in Seq(S) /\ Len(g[j]) \in Nat
  BY LenProperties DEF Sums
<1> DEFINE In(j) == Len(g[k]) <= Len(g[j]) /\ \A i \in 1..Len(g[k]) : g[j][i] = g[k][i]
           Wrong == {j \in Nat : j \in k..n /\ ~In(j)}
<1> SUFFICES ASSUME Wrong # {} PROVE FALSE
  <2>1. \A j \in k..n : j \in Nat
    BY <1>0
  <2> QED BY <2>1, Zenon
<1> DEFINE m == Min(Wrong)
<1>1. m \in Wrong /\ \A j \in Wrong : m <= j
  BY LeastMember
<1> HIDE DEF m
<1>2. m \in k..n /\ ~In(m)
  BY <1>1
<1>3. m # k
  <2>1. In(k)
    BY <1>0, <1>00
  <2> HIDE DEF In
  <2> QED BY <1>2, <2>1
<1>4. m - 1 \in k..n /\ m \in 1..n /\ ~(m <= m - 1) /\ m - 1 \in Nat
  BY <1>0, <1>2, <1>3
<1>5. In(m - 1)
  <2> HIDE DEF In
  <2>1. m - 1 \notin Wrong
    BY <1>1, <1>4
  <2> QED BY <1>4, <2>1
<1> DEFINE a == g[m - 1]
           b == s[m]
           c == g[k]
<1>6. a \in Seq(S) /\ b \in Seq(S) /\ g[m] = a \o b /\ Len(c) \in Nat
  <2>1. m \in 1..Len(s) /\ m - 1 \in 0..n
    BY <1>0, <1>4
  <2>2. b \in Seq(S)
    BY <2>1, ElementOfSeq
  <2> QED BY <1>0, <1>00, <1>4, <2>1, <2>2 DEF Sums
<1>7. Len(c) <= Len(a) /\ \A i \in 1..Len(c) : a[i] = c[i]
  BY <1>5
<1> HIDE DEF In, Wrong, a, b, c
<1>8. /\ Len(a) \in Nat /\ Len(b) \in Nat /\ Len(a \o b) = Len(a) + Len(b)
      /\ \A i \in 1..Len(a) : (a \o b)[i] = a[i]
  BY <1>6, ConcatIs
<1>9. Len(c) <= Len(g[m])
  BY <1>6, <1>7, <1>8
<1>10. \A i \in 1..Len(c) : g[m][i] = c[i]
  <2> TAKE i \in 1..Len(c)
  <2>1. i \in 1..Len(a)
    BY <1>6, <1>7, <1>8
  <2> QED BY <1>6, <1>7, <1>8, <2>1
<1>11. In(m)
  BY <1>9, <1>10 DEF In, c
<1> QED BY <1>2, <1>11

-----------------------------------------------------------------------------
(***************************************************************************)
(* The stream.                                                             *)
(***************************************************************************)

Tokens == Methods \cup HeaderLines \cup {"bad", "text", "cr", "lf", "byte"}

\* A line and the end of it
LEMMA LineIs ==
  ASSUME NEW t \in Tokens
  PROVE  /\ <<t>> \o CRLF \in Seq(Tokens) /\ Len(<<t>> \o CRLF) = 3
         /\ (<<t>> \o CRLF)[1] = t /\ (<<t>> \o CRLF)[2] = "cr" /\ (<<t>> \o CRLF)[3] = "lf"
<1>1. "cr" \in Tokens /\ "lf" \in Tokens
  BY DEF Tokens
<1>2. <<t>> \in Seq(Tokens) /\ Len(<<t>>) = 1 /\ <<t>>[1] = t
  OBVIOUS
<1>3. CRLF \in Seq(Tokens) /\ Len(CRLF) = 2 /\ CRLF[1] = "cr" /\ CRLF[2] = "lf"
  BY <1>1 DEF CRLF
<1> DEFINE a == <<t>>
           b == CRLF
<1> HIDE DEF a, b
<1>4. /\ a \o b \in Seq(Tokens) /\ Len(a \o b) = Len(a) + Len(b)
      /\ \A i \in 1..Len(a) : (a \o b)[i] = a[i]
      /\ \A i \in 1..Len(b) : (a \o b)[Len(a) + i] = b[i]
  BY <1>2, <1>3, ConcatIs DEF a, b
<1>5. Len(a) = 1 /\ Len(b) = 2 /\ a[1] = t /\ b[1] = "cr" /\ b[2] = "lf"
  BY <1>2, <1>3 DEF a, b
<1>6. /\ Len(a \o b) = 3 /\ (a \o b)[1] = t
      /\ (a \o b)[2] = "cr" /\ (a \o b)[3] = "lf"
  <2>1. 1 + 1 = 2 /\ 1 + 2 = 3 /\ 1 \in 1..1 /\ 1 \in 1..2 /\ 2 \in 1..2
    OBVIOUS
  <2>2. (a \o b)[1] = a[1] /\ (a \o b)[1 + 1] = b[1] /\ (a \o b)[1 + 2] = b[2]
    BY <1>4, <1>5, <2>1, Zenon
  <2> QED BY <1>4, <1>5, <2>1, <2>2
<1> QED BY <1>4, <1>6 DEF a, b

\* The lines of a header, one after the other
LEMMA LinesAre ==
  ASSUME NEW h \in Seq(Tokens)
  PROVE  LET f == FlattenSeq([i \in DOMAIN h |-> <<h[i]>> \o CRLF])
         IN  /\ f \in Seq(Tokens) /\ Len(f) = 3 * Len(h)
             /\ \A j \in 1..Len(h) : f[3 * j - 2] = h[j] /\ f[3 * j - 1] = "cr" /\ f[3 * j] = "lf"
<1> DEFINE s == [i \in DOMAIN h |-> <<h[i]>> \o CRLF]
           n == Len(h)
<1>1. n \in Nat /\ \A i \in 1..n : h[i] \in Tokens
  BY LenProperties, ElementOfSeq
<1>2. \A i \in 1..n : /\ s[i] \in Seq(Tokens) /\ Len(s[i]) = 3
                      /\ s[i][1] = h[i] /\ s[i][2] = "cr" /\ s[i][3] = "lf"
  <2> TAKE i \in 1..n
  <2>1. s[i] = <<h[i]>> \o CRLF
    OBVIOUS
  <2> HIDE DEF s
  <2> QED BY <1>1, <2>1, LineIs
<1>3. s \in Seq(Seq(Tokens)) /\ Len(s) = n
  <2>1. s = [i \in 1..n |-> s[i]]
    OBVIOUS
  <2> HIDE DEF s
  <2> QED BY <1>1, <1>2, <2>1
<1> HIDE DEF s
<1>4. PICK g : g \in Sums(Tokens, s, Len(s))
  <2>1. n \in 0..n
    BY <1>1
  <2> QED BY <1>3, <2>1, SumsExist
<1>5. FlattenSeq(s) = g[n]
  BY <1>3, <1>4, FlattenIsSum
<1>6. /\ g \in [0..n -> Seq(Tokens)] /\ g[0] = <<>>
      /\ \A i \in 1..n : g[i] = g[i - 1] \o s[i]
  BY <1>3, <1>4 DEF Sums
<1> DEFINE Good(f, k) ==
             /\ Len(f) = 3 * k
             /\ \A j \in 1..k : f[3 * j - 2] = h[j] /\ f[3 * j - 1] = "cr" /\ f[3 * j] = "lf"
<1>7. Good(g[0], 0)
  BY <1>6
<1>8. ASSUME NEW k \in 1..n, Good(g[k - 1], k - 1) PROVE Good(g[k], k)
  <2> DEFINE a == g[k - 1]
             b == s[k]
             c == a \o b
  <2>1. a \in Seq(Tokens) /\ b \in Seq(Tokens) /\ g[k] = c
    <3>1. k - 1 \in 0..n /\ k \in 0..n
      BY <1>1
    <3> QED BY <1>2, <1>6, <3>1
  <2>2. Len(b) = 3 /\ b[1] = h[k] /\ b[2] = "cr" /\ b[3] = "lf"
    BY <1>2
  <2>3. Good(a, k - 1)
    BY <1>8
  <2> HIDE DEF a, b, c
  <2>4. /\ Len(c) = Len(a) + Len(b)
        /\ \A i \in 1..Len(a) : c[i] = a[i]
        /\ \A i \in 1..Len(b) : c[Len(a) + i] = b[i]
    BY <2>1, ConcatIs DEF c
  <2>5. Len(a) = 3 * k - 3 /\ Len(c) = 3 * k
    BY <1>1, <2>2, <2>3, <2>4
  <2>6. c[3 * k - 2] = h[k] /\ c[3 * k - 1] = "cr" /\ c[3 * k] = "lf"
    <3>1. (3 * k - 3) + 1 = 3 * k - 2 /\ (3 * k - 3) + 2 = 3 * k - 1 /\ (3 * k - 3) + 3 = 3 * k
      BY <1>1
    <3>2. 1 \in 1..3 /\ 2 \in 1..3 /\ 3 \in 1..3
      OBVIOUS
    <3>3. \A i \in 1..3 : c[(3 * k - 3) + i] = b[i]
      BY <2>2, <2>4, <2>5
    <3>4. c[(3 * k - 3) + 1] = b[1] /\ c[(3 * k - 3) + 2] = b[2] /\ c[(3 * k - 3) + 3] = b[3]
      BY <3>2, <3>3, Zenon
    <3> QED BY <2>2, <3>1, <3>4
  <2>7. \A j \in 1..(k - 1) : c[3 * j - 2] = h[j] /\ c[3 * j - 1] = "cr" /\ c[3 * j] = "lf"
    <3> TAKE j \in 1..(k - 1)
    <3>1. /\ 3 * j - 2 \in 1..(3 * k - 3) /\ 3 * j - 1 \in 1..(3 * k - 3)
          /\ 3 * j \in 1..(3 * k - 3)
      BY <1>1
    <3>2. c[3 * j - 2] = a[3 * j - 2] /\ c[3 * j - 1] = a[3 * j - 1] /\ c[3 * j] = a[3 * j]
      BY <2>4, <2>5, <3>1, Zenon
    <3> QED BY <2>3, <3>2, Zenon
  <2>8. \A j \in 1..k : j = k \/ j \in 1..(k - 1)
    BY <1>1
  <2>9. Good(c, k)
    BY <2>5, <2>6, <2>7, <2>8
  <2> QED BY <2>1, <2>9
<1> HIDE DEF Good
<1>9. Good(g[n], n)
  <2> DEFINE Wrong == {k \in Nat : k \in 0..n /\ ~Good(g[k], k)}
  <2> SUFFICES ASSUME Wrong # {} PROVE FALSE
    <3>1. n \in Nat /\ n \in 0..n
      BY <1>1
    <3> QED BY <3>1, Zenon
  <2> DEFINE m == Min(Wrong)
  <2>1. m \in Wrong /\ \A j \in Wrong : m <= j
    BY LeastMember
  <2> HIDE DEF m
  <2>2. m \in 0..n /\ ~Good(g[m], m)
    BY <2>1
  <2>3. m \in 1..n /\ m - 1 \in 0..n /\ m - 1 \in Nat /\ ~(m <= m - 1)
    <3>1. m # 0
      BY <1>7, <2>2
    <3> HIDE DEF Wrong
    <3> QED BY <1>1, <2>2, <3>1
  <2>4. Good(g[m - 1], m - 1)
    BY <2>1, <2>3, Zenon
  <2> QED BY <1>8, <2>2, <2>3, <2>4, Zenon
<1>10. FlattenSeq(s) \in Seq(Tokens)
  <2>1. n \in 0..n
    BY <1>1
  <2> QED BY <1>5, <1>6, <2>1
<1> QED BY <1>5, <1>9, <1>10 DEF Good, s

\* The lines of a message, the request line first
LineOf(m, j) == IF j = 0 THEN m.line ELSE m.headers[j]

LEMMA MessageIs ==
  ASSUME NEW m \in Messages
  PROVE  /\ m.line \in Methods \cup {"bad"}
         /\ m.headers \in Seq(HeaderLines \cup {"text"}) /\ Len(m.headers) \in Nat
         /\ m.body \in Seq({"byte"})
         /\ Len(m.body) = IF FirstIs(m.headers, "len2", "lenx") THEN 2 ELSE 0
         /\ \A j \in 0..Len(m.headers) : LineOf(m, j) \in Tokens \ {"cr", "lf", "byte"}
         /\ \A j \in 1..Len(m.headers) : m.headers[j] \in HeaderLines \cup {"text"}
<1>1. /\ m.line \in Methods \cup {"bad"}
      /\ m.headers \in Seq(HeaderLines \cup {"text"})
      /\ m.body \in Seq({"byte"})
      /\ Len(m.body) = IF FirstIs(m.headers, "len2", "lenx") THEN 2 ELSE 0
  BY DEF Messages
<1>2. /\ Len(m.headers) \in Nat
      /\ \A j \in 1..Len(m.headers) : m.headers[j] \in HeaderLines \cup {"text"}
  BY <1>1, LenProperties, ElementOfSeq
<1>3. /\ Methods \cup {"bad"} \subseteq Tokens \ {"cr", "lf", "byte"}
      /\ HeaderLines \cup {"text"} \subseteq Tokens \ {"cr", "lf", "byte"}
  BY DEF Tokens, Methods, HeaderLines
<1>4. ASSUME NEW j \in 0..Len(m.headers) PROVE LineOf(m, j) \in Tokens \ {"cr", "lf", "byte"}
  <2>1. j = 0 \/ j \in 1..Len(m.headers)
    BY <1>2
  <2> QED BY <1>1, <1>2, <1>3, <2>1 DEF LineOf
<1> QED BY <1>1, <1>2, <1>4

\* Where the parts of a message are in the stream
LEMMA EncodeIs ==
  ASSUME NEW m \in Messages
  PROVE  LET e == Encode(m)
             n == Len(m.headers)
         IN  /\ e \in Seq(Tokens)
             /\ Len(e) = 3 * n + 5 + Len(m.body)
             /\ \A j \in 0..n : /\ e[3 * j + 1] = LineOf(m, j)
                                /\ e[3 * j + 2] = "cr" /\ e[3 * j + 3] = "lf"
             /\ e[3 * n + 4] = "cr" /\ e[3 * n + 5] = "lf"
             /\ \A i \in 1..Len(m.body) : e[3 * n + 5 + i] = m.body[i]
<1> DEFINE n == Len(m.headers)
           a == <<m.line>> \o CRLF
           f == FlattenSeq([i \in DOMAIN m.headers |-> <<m.headers[i]>> \o CRLF])
           af == a \o f
           ac == af \o CRLF
           e == ac \o m.body
<1>1. Encode(m) = e
  BY DEF Encode
<1>2. n \in Nat /\ LineOf(m, 0) = m.line /\ m.line \in Tokens
  <2>1. n \in Nat /\ LineOf(m, 0) = m.line
    BY MessageIs DEF LineOf
  <2>2. 0 \in 0..n
    BY <2>1
  <2> QED BY <2>1, <2>2, MessageIs
<1>3. a \in Seq(Tokens) /\ Len(a) = 3 /\ a[1] = m.line /\ a[2] = "cr" /\ a[3] = "lf"
  BY <1>2, LineIs
<1>4. /\ f \in Seq(Tokens) /\ Len(f) = 3 * n
      /\ \A j \in 1..n : f[3 * j - 2] = m.headers[j] /\ f[3 * j - 1] = "cr" /\ f[3 * j] = "lf"
  <2>1. HeaderLines \cup {"text"} \subseteq Tokens
    BY DEF Tokens
  <2>2. m.headers \in Seq(Tokens)
    BY <2>1, MessageIs, SeqMonotonic
  <2> QED BY <2>2, LinesAre
<1>5. CRLF \in Seq(Tokens) /\ Len(CRLF) = 2 /\ CRLF[1] = "cr" /\ CRLF[2] = "lf"
  <2>1. "cr" \in Tokens /\ "lf" \in Tokens
    BY DEF Tokens
  <2> QED BY <2>1 DEF CRLF
<1>6. m.body \in Seq(Tokens) /\ Len(m.body) \in Nat
  <2>1. {"byte"} \subseteq Tokens
    BY DEF Tokens
  <2>2. m.body \in Seq(Tokens)
    BY <2>1, MessageIs, SeqMonotonic
  <2> QED BY <2>2, LenProperties
<1> DEFINE crlf == CRLF
           body == m.body
           l == Len(m.body)
<1> HIDE DEF a, f, n, e, crlf, body, l
<1>7. /\ af \in Seq(Tokens) /\ Len(af) = 3 + 3 * n
      /\ \A i \in 1..3 : af[i] = a[i]
      /\ \A i \in 1..(3 * n) : af[3 + i] = f[i]
  <2>0. a \in Seq(Tokens) /\ f \in Seq(Tokens)
    BY <1>3, <1>4
  <2>1. /\ a \o f \in Seq(Tokens) /\ Len(a \o f) = Len(a) + Len(f)
        /\ \A i \in 1..Len(a) : (a \o f)[i] = a[i]
        /\ \A i \in 1..Len(f) : (a \o f)[Len(a) + i] = f[i]
    BY <2>0, ConcatIs
  <2> QED BY <1>3, <1>4, <2>1, Zenon
<1> HIDE DEF af
<1>8. /\ ac \in Seq(Tokens) /\ Len(ac) = 3 * n + 5
      /\ \A i \in 1..(3 + 3 * n) : ac[i] = af[i]
      /\ ac[3 * n + 4] = "cr" /\ ac[3 * n + 5] = "lf"
  <2>0. af \in Seq(Tokens) /\ crlf \in Seq(Tokens)
    BY <1>5, <1>7 DEF crlf
  <2>1. /\ af \o crlf \in Seq(Tokens) /\ Len(af \o crlf) = Len(af) + Len(crlf)
        /\ \A i \in 1..Len(af) : (af \o crlf)[i] = af[i]
        /\ \A i \in 1..Len(crlf) : (af \o crlf)[Len(af) + i] = crlf[i]
    BY <2>0, ConcatIs
  <2>2. /\ ac \in Seq(Tokens) /\ Len(ac) = (3 + 3 * n) + 2
        /\ \A i \in 1..(3 + 3 * n) : ac[i] = af[i]
        /\ \A i \in 1..2 : ac[(3 + 3 * n) + i] = crlf[i]
    BY <1>5, <1>7, <2>1, Zenon DEF crlf
  <2>3. /\ (3 + 3 * n) + 2 = 3 * n + 5 /\ (3 + 3 * n) + 1 = 3 * n + 4
        /\ 1 \in 1..2 /\ 2 \in 1..2
    BY <1>2
  <2>4. ac[(3 + 3 * n) + 1] = crlf[1] /\ ac[(3 + 3 * n) + 2] = crlf[2]
    BY <2>2, <2>3, Zenon
  <2> QED BY <1>5, <2>2, <2>3, <2>4, Zenon DEF crlf
<1> HIDE DEF ac
<1>9. /\ e \in Seq(Tokens) /\ Len(e) = (3 * n + 5) + l
      /\ \A i \in 1..(3 * n + 5) : e[i] = ac[i]
      /\ \A i \in 1..l : e[(3 * n + 5) + i] = body[i]
  <2>0. ac \in Seq(Tokens) /\ body \in Seq(Tokens)
    BY <1>6, <1>8 DEF body
  <2>1. /\ ac \o body \in Seq(Tokens) /\ Len(ac \o body) = Len(ac) + Len(body)
        /\ \A i \in 1..Len(ac) : (ac \o body)[i] = ac[i]
        /\ \A i \in 1..Len(body) : (ac \o body)[Len(ac) + i] = body[i]
    BY <2>0, ConcatIs
  <2> QED BY <1>8, <2>1, Zenon DEF e, body, l
<1>10. l \in Nat
  BY <1>6 DEF l
<1>11. \A i \in 1..(3 + 3 * n) : e[i] = af[i]
  <2> TAKE i \in 1..(3 + 3 * n)
  <2>1. i \in 1..(3 * n + 5)
    BY <1>2
  <2> QED BY <1>8, <1>9, <2>1, Zenon
<1>12. \A j \in 0..n : /\ e[3 * j + 1] = LineOf(m, j)
                       /\ e[3 * j + 2] = "cr" /\ e[3 * j + 3] = "lf"
  <2> TAKE j \in 0..n
  <2>1. /\ 3 * j + 1 \in 1..(3 + 3 * n) /\ 3 * j + 2 \in 1..(3 + 3 * n)
        /\ 3 * j + 3 \in 1..(3 + 3 * n)
    BY <1>2
  <2>2. e[3 * j + 1] = af[3 * j + 1] /\ e[3 * j + 2] = af[3 * j + 2] /\ e[3 * j + 3] = af[3 * j + 3]
    BY <1>11, <2>1, Zenon
  <2>3. CASE j = 0
    <3>1. 3 * j + 1 = 1 /\ 3 * j + 2 = 2 /\ 3 * j + 3 = 3 /\ 1 \in 1..3 /\ 2 \in 1..3 /\ 3 \in 1..3
      BY <2>3
    <3>2. af[1] = a[1] /\ af[2] = a[2] /\ af[3] = a[3]
      BY <1>7, <3>1, Zenon
    <3> QED BY <1>2, <1>3, <2>2, <2>3, <3>1, <3>2, Zenon
  <2>4. CASE j # 0
    <3>1. j \in 1..n
      BY <1>2, <2>4
    <3>2. /\ 3 * j + 1 = 3 + (3 * j - 2) /\ 3 * j + 2 = 3 + (3 * j - 1) /\ 3 * j + 3 = 3 + 3 * j
          /\ 3 * j - 2 \in 1..(3 * n) /\ 3 * j - 1 \in 1..(3 * n) /\ 3 * j \in 1..(3 * n)
      BY <1>2, <3>1
    <3>3. /\ af[3 * j + 1] = f[3 * j - 2] /\ af[3 * j + 2] = f[3 * j - 1]
          /\ af[3 * j + 3] = f[3 * j]
      BY <1>7, <3>2, Zenon
    <3>4. LineOf(m, j) = m.headers[j]
      BY <2>4, Zenon DEF LineOf
    <3> QED BY <1>4, <2>2, <3>1, <3>3, <3>4, Zenon
  <2> QED BY <2>3, <2>4
<1>13. e[3 * n + 4] = "cr" /\ e[3 * n + 5] = "lf"
  <2>1. 3 * n + 4 \in 1..(3 * n + 5) /\ 3 * n + 5 \in 1..(3 * n + 5)
    BY <1>2
  <2> QED BY <1>8, <1>9, <2>1, Zenon
<1> QED BY <1>1, <1>9, <1>12, <1>13 DEF e, n, l, body

-----------------------------------------------------------------------------
\* A stream is what the messages are, one after the other
Encoded(p) == [i \in 1..Len(p) |-> Encode(p[i])]

LEMMA EncodedIs ==
  ASSUME NEW p \in Seq(Messages)
  PROVE  /\ Encoded(p) \in Seq(Seq(Tokens)) /\ Len(Encoded(p)) = Len(p) /\ Len(p) \in Nat
         /\ \A i \in 1..Len(p) : Encoded(p)[i] = Encode(p[i]) /\ p[i] \in Messages
<1>1. Len(p) \in Nat /\ \A i \in 1..Len(p) : p[i] \in Messages
  BY LenProperties, ElementOfSeq
<1>2. \A i \in 1..Len(p) : Encode(p[i]) \in Seq(Tokens)
  BY <1>1, EncodeIs
<1> QED BY <1>1, <1>2 DEF Encoded

LEMMA StreamOfFirst ==
  ASSUME NEW p \in Seq(Messages), NEW k \in 0..Len(p)
  PROVE  Stream(SubSeq(p, 1, k)) = FlattenSeq(SubSeq(Encoded(p), 1, k))
<1>1. /\ Encoded(p) \in Seq(Seq(Tokens)) /\ Len(Encoded(p)) = Len(p) /\ Len(p) \in Nat
      /\ \A i \in 1..Len(p) : Encoded(p)[i] = Encode(p[i]) /\ p[i] \in Messages
  BY EncodedIs
<1>2. k \in Nat /\ k <= Len(p)
  BY <1>1
<1> DEFINE q == SubSeq(p, 1, k)
           c == SubSeq(Encoded(p), 1, k)
           d == [i \in DOMAIN q |-> Encode(q[i])]
<1>3. q \in Seq(Messages) /\ Len(q) = k /\ \A i \in 1..k : q[i] = p[i]
  <2>1. \A i \in 1..k : p[i] \in Messages
    BY <1>1, <1>2
  <2> QED BY <1>2, <2>1, SubSeqProperties
<1>4. c \in Seq(Seq(Tokens)) /\ Len(c) = k /\ \A i \in 1..k : c[i] = Encoded(p)[i]
  <2>1. \A i \in 1..k : Encoded(p)[i] \in Seq(Tokens)
    BY <1>1, <1>2, ElementOfSeq
  <2> QED BY <1>2, <2>1, SubSeqProperties
<1>5. d = c
  <2> HIDE DEF q, c
  <2>1. DOMAIN q = 1..k /\ c = [i \in 1..k |-> c[i]]
    BY <1>2, <1>3, <1>4, LenProperties
  <2>2. \A i \in 1..k : Encode(q[i]) = c[i]
    <3> TAKE i \in 1..k
    <3>1. i \in 1..Len(p)
      BY <1>1, <1>2
    <3> QED BY <1>1, <1>3, <1>4, <3>1, Zenon
  <2> QED BY <2>1, <2>2
<1>6. Stream(q) = FlattenSeq(d)
  BY DEF Stream
<1> QED BY <1>5, <1>6

\* Where message k is in the stream
LEMMA StreamIs ==
  ASSUME NEW p \in Seq(Messages), NEW k \in 1..Len(p)
  PROVE  LET a == Stream(SubSeq(p, 1, k - 1))
             b == Stream(SubSeq(p, 1, k))
             e == Encode(p[k])
         IN  /\ Stream(p) \in Seq(Tokens)
             /\ Len(a) \in Nat /\ Len(b) = Len(a) + Len(e) /\ Len(b) <= Len(Stream(p))
             /\ \A i \in 1..Len(e) : Stream(p)[Len(a) + i] = e[i]
<1> DEFINE s == Encoded(p)
           n == Len(p)
<1>1. /\ s \in Seq(Seq(Tokens)) /\ Len(s) = n /\ n \in Nat
      /\ s[k] = Encode(p[k]) /\ s[k] \in Seq(Tokens)
  BY EncodedIs, ElementOfSeq
<1> HIDE DEF s
<1>2. n \in 0..n /\ k - 1 \in 0..n /\ k \in 0..n /\ n \in k..n /\ k \in Nat
  BY <1>1
<1>3. PICK g : g \in Sums(Tokens, s, n)
  BY <1>1, <1>2, SumsExist
<1>4. \A j \in 0..n : Stream(SubSeq(p, 1, j)) = g[j]
  BY <1>1, <1>3, FlattenFirst, StreamOfFirst DEF s
<1>5. Stream(p) = g[n]
  <2>1. SubSeq(p, 1, n) = p
    BY SubSeqFull
  <2> QED BY <1>2, <1>4, <2>1
<1> DEFINE a == g[k - 1]
           e == s[k]
           b == g[k]
           all == g[n]
<1>6. a \in Seq(Tokens) /\ e \in Seq(Tokens) /\ b = a \o e /\ all \in Seq(Tokens)
  BY <1>1, <1>2, <1>3 DEF Sums
<1>7. Len(b) <= Len(all) /\ \A i \in 1..Len(b) : all[i] = b[i]
  <2>0. s \in Seq(Seq(Tokens)) /\ n \in 0..Len(s) /\ k \in 0..n
    BY <1>1, <1>2
  <2>1. \A j \in k..n : Len(g[k]) <= Len(g[j]) /\ \A i \in 1..Len(g[k]) : g[j][i] = g[k][i]
    BY <1>3, <2>0, SumsGrow
  <2> QED BY <1>2, <2>1, Zenon
<1>8. Stream(SubSeq(p, 1, k - 1)) = a /\ Stream(SubSeq(p, 1, k)) = b
  BY <1>2, <1>4, Zenon
<1>9. Stream(p) = all /\ e = Encode(p[k])
  BY <1>1, <1>5
<1> HIDE DEF a, e, b, all
<1>10. /\ Len(a) \in Nat /\ Len(e) \in Nat /\ Len(b) = Len(a) + Len(e)
       /\ \A i \in 1..Len(e) : b[Len(a) + i] = e[i]
  BY <1>6, ConcatIs
<1>11. \A i \in 1..Len(e) : all[Len(a) + i] = e[i]
  <2> TAKE i \in 1..Len(e)
  <2>1. Len(a) + i \in 1..Len(b)
    BY <1>10
  <2> QED BY <1>7, <1>10, <2>1, Zenon
<1> QED BY <1>6, <1>7, <1>8, <1>9, <1>10, <1>11

\* The first k messages are a part of the stream
LEMMA StreamGrows ==
  ASSUME NEW p \in Seq(Messages), NEW k \in 0..Len(p)
  PROVE  /\ Len(Stream(SubSeq(p, 1, k))) \in Nat /\ Len(Stream(p)) \in Nat
         /\ Len(Stream(SubSeq(p, 1, k))) <= Len(Stream(p))
         /\ k = 0 => Len(Stream(SubSeq(p, 1, k))) = 0
         /\ k = Len(p) => Stream(SubSeq(p, 1, k)) = Stream(p)
<1> DEFINE s == Encoded(p)
           n == Len(p)
<1>1. s \in Seq(Seq(Tokens)) /\ Len(s) = n /\ n \in Nat
  BY EncodedIs
<1> HIDE DEF s
<1>2. n \in 0..n /\ k \in 0..n /\ n \in k..n /\ k \in Nat
  BY <1>1
<1>3. PICK g : g \in Sums(Tokens, s, n)
  BY <1>1, <1>2, SumsExist
<1>4. \A j \in 0..n : Stream(SubSeq(p, 1, j)) = g[j]
  BY <1>1, <1>3, FlattenFirst, StreamOfFirst DEF s
<1>5. SubSeq(p, 1, n) = p
  BY SubSeqFull
<1>6. \A j \in k..n : Len(g[k]) <= Len(g[j])
  BY <1>1, <1>2, <1>3, SumsGrow
<1>7. /\ g[0] = <<>> /\ g[k] \in Seq(Tokens) /\ g[n] \in Seq(Tokens)
  BY <1>2, <1>3 DEF Sums
<1>8. Len(g[k]) \in Nat /\ Len(g[n]) \in Nat /\ Len(<<>>) = 0
  BY <1>7, LenProperties
<1>9. Stream(SubSeq(p, 1, k)) = g[k] /\ Stream(p) = g[n]
  BY <1>2, <1>4, <1>5
<1>10. Len(g[k]) <= Len(g[n])
  BY <1>2, <1>6, Zenon
<1>11. k = 0 => Len(g[k]) = 0
  BY <1>7, <1>8
<1>12. k = Len(p) => Stream(SubSeq(p, 1, k)) = Stream(p)
  BY <1>5
<1> QED BY <1>8, <1>9, <1>10, <1>11, <1>12, Zenon

-----------------------------------------------------------------------------
(***************************************************************************)
(* The read buffer.                                                        *)
(***************************************************************************)

\* A piece of a message: what has arrived of it and is not read yet
LEMMA PieceIs ==
  ASSUME NEW e \in Seq(Tokens), NEW pos \in Nat, NEW off \in pos..Len(e)
  PROVE  LET b == SubSeq(e, pos + 1, off)
         IN  /\ b \in Seq(Tokens) /\ Len(b) = off - pos
             /\ \A i \in 1..(off - pos) : b[i] = e[pos + i]
<1>1. Len(e) \in Nat /\ \A i \in 1..Len(e) : e[i] \in Tokens
  BY LenProperties, ElementOfSeq
<1>2. off \in Nat /\ pos <= off /\ off <= Len(e) /\ pos + 1 \in Int /\ off \in Int
  BY <1>1
<1>3. \A i \in (pos + 1)..off : e[i] \in Tokens
  BY <1>1, <1>2
<1> DEFINE b == SubSeq(e, pos + 1, off)
<1>4. /\ b \in Seq(Tokens)
      /\ Len(b) = IF pos + 1 <= off THEN off - (pos + 1) + 1 ELSE 0
      /\ \A i \in 1..(off - (pos + 1) + 1) : b[i] = e[(pos + 1) + i - 1]
  BY <1>2, <1>3, SubSeqProperties
<1> HIDE DEF b
<1>5. Len(b) = off - pos /\ off - (pos + 1) + 1 = off - pos
  BY <1>2, <1>4
<1>6. \A i \in 1..(off - pos) : b[i] = e[pos + i]
  <2> TAKE i \in 1..(off - pos)
  <2>1. (pos + 1) + i - 1 = pos + i
    BY <1>2
  <2> QED BY <1>4, <1>5, <2>1, Zenon
<1> QED BY <1>4, <1>5, <1>6 DEF b

LEMMA PieceRest ==
  ASSUME NEW e \in Seq(Tokens), NEW pos \in Nat, NEW off \in pos..Len(e), NEW q \in 0..(off - pos)
  PROVE  LET b == SubSeq(e, pos + 1, off)
         IN  SubSeq(b, q + 1, Len(b)) = SubSeq(e, (pos + q) + 1, off)
<1> DEFINE b == SubSeq(e, pos + 1, off)
           c == SubSeq(b, q + 1, Len(b))
           d == SubSeq(e, (pos + q) + 1, off)
<1>1. Len(e) \in Nat
  BY LenProperties
<1>2. /\ off \in Nat /\ pos <= off /\ off <= Len(e) /\ q \in Nat /\ pos + q <= off
      /\ pos + q \in Nat /\ off \in (pos + q)..Len(e)
  BY <1>1
<1>3. /\ b \in Seq(Tokens) /\ Len(b) = off - pos
      /\ \A i \in 1..(off - pos) : b[i] = e[pos + i]
  BY PieceIs
<1>4. /\ d \in Seq(Tokens) /\ Len(d) = off - (pos + q)
      /\ \A i \in 1..(off - (pos + q)) : d[i] = e[(pos + q) + i]
  BY <1>2, PieceIs
<1> HIDE DEF b
<1>5. Len(b) \in q..Len(b)
  BY <1>2, <1>3
<1>6. /\ c \in Seq(Tokens) /\ Len(c) = Len(b) - q
      /\ \A i \in 1..(Len(b) - q) : c[i] = b[q + i]
  BY <1>2, <1>3, <1>5, PieceIs
<1> HIDE DEF c, d
<1>7. Len(c) = Len(d)
  BY <1>2, <1>3, <1>4, <1>6
<1>8. \A i \in 1..Len(c) : c[i] = d[i]
  <2> TAKE i \in 1..Len(c)
  <2>1. /\ i \in 1..(Len(b) - q) /\ q + i \in 1..(off - pos) /\ i \in 1..(off - (pos + q))
        /\ pos + (q + i) = (pos + q) + i
    BY <1>2, <1>3, <1>6
  <2> QED BY <1>3, <1>4, <1>6, <2>1, Zenon
<1>9. c = d
  BY <1>4, <1>6, <1>7, <1>8, SeqEqual
<1> QED BY <1>9 DEF b, c, d

LEMMA PieceMore ==
  ASSUME NEW e \in Seq(Tokens), NEW pos \in Nat, NEW off \in pos..Len(e),
         NEW n \in 0..(Len(e) - off), NEW all \in Seq(Tokens), NEW base \in Nat,
         base + Len(e) <= Len(all), \A i \in 1..Len(e) : all[base + i] = e[i]
  PROVE  SubSeq(e, pos + 1, off) \o SubSeq(all, (base + off) + 1, (base + off) + n)
           = SubSeq(e, pos + 1, off + n)
<1> DEFINE a == SubSeq(e, pos + 1, off)
           b == SubSeq(all, (base + off) + 1, (base + off) + n)
           c == a \o b
           d == SubSeq(e, pos + 1, off + n)
<1>1. Len(e) \in Nat /\ Len(all) \in Nat
  BY LenProperties
<1>2. /\ off \in Nat /\ pos <= off /\ off <= Len(e) /\ n \in Nat /\ off + n <= Len(e)
      /\ off + n \in pos..Len(e)
      /\ base + off \in Nat /\ (base + off) + n \in (base + off)..Len(all)
  BY <1>1
<1>3. a \in Seq(Tokens) /\ Len(a) = off - pos /\ \A i \in 1..(off - pos) : a[i] = e[pos + i]
  BY PieceIs
<1>4. /\ d \in Seq(Tokens) /\ Len(d) = (off + n) - pos
      /\ \A i \in 1..((off + n) - pos) : d[i] = e[pos + i]
  BY <1>2, PieceIs
<1>5. /\ b \in Seq(Tokens) /\ Len(b) = ((base + off) + n) - (base + off)
      /\ \A i \in 1..(((base + off) + n) - (base + off)) : b[i] = all[(base + off) + i]
  BY <1>2, PieceIs
<1>6. ((base + off) + n) - (base + off) = n
  BY <1>2
<1> HIDE DEF a, b, d
<1>7. a \in Seq(Tokens) /\ b \in Seq(Tokens)
  BY <1>3, <1>5
<1>8. /\ c \in Seq(Tokens) /\ Len(c) = Len(a) + Len(b)
      /\ \A i \in 1..Len(a) : c[i] = a[i]
      /\ \A i \in 1..Len(b) : c[Len(a) + i] = b[i]
  BY <1>7, ConcatIs
<1> HIDE DEF c
<1>9. Len(b) = n /\ Len(c) = Len(d) /\ \A i \in 1..n : b[i] = all[(base + off) + i]
  <2>1. Len(b) = n /\ \A i \in 1..n : b[i] = all[(base + off) + i]
    BY <1>5, <1>6, Zenon
  <2>2. Len(c) = Len(d)
    BY <1>2, <1>3, <1>4, <1>8, <2>1
  <2> QED BY <2>1, <2>2
<1>10. \A i \in 1..Len(c) : c[i] = d[i]
  <2> TAKE i \in 1..Len(c)
  <2>1. i \in 1..((off + n) - pos)
    BY <1>4, <1>9
  <2>2. CASE i <= Len(a)
    <3>1. i \in 1..Len(a) /\ i \in 1..(off - pos)
      BY <1>2, <1>3, <2>1, <2>2
    <3> QED BY <1>3, <1>4, <1>8, <2>1, <3>1, Zenon
  <2>3. CASE ~(i <= Len(a))
    <3> DEFINE j == i - Len(a)
    <3>1. j \in 1..n /\ Len(a) + j = i
      BY <1>2, <1>3, <2>1, <2>3
    <3>2. (base + off) + j = base + (pos + i) /\ pos + i \in 1..Len(e)
      BY <1>1, <1>2, <1>3, <2>1, <2>3
    <3> HIDE DEF j
    <3>3. c[i] = b[j] /\ b[j] = all[(base + off) + j]
      BY <1>8, <1>9, <3>1, Zenon
    <3>4. all[(base + off) + j] = e[pos + i]
      BY <3>2, Zenon
    <3> QED BY <1>4, <2>1, <3>3, <3>4, Zenon
  <2> QED BY <2>2, <2>3
<1>11. c = d
  BY <1>4, <1>8, <1>9, <1>10, SeqEqual
<1> QED BY <1>11 DEF a, b, c, d

-----------------------------------------------------------------------------
\* The line that b begins with
LEMMA LineThere ==
  ASSUME NEW b \in Seq(Tokens), Len(b) >= 3, b[1] # "cr", b[2] = "cr", b[3] = "lf"
  PROVE  HasLine(b) /\ FirstLine(b) = <<b[1]>> /\ AfterLine(b) = SubSeq(b, 4, Len(b))
<1>1. Len(b) \in Nat
  BY LenProperties
<1>2. 2 \in LineEnds(b) /\ 1 \notin LineEnds(b) /\ LineEnds(b) \in SUBSET Nat
  BY <1>1 DEF LineEnds
<1>3. Min(LineEnds(b)) \in LineEnds(b) /\ Min(LineEnds(b)) <= 2
  BY <1>2, LeastMember
<1>4. Min(LineEnds(b)) = 2
  <2>1. \A i \in LineEnds(b) : i \in Nat /\ i >= 1
    BY <1>1 DEF LineEnds
  <2> DEFINE m == Min(LineEnds(b))
  <2>2. m \in Nat /\ m >= 1 /\ m <= 2 /\ m # 1
    BY <1>2, <1>3, <2>1
  <2> HIDE DEF m
  <2>3. m = 2
    BY <2>2
  <2> QED BY <2>3 DEF m
<1>5. LineLength(b) = 1
  BY <1>4 DEF LineLength
<1>6. FirstLine(b) = <<b[1]>>
  <2>1. b[1] \in Tokens
    BY <1>1, ElementOfSeq
  <2>2. SubSeq(b, 1, 1) \in Seq(Tokens) /\ Len(SubSeq(b, 1, 1)) = 1 /\ SubSeq(b, 1, 1)[1] = b[1]
    <3>1. \A i \in 1..1 : b[i] \in Tokens
      BY <2>1
    <3> QED BY <3>1, SubSeqProperties
  <2> DEFINE c == SubSeq(b, 1, 1)
  <2> HIDE DEF c
  <2>3. /\ c \in Seq(Tokens) /\ <<b[1]>> \in Seq(Tokens) /\ Len(c) = Len(<<b[1]>>)
        /\ \A i \in 1..Len(c) : c[i] = <<b[1]>>[i]
    BY <2>1, <2>2 DEF c
  <2>4. c = <<b[1]>>
    BY <2>3, SeqEqual
  <2> QED BY <1>5, <2>4 DEF FirstLine, c
<1>7. AfterLine(b) = SubSeq(b, 4, Len(b))
  BY <1>5 DEF AfterLine
<1>8. HasLine(b)
  BY <1>2 DEF HasLine
<1> QED BY <1>6, <1>7, <1>8

LEMMA BlankThere ==
  ASSUME NEW b \in Seq(Tokens), Len(b) >= 2, b[1] = "cr", b[2] = "lf"
  PROVE  HasLine(b) /\ FirstLine(b) = <<>> /\ AfterLine(b) = SubSeq(b, 3, Len(b))
<1>1. Len(b) \in Nat
  BY LenProperties
<1>2. 1 \in LineEnds(b) /\ LineEnds(b) \in SUBSET Nat
  BY <1>1 DEF LineEnds
<1>3. Min(LineEnds(b)) \in LineEnds(b) /\ Min(LineEnds(b)) <= 1
  BY <1>2, LeastMember
<1>4. Min(LineEnds(b)) = 1
  <2>1. \A i \in LineEnds(b) : i \in Nat /\ i >= 1
    BY <1>1 DEF LineEnds
  <2> QED BY <1>3, <2>1
<1>5. LineLength(b) = 0
  BY <1>4 DEF LineLength
<1>6. FirstLine(b) = <<>>
  BY <1>5, SubSeqEmpty DEF FirstLine
<1>7. AfterLine(b) = SubSeq(b, 3, Len(b))
  BY <1>5 DEF AfterLine
<1>8. HasLine(b)
  BY <1>2 DEF HasLine
<1> QED BY <1>6, <1>7, <1>8

LEMMA NoLine ==
  ASSUME NEW b \in Seq(Tokens), Len(b) <= 1 \/ (Len(b) = 2 /\ b[1] # "cr")
  PROVE  ~HasLine(b)
<1>1. Len(b) \in Nat
  BY LenProperties
<1>2. \A i \in 1..(Len(b) - 1) : b[i] # "cr"
  <2>1. CASE Len(b) <= 1
    <3>1. ~\E i \in Int : 1 <= i /\ i <= Len(b) - 1
      BY <1>1, <2>1
    <3> QED BY <1>1, <3>1
  <2>2. CASE Len(b) = 2 /\ b[1] # "cr"
    BY <2>2
  <2> QED BY <2>1, <2>2
<1> QED BY <1>2 DEF HasLine, LineEnds

LEMMA NothingToTrim ==
  ASSUME NEW b \in Seq(Tokens), b = <<>> \/ b[1] \notin {"cr", "lf"}
  PROVE  TrimLeft(b) = b
<1> DEFINE S == {i \in DOMAIN b : b[i] \notin {"cr", "lf"}} \cup {Len(b) + 1}
<1>1. Len(b) \in Nat /\ DOMAIN b = 1..Len(b) /\ (b = <<>> => Len(b) = 0)
  BY LenProperties
<1>2. b # <<>> => Len(b) # 0
  BY EmptySeq, SeqEqual
<1>3. S \in SUBSET Nat /\ S # {} /\ 1 \in S /\ \A i \in S : i >= 1
  BY <1>1, <1>2
<1> HIDE DEF S
<1>4. Min(S) \in S /\ Min(S) <= 1
  BY <1>3, LeastMember
<1>5. Min(S) = 1
  <2> DEFINE m == Min(S)
  <2>1. m \in Nat /\ m >= 1 /\ m <= 1
    BY <1>3, <1>4
  <2> HIDE DEF m
  <2>2. m = 1
    BY <2>1
  <2> QED BY <2>2 DEF m
<1>6. TrimLeft(b) = SubSeq(b, 1, Len(b))
  BY <1>5 DEF TrimLeft, S
<1> QED BY <1>6, SubSeqFull

-----------------------------------------------------------------------------
\* Line j of a message is the next: once its end is there it is what FirstLine is
LEMMA ReadLine ==
  ASSUME NEW m \in Messages, NEW j \in 0..Len(m.headers),
         NEW off \in (3 * j)..Len(Encode(m))
  PROVE  LET b == SubSeq(Encode(m), 3 * j + 1, off)
         IN  /\ b \in Seq(Tokens) /\ TrimLeft(b) = b /\ ~IsPrefix(CRLF, b)
             /\ HasLine(b) => /\ 3 * (j + 1) <= off
                              /\ FirstLine(b) = <<LineOf(m, j)>>
                              /\ AfterLine(b) = SubSeq(Encode(m), 3 * (j + 1) + 1, off)
<1> DEFINE e == Encode(m)
           n == Len(m.headers)
           pos == 3 * j
           b == SubSeq(e, pos + 1, off)
<1>1. n \in Nat /\ j \in Nat /\ j <= n /\ LineOf(m, j) \notin {"cr", "lf", "byte"}
  BY MessageIs
<1>2. /\ e \in Seq(Tokens) /\ Len(e) \in Nat
      /\ e[pos + 1] = LineOf(m, j) /\ e[pos + 2] = "cr" /\ e[pos + 3] = "lf"
  BY EncodeIs, LenProperties
<1>3. pos \in Nat /\ off \in pos..Len(e) /\ off \in Nat /\ pos <= off /\ 3 * (j + 1) = pos + 3
  BY <1>1, <1>2
<1> HIDE DEF e, n, pos
<1>4. b \in Seq(Tokens) /\ Len(b) = off - pos /\ \A i \in 1..(off - pos) : b[i] = e[pos + i]
  BY <1>2, <1>3, PieceIs
<1>5. Len(b) # 0 => b[1] = LineOf(m, j)
  BY <1>2, <1>3, <1>4
<1>6. TrimLeft(b) = b
  <2>1. b = <<>> \/ b[1] \notin {"cr", "lf"}
    BY <1>1, <1>4, <1>5, EmptySeq, SeqEqual
  <2> QED BY <1>4, <2>1, NothingToTrim
<1>7. ~IsPrefix(CRLF, b)
  <2> SUFFICES ASSUME IsPrefix(CRLF, b) PROVE FALSE
    OBVIOUS
  <2> DEFINE c == CRLF
  <2>1. c \in Seq(Tokens) /\ Len(c) = 2 /\ c[1] = "cr"
    <3>1. "cr" \in Tokens /\ "lf" \in Tokens
      BY DEF Tokens
    <3> QED BY <3>1 DEF CRLF
  <2>2. Len(c) <= Len(b) /\ SubSeq(c, 1, Len(c)) = SubSeq(b, 1, Len(c))
    BY DEF IsPrefix
  <2> HIDE DEF b, c
  <2>3. Len(b) >= 2 /\ SubSeq(b, 1, 2)[1] = b[1]
    <3>1. Len(b) >= 2 /\ Len(b) \in Nat
      BY <1>4, <2>1, <2>2, LenProperties
    <3>2. \A i \in 1..2 : b[i] \in Tokens
      BY <1>4, <3>1, ElementOfSeq
    <3> QED BY <3>1, <3>2, SubSeqProperties
  <2>4. b[1] = "cr"
    BY <2>1, <2>2, <2>3, SubSeqFull
  <2> QED BY <1>1, <1>5, <2>3, <2>4
<1>8. HasLine(b) => Len(b) >= 3
  <2> SUFFICES ASSUME ~(Len(b) >= 3) PROVE ~HasLine(b)
    OBVIOUS
  <2>1. Len(b) <= 1 \/ (Len(b) = 2 /\ b[1] # "cr")
    BY <1>1, <1>3, <1>4, <1>5
  <2> QED BY <1>4, <2>1, NoLine
<1>9. ASSUME HasLine(b)
      PROVE  /\ pos + 3 <= off /\ FirstLine(b) = <<LineOf(m, j)>>
             /\ AfterLine(b) = SubSeq(e, (pos + 3) + 1, off)
  <2>1. Len(b) >= 3 /\ pos + 3 <= off /\ 3 \in 0..(off - pos)
    BY <1>3, <1>4, <1>8, <1>9
  <2>2. b[1] = LineOf(m, j) /\ b[2] = "cr" /\ b[3] = "lf"
    BY <1>2, <1>3, <1>4, <2>1
  <2>3. FirstLine(b) = <<LineOf(m, j)>> /\ AfterLine(b) = SubSeq(b, 4, Len(b))
    <3> HIDE DEF b
    <3>1. b[1] # "cr"
      BY <1>1, <2>2
    <3> QED BY <1>4, <2>1, <2>2, <3>1, LineThere
  <2>4. SubSeq(b, 3 + 1, Len(b)) = SubSeq(e, (pos + 3) + 1, off)
    BY <1>2, <1>3, <2>1, PieceRest
  <2>5. 3 + 1 = 4
    OBVIOUS
  <2> HIDE DEF b
  <2> QED BY <2>1, <2>3, <2>4, <2>5, Zenon
<1> QED BY <1>3, <1>4, <1>6, <1>7, <1>9 DEF e, pos

\* The empty line is the next
LEMMA ReadBlank ==
  ASSUME NEW m \in Messages, NEW off \in (3 * (Len(m.headers) + 1))..Len(Encode(m))
  PROVE  LET b == SubSeq(Encode(m), 3 * (Len(m.headers) + 1) + 1, off)
             c == SubSeq(Encode(m), (3 * Len(m.headers) + 5) + 1, off)
         IN  /\ b \in Seq(Tokens)
             /\ HasLine(b) => /\ 3 * Len(m.headers) + 5 <= off
                              /\ FirstLine(b) = <<>> /\ AfterLine(b) = c
             /\ HasTwoBytes(b) => /\ 3 * Len(m.headers) + 5 <= off
                                  /\ SubSeq(b, 3, Len(b)) = c
<1> DEFINE e == Encode(m)
           n == Len(m.headers)
           pos == 3 * (n + 1)
           b == SubSeq(e, pos + 1, off)
<1>1. n \in Nat
  BY MessageIs
<1>2. /\ e \in Seq(Tokens) /\ Len(e) \in Nat /\ e[3 * n + 4] = "cr" /\ e[3 * n + 5] = "lf"
  BY EncodeIs, LenProperties
<1>3. /\ pos \in Nat /\ off \in pos..Len(e) /\ off \in Nat /\ pos <= off
      /\ 3 * n + 4 = pos + 1 /\ 3 * n + 5 = pos + 2
  BY <1>1, <1>2
<1> HIDE DEF e, n, pos
<1>4. b \in Seq(Tokens) /\ Len(b) = off - pos /\ \A i \in 1..(off - pos) : b[i] = e[pos + i]
  BY <1>2, <1>3, PieceIs
<1>5. Len(b) = 1 => b[1] = "cr"
  BY <1>2, <1>3, <1>4
<1>6. HasLine(b) \/ HasTwoBytes(b) => Len(b) >= 2
  <2>1. Len(b) \in Nat
    BY <1>3, <1>4
  <2>2. HasLine(b) => ~(Len(b) <= 1)
    BY <1>4, NoLine
  <2>3. HasTwoBytes(b) => Len(b) >= 2
    BY <1>5 DEF HasTwoBytes
  <2> HIDE DEF b
  <2> QED BY <2>1, <2>2, <2>3
<1>7. ASSUME Len(b) >= 2
      PROVE  /\ pos + 2 <= off /\ FirstLine(b) = <<>> /\ AfterLine(b) = SubSeq(b, 3, Len(b))
             /\ SubSeq(b, 3, Len(b)) = SubSeq(e, (pos + 2) + 1, off)
  <2>1. pos + 2 <= off /\ 2 \in 0..(off - pos)
    BY <1>3, <1>4, <1>7
  <2>2. b[1] = "cr" /\ b[2] = "lf"
    BY <1>2, <1>3, <1>4, <2>1
  <2>3. FirstLine(b) = <<>> /\ AfterLine(b) = SubSeq(b, 3, Len(b))
    <3> HIDE DEF b
    <3> QED BY <1>4, <1>7, <2>2, BlankThere
  <2>4. SubSeq(b, 2 + 1, Len(b)) = SubSeq(e, (pos + 2) + 1, off)
    BY <1>2, <1>3, <2>1, PieceRest
  <2>5. 2 + 1 = 3
    OBVIOUS
  <2> HIDE DEF b
  <2> QED BY <2>1, <2>3, <2>4, <2>5, Zenon
<1> QED BY <1>3, <1>4, <1>6, <1>7 DEF e, n, pos

\* The body is the next
LEMMA ReadBody ==
  ASSUME NEW m \in Messages, NEW off \in (3 * Len(m.headers) + 5)..Len(Encode(m)),
         FirstIs(m.headers, "len2", "lenx")
           => HasTwoBytes(SubSeq(Encode(m), (3 * Len(m.headers) + 5) + 1, off))
  PROVE  /\ off = Len(Encode(m))
         /\ SubSeq(Encode(m), (3 * Len(m.headers) + 5) + 1, off) = m.body
<1> DEFINE e == Encode(m)
           n == Len(m.headers)
           l == Len(m.body)
           pos == 3 * n + 5
           b == SubSeq(e, pos + 1, off)
<1>1. /\ n \in Nat /\ m.body \in Seq({"byte"})
      /\ l = (IF FirstIs(m.headers, "len2", "lenx") THEN 2 ELSE 0)
      /\ m.body \in Seq(Tokens)
  <2>1. {"byte"} \subseteq Tokens
    BY DEF Tokens
  <2> QED BY <2>1, MessageIs, SeqMonotonic
<1>2. /\ e \in Seq(Tokens) /\ Len(e) = pos + l
      /\ \A i \in 1..l : e[pos + i] = m.body[i]
  BY EncodeIs
<1>3. /\ pos \in Nat /\ l \in Nat /\ off \in pos..Len(e) /\ off \in Nat /\ pos <= off
      /\ off <= pos + l
  <2>1. l \in Nat
    BY <1>1
  <2> HIDE DEF l, e
  <2>2. pos \in Nat
    BY <1>1
  <2>3. off \in pos..Len(e)
    BY DEF e
  <2> HIDE DEF pos
  <2> QED BY <1>2, <2>1, <2>2, <2>3
<1>4. FirstIs(m.headers, "len2", "lenx") => HasTwoBytes(b)
  OBVIOUS
<1> HIDE DEF e, n, pos, l
<1>5. b \in Seq(Tokens) /\ Len(b) = off - pos /\ \A i \in 1..(off - pos) : b[i] = e[pos + i]
  BY <1>2, <1>3, PieceIs
<1>6. \A i \in 1..Len(b) : b[i] = m.body[i] /\ b[i] = "byte"
  <2> TAKE i \in 1..Len(b)
  <2>1. i \in 1..l /\ i \in 1..(off - pos)
    BY <1>3, <1>5
  <2>2. m.body[i] = "byte"
    <3>1. m.body[i] \in {"byte"}
      BY <1>1, <2>1, ElementOfSeq DEF l
    <3> QED BY <3>1
  <2> QED BY <1>2, <1>5, <2>1, <2>2, Zenon
<1> HIDE DEF b
<1>7. off = pos + l
  <2>1. CASE FirstIs(m.headers, "len2", "lenx")
    <3>1. HasTwoBytes(b) /\ l = 2
      BY <1>1, <1>4, <2>1
    <3>2. Len(b) >= 2
      BY <1>6, <3>1 DEF HasTwoBytes
    <3> QED BY <1>3, <1>5, <3>1, <3>2
  <2>2. CASE ~FirstIs(m.headers, "len2", "lenx")
    <3>1. l = 0
      BY <1>1, <2>2
    <3> QED BY <1>3, <3>1
  <2> QED BY <2>1, <2>2
<1>8. Len(b) = Len(m.body)
  BY <1>3, <1>5, <1>7 DEF l
<1>9. b = m.body
  BY <1>1, <1>5, <1>6, <1>8, SeqEqual
<1> QED BY <1>2, <1>7, <1>9 DEF e, n, pos, l, b

\* The fields of a message
LEMMA HeadersOfIs ==
  ASSUME NEW m \in Messages
  PROVE  LET f == Session!HeadersOf(m)
             n == Len(m.headers)
         IN  /\ f \in Seq(HeaderLines \cup {"text"})
             /\ FirstIs(f, "len2", "lenx") <=> FirstIs(m.headers, "len2", "lenx")
             /\ "text" \notin Range(f) => Range(f) \subseteq HeaderLines
             /\ (\A i \in 1..n : m.headers[i] # "text")
                  => f = SubSeq(m.headers, 1, n) /\ "text" \notin Range(f)
             /\ n > 0 /\ m.headers[n] = "text" /\ (\A i \in 1..(n - 1) : m.headers[i] # "text")
                  => f = SubSeq(m.headers, 1, n - 1) /\ "text" \notin Range(f)
<1> DEFINE h == m.headers
           n == Len(h)
           f == Session!HeadersOf(m)
           T == HeaderLines \cup {"text"}
           cut == h # <<>> /\ h[n] = "text"
<1>1. h \in Seq(T) /\ n \in Nat /\ \A i \in 1..n : h[i] \in T
  BY MessageIs
<1>2. f = IF cut THEN SubSeq(h, 1, n - 1) ELSE h
  BY DEF Session!HeadersOf
<1>3. h = <<>> <=> n = 0
  BY <1>1, EmptySeq, SeqEqual
<1>4. SubSeq(h, 1, n) = h
  BY <1>1, SubSeqFull
<1> HIDE DEF h, f
<1>5. CASE cut
  <2>1. n > 0 /\ n - 1 \in Nat /\ f = SubSeq(h, 1, n - 1)
    BY <1>1, <1>2, <1>3, <1>5
  <2>2. f \in Seq(T) /\ Len(f) = n - 1 /\ \A i \in 1..(n - 1) : f[i] = h[i]
    <3>1. \A i \in 1..(n - 1) : h[i] \in T
      <4>1. \A i \in 1..(n - 1) : i \in 1..n
        BY <1>1
      <4> QED BY <1>1, <4>1, Zenon
    <3> DEFINE k == n - 1
    <3>2. k \in Nat /\ \A i \in 1..k : h[i] \in T
      BY <2>1, <3>1
    <3> HIDE DEF k, n, T
    <3>3. /\ SubSeq(h, 1, k) \in Seq(T) /\ Len(SubSeq(h, 1, k)) = k
          /\ \A i \in 1..k : SubSeq(h, 1, k)[i] = h[i]
      BY <3>2, SubSeqProperties
    <3> QED BY <2>1, <3>3 DEF k
  <2>3. Range(f) = {f[i] : i \in 1..(n - 1)}
    BY <2>2, RangeEquality
  <2>4. FirstIs(f, "len2", "lenx") <=> FirstIs(h, "len2", "lenx")
    <3>1. \A i \in 1..n : i \in 1..(n - 1) \/ i = n
      BY <1>1
    <3>2. \A i \in 1..(n - 1) : i \in 1..n
      BY <1>1
    <3>3. h[n] # "len2"
      BY <1>5
    <3>4. DOMAIN h = 1..n /\ DOMAIN f = 1..(n - 1)
      BY <1>1, <2>2, LenProperties
    <3>5. \A i \in 1..(n - 1) : 1..i \subseteq 1..(n - 1)
      BY <1>1
    <3>6. \A i \in 1..(n - 1) : (\A j \in 1..i : f[j] # "lenx") <=> (\A j \in 1..i : h[j] # "lenx")
      BY <2>2, <3>5
    <3>7. \A i \in 1..(n - 1) : f[i] = h[i]
      BY <2>2
    <3> HIDE DEF n
    <3>8. ASSUME NEW i \in DOMAIN f, f[i] = "len2", \A j \in 1..i : f[j] # "lenx"
          PROVE  \E k \in DOMAIN h : h[k] = "len2" /\ \A j \in 1..k : h[j] # "lenx"
      <4>1. i \in 1..(n - 1) /\ i \in DOMAIN h
        BY <3>2, <3>4
      <4>2. h[i] = "len2" /\ \A j \in 1..i : h[j] # "lenx"
        BY <3>6, <3>7, <3>8, <4>1, Zenon
      <4> QED BY <4>1, <4>2
    <3>9. ASSUME NEW i \in DOMAIN h, h[i] = "len2", \A j \in 1..i : h[j] # "lenx"
          PROVE  \E k \in DOMAIN f : f[k] = "len2" /\ \A j \in 1..k : f[j] # "lenx"
      <4>1. i \in 1..(n - 1) /\ i \in DOMAIN f
        BY <3>1, <3>3, <3>4, <3>9
      <4>2. f[i] = "len2" /\ \A j \in 1..i : f[j] # "lenx"
        BY <3>6, <3>7, <3>9, <4>1, Zenon
      <4> QED BY <4>1, <4>2
    <3> QED BY <3>8, <3>9 DEF FirstIs
  <2>5. (\A i \in 1..(n - 1) : h[i] # "text") => "text" \notin Range(f)
    BY <2>2, <2>3
  <2>6. "text" \notin Range(f) => Range(f) \subseteq HeaderLines
    BY <2>2, RangeOfSeq
  <2>7. ~\A i \in 1..n : h[i] # "text"
    BY <1>1, <1>5, <2>1
  <2> QED BY <2>1, <2>2, <2>4, <2>5, <2>6, <2>7 DEF h, f
<1>6. CASE ~cut
  <2>1. f = h
    BY <1>2, <1>6
  <2>2. Range(f) = {f[i] : i \in 1..n}
    BY <1>1, <2>1, RangeEquality
  <2>3. (\A i \in 1..n : h[i] # "text") => "text" \notin Range(f)
    BY <2>1, <2>2
  <2>4. "text" \notin Range(f) => Range(f) \subseteq HeaderLines
    BY <1>1, <2>1, RangeOfSeq
  <2>5. ~(n > 0 /\ h[n] = "text")
    BY <1>1, <1>3, <1>6
  <2> QED BY <1>1, <1>4, <2>1, <2>3, <2>4, <2>5 DEF h, f
<1> QED BY <1>5, <1>6

-----------------------------------------------------------------------------
(***************************************************************************)
(* The invariant.  A connection reads a request, or writes a response, or  *)
(* is closed.                                                              *)
(***************************************************************************)

\* How much of the stream the first k messages are
Base(k) == Len(Stream(SubSeq(plan, 1, k)))

\* The first j header lines of m have been read, and are fields
FieldsRead(m, j) == /\ \A i \in 1..j : m.headers[i] # "text"
                    /\ req = [method |-> m.line, headers |-> SubSeq(m.headers, 1, j)]

\* Of message m, off tokens have arrived and pos have been used up
ReadTo(m, pos, off) ==
  \/ state = "line" /\ pos = 0 /\ req = NewRequest
  \/ /\ state = "header" /\ m.line \in Methods
     /\ \E j \in 0..Len(m.headers) : pos = 3 * (j + 1) /\ FieldsRead(m, j)
  \/ /\ state = "emptyline" /\ m.line \in Methods
     /\ \E j \in 1..Len(m.headers) :
          pos = 3 * (j + 1) /\ FieldsRead(m, j - 1) /\ m.headers[j] = "text"
  \/ /\ state \in {"body", "done"} /\ m.line \in Methods
     /\ pos = 3 * Len(m.headers) + 5
     /\ "text" \notin Range(Session!HeadersOf(m))
     /\ req = [method |-> m.line, headers |-> Session!HeadersOf(m)]
     /\ state = "done" => pc = "parse" /\ rbuf = m.body /\ off = Len(Encode(m))
  \/ state = "invalid" /\ pc = "parse" /\ ~Session!WellFormed(m)

\* All messages are answered
ReadAll == /\ answered = Len(plan) /\ sent = Base(answered)
           /\ rbuf = <<>> /\ pc = "idle" /\ state = "line" /\ req = NewRequest

\* The next message is being read
ReadSome ==
  /\ answered < Len(plan)
  /\ \E off \in 0..Len(Encode(plan[answered + 1])) : \E pos \in 0..off :
       /\ sent = Base(answered) + off
       /\ rbuf = SubSeq(Encode(plan[answered + 1]), pos + 1, off)
       /\ ReadTo(plan[answered + 1], pos, off)

Reading == /\ ~closed /\ ~refused /\ Len(handled) = answered /\ wbuf = <<>>
           /\ res.connection = <<>> /\ res.status = 400
           /\ ReadAll \/ ReadSome

\* r is what message n is to be answered with
IsOwn(r, n) ==
  /\ r.status = CASE r.kind \in {"page", "file"} -> 200
                  [] r.kind = "status" -> 302
                  [] r.kind \in {"silent", "invalid"} -> 400
                  [] r.kind \in {"nofile", "nohandler"} -> 404
                  [] r.kind = "multi" -> 501
                  [] OTHER -> 500
  /\ r.kind \notin {"status", "multi", "file"} => r.body = n
  /\ r.kind = "file" => r.body = None

\* The request was handled, and nothing of the next has been sent
Handled == /\ ~refused /\ Len(handled) = answered + 1 /\ sent = Base(answered + 1)
           /\ pc = "idle" /\ state = "line" /\ rbuf = <<>>
           /\ res.connection[1] = "keep" <=> "keep" \in Range(handled[answered + 1].headers)

\* The request was refused; what arrives of it is refused again
Refused == /\ refused /\ Len(handled) = answered /\ state = "invalid"
           /\ \E off \in 0..Len(Encode(plan[answered + 1])) : sent = Base(answered) + off
           /\ res.connection[1] = "close"

Writing == /\ ~closed /\ answered < Len(plan) /\ wbuf = <<res>> /\ IsOwn(res, answered + 1)
           /\ res.connection # <<>> /\ req = NewRequest
           /\ Handled \/ Refused

Requests == [method : Methods, headers : Seq(HeaderLines), body : Seq({"byte"})]

Kinds == {"page", "status", "silent", "throws", "nohandler", "file", "nofile", "noopen",
          "multi", "noform", "invalid", None}

Typed == /\ plan \in Plans
         /\ sent \in 0..Len(Stream(plan))
         /\ pc \in {"idle", "parse"}
         /\ state \in {"line", "header", "emptyline", "body", "done", "invalid"}
         /\ req \in [method : Methods, headers : Seq(HeaderLines)]
         /\ res \in [status : PageCodes \cup {200, 302, 501}, connection : Seq({"keep", "close"}),
                     body : 1..Len(plan) \cup {None}, kind : Kinds]
         /\ closed \in BOOLEAN /\ refused \in BOOLEAN
         /\ answered \in 0..Len(plan)
         /\ handled \in Seq(Requests)

Inv == Typed /\ (Reading \/ Writing \/ (closed /\ wbuf = <<>> /\ pc = "idle"))

-----------------------------------------------------------------------------
(***************************************************************************)
(* What the invariant says of the plan and the stream.                     *)
(***************************************************************************)

LEMMA PlanIs ==
  ASSUME Typed
  PROVE  /\ plan \in Seq(Messages) /\ Len(plan) \in Nat /\ answered \in Nat
         /\ answered < Len(plan) => answered + 1 \in 1..Len(plan)
                                    /\ plan[answered + 1] \in Messages
<1>1. plan \in Seq(Messages)
  BY PlansAssumption DEF Typed
<1>2. Len(plan) \in Nat
  BY <1>1, LenProperties
<1>3. answered \in Nat
  BY <1>2 DEF Typed
<1>4. ASSUME answered < Len(plan)
      PROVE  answered + 1 \in 1..Len(plan) /\ plan[answered + 1] \in Messages
  <2>1. answered + 1 \in 1..Len(plan)
    BY <1>2, <1>3, <1>4
  <2> QED BY <1>1, <2>1, ElementOfSeq
<1> QED BY <1>1, <1>2, <1>3, <1>4

\* Where the message that is read or answered is in the stream
LEMMA CurrentIs ==
  ASSUME Typed, answered < Len(plan)
  PROVE  LET e == Encode(plan[answered + 1])
         IN  /\ e \in Seq(Tokens) /\ Len(e) \in Nat /\ Base(answered) \in Nat
             /\ Base(answered + 1) = Base(answered) + Len(e)
             /\ Stream(plan) \in Seq(Tokens) /\ Base(answered + 1) <= Len(Stream(plan))
             /\ \A i \in 1..Len(e) : Stream(plan)[Base(answered) + i] = e[i]
             /\ Allowed = Base(answered + 1)
<1>1. /\ plan \in Seq(Messages) /\ answered + 1 \in 1..Len(plan)
      /\ plan[answered + 1] \in Messages /\ answered \in Nat
  BY PlanIs
<1> DEFINE k == answered + 1
           e == Encode(plan[k])
<1>2. e \in Seq(Tokens) /\ Len(e) \in Nat
  BY <1>1, EncodeIs, LenProperties
<1>3. k - 1 = answered /\ k \in 1..Len(plan)
  BY <1>1
<1> HIDE DEF k
<1>4. /\ Stream(plan) \in Seq(Tokens)
      /\ Base(k - 1) \in Nat /\ Base(k) = Base(k - 1) + Len(e) /\ Base(k) <= Len(Stream(plan))
      /\ \A i \in 1..Len(e) : Stream(plan)[Base(k - 1) + i] = e[i]
  BY <1>1, <1>3, StreamIs DEF Base
<1>5. Allowed = Base(k)
  BY DEF Allowed, Base, k
<1> QED BY <1>2, <1>3, <1>4, <1>5, Zenon DEF k

LEMMA AtTheEnd ==
  ASSUME Typed, answered = Len(plan)
  PROVE  Base(answered) = Len(Stream(plan)) /\ Allowed = Base(answered) /\ Base(answered) \in Nat
<1>1. plan \in Seq(Messages) /\ Len(plan) \in Nat /\ answered \in 0..Len(plan)
  BY PlanIs
<1>2. SubSeq(plan, 1, answered) = plan
  BY <1>1, SubSeqFull
<1>3. Allowed = Base(answered)
  BY <1>1 DEF Allowed, Base
<1>4. Len(Stream(plan)) \in Nat
  BY <1>1, StreamGrows
<1> QED BY <1>2, <1>3, <1>4 DEF Base

\* The parser has something to parse only when the next message is being read
LEMMA Parsing ==
  ASSUME Inv, pc = "parse", state # "invalid"
  PROVE  Reading /\ ReadSome /\ answered < Len(plan) /\ Typed
BY DEF Inv, Reading, ReadAll, ReadSome, Writing, Handled, Refused

\* A step of the parser within a message
LEMMA ReadsOn ==
  ASSUME Inv, Reading, answered < Len(plan),
         UNCHANGED <<plan, sent, res, wbuf, closed, history>>,
         NEW m, m = plan[answered + 1],
         NEW off \in 0..Len(Encode(m)), NEW pos \in 0..off, sent = Base(answered) + off,
         rbuf' = SubSeq(Encode(m), pos + 1, off), ReadTo(m, pos, off)',
         req' \in [method : Methods, headers : Seq(HeaderLines)],
         pc' \in {"idle", "parse"},
         state' \in {"line", "header", "emptyline", "body", "done", "invalid"}
  PROVE  Inv'
<1>1. Typed'
  BY DEF Inv, Typed, history
<1>2. plan' = plan /\ answered' = answered /\ plan'[answered' + 1] = m /\ sent' = sent
  BY DEF history
<1>3. Base(answered)' = Base(answered)
  BY <1>2 DEF Base
<1>4. ReadSome'
  BY <1>2, <1>3 DEF ReadSome
<1>5. Reading'
  BY <1>4 DEF Reading, history
<1> QED BY <1>1, <1>5 DEF Inv

-----------------------------------------------------------------------------
(***************************************************************************)
(* Every step keeps the invariant.                                         *)
(***************************************************************************)

LEMMA InitInv == Init => Inv
<1> SUFFICES ASSUME Init PROVE Inv
  OBVIOUS
<1>1. /\ plan \in Plans /\ sent = 0 /\ rbuf = <<>> /\ wbuf = <<>> /\ pc = "idle" /\ state = "line"
      /\ req = NewRequest /\ closed = FALSE /\ handled = <<>> /\ refused = FALSE /\ answered = 0
      /\ res = [status |-> 400, connection |-> <<>>, body |-> None, kind |-> None]
  BY DEF Init
<1>2. plan \in Seq(Messages) /\ Len(plan) \in Nat
  <2>1. plan \in Seq(Messages)
    BY <1>1, PlansAssumption
  <2> QED BY <2>1, LenProperties
<1>3. Base(0) = 0 /\ Len(Stream(plan)) \in Nat
  <2>1. 0 \in 0..Len(plan)
    BY <1>2
  <2> QED BY <1>2, <2>1, StreamGrows DEF Base
<1>4. Typed
  <2>1. req \in [method : Methods, headers : Seq(HeaderLines)]
    BY <1>1, EmptySeq DEF NewRequest, Methods
  <2>2. res \in [status : PageCodes \cup {200, 302, 501}, connection : Seq({"keep", "close"}),
                body : 1..Len(plan) \cup {None}, kind : Kinds]
    BY <1>1, EmptySeq DEF PageCodes, Kinds
  <2>3. handled \in Seq(Requests)
    BY <1>1, EmptySeq
  <2>4. /\ sent \in 0..Len(Stream(plan)) /\ answered \in 0..Len(plan)
        /\ pc \in {"idle", "parse"} /\ closed \in BOOLEAN /\ refused \in BOOLEAN
        /\ state \in {"line", "header", "emptyline", "body", "done", "invalid"}
        /\ plan \in Plans
    <3>1. 0 \in 0..Len(Stream(plan)) /\ 0 \in 0..Len(plan)
      BY <1>2, <1>3
    <3> QED BY <1>1, <3>1
  <2> QED BY <2>1, <2>2, <2>3, <2>4, Zenon DEF Typed
<1>5. ReadAll \/ ReadSome
  <2>1. CASE Len(plan) = 0
    BY <1>1, <1>3, <2>1 DEF ReadAll
  <2>2. CASE Len(plan) # 0
    <3>1. answered < Len(plan)
      BY <1>1, <1>2, <2>2
    <3> DEFINE e == Encode(plan[answered + 1])
    <3>2. Len(e) \in Nat
      BY <1>4, <3>1, CurrentIs
    <3> HIDE DEF e
    <3>3. 0 \in 0..Len(e) /\ 0 \in 0..0 /\ sent = Base(answered) + 0
      BY <1>1, <1>3, <3>2
    <3>4. rbuf = SubSeq(e, 0 + 1, 0)
      BY <1>1, SubSeqEmpty
    <3>5. ReadTo(plan[answered + 1], 0, 0)
      BY <1>1 DEF ReadTo
    <3> QED BY <3>1, <3>3, <3>4, <3>5 DEF ReadSome, e
  <2> QED BY <2>1, <2>2
<1>6. Reading
  BY <1>1, <1>5 DEF Reading
<1> QED BY <1>4, <1>6 DEF Inv

\* The reactor adds a piece of the message
LEMMA ReaderInv ==
  ASSUME Inv, NEW n \in 1..Len(Stream(plan)), Reader(n)
  PROVE  Inv'
<1>1. /\ pc = "idle" /\ ~closed /\ sent + n <= Allowed /\ sent' = sent + n
      /\ rbuf' = rbuf \o SubSeq(Stream(plan), sent + 1, sent + n) /\ pc' = "parse"
      /\ UNCHANGED <<plan, state, req, res, wbuf, closed, handled, refused, answered>>
  BY DEF Reader, history
<1>2. Typed /\ sent \in Nat /\ n \in Nat /\ n >= 1 /\ Len(Stream(plan)) \in Nat
  <2>1. Typed /\ plan \in Seq(Messages) /\ Len(plan) \in Nat
    BY PlanIs DEF Inv
  <2>2. Len(plan) \in 0..Len(plan)
    BY <2>1
  <2>3. Len(Stream(plan)) \in Nat
    BY <2>1, <2>2, StreamGrows
  <2> QED BY <2>1, <2>3 DEF Typed
<1>3. \A k : Base(k)' = Base(k)
  BY <1>1 DEF Base
<1>4. answered < Len(plan) /\ ((Reading /\ ReadSome) \/ (Writing /\ Refused))
  <2>1. CASE Reading /\ ReadAll
    <3>1. Allowed = Base(answered) /\ sent = Base(answered)
      BY <1>2, <2>1, AtTheEnd DEF ReadAll
    <3> QED BY <1>1, <1>2, <3>1
  <2>2. CASE Reading /\ ReadSome
    BY <2>2 DEF ReadSome
  <2>3. CASE Writing /\ Handled
    <3>1. Allowed = Base(answered + 1) /\ sent = Base(answered + 1)
      BY <1>2, <2>3, CurrentIs DEF Writing, Handled
    <3> QED BY <1>1, <1>2, <3>1
  <2>4. CASE Writing /\ Refused
    BY <2>4 DEF Writing
  <2> QED BY <1>1, <2>1, <2>2, <2>3, <2>4 DEF Inv, Reading, Writing
<1>m. PICK m : m = plan[answered + 1]
  OBVIOUS
<1>b. PICK base : base = Base(answered)
  OBVIOUS
<1>s. PICK all : all = Stream(plan)
  OBVIOUS
<1> DEFINE e == Encode(m)
<1>5. /\ e \in Seq(Tokens) /\ Len(e) \in Nat /\ base \in Nat /\ all \in Seq(Tokens)
      /\ Base(answered + 1) = base + Len(e) /\ Base(answered + 1) <= Len(all)
      /\ \A i \in 1..Len(e) : all[base + i] = e[i]
      /\ Allowed = Base(answered + 1)
  BY <1>m, <1>b, <1>s, <1>2, <1>4, CurrentIs
<1>6. plan' = plan /\ answered' = answered /\ answered' < Len(plan') /\ plan'[answered' + 1] = m
  BY <1>m, <1>1, <1>4
<1>7. Base(answered)' = base
  BY <1>b, <1>1 DEF Base
<1> HIDE DEF e
<1>8. Typed'
  <2>1. sent' \in 0..Len(Stream(plan))
    BY <1>s, <1>1, <1>2, <1>5
  <2> QED BY <1>1, <1>2, <2>1 DEF Typed
<1>9. ASSUME NEW off \in 0..Len(e), sent = base + off
      PROVE  /\ off + n \in 0..Len(e) /\ n \in 0..(Len(e) - off) /\ sent' = base + (off + n)
             /\ sent + 1 = (base + off) + 1 /\ sent + n = (base + off) + n
  BY <1>1, <1>2, <1>5, <1>9
<1>10. CASE Reading /\ ReadSome
  <2>1. PICK off \in 0..Len(e) : \E pos \in 0..off : /\ sent = base + off
                                                    /\ rbuf = SubSeq(e, pos + 1, off)
                                                    /\ ReadTo(m, pos, off)
    BY <1>10, <1>b, <1>m DEF ReadSome, e
  <2>2. PICK pos \in 0..off : /\ sent = base + off /\ rbuf = SubSeq(e, pos + 1, off)
                              /\ ReadTo(m, pos, off)
    BY <2>1
  <2>3. /\ off + n \in 0..Len(e) /\ n \in 0..(Len(e) - off) /\ sent' = base + (off + n)
        /\ sent + 1 = (base + off) + 1 /\ sent + n = (base + off) + n
    BY <1>9, <2>2
  <2>4. rbuf' = SubSeq(e, pos + 1, off + n)
    <3>1. pos \in Nat /\ off \in pos..Len(e) /\ base + Len(e) <= Len(all)
      BY <1>5
    <3>2. e \in Seq(Tokens) /\ all \in Seq(Tokens) /\ base \in Nat /\ n \in 0..(Len(e) - off)
      BY <1>5, <2>3
    <3>3. \A i \in 1..Len(e) : all[base + i] = e[i]
      BY <1>5, Zenon
    <3>4. SubSeq(e, pos + 1, off) \o SubSeq(all, (base + off) + 1, (base + off) + n)
            = SubSeq(e, pos + 1, off + n)
      BY <3>1, <3>2, <3>3, PieceMore, SMTT(30)
    <3>5. rbuf' = SubSeq(e, pos + 1, off) \o SubSeq(all, (base + off) + 1, (base + off) + n)
      BY <1>s, <1>1, <2>2, <2>3, Zenon
    <3> QED BY <3>4, <3>5
  <2>5. ReadTo(m, pos, off + n)'
    <3>1. state \notin {"done", "invalid"}
      BY <1>1, <2>2 DEF ReadTo
    <3> QED BY <1>1, <2>2, <3>1 DEF ReadTo, FieldsRead
  <2>6. pos \in 0..(off + n)
    BY <1>2
  <2>7. ReadSome'
    <3>1. /\ off + n \in 0..Len(Encode(plan'[answered' + 1])) /\ sent' = Base(answered)' + (off + n)
          /\ rbuf' = SubSeq(Encode(plan'[answered' + 1]), pos + 1, off + n)
      BY <1>6, <1>7, <2>3, <2>4 DEF e
    <3> QED BY <1>6, <2>5, <2>6, <3>1 DEF ReadSome
  <2>8. Reading'
    BY <1>1, <1>4, <1>10, <2>7 DEF Reading
  <2> QED BY <1>8, <2>8 DEF Inv
<1>11. CASE Writing /\ Refused
  <2>1. PICK off \in 0..Len(e) : sent = base + off
    BY <1>11, <1>b, <1>m DEF Refused, e
  <2>2. off + n \in 0..Len(e) /\ sent' = base + (off + n)
    BY <1>9, <2>1
  <2>3. Refused'
    <3>1. /\ off + n \in 0..Len(Encode(plan'[answered' + 1])) /\ sent' = Base(answered)' + (off + n)
      BY <1>6, <1>7, <2>2 DEF e
    <3> QED BY <1>1, <1>11, <3>1 DEF Refused
  <2>4. Writing'
    BY <1>1, <1>11, <2>3 DEF Writing, IsOwn
  <2> QED BY <1>8, <2>4 DEF Inv
<1> QED BY <1>4, <1>10, <1>11

\* What the parser works on: the piece of the current message from pos to off
LEMMA PieceRead ==
  ASSUME Inv, pc = "parse", state # "invalid"
  PROVE  /\ Reading /\ answered < Len(plan) /\ Typed
         /\ \E m \in Messages : \E off \in 0..Len(Encode(m)) : \E pos \in 0..off :
              /\ m = plan[answered + 1] /\ sent = Base(answered) + off
              /\ rbuf = SubSeq(Encode(m), pos + 1, off) /\ ReadTo(m, pos, off)
              /\ Len(Encode(m)) \in Nat /\ off \in Nat /\ pos \in Nat /\ pos <= off
<1>1. Reading /\ ReadSome /\ answered < Len(plan) /\ Typed
  BY Parsing
<1>2. PICK m : m = plan[answered + 1]
  OBVIOUS
<1>3. m \in Messages /\ Len(Encode(m)) \in Nat
  BY <1>1, <1>2, PlanIs, CurrentIs
<1>4. \E off \in 0..Len(Encode(m)) : \E pos \in 0..off :
        /\ sent = Base(answered) + off
        /\ rbuf = SubSeq(Encode(m), pos + 1, off) /\ ReadTo(m, pos, off)
  BY <1>1, <1>2 DEF ReadSome
<1>5. \A off \in 0..Len(Encode(m)) : \A pos \in 0..off : off \in Nat /\ pos \in Nat /\ pos <= off
  BY <1>3
<1> QED BY <1>1, <1>2, <1>3, <1>4, <1>5, Zenon

LEMMA LineInv == ASSUME Inv, ParseRequestLine PROVE Inv'
<1>1. /\ pc = "parse" /\ state = "line"
      /\ UNCHANGED <<plan, sent, res, wbuf, closed, history>>
  BY DEF ParseRequestLine
<1>2. Reading /\ answered < Len(plan) /\ Typed
  BY <1>1, Parsing
<1>m. PICK m \in Messages : \E off \in 0..Len(Encode(m)) : \E pos \in 0..off :
          /\ m = plan[answered + 1] /\ sent = Base(answered) + off
          /\ rbuf = SubSeq(Encode(m), pos + 1, off) /\ ReadTo(m, pos, off)
          /\ Len(Encode(m)) \in Nat /\ off \in Nat /\ pos \in Nat /\ pos <= off
  BY <1>1, PieceRead
<1>o. PICK off \in 0..Len(Encode(m)) : \E pos \in 0..off :
          /\ m = plan[answered + 1] /\ sent = Base(answered) + off
          /\ rbuf = SubSeq(Encode(m), pos + 1, off) /\ ReadTo(m, pos, off)
          /\ Len(Encode(m)) \in Nat /\ off \in Nat /\ pos \in Nat /\ pos <= off
  BY <1>m
<1>3. PICK pos \in 0..off :
        /\ m = plan[answered + 1] /\ sent = Base(answered) + off
        /\ rbuf = SubSeq(Encode(m), pos + 1, off) /\ ReadTo(m, pos, off)
        /\ Len(Encode(m)) \in Nat /\ off \in Nat /\ pos \in Nat /\ pos <= off
  BY <1>o
<1>4. pos = 0 /\ req = NewRequest
  BY <1>1, <1>3 DEF ReadTo
<1> DEFINE e == Encode(m)
<1>5. /\ TrimLeft(rbuf) = rbuf
      /\ HasLine(rbuf) => /\ 3 <= off /\ FirstLine(rbuf) = <<m.line>>
                          /\ AfterLine(rbuf) = SubSeq(e, 3 + 1, off)
  <2>1. 0 \in 0..Len(m.headers) /\ 3 * 0 = 0 /\ 3 * (0 + 1) = 3 /\ off \in (3 * 0)..Len(e)
    BY <1>3, MessageIs
  <2>2. rbuf = SubSeq(e, 3 * 0 + 1, off)
    BY <1>3, <1>4, <2>1
  <2> HIDE DEF e
  <2>3. LineOf(m, 0) = m.line
    BY DEF LineOf
  <2> QED BY <2>1, <2>2, <2>3, ReadLine DEF e
<1>6. CASE ~HasLine(rbuf)
  <2>1. rbuf' = rbuf /\ pc' = "idle" /\ UNCHANGED <<state, req>>
    BY <1>5, <1>6 DEF ParseRequestLine, Pending
  <2>2. ReadTo(m, pos, off)'
    BY <1>1, <1>4, <2>1 DEF ReadTo
  <2>3. req' \in [method : Methods, headers : Seq(HeaderLines)]
    BY <1>2, <2>1 DEF Typed
  <2>4. rbuf' = SubSeq(e, pos + 1, off)
    BY <1>3, <2>1
  <2>5. pc' \in {"idle", "parse"}
        /\ state' \in {"line", "header", "emptyline", "body", "done", "invalid"}
    BY <1>1, <2>1
  <2> QED BY <1>1, <1>2, <1>3, <2>2, <2>3, <2>4, <2>5, ReadsOn
<1>7. CASE HasLine(rbuf) /\ m.line \in Methods
  <2>0. <<m.line>> \in {<<x>> : x \in Methods}
    BY <1>7
  <2>1. /\ rbuf' = SubSeq(e, 3 + 1, off) /\ state' = "header" /\ pc' = "parse"
        /\ req' = [req EXCEPT !.method = m.line]
    BY <1>1, <1>5, <1>7, <2>0 DEF ParseRequestLine
  <2>2. req' = [method |-> m.line, headers |-> <<>>]
    BY <1>4, <2>1 DEF NewRequest
  <2>3. ReadTo(m, 3, off)'
    <3>1. 0 \in 0..Len(m.headers) /\ 3 = 3 * (0 + 1)
      BY MessageIs
    <3>2. FieldsRead(m, 0)'
      BY <2>2, SubSeqEmpty DEF FieldsRead
    <3> QED BY <1>7, <2>1, <3>1, <3>2 DEF ReadTo
  <2>4. req' \in [method : Methods, headers : Seq(HeaderLines)]
    BY <1>7, <2>2, EmptySeq
  <2>5. 3 \in 0..off
    BY <1>3, <1>5, <1>7
  <2>6. pc' \in {"idle", "parse"}
        /\ state' \in {"line", "header", "emptyline", "body", "done", "invalid"}
    BY <2>1
  <2> QED BY <1>1, <1>2, <1>3, <2>1, <2>3, <2>4, <2>5, <2>6, ReadsOn
<1>8. CASE HasLine(rbuf) /\ m.line \notin Methods
  <2>0. <<m.line>> \notin {<<x>> : x \in Methods}
    BY <1>8
  <2>1. /\ rbuf' = SubSeq(e, 3 + 1, off) /\ state' = "invalid" /\ pc' = "parse"
        /\ \E x \in Methods \cup {req.method} : req' = [req EXCEPT !.method = x]
    BY <1>1, <1>5, <1>8, <2>0 DEF ParseRequestLine
  <2>2. ~Session!WellFormed(m)
    BY <1>8 DEF Session!WellFormed, Methods
  <2>3. ReadTo(m, 3, off)'
    BY <2>1, <2>2 DEF ReadTo
  <2>4. req' \in [method : Methods, headers : Seq(HeaderLines)]
    <3>1. req \in [method : Methods, headers : Seq(HeaderLines)]
      BY <1>2 DEF Typed
    <3>2. PICK x \in Methods : req' = [req EXCEPT !.method = x]
      BY <2>1, <3>1
    <3> QED BY <3>1, <3>2
  <2>5. 3 \in 0..off
    BY <1>3, <1>5, <1>8
  <2>6. pc' \in {"idle", "parse"}
        /\ state' \in {"line", "header", "emptyline", "body", "done", "invalid"}
    BY <2>1
  <2> QED BY <1>1, <1>2, <1>3, <2>1, <2>3, <2>4, <2>5, <2>6, ReadsOn
<1> QED BY <1>6, <1>7, <1>8

LEMMA HeaderInv == ASSUME Inv, ParseRequestHeader PROVE Inv'
<1>1. /\ pc = "parse" /\ state = "header"
      /\ UNCHANGED <<plan, sent, res, wbuf, closed, history>>
  BY DEF ParseRequestHeader
<1>2. Reading /\ answered < Len(plan) /\ Typed
  BY <1>1, Parsing
<1>m. PICK m \in Messages : \E off \in 0..Len(Encode(m)) : \E pos \in 0..off :
          /\ m = plan[answered + 1] /\ sent = Base(answered) + off
          /\ rbuf = SubSeq(Encode(m), pos + 1, off) /\ ReadTo(m, pos, off)
          /\ Len(Encode(m)) \in Nat /\ off \in Nat /\ pos \in Nat /\ pos <= off
  BY <1>1, PieceRead
<1>o. PICK off \in 0..Len(Encode(m)) : \E pos \in 0..off :
          /\ m = plan[answered + 1] /\ sent = Base(answered) + off
          /\ rbuf = SubSeq(Encode(m), pos + 1, off) /\ ReadTo(m, pos, off)
          /\ Len(Encode(m)) \in Nat /\ off \in Nat /\ pos \in Nat /\ pos <= off
  BY <1>m
<1>3. PICK pos \in 0..off :
        /\ m = plan[answered + 1] /\ sent = Base(answered) + off
        /\ rbuf = SubSeq(Encode(m), pos + 1, off) /\ ReadTo(m, pos, off)
        /\ Len(Encode(m)) \in Nat /\ off \in Nat /\ pos \in Nat /\ pos <= off
  BY <1>o
<1> DEFINE e == Encode(m)
           n == Len(m.headers)
<1>4. /\ n \in Nat /\ m.headers \in Seq(HeaderLines \cup {"text"})
      /\ \A i \in 1..n : m.headers[i] \in HeaderLines \cup {"text"}
  BY MessageIs
<1>5. m.line \in Methods
  BY <1>1, <1>3 DEF ReadTo
<1>6. PICK j \in 0..n : pos = 3 * (j + 1) /\ FieldsRead(m, j)
  BY <1>1, <1>3 DEF ReadTo
<1>7. /\ \A i \in 1..j : m.headers[i] # "text"
      /\ req = [method |-> m.line, headers |-> SubSeq(m.headers, 1, j)]
      /\ req \in [method : Methods, headers : Seq(HeaderLines)]
  BY <1>2, <1>6 DEF FieldsRead, Typed
<1>8. CASE ~HasLine(rbuf)
  <2>1. rbuf' = rbuf /\ pc' = "idle" /\ UNCHANGED <<state, req>>
    BY <1>8 DEF ParseRequestHeader, Pending
  <2>2. ReadTo(m, pos, off)'
    BY <1>1, <1>5, <1>6, <2>1 DEF ReadTo, FieldsRead
  <2>3. req' \in [method : Methods, headers : Seq(HeaderLines)]
    BY <1>7, <2>1
  <2>4. rbuf' = SubSeq(e, pos + 1, off)
    BY <1>3, <2>1
  <2>5. pc' \in {"idle", "parse"}
        /\ state' \in {"line", "header", "emptyline", "body", "done", "invalid"}
    BY <1>1, <2>1
  <2> QED BY <1>1, <1>2, <1>3, <2>2, <2>3, <2>4, <2>5, ReadsOn
<1>9. CASE HasLine(rbuf) /\ j < n
  <2> DEFINE h == m.headers[j + 1]
             k == j + 1
  <2>1. /\ k \in 1..n /\ k \in 0..n /\ h \in HeaderLines \cup {"text"} /\ LineOf(m, k) = h
        /\ pos = 3 * k /\ off \in (3 * k)..Len(e) /\ k \in Nat
    <3>1. k \in 1..n /\ k \in 0..n /\ k \in Nat /\ k # 0
      BY <1>4, <1>9
    <3>2. h \in HeaderLines \cup {"text"}
      BY <1>4, <3>1, Zenon
    <3>3. LineOf(m, k) = h
      BY <3>1, Zenon DEF LineOf
    <3>4. pos = 3 * k /\ off \in (3 * k)..Len(e)
      BY <1>3, <1>4, <1>6
    <3> QED BY <3>1, <3>2, <3>3, <3>4, Zenon
  <2> HIDE DEF e, n, k
  <2>2. /\ 3 * (k + 1) <= off /\ FirstLine(rbuf) = <<h>>
        /\ AfterLine(rbuf) = SubSeq(e, 3 * (k + 1) + 1, off)
    <3>1. rbuf = SubSeq(e, 3 * k + 1, off)
      BY <1>3, <2>1 DEF e
    <3> QED BY <1>9, <2>1, <3>1, ReadLine DEF e, n
  <2>3. <<h>> # <<>> /\ Range(<<h>>) = {h}
    BY DEF Range
  <2>4. rbuf' = SubSeq(e, 3 * (k + 1) + 1, off) /\ pc' = "parse" /\ 3 * (k + 1) \in 0..off
    <3>1. rbuf' = AfterLine(rbuf) /\ pc' = "parse"
      BY <1>1, <1>9 DEF ParseRequestHeader
    <3>2. 3 * (k + 1) \in 0..off
      <4>1. k \in Nat /\ off \in Nat /\ 3 * (k + 1) <= off
        BY <1>3, <2>1, <2>2
      <4> QED BY <4>1
    <3> QED BY <2>2, <3>1, <3>2
  <2>5. CASE h # "text"
    <3>0. h \in HeaderLines
      BY <2>1, <2>5
    <3>1. state' = "header" /\ req' = [req EXCEPT !.headers = @ \o <<h>>]
      <4>1. Range(<<h>>) \cap HeaderLines # {}
        BY <2>3, <3>0
      <4> QED BY <1>1, <1>9, <2>2, <2>3, <4>1 DEF ParseRequestHeader
    <3>2. req' = [method |-> m.line, headers |-> SubSeq(m.headers, 1, k)]
      <4>1. req' = [method |-> m.line, headers |-> SubSeq(m.headers, 1, j) \o <<h>>]
        BY <1>7, <3>1
      <4>2. SubSeq(m.headers, 1, k) = SubSeq(m.headers, 1, k - 1) \o <<m.headers[k]>>
        <5>1. 1 \in 1..Len(m.headers) /\ k \in 1..Len(m.headers)
          BY <1>4, <2>1 DEF n
        <5> QED BY <1>4, <5>1, SubSeqRecursiveSecond
      <4>3. k - 1 = j /\ m.headers[k] = h
        BY <1>4, <2>1 DEF k
      <4> QED BY <4>1, <4>2, <4>3
    <3>3. \A i \in 1..k : m.headers[i] # "text"
      <4>1. \A i \in 1..k : i \in 1..j \/ i = j + 1
        BY <1>4 DEF k
      <4> QED BY <1>7, <2>5, <4>1
    <3>4. ReadTo(m, 3 * (k + 1), off)'
      BY <1>5, <2>1, <3>1, <3>2, <3>3 DEF ReadTo, FieldsRead, n
    <3>5. req' \in [method : Methods, headers : Seq(HeaderLines)]
      <4>1. req.headers \in Seq(HeaderLines) /\ <<h>> \in Seq(HeaderLines)
        BY <1>7, <3>0
      <4>2. req.headers \o <<h>> \in Seq(HeaderLines)
        BY <4>1, ConcatProperties
      <4> QED BY <1>7, <3>1, <4>2
    <3>6. pc' \in {"idle", "parse"}
          /\ state' \in {"line", "header", "emptyline", "body", "done", "invalid"}
      BY <2>4, <3>1
    <3> QED BY <1>1, <1>2, <1>3, <2>4, <3>4, <3>5, <3>6, ReadsOn DEF e
  <2>6. CASE h = "text"
    <3>1. state' = "emptyline" /\ req' = req
      <4>1. Range(<<h>>) \cap HeaderLines = {}
        BY <2>3, <2>6 DEF HeaderLines
      <4> QED BY <1>1, <1>9, <2>2, <2>3, <4>1 DEF ParseRequestHeader
    <3>2. k - 1 = j /\ m.headers[k] = "text"
      BY <1>4, <2>6 DEF k
    <3>3. ReadTo(m, 3 * (k + 1), off)'
      <4>1. FieldsRead(m, k - 1)'
        BY <1>7, <3>1, <3>2 DEF FieldsRead
      <4> QED BY <1>5, <2>1, <3>1, <3>2, <4>1 DEF ReadTo, n
    <3>4. req' \in [method : Methods, headers : Seq(HeaderLines)]
      BY <1>7, <3>1
    <3>5. pc' \in {"idle", "parse"}
          /\ state' \in {"line", "header", "emptyline", "body", "done", "invalid"}
      BY <2>4, <3>1
    <3> QED BY <1>1, <1>2, <1>3, <2>4, <3>3, <3>4, <3>5, ReadsOn DEF e
  <2> QED BY <2>5, <2>6
<1>10. CASE HasLine(rbuf) /\ j = n
  <2>1. /\ 3 * n + 5 <= off /\ FirstLine(rbuf) = <<>>
        /\ AfterLine(rbuf) = SubSeq(e, (3 * n + 5) + 1, off)
    <3>1. rbuf = SubSeq(e, 3 * (n + 1) + 1, off) /\ off \in (3 * (n + 1))..Len(e)
      BY <1>3, <1>4, <1>6, <1>10
    <3> QED BY <1>10, <3>1, ReadBlank
  <2>2. Range(<<>>) \cap HeaderLines = {}
    BY DEF Range
  <2>3. rbuf' = SubSeq(e, (3 * n + 5) + 1, off) /\ pc' = "parse" /\ state' = "body" /\ req' = req
    BY <1>1, <1>10, <2>1, <2>2 DEF ParseRequestHeader
  <2>4. Session!HeadersOf(m) = SubSeq(m.headers, 1, n) /\ "text" \notin Range(Session!HeadersOf(m))
    BY <1>7, <1>10, HeadersOfIs
  <2>5. ReadTo(m, 3 * n + 5, off)'
    BY <1>5, <1>7, <1>10, <2>3, <2>4 DEF ReadTo
  <2>6. req' \in [method : Methods, headers : Seq(HeaderLines)]
    BY <1>7, <2>3
  <2>7. 3 * n + 5 \in 0..off
    BY <1>3, <1>4, <2>1
  <2>8. pc' \in {"idle", "parse"}
        /\ state' \in {"line", "header", "emptyline", "body", "done", "invalid"}
    BY <2>3
  <2> QED BY <1>1, <1>2, <1>3, <2>3, <2>5, <2>6, <2>7, <2>8, ReadsOn
<1>11. j < n \/ j = n
  BY <1>4
<1> QED BY <1>8, <1>9, <1>10, <1>11

LEMMA SessionRange == ASSUME NEW s PROVE Session!Range(s) = Range(s)
BY DEF Session!Range, Range

\* The response with each of its parts
Resp(s, c, b, k) == [status |-> s, connection |-> c, body |-> b, kind |-> k]

LEMMA ErrorIs ==
  ASSUME NEW s, NEW c, NEW b, NEW k, NEW code
  PROVE  ErrorResponse(Resp(s, c, b, k), code) =
           Resp(code, IF code \in ClosingCodes THEN Append(c, "close") ELSE c, b, k)
<1> DEFINE r == Resp(s, c, b, k)
           d == IF code \in ClosingCodes THEN Append(c, "close") ELSE c
<1>1. /\ r.connection = c /\ r.body = b /\ r.kind = k
      /\ DOMAIN r = {"status", "connection", "body", "kind"}
  BY DEF Resp
<1>2. ErrorResponse(r, code) = [r EXCEPT !.status = code, !.connection = d]
  BY <1>1 DEF ErrorResponse
<1> HIDE DEF d
<1>3. [Resp(s, c, b, k) EXCEPT !.status = code, !.connection = d] = Resp(code, d, b, k)
  <2>1. [Resp(s, c, b, k) EXCEPT !.status = code] = Resp(code, c, b, k)
    BY DEF Resp
  <2>2. [Resp(code, c, b, k) EXCEPT !.connection = d] = Resp(code, d, b, k)
    BY DEF Resp
  <2>3. [Resp(s, c, b, k) EXCEPT !.status = code, !.connection = d] =
         [[Resp(s, c, b, k) EXCEPT !.status = code] EXCEPT !.connection = d]
    BY DEF Resp
  <2> QED BY <2>1, <2>2, <2>3
<1> QED BY <1>2, <1>3 DEF d

LEMMA EmptyLineInv == ASSUME Inv, ParseRequestEmptyLine PROVE Inv'
<1>1. /\ pc = "parse" /\ state = "emptyline"
      /\ UNCHANGED <<plan, sent, res, wbuf, closed, history>>
  BY DEF ParseRequestEmptyLine
<1>2. Reading /\ answered < Len(plan) /\ Typed
  BY <1>1, Parsing
<1>m. PICK m \in Messages : \E off \in 0..Len(Encode(m)) : \E pos \in 0..off :
          /\ m = plan[answered + 1] /\ sent = Base(answered) + off
          /\ rbuf = SubSeq(Encode(m), pos + 1, off) /\ ReadTo(m, pos, off)
          /\ Len(Encode(m)) \in Nat /\ off \in Nat /\ pos \in Nat /\ pos <= off
  BY <1>1, PieceRead
<1>o. PICK off \in 0..Len(Encode(m)) : \E pos \in 0..off :
          /\ m = plan[answered + 1] /\ sent = Base(answered) + off
          /\ rbuf = SubSeq(Encode(m), pos + 1, off) /\ ReadTo(m, pos, off)
          /\ Len(Encode(m)) \in Nat /\ off \in Nat /\ pos \in Nat /\ pos <= off
  BY <1>m
<1>3. PICK pos \in 0..off :
        /\ m = plan[answered + 1] /\ sent = Base(answered) + off
        /\ rbuf = SubSeq(Encode(m), pos + 1, off) /\ ReadTo(m, pos, off)
        /\ Len(Encode(m)) \in Nat /\ off \in Nat /\ pos \in Nat /\ pos <= off
  BY <1>o
<1> DEFINE e == Encode(m)
           n == Len(m.headers)
<1>4. n \in Nat /\ m.headers \in Seq(HeaderLines \cup {"text"})
  BY MessageIs
<1>5. m.line \in Methods
  BY <1>1, <1>3 DEF ReadTo
<1>6. PICK j \in 1..n : pos = 3 * (j + 1) /\ FieldsRead(m, j - 1) /\ m.headers[j] = "text"
  BY <1>1, <1>3 DEF ReadTo
<1>7. /\ \A i \in 1..(j - 1) : m.headers[i] # "text"
      /\ req = [method |-> m.line, headers |-> SubSeq(m.headers, 1, j - 1)]
      /\ req \in [method : Methods, headers : Seq(HeaderLines)]
  BY <1>2, <1>6 DEF FieldsRead, Typed
<1>8. ~Session!WellFormed(m)
  <2>1. Range(m.headers) = {m.headers[i] : i \in 1..n}
    BY <1>4, RangeEquality
  <2>2. "text" \in Range(m.headers)
    BY <1>6, <2>1
  <2>3. Range(m.headers) \cap {"text", "lenx"} # {}
    BY <2>2
  <2>4. Session!Fields(m) = Range(m.headers)
    BY SessionRange DEF Session!Fields
  <2> QED BY <2>3, <2>4, Zenon DEF Session!WellFormed
<1>9. CASE /\ rbuf' = rbuf /\ req' = req
           /\ (pc' = "idle" /\ state' = state) \/ (pc' = "parse" /\ state' = "invalid")
  <2>1. ReadTo(m, pos, off)'
    BY <1>1, <1>5, <1>6, <1>8, <1>9 DEF ReadTo, FieldsRead
  <2>2. req' \in [method : Methods, headers : Seq(HeaderLines)]
    BY <1>7, <1>9
  <2>3. rbuf' = SubSeq(e, pos + 1, off)
    BY <1>3, <1>9
  <2>4. pc' \in {"idle", "parse"}
        /\ state' \in {"line", "header", "emptyline", "body", "done", "invalid"}
    BY <1>1, <1>9
  <2> QED BY <1>1, <1>2, <1>3, <2>1, <2>2, <2>3, <2>4, ReadsOn
<1>10. CASE HasTwoBytes(rbuf) /\ IsPrefix(CRLF, rbuf)
  <2>1. j = n
    <3> SUFFICES ASSUME j # n PROVE FALSE
      OBVIOUS
    <3> DEFINE k == j + 1
    <3>1. k \in 0..n /\ off \in (3 * k)..Len(e) /\ pos = 3 * k
      <4>1. Len(e) \in Nat /\ off \in 0..Len(e) /\ pos \in 0..off
        BY <1>3
      <4>2. n \in Nat /\ j \in 1..n /\ pos = 3 * (j + 1)
        BY <1>4, <1>6
      <4> HIDE DEF e, n
      <4> QED BY <4>1, <4>2
    <3> HIDE DEF k
    <3>2. rbuf = SubSeq(e, 3 * k + 1, off)
      BY <1>3, <3>1
    <3>3. ~IsPrefix(CRLF, rbuf)
      BY <3>1, <3>2, ReadLine
    <3> QED BY <1>10, <3>3
  <2>2. /\ 3 * n + 5 <= off
        /\ SubSeq(rbuf, 3, Len(rbuf)) = SubSeq(e, (3 * n + 5) + 1, off)
    <3>1. rbuf = SubSeq(e, 3 * (n + 1) + 1, off) /\ off \in (3 * (n + 1))..Len(e)
      BY <1>3, <1>4, <1>6, <2>1
    <3> QED BY <1>10, <3>1, ReadBlank
  <2>3. /\ rbuf' = SubSeq(e, (3 * n + 5) + 1, off) /\ pc' = "parse" /\ req' = req
        /\ state' = IF Has("len2") \/ Has("lenx") THEN "body" ELSE "done"
    BY <1>1, <1>10, <2>2 DEF ParseRequestEmptyLine
  <2>4. /\ Session!HeadersOf(m) = SubSeq(m.headers, 1, n - 1)
        /\ "text" \notin Range(Session!HeadersOf(m))
        /\ FirstIs(Session!HeadersOf(m), "len2", "lenx") <=> FirstIs(m.headers, "len2", "lenx")
    <3>1. n > 0 /\ m.headers[n] = "text" /\ \A i \in 1..(n - 1) : m.headers[i] # "text"
      BY <1>4, <1>6, <1>7, <2>1
    <3> QED BY <3>1, HeadersOfIs
  <2>5. state' = "done" => rbuf' = m.body /\ off = Len(e)
    <3> SUFFICES ASSUME state' = "done" PROVE rbuf' = m.body /\ off = Len(e)
      OBVIOUS
    <3>0. state' = "done"
      OBVIOUS
    <3>1. ~FirstIs(m.headers, "len2", "lenx")
      <4>1. ~Contains(req.headers, "len2")
        BY <2>3, <3>0 DEF Has
      <4>2. ~FirstIs(req.headers, "len2", "lenx")
        BY <4>1 DEF Contains, FirstIs
      <4> QED BY <1>7, <2>1, <2>4, <4>2
    <3>2. off \in (3 * n + 5)..Len(e)
      BY <1>3, <1>4, <2>2
    <3> QED BY <2>3, <3>1, <3>2, ReadBody
  <2>6. ReadTo(m, 3 * n + 5, off)'
    BY <1>5, <1>7, <2>1, <2>3, <2>4, <2>5 DEF ReadTo
  <2>7. req' \in [method : Methods, headers : Seq(HeaderLines)]
    BY <1>7, <2>3
  <2>8. 3 * n + 5 \in 0..off
    BY <1>3, <1>4, <2>2
  <2>9. pc' \in {"idle", "parse"}
        /\ state' \in {"line", "header", "emptyline", "body", "done", "invalid"}
    BY <2>3
  <2> QED BY <1>1, <1>2, <1>3, <2>3, <2>6, <2>7, <2>8, <2>9, ReadsOn
<1>11. \/ HasTwoBytes(rbuf) /\ IsPrefix(CRLF, rbuf)
       \/ /\ rbuf' = rbuf /\ req' = req
          /\ (pc' = "idle" /\ state' = state) \/ (pc' = "parse" /\ state' = "invalid")
  <2>1. CASE ~HasTwoBytes(rbuf) /\ Pending /\ UNCHANGED rbuf
    BY <2>1 DEF Pending
  <2>2. CASE /\ HasTwoBytes(rbuf)
             /\ IF IsPrefix(CRLF, rbuf)
                THEN /\ rbuf' = SubSeq(rbuf, 3, Len(rbuf))
                     /\ state' = IF Has("len2") \/ Has("lenx") THEN "body" ELSE "done"
                ELSE state' = "invalid" /\ UNCHANGED rbuf
             /\ UNCHANGED <<pc, req>>
    <3>1. CASE IsPrefix(CRLF, rbuf)
      BY <2>2, <3>1
    <3>2. CASE ~IsPrefix(CRLF, rbuf)
      BY <1>1, <2>2, <3>2
    <3> QED BY <3>1, <3>2
  <2> QED BY <2>1, <2>2, Zenon DEF ParseRequestEmptyLine
<1> QED BY <1>9, <1>10, <1>11

LEMMA BodyInv == ASSUME Inv, ParseRequestBody PROVE Inv'
<1>1. /\ pc = "parse" /\ state = "body"
      /\ UNCHANGED <<plan, sent, res, wbuf, closed, history>>
  BY DEF ParseRequestBody
<1>2. Reading /\ answered < Len(plan) /\ Typed
  BY <1>1, Parsing
<1>m. PICK m \in Messages : \E off \in 0..Len(Encode(m)) : \E pos \in 0..off :
          /\ m = plan[answered + 1] /\ sent = Base(answered) + off
          /\ rbuf = SubSeq(Encode(m), pos + 1, off) /\ ReadTo(m, pos, off)
          /\ Len(Encode(m)) \in Nat /\ off \in Nat /\ pos \in Nat /\ pos <= off
  BY <1>1, PieceRead
<1>o. PICK off \in 0..Len(Encode(m)) : \E pos \in 0..off :
          /\ m = plan[answered + 1] /\ sent = Base(answered) + off
          /\ rbuf = SubSeq(Encode(m), pos + 1, off) /\ ReadTo(m, pos, off)
          /\ Len(Encode(m)) \in Nat /\ off \in Nat /\ pos \in Nat /\ pos <= off
  BY <1>m
<1>3. PICK pos \in 0..off :
        /\ m = plan[answered + 1] /\ sent = Base(answered) + off
        /\ rbuf = SubSeq(Encode(m), pos + 1, off) /\ ReadTo(m, pos, off)
        /\ Len(Encode(m)) \in Nat /\ off \in Nat /\ pos \in Nat /\ pos <= off
  BY <1>o
<1> DEFINE e == Encode(m)
           n == Len(m.headers)
<1>4. /\ m.line \in Methods /\ pos = 3 * n + 5
      /\ "text" \notin Range(Session!HeadersOf(m))
      /\ req = [method |-> m.line, headers |-> Session!HeadersOf(m)]
      /\ req \in [method : Methods, headers : Seq(HeaderLines)]
  BY <1>1, <1>2, <1>3 DEF ReadTo, Typed
<1>5. UNCHANGED <<rbuf, req>> /\ \/ pc' = "idle" /\ state' = state
                                 \/ /\ pc' = "parse" /\ state' = "done"
                                    /\ FirstIs(req.headers, "len2", "lenx") => HasTwoBytes(rbuf)
  BY <1>1 DEF ParseRequestBody, Pending
<1>6. state' = "done" => rbuf' = m.body /\ off = Len(e)
  <2> SUFFICES ASSUME state' = "done" PROVE rbuf' = m.body /\ off = Len(e)
    OBVIOUS
  <2>1. rbuf' = rbuf /\ (FirstIs(req.headers, "len2", "lenx") => HasTwoBytes(rbuf))
    BY <1>1, <1>5
  <2>2. FirstIs(req.headers, "len2", "lenx") <=> FirstIs(m.headers, "len2", "lenx")
    BY <1>4, HeadersOfIs
  <2>3. rbuf = SubSeq(e, (3 * n + 5) + 1, off) /\ off \in (3 * n + 5)..Len(e)
    <3>1. n \in Nat
      BY MessageIs
    <3> QED BY <1>3, <1>4, <3>1
  <2> QED BY <2>1, <2>2, <2>3, ReadBody
<1>7. ReadTo(m, pos, off)'
  BY <1>1, <1>4, <1>5, <1>6 DEF ReadTo
<1>8. req' \in [method : Methods, headers : Seq(HeaderLines)]
  BY <1>4, <1>5
<1>9. rbuf' = SubSeq(e, pos + 1, off)
  BY <1>3, <1>5
<1>10. pc' \in {"idle", "parse"}
       /\ state' \in {"line", "header", "emptyline", "body", "done", "invalid"}
  BY <1>1, <1>5
<1> QED BY <1>1, <1>2, <1>3, <1>7, <1>8, <1>9, <1>10, ReadsOn

-----------------------------------------------------------------------------
\* A refused request is answered, and refused again for what arrives of it later
LEMMA InvalidInv ==
  ASSUME Inv, ParseInvalid
  PROVE  /\ Inv' /\ answered < Len(plan) /\ refused' = TRUE
         /\ UNCHANGED <<plan, handled, closed, answered>>
         /\ ~refused => /\ ~closed /\ Len(handled) = answered
                        /\ ~Session!WellFormed(plan[answered + 1])
<1>1. /\ pc = "parse" /\ state = "invalid" /\ wbuf' = <<res'>>
      /\ res' = WithErrorPage(ErrorResponse([res EXCEPT !.kind = "invalid"], 400), answered + 1)
      /\ req' = NewRequest /\ rbuf' = <<>> /\ pc' = "idle" /\ refused' = TRUE
      /\ UNCHANGED <<plan, sent, state, closed, handled, answered>>
  BY DEF ParseInvalid
<1>2. (Reading /\ ReadSome) \/ (Writing /\ Refused)
  BY <1>1 DEF Inv, Reading, ReadAll, Writing, Handled
<1>3. Typed /\ answered < Len(plan) /\ ~closed /\ Len(handled) = answered
  BY <1>2 DEF Inv, Reading, ReadSome, Writing, Refused
<1>4. /\ answered \in Nat /\ answered + 1 \in 1..Len(plan)
      /\ res.connection \in Seq({"keep", "close"})
  BY <1>3, PlanIs DEF Typed
<1> DEFINE c == Append(res.connection, "close")
<1>5. c \in Seq({"keep", "close"}) /\ c # <<>> /\ c[1] = "close"
  <2>1. "close" \in {"keep", "close"}
    OBVIOUS
  <2>2. /\ c \in Seq({"keep", "close"}) /\ Len(c) = Len(res.connection) + 1
        /\ \A i \in 1..Len(res.connection) : c[i] = res.connection[i]
        /\ c[Len(res.connection) + 1] = "close"
    BY <1>4, <2>1, AppendProperties
  <2>3. Len(res.connection) \in Nat /\ (res.connection = <<>> <=> Len(res.connection) = 0)
    BY <1>4, EmptySeq, LenProperties, SeqEqual
  <2>4. res.connection = <<>> \/ (res.connection # <<>> /\ res.connection[1] = "close")
    BY <1>2 DEF Reading, Writing, Refused
  <2> DEFINE l == Len(res.connection)
  <2> HIDE DEF c, l
  <2>5. c # <<>>
    <3>1. Len(c) # 0
      BY <2>2, <2>3 DEF l
    <3> QED BY <3>1
  <2>6. c[1] = "close"
    <3>1. CASE l = 0
      BY <2>2, <3>1 DEF l
    <3>2. CASE l # 0
      <4>1. 1 \in 1..l /\ res.connection[1] = "close"
        BY <2>3, <2>4, <3>2 DEF l
      <4> QED BY <2>2, <4>1 DEF l
    <3> QED BY <3>1, <3>2
  <2> QED BY <2>2, <2>5, <2>6
<1>6. res' = Resp(400, c, answered + 1, "invalid")
  <2>1. res = Resp(res.status, res.connection, res.body, res.kind)
    BY <1>3 DEF Typed, Resp
  <2>2. [res EXCEPT !.kind = "invalid"] = Resp(res.status, res.connection, res.body, "invalid")
    BY <2>1 DEF Resp
  <2>3. ErrorResponse([res EXCEPT !.kind = "invalid"], 400) = Resp(400, c, res.body, "invalid")
    <3>1. 400 \in ClosingCodes
      BY DEF ClosingCodes
    <3> QED BY <2>2, <3>1, ErrorIs
  <2>4. WithErrorPage(Resp(400, c, res.body, "invalid"), answered + 1)
          = Resp(400, c, answered + 1, "invalid")
    BY DEF WithErrorPage, PageCodes, Resp
  <2> QED BY <1>1, <2>3, <2>4
<1> HIDE DEF c
<1>7. Typed'
  <2>1. res' \in [status : PageCodes \cup {200, 302, 501}, connection : Seq({"keep", "close"}),
                  body : 1..Len(plan) \cup {None}, kind : Kinds]
    BY <1>4, <1>5, <1>6 DEF PageCodes, Kinds, Resp
  <2>2. req' \in [method : Methods, headers : Seq(HeaderLines)]
    BY <1>1, EmptySeq DEF NewRequest, Methods
  <2> QED BY <1>1, <1>3, <2>1, <2>2 DEF Typed
<1>8. \E off \in 0..Len(Encode(plan[answered + 1])) : sent = Base(answered) + off
  BY <1>2 DEF ReadSome, Refused
<1>9. Base(answered)' = Base(answered)
  BY <1>1 DEF Base
<1>10. Refused'
  BY <1>1, <1>3, <1>5, <1>6, <1>8, <1>9 DEF Refused, Resp
<1>11. IsOwn(res, answered + 1)'
  BY <1>1, <1>6 DEF IsOwn, Resp
<1>12. Writing'
  BY <1>1, <1>3, <1>5, <1>6, <1>10, <1>11 DEF Writing, Resp
<1>13. ~refused => ~Session!WellFormed(plan[answered + 1])
  BY <1>1, <1>2 DEF Writing, Refused, ReadSome, ReadTo
<1> QED BY <1>1, <1>3, <1>7, <1>12, <1>13 DEF Inv

-----------------------------------------------------------------------------
LEMMA PageIs ==
  ASSUME NEW s, NEW c, NEW b, NEW k, NEW n
  PROVE  WithErrorPage(Resp(s, c, b, k), n) = Resp(s, c, IF s \in PageCodes THEN n ELSE b, k)
<1>1. CASE s \in PageCodes
  <2>1. [Resp(s, c, b, k) EXCEPT !.body = n] = Resp(s, c, n, k)
    BY DEF Resp
  <2>2. Resp(s, c, b, k).status = s
    BY DEF Resp
  <2> QED BY <1>1, <2>1, <2>2 DEF WithErrorPage
<1>2. CASE s \notin PageCodes
  <2>1. Resp(s, c, b, k).status = s
    BY DEF Resp
  <2> QED BY <1>2, <2>1 DEF WithErrorPage
<1> QED BY <1>1, <1>2

LEMMA RespIs ==
  ASSUME NEW r, NEW s, NEW c, NEW b, NEW k,
         r = [x \in {"status", "connection", "body", "kind"} |-> r[x]],
         r.status = s, r.connection = c, r.body = b, r.kind = k
  PROVE  r = Resp(s, c, b, k)
<1> DEFINE g == Resp(s, c, b, k)
<1>1. g = [x \in {"status", "connection", "body", "kind"} |-> g[x]]
  BY DEF Resp
<1>2. \A x \in {"status", "connection", "body", "kind"} : r[x] = g[x]
  BY DEF Resp
<1> HIDE DEF g
<1>3. r = g
  BY <1>1, <1>2
<1> QED BY <1>3 DEF g

LEMMA RoutedIs ==
  ASSUME NEW c, NEW b, NEW k, NEW n, NEW q \in Routed(Resp(400, c, b, k), n)
  PROVE  \/ q = Resp(200, c, n, "page")
         \/ q = Resp(302, c, b, "status")
         \/ q = Resp(400, c, b, "silent")
         \/ q = Resp(500, c, b, "throws")
         \/ q = Resp(404, c, b, "nohandler")
         \/ q = Resp(200, c, None, "file")
         \/ q = Resp(404, c, None, "nofile")
         \/ q = Resp(500, Append(c, "close"), None, "noopen")
<1> DEFINE r == Resp(400, c, b, k)
<1>1. CASE q = [r EXCEPT !.status = 200, !.body = n, !.kind = "page"]
  <2>1. PICK s, t, w : s = 400 /\ t = 200 /\ w = "page"
    OBVIOUS
  <2> DEFINE f == [Resp(s, c, b, k) EXCEPT !.status = t, !.body = n, !.kind = w]
  <2>2. /\ f = [x \in {"status", "connection", "body", "kind"} |-> f[x]]
        /\ f.status = t /\ f.connection = c /\ f.body = n /\ f.kind = w
    BY DEF Resp
  <2> HIDE DEF f
  <2>3. f = Resp(t, c, n, w)
    BY <2>2, RespIs
  <2> QED BY <1>1, <2>1, <2>3 DEF f
<1>2. CASE q = [r EXCEPT !.status = 302, !.kind = "status"]
  <2>1. PICK s, t, w : s = 400 /\ t = 302 /\ w = "status"
    OBVIOUS
  <2> DEFINE f == [Resp(s, c, b, k) EXCEPT !.status = t, !.kind = w]
  <2>2. /\ f = [x \in {"status", "connection", "body", "kind"} |-> f[x]]
        /\ f.status = t /\ f.connection = c /\ f.body = b /\ f.kind = w
    BY DEF Resp
  <2> HIDE DEF f
  <2>3. f = Resp(t, c, b, w)
    BY <2>2, RespIs
  <2> QED BY <1>2, <2>1, <2>3 DEF f
<1>3. CASE q = [r EXCEPT !.kind = "silent"]
  <2> DEFINE f == [r EXCEPT !.kind = "silent"]
  <2>1. /\ f = [x \in {"status", "connection", "body", "kind"} |-> f[x]]
        /\ f.status = 400 /\ f.connection = c /\ f.body = b /\ f.kind = "silent"
    BY DEF Resp
  <2> HIDE DEF f
  <2>2. f = Resp(400, c, b, "silent")
    BY <2>1, RespIs
  <2> QED BY <1>3, <2>2 DEF f
<1>4. CASE q = [r EXCEPT !.status = 500, !.kind = "throws"]
  <2>1. PICK s, t, w : s = 400 /\ t = 500 /\ w = "throws"
    OBVIOUS
  <2> DEFINE f == [Resp(s, c, b, k) EXCEPT !.status = t, !.kind = w]
  <2>2. /\ f = [x \in {"status", "connection", "body", "kind"} |-> f[x]]
        /\ f.status = t /\ f.connection = c /\ f.body = b /\ f.kind = w
    BY DEF Resp
  <2> HIDE DEF f
  <2>3. f = Resp(t, c, b, w)
    BY <2>2, RespIs
  <2> QED BY <1>4, <2>1, <2>3 DEF f
<1>5. CASE q = [r EXCEPT !.status = 404, !.kind = "nohandler"]
  <2>1. PICK s, t, w : s = 400 /\ t = 404 /\ w = "nohandler"
    OBVIOUS
  <2> DEFINE f == [Resp(s, c, b, k) EXCEPT !.status = t, !.kind = w]
  <2>2. /\ f = [x \in {"status", "connection", "body", "kind"} |-> f[x]]
        /\ f.status = t /\ f.connection = c /\ f.body = b /\ f.kind = w
    BY DEF Resp
  <2> HIDE DEF f
  <2>3. f = Resp(t, c, b, w)
    BY <2>2, RespIs
  <2> QED BY <1>5, <2>1, <2>3 DEF f
<1>6. CASE q = [r EXCEPT !.status = 200, !.body = None, !.kind = "file"]
  <2>1. PICK s, t, w : s = 400 /\ t = 200 /\ w = "file"
    OBVIOUS
  <2> DEFINE f == [Resp(s, c, b, k) EXCEPT !.status = t, !.body = None, !.kind = w]
  <2>2. /\ f = [x \in {"status", "connection", "body", "kind"} |-> f[x]]
        /\ f.status = t /\ f.connection = c /\ f.body = None /\ f.kind = w
    BY DEF Resp
  <2> HIDE DEF f
  <2>3. f = Resp(t, c, None, w)
    BY <2>2, RespIs
  <2> QED BY <1>6, <2>1, <2>3 DEF f
<1>7. [r EXCEPT !.body = None] = Resp(400, c, None, k)
  BY DEF Resp
<1>8. 404 \notin ClosingCodes /\ 500 \in ClosingCodes
  BY DEF ClosingCodes
<1>9. CASE q = [ErrorResponse([r EXCEPT !.body = None], 404) EXCEPT !.kind = "nofile"]
  <2>1. ErrorResponse([r EXCEPT !.body = None], 404) = Resp(404, c, None, k)
    BY <1>7, <1>8, ErrorIs
  <2>2. [Resp(404, c, None, k) EXCEPT !.kind = "nofile"] = Resp(404, c, None, "nofile")
    BY DEF Resp
  <2> QED BY <1>9, <2>1, <2>2
<1>10. CASE q = [ErrorResponse([r EXCEPT !.body = None], 500) EXCEPT !.kind = "noopen"]
  <2>1. ErrorResponse([r EXCEPT !.body = None], 500) = Resp(500, Append(c, "close"), None, k)
    BY <1>7, <1>8, ErrorIs
  <2> DEFINE d == Append(c, "close")
  <2> HIDE DEF d
  <2>2. [Resp(500, d, None, k) EXCEPT !.kind = "noopen"] = Resp(500, d, None, "noopen")
    BY DEF Resp
  <2> QED BY <1>10, <2>1, <2>2 DEF d
<1>11. q \in Routed(r, n)
  OBVIOUS
<1> HIDE DEF r
<1> QED BY <1>1, <1>2, <1>3, <1>4, <1>5, <1>6, <1>9, <1>10, <1>11 DEF Routed

LEMMA OwnIs ==
  ASSUME NEW x, NEW y, NEW n
  PROVE  /\ IsOwn(Resp(200, x, n, "page"), n) /\ IsOwn(Resp(302, x, y, "status"), n)
         /\ IsOwn(Resp(400, x, n, "silent"), n) /\ IsOwn(Resp(500, x, n, "throws"), n)
         /\ IsOwn(Resp(404, x, n, "nohandler"), n) /\ IsOwn(Resp(200, x, None, "file"), n)
         /\ IsOwn(Resp(404, x, n, "nofile"), n) /\ IsOwn(Resp(500, x, n, "noopen"), n)
         /\ IsOwn(Resp(501, x, y, "multi"), n) /\ IsOwn(Resp(500, x, n, "noform"), n)
<1>1. ASSUME NEW s, NEW z, NEW w,
             s = CASE w \in {"page", "file"} -> 200
                   [] w = "status" -> 302
                   [] w \in {"silent", "invalid"} -> 400
                   [] w \in {"nofile", "nohandler"} -> 404
                   [] w = "multi" -> 501
                   [] OTHER -> 500,
             w \notin {"status", "multi", "file"} => z = n,
             w = "file" => z = None
      PROVE  IsOwn(Resp(s, x, z, w), n)
  BY <1>1 DEF IsOwn, Resp
<1>2. IsOwn(Resp(200, x, n, "page"), n)
  BY <1>1
<1>3. IsOwn(Resp(302, x, y, "status"), n)
  BY <1>1
<1>4. IsOwn(Resp(400, x, n, "silent"), n)
  BY <1>1
<1>5. IsOwn(Resp(500, x, n, "throws"), n)
  BY <1>1
<1>6. IsOwn(Resp(404, x, n, "nohandler"), n)
  BY <1>1
<1>7. IsOwn(Resp(200, x, None, "file"), n)
  BY <1>1
<1>8. IsOwn(Resp(404, x, n, "nofile"), n)
  BY <1>1
<1>9. IsOwn(Resp(500, x, n, "noopen"), n)
  BY <1>1
<1>10. IsOwn(Resp(501, x, y, "multi"), n)
  BY <1>1
<1>11. IsOwn(Resp(500, x, n, "noform"), n)
  BY <1>1
<1> QED BY <1>2, <1>3, <1>4, <1>5, <1>6, <1>7, <1>8, <1>9, <1>10, <1>11

\* Whatever the handler does, the response is for its request and begins with what the
\* request asked for
LEMMA ResponsesOwn ==
  ASSUME Typed, res.connection = <<>>, res.status = 400, answered < Len(plan),
         NEW r \in Responses(answered + 1)
  PROVE  LET q == WithErrorPage(r, answered + 1) IN
         /\ q \in [status : PageCodes \cup {200, 302, 501}, connection : Seq({"keep", "close"}),
                   body : 1..Len(plan) \cup {None}, kind : Kinds]
         /\ IsOwn(q, answered + 1) /\ q.connection # <<>>
         /\ q.connection[1] = IF Has("keep") THEN "keep" ELSE "close"
<1>1. /\ answered + 1 \in 1..Len(plan) /\ res.body \in 1..Len(plan) \cup {None}
      /\ res = Resp(400, <<>>, res.body, res.kind)
  BY PlanIs DEF Typed, Resp
<1>n. PICK n : n = answered + 1
  OBVIOUS
<1> DEFINE d == IF Has("keep") THEN "keep" ELSE "close"
           c == <<d>>
           b == res.body
           k == res.kind
<1>2. d \in {"keep", "close"}
  OBVIOUS
<1> HIDE DEF d
<1>3. /\ c \in Seq({"keep", "close"}) /\ c # <<>> /\ c[1] = d
      /\ Append(c, "close") \in Seq({"keep", "close"}) /\ Append(c, "close") # <<>>
      /\ Append(c, "close")[1] = d
  BY <1>2
<1>4. [res EXCEPT !.connection = Append(@, d)] = Resp(400, c, b, k)
  <2>1. Append(<<>>, d) = c
    OBVIOUS
  <2>2. [res EXCEPT !.connection = Append(@, d)] = [res EXCEPT !.connection = c]
    BY <2>1
  <2>3. [Resp(400, <<>>, b, k) EXCEPT !.connection = c] = Resp(400, c, b, k)
    BY DEF Resp
  <2> QED BY <1>1, <2>2, <2>3
<1> HIDE DEF c, b, k
<1>5. 500 \in ClosingCodes /\ 501 \notin ClosingCodes
  BY DEF ClosingCodes
<1>6. \/ r \in Routed(Resp(400, c, b, k), n)
      \/ r = Resp(501, c, b, "multi")
      \/ r = Resp(500, Append(c, "close"), b, "noform")
  <2>1. \/ r \in Routed(Resp(400, c, b, k), n)
        \/ r = [ErrorResponse(Resp(400, c, b, k), 501) EXCEPT !.kind = "multi"]
        \/ r = [ErrorResponse(Resp(400, c, b, k), 500) EXCEPT !.kind = "noform"]
    BY <1>n, <1>4 DEF Responses, d
  <2>2. [ErrorResponse(Resp(400, c, b, k), 501) EXCEPT !.kind = "multi"] = Resp(501, c, b, "multi")
    <3>1. ErrorResponse(Resp(400, c, b, k), 501) = Resp(501, c, b, k)
      BY <1>5, ErrorIs
    <3>2. [Resp(501, c, b, k) EXCEPT !.kind = "multi"] = Resp(501, c, b, "multi")
      BY DEF Resp
    <3> QED BY <3>1, <3>2
  <2>3. [ErrorResponse(Resp(400, c, b, k), 500) EXCEPT !.kind = "noform"]
          = Resp(500, Append(c, "close"), b, "noform")
    <3> DEFINE a == Append(c, "close")
    <3>1. ErrorResponse(Resp(400, c, b, k), 500) = Resp(500, a, b, k)
      BY <1>5, ErrorIs
    <3> HIDE DEF a
    <3>2. [Resp(500, a, b, k) EXCEPT !.kind = "noform"] = Resp(500, a, b, "noform")
      BY DEF Resp
    <3> QED BY <3>1, <3>2 DEF a
  <2> QED BY <2>1, <2>2, <2>3
<1> DEFINE q == WithErrorPage(r, n)
           a == Append(c, "close")
           Ok == /\ q \in [status : PageCodes \cup {200, 302, 501},
                           connection : Seq({"keep", "close"}),
                           body : 1..Len(plan) \cup {None}, kind : Kinds]
                 /\ IsOwn(q, n) /\ q.connection # <<>> /\ q.connection[1] = d
<1>7. /\ a \in Seq({"keep", "close"}) /\ a # <<>> /\ a[1] = d
      /\ n \in 1..Len(plan) \cup {None} /\ b \in 1..Len(plan) \cup {None}
      /\ None \in 1..Len(plan) \cup {None}
  BY <1>n, <1>1, <1>3 DEF b
<1> HIDE DEF a
<1>8. ASSUME NEW s, NEW x, NEW y, NEW z, NEW w, r = Resp(s, x, y, w),
             s \in PageCodes \cup {200, 302, 501}, x = c \/ x = a, w \in Kinds,
             z = IF s \in PageCodes THEN n ELSE y,
             y \in 1..Len(plan) \cup {None}, IsOwn(Resp(s, x, z, w), n)
      PROVE  Ok
  <2>1. z \in 1..Len(plan) \cup {None}
    BY <1>7, <1>8
  <2>2. q = Resp(s, x, z, w)
    BY <1>8, PageIs
  <2>3. x \in Seq({"keep", "close"}) /\ x # <<>> /\ x[1] = d
    BY <1>3, <1>7, <1>8
  <2>4. IsOwn(q, n)
    BY <1>8, <2>2
  <2> HIDE DEF q
  <2>5. q \in [status : PageCodes \cup {200, 302, 501}, connection : Seq({"keep", "close"}),
               body : 1..Len(plan) \cup {None}, kind : Kinds]
    BY <1>8, <2>1, <2>2, <2>3 DEF Resp
  <2>6. q.connection # <<>> /\ q.connection[1] = d
    BY <2>2, <2>3 DEF Resp
  <2> QED BY <2>4, <2>5, <2>6 DEF q
<1> HIDE DEF Ok
<1>9. ASSUME r = Resp(200, c, n, "page") PROVE Ok
  <2>1. /\ 200 \in PageCodes \cup {200, 302, 501} /\ "page" \in Kinds
        /\ n = IF 200 \in PageCodes THEN n ELSE n
    BY DEF PageCodes, Kinds
  <2>2. IsOwn(Resp(200, c, n, "page"), n)
    BY OwnIs
  <2>3. n \in 1..Len(plan) \cup {None}
    BY <1>7
  <2> QED BY <1>8, <1>9, <2>1, <2>2, <2>3
<1>10. ASSUME r = Resp(302, c, b, "status") PROVE Ok
  <2>1. /\ 302 \in PageCodes \cup {200, 302, 501} /\ "status" \in Kinds
        /\ b = IF 302 \in PageCodes THEN n ELSE b
    BY DEF PageCodes, Kinds
  <2>2. IsOwn(Resp(302, c, b, "status"), n)
    BY OwnIs
  <2>3. b \in 1..Len(plan) \cup {None}
    BY <1>7
  <2> QED BY <1>8, <1>10, <2>1, <2>2, <2>3
<1>11. ASSUME r = Resp(400, c, b, "silent") PROVE Ok
  <2>1. /\ 400 \in PageCodes \cup {200, 302, 501} /\ "silent" \in Kinds
        /\ n = IF 400 \in PageCodes THEN n ELSE b
    BY DEF PageCodes, Kinds
  <2>2. IsOwn(Resp(400, c, n, "silent"), n)
    BY OwnIs
  <2>3. b \in 1..Len(plan) \cup {None}
    BY <1>7
  <2> QED BY <1>8, <1>11, <2>1, <2>2, <2>3
<1>12. ASSUME r = Resp(500, c, b, "throws") PROVE Ok
  <2>1. /\ 500 \in PageCodes \cup {200, 302, 501} /\ "throws" \in Kinds
        /\ n = IF 500 \in PageCodes THEN n ELSE b
    BY DEF PageCodes, Kinds
  <2>2. IsOwn(Resp(500, c, n, "throws"), n)
    BY OwnIs
  <2>3. b \in 1..Len(plan) \cup {None}
    BY <1>7
  <2> QED BY <1>8, <1>12, <2>1, <2>2, <2>3
<1>13. ASSUME r = Resp(404, c, b, "nohandler") PROVE Ok
  <2>1. /\ 404 \in PageCodes \cup {200, 302, 501} /\ "nohandler" \in Kinds
        /\ n = IF 404 \in PageCodes THEN n ELSE b
    BY DEF PageCodes, Kinds
  <2>2. IsOwn(Resp(404, c, n, "nohandler"), n)
    BY OwnIs
  <2>3. b \in 1..Len(plan) \cup {None}
    BY <1>7
  <2> QED BY <1>8, <1>13, <2>1, <2>2, <2>3
<1>14. ASSUME r = Resp(200, c, None, "file") PROVE Ok
  <2>1. /\ 200 \in PageCodes \cup {200, 302, 501} /\ "file" \in Kinds
        /\ None = IF 200 \in PageCodes THEN n ELSE None
    BY DEF PageCodes, Kinds
  <2>2. IsOwn(Resp(200, c, None, "file"), n)
    BY OwnIs
  <2>3. None \in 1..Len(plan) \cup {None}
    BY <1>7
  <2> QED BY <1>8, <1>14, <2>1, <2>2, <2>3
<1>15. ASSUME r = Resp(404, c, None, "nofile") PROVE Ok
  <2>1. /\ 404 \in PageCodes \cup {200, 302, 501} /\ "nofile" \in Kinds
        /\ n = IF 404 \in PageCodes THEN n ELSE None
    BY DEF PageCodes, Kinds
  <2>2. IsOwn(Resp(404, c, n, "nofile"), n)
    BY OwnIs
  <2>3. None \in 1..Len(plan) \cup {None}
    BY <1>7
  <2> QED BY <1>8, <1>15, <2>1, <2>2, <2>3
<1>16. ASSUME r = Resp(500, a, None, "noopen") PROVE Ok
  <2>1. /\ 500 \in PageCodes \cup {200, 302, 501} /\ "noopen" \in Kinds
        /\ n = IF 500 \in PageCodes THEN n ELSE None
    BY DEF PageCodes, Kinds
  <2>2. IsOwn(Resp(500, a, n, "noopen"), n)
    BY OwnIs
  <2>3. None \in 1..Len(plan) \cup {None}
    BY <1>7
  <2> QED BY <1>8, <1>16, <2>1, <2>2, <2>3
<1>17. ASSUME r = Resp(501, c, b, "multi") PROVE Ok
  <2>1. /\ 501 \in PageCodes \cup {200, 302, 501} /\ "multi" \in Kinds
        /\ b = IF 501 \in PageCodes THEN n ELSE b
    BY DEF PageCodes, Kinds
  <2>2. IsOwn(Resp(501, c, b, "multi"), n)
    BY OwnIs
  <2>3. b \in 1..Len(plan) \cup {None}
    BY <1>7
  <2> QED BY <1>8, <1>17, <2>1, <2>2, <2>3
<1>18. ASSUME r = Resp(500, a, b, "noform") PROVE Ok
  <2>1. /\ 500 \in PageCodes \cup {200, 302, 501} /\ "noform" \in Kinds
        /\ n = IF 500 \in PageCodes THEN n ELSE b
    BY DEF PageCodes, Kinds
  <2>2. IsOwn(Resp(500, a, n, "noform"), n)
    BY OwnIs
  <2>3. b \in 1..Len(plan) \cup {None}
    BY <1>7
  <2> QED BY <1>8, <1>18, <2>1, <2>2, <2>3
<1>19. Ok
  <2>1. ASSUME r \in Routed(Resp(400, c, b, k), n) PROVE Ok
    BY <1>9, <1>10, <1>11, <1>12, <1>13, <1>14, <1>15, <1>16, <2>1, RoutedIs DEF a
  <2> QED BY <1>6, <1>17, <1>18, <2>1, Zenon DEF a
<1> QED BY <1>n, <1>19 DEF Ok, d

\* A request that was read is handled, as it was sent, and answered
LEMMA DoneInv ==
  ASSUME Inv, ParseDone
  PROVE  /\ Inv' /\ Session!Turn /\ "text" \notin Range(Session!HeadersOf(plan[answered + 1]))
         /\ handled' = Append(handled, Session!RequestOf(plan[answered + 1]))
         /\ UNCHANGED <<plan, refused, answered, closed>>
<1>1. /\ pc = "parse" /\ state = "done" /\ state' = "line"
      /\ handled' = Append(handled, [method |-> req.method, headers |-> req.headers,
                                     body |-> rbuf])
      /\ UNCHANGED <<plan, sent, closed, refused, answered>>
  BY DEF ParseDone
<1>r. PICK r \in Responses(answered + 1) : Respond(r)
  BY DEF ParseDone
<1>2. /\ Reading /\ answered < Len(plan) /\ Typed
      /\ \E m \in Messages : \E off \in 0..Len(Encode(m)) : \E pos \in 0..off :
           /\ m = plan[answered + 1] /\ sent = Base(answered) + off
           /\ rbuf = SubSeq(Encode(m), pos + 1, off) /\ ReadTo(m, pos, off)
           /\ Len(Encode(m)) \in Nat /\ off \in Nat /\ pos \in Nat /\ pos <= off
  BY <1>1, PieceRead
<1>m. PICK m \in Messages : \E off \in 0..Len(Encode(m)) : \E pos \in 0..off :
          /\ m = plan[answered + 1] /\ sent = Base(answered) + off
          /\ rbuf = SubSeq(Encode(m), pos + 1, off) /\ ReadTo(m, pos, off)
          /\ Len(Encode(m)) \in Nat /\ off \in Nat /\ pos \in Nat /\ pos <= off
  BY <1>2
<1>3. PICK off \in 0..Len(Encode(m)), pos \in Nat :
        /\ m = plan[answered + 1] /\ sent = Base(answered) + off /\ ReadTo(m, pos, off)
  BY <1>m
<1>4. /\ m.line \in Methods /\ rbuf = m.body /\ off = Len(Encode(m))
      /\ "text" \notin Range(Session!HeadersOf(m))
      /\ req = [method |-> m.line, headers |-> Session!HeadersOf(m)]
  BY <1>1, <1>3 DEF ReadTo
<1>5. /\ handled' = Append(handled, Session!RequestOf(m))
      /\ Session!RequestOf(m) = [method |-> req.method, headers |-> req.headers, body |-> rbuf]
  BY <1>1, <1>4 DEF Session!RequestOf
<1>6. /\ res' = WithErrorPage(r, answered + 1) /\ wbuf' = Append(wbuf, res')
      /\ req' = NewRequest /\ rbuf' = <<>> /\ pc' = "idle"
  BY <1>r DEF Respond
<1>7. /\ ~closed /\ ~refused /\ Len(handled) = answered /\ wbuf = <<>>
      /\ res.connection = <<>> /\ res.status = 400
  BY <1>2 DEF Reading
<1>8. wbuf' = <<res'>>
  BY <1>6, <1>7
<1>9. /\ res' \in [status : PageCodes \cup {200, 302, 501}, connection : Seq({"keep", "close"}),
                   body : 1..Len(plan) \cup {None}, kind : Kinds]
      /\ IsOwn(res', answered + 1) /\ res'.connection # <<>>
      /\ res'.connection[1] = IF Has("keep") THEN "keep" ELSE "close"
  BY <1>2, <1>6, <1>7, ResponsesOwn
<1> DEFINE q == Session!RequestOf(m)
<1>10. q \in Requests
  <2>1. req \in [method : Methods, headers : Seq(HeaderLines)] /\ rbuf \in Seq({"byte"})
    <3>1. m.body \in Seq({"byte"})
      BY DEF Messages
    <3> QED BY <1>2, <1>4, <3>1 DEF Typed
  <2> QED BY <1>5, <2>1 DEF Requests
<1>11. /\ handled \in Seq(Requests) /\ answered \in Nat
       /\ handled' \in Seq(Requests) /\ Len(handled') = answered + 1 /\ handled'[answered + 1] = q
  <2>1. handled \in Seq(Requests) /\ answered \in Nat
    BY <1>2, PlanIs DEF Typed
  <2> HIDE DEF q
  <2>2. /\ Append(handled, q) \in Seq(Requests) /\ Len(Append(handled, q)) = Len(handled) + 1
        /\ Append(handled, q)[Len(handled) + 1] = q
    BY <1>10, <2>1, AppendProperties
  <2>3. handled' = Append(handled, q)
    BY <1>5 DEF q
  <2> QED BY <1>7, <2>1, <2>2, <2>3
<1>12. Has("keep") <=> "keep" \in Range(q.headers)
  <2>1. q.headers = req.headers /\ req.headers \in Seq(HeaderLines)
    <3>1. req.headers \in Seq(HeaderLines)
      BY <1>2 DEF Typed
    <3> QED BY <1>5, <3>1
  <2>2. Range(req.headers) = {req.headers[i] : i \in 1..Len(req.headers)}
    BY <2>1, RangeEquality
  <2> QED BY <2>1, <2>2 DEF Has, Contains
<1> HIDE DEF q
<1>13. Typed'
  <2>1. req' \in [method : Methods, headers : Seq(HeaderLines)]
    BY <1>6, EmptySeq DEF NewRequest, Methods
  <2> QED BY <1>1, <1>2, <1>6, <1>9, <1>11, <2>1 DEF Typed
<1>14. Base(answered + 1)' = Base(answered + 1) /\ sent = Base(answered + 1)
  <2>1. Base(answered + 1) = Base(answered) + Len(Encode(m))
    BY <1>2, <1>3, CurrentIs
  <2> QED BY <1>1, <1>3, <1>4, <2>1 DEF Base
<1>15. Handled'
  <2>1. /\ ~refused' /\ Len(handled') = answered' + 1 /\ sent' = Base(answered + 1)'
        /\ pc' = "idle" /\ state' = "line" /\ rbuf' = <<>>
    BY <1>1, <1>6, <1>7, <1>11, <1>14
  <2>2. res'.connection[1] = "keep" <=> "keep" \in Range(handled'[answered' + 1].headers)
    BY <1>1, <1>9, <1>11, <1>12
  <2> QED BY <2>1, <2>2 DEF Handled
<1>16. Writing'
  <2>1. IsOwn(res, answered + 1)'
    BY <1>1, <1>9 DEF IsOwn
  <2> QED BY <1>1, <1>2, <1>6, <1>7, <1>8, <1>9, <1>15, <2>1 DEF Writing
<1>17. Inv'
  BY <1>13, <1>16 DEF Inv
<1>18. Session!Turn
  BY <1>2, <1>7 DEF Session!Turn
<1> QED BY <1>1, <1>3, <1>4, <1>5, <1>17, <1>18

\* The client has the response: the next request can come, unless the connection ends
LEMMA WrittenInv ==
  ASSUME Inv, OnStreamWritten
  PROVE  Inv' /\ Session!Deliver
<1>1. /\ pc = "idle" /\ ~closed /\ wbuf # <<>> /\ wbuf' = <<>> /\ answered' = answered + Len(wbuf)
      /\ UNCHANGED <<plan, sent, pc, state, handled, refused>>
  BY DEF OnStreamWritten
<1>2. Writing /\ Typed
  BY <1>1 DEF Inv, Reading
<1>3. /\ answered < Len(plan) /\ wbuf = <<res>> /\ req = NewRequest
      /\ Handled \/ Refused
      /\ res.connection[1] = "keep" \/ res.connection[1] # "keep"
  BY <1>2 DEF Writing
<1>4. /\ answered' = answered + 1 /\ answered \in Nat /\ Len(plan) \in Nat
      /\ answered + 1 \in 1..Len(plan) /\ handled \in Seq(Requests)
  <2>1. Len(wbuf) = 1
    BY <1>3
  <2> QED BY <1>1, <1>2, <1>3, <2>1, PlanIs DEF Typed
<1>5. IF res.connection[1] = "keep"
      THEN res' = ResetResponse(res) /\ req' = NewRequest /\ rbuf' = <<>> /\ closed' = closed
      ELSE closed' = TRUE /\ res' = res /\ req' = req /\ rbuf' = rbuf
  BY DEF OnStreamWritten
<1>6. Session!Deliver
  <2>1. refused \/ Len(handled) = answered + 1
    BY <1>3 DEF Handled, Refused
  <2>2. closed' = (refused \/ "keep" \notin Session!Fields(handled[Len(handled)]))
    <3>1. CASE Handled
      <4>1. /\ ~refused /\ Len(handled) = answered + 1
            /\ res.connection[1] = "keep" <=> "keep" \in Range(handled[answered + 1].headers)
        BY <3>1 DEF Handled
      <4>2. Session!Fields(handled[Len(handled)]) = Range(handled[answered + 1].headers)
        BY <4>1, SessionRange DEF Session!Fields
      <4>3. /\ res.connection[1] = "keep" => closed' = FALSE
            /\ res.connection[1] # "keep" => closed' = TRUE
        <5>1. closed = FALSE
          BY <1>1, <1>2 DEF Typed
        <5> QED BY <1>5, <5>1
      <4> DEFINE p == "keep" \in Range(handled[answered + 1].headers)
      <4>4. (p => closed' = FALSE) /\ (~p => closed' = TRUE)
        BY <4>1, <4>3
      <4>5. closed' = ~p
        BY <4>4, Zenon
      <4> QED BY <4>1, <4>2, <4>5, Zenon
    <3>2. CASE Refused
      <4>1. refused = TRUE /\ res.connection[1] = "close"
        BY <1>2, <3>2 DEF Refused, Typed
      <4> QED BY <1>5, <4>1
    <3> QED BY <1>3, <3>1, <3>2
  <2> QED BY <1>1, <1>4, <2>1, <2>2 DEF Session!Deliver
<1>7. CASE res.connection[1] = "keep"
  <2>1. /\ Handled /\ res' = ResetResponse(res) /\ req' = NewRequest /\ rbuf' = <<>>
        /\ closed' = closed
    BY <1>3, <1>5, <1>7 DEF Refused
  <2>2. res' = Resp(400, <<>>, res.body, res.kind)
    <3> DEFINE s == res.status
               c == res.connection
               b == res.body
               k == res.kind
    <3>1. res = Resp(s, c, b, k)
      BY <1>2 DEF Typed, Resp
    <3> HIDE DEF s, c, b, k
    <3>2. [Resp(s, c, b, k) EXCEPT !.status = 400] = Resp(400, c, b, k)
      BY DEF Resp
    <3>3. [Resp(400, c, b, k) EXCEPT !.connection = <<>>] = Resp(400, <<>>, b, k)
      BY DEF Resp
    <3>4. [Resp(s, c, b, k) EXCEPT !.status = 400, !.connection = <<>>]
            = [[Resp(s, c, b, k) EXCEPT !.status = 400] EXCEPT !.connection = <<>>]
      BY DEF Resp
    <3>5. res' = Resp(400, <<>>, b, k)
      BY <2>1, <3>1, <3>2, <3>3, <3>4 DEF ResetResponse
    <3> QED BY <3>5 DEF b, k
  <2>3. Typed'
    <3>1. res' \in [status : PageCodes \cup {200, 302, 501}, connection : Seq({"keep", "close"}),
                    body : 1..Len(plan) \cup {None}, kind : Kinds]
      BY <1>2, <2>2, EmptySeq DEF Typed, Resp, PageCodes
    <3>2. req' \in [method : Methods, headers : Seq(HeaderLines)]
      BY <2>1, EmptySeq DEF NewRequest, Methods
    <3> QED BY <1>1, <1>2, <1>4, <2>1, <3>1, <3>2 DEF Typed
  <2>4. /\ ~refused /\ Len(handled) = answered + 1 /\ sent = Base(answered + 1)
        /\ state = "line"
    BY <2>1 DEF Handled
  <2>5. Base(answered)' = Base(answered + 1)
    BY <1>1, <1>4 DEF Base
  <2>6. ASSUME ReadAll' \/ ReadSome' PROVE Inv'
    <3>1. res'.connection = <<>> /\ res'.status = 400
      BY <2>2 DEF Resp
    <3>2. ~closed' /\ ~refused' /\ Len(handled') = answered' /\ wbuf' = <<>>
      BY <1>1, <1>4, <2>1, <2>4
    <3>3. Reading'
      BY <2>6, <3>1, <3>2, Zenon DEF Reading
    <3> QED BY <2>3, <3>3, Zenon DEF Inv
  <2>7. CASE answered + 1 = Len(plan)
    <3>1. ReadAll'
      BY <1>1, <1>4, <2>1, <2>4, <2>5, <2>7 DEF ReadAll
    <3> QED BY <1>6, <2>6, <3>1
  <2>8. CASE answered + 1 # Len(plan)
    <3>1. answered' < Len(plan')
      BY <1>1, <1>4, <2>8
    <3>2. Len(Encode(plan'[answered' + 1])) \in Nat /\ Base(answered)' \in Nat
      <4>1. plan' \in Seq(Messages) /\ answered' + 1 \in 1..Len(plan')
        BY <1>1, <1>2, <1>4, <3>1, PlanIs
      <4>2. plan'[answered' + 1] \in Messages
        BY <4>1, ElementOfSeq
      <4>3. Len(Encode(plan'[answered' + 1])) \in Nat
        BY <4>2, EncodeIs, LenProperties
      <4>4. Base(answered + 1) \in Nat
        <5>1. /\ Base(answered) \in Nat /\ Len(Encode(plan[answered + 1])) \in Nat
              /\ Base(answered + 1) = Base(answered) + Len(Encode(plan[answered + 1]))
          BY <1>2, <1>3, CurrentIs
        <5> QED BY <5>1
      <4> QED BY <2>5, <4>3, <4>4
    <3> DEFINE e == Encode(plan'[answered' + 1])
    <3> HIDE DEF e
    <3>3. /\ 0 \in 0..Len(e) /\ 0 \in 0..0 /\ sent' = Base(answered)' + 0
          /\ rbuf' = SubSeq(e, 0 + 1, 0)
      BY <1>1, <2>1, <2>4, <2>5, <3>2, SubSeqEmpty DEF e
    <3>4. ReadTo(plan[answered + 1], 0, 0)'
      BY <1>1, <2>1, <2>4 DEF ReadTo
    <3>5. ReadSome'
      <4>1. \E off \in 0..Len(e) : \E pos \in 0..off :
              /\ sent' = Base(answered)' + off /\ rbuf' = SubSeq(e, pos + 1, off)
              /\ ReadTo(plan[answered + 1], pos, off)'
        BY <3>3, <3>4
      <4> QED BY <3>1, <4>1, Zenon DEF ReadSome, e
    <3> QED BY <1>6, <2>6, <3>5
  <2> QED BY <2>7, <2>8
<1>8. CASE res.connection[1] # "keep"
  <2>1. closed' = TRUE /\ res' = res /\ req' = req /\ rbuf' = rbuf
    BY <1>5, <1>8
  <2>2. Typed'
    BY <1>1, <1>2, <1>4, <2>1 DEF Typed
  <2>3. closed' /\ wbuf' = <<>> /\ pc' = "idle"
    BY <1>1, <2>1
  <2> QED BY <1>6, <2>2, <2>3, Zenon DEF Inv
<1> QED BY <1>6, <1>7, <1>8

-----------------------------------------------------------------------------
\* The steps that only read do nothing that the client could see
LEMMA ReadingIsSilent ==
  ASSUME \/ \E n \in 1..Len(Stream(plan)) : Reader(n)
         \/ ParseRequestLine \/ ParseRequestHeader \/ ParseRequestEmptyLine \/ ParseRequestBody
  PROVE  UNCHANGED Session!vars
BY DEF Reader, ParseRequestLine, ParseRequestHeader, ParseRequestEmptyLine, ParseRequestBody,
       history, Session!vars

LEMMA NextInv == Inv /\ [Next]_vars => Inv'
<1> SUFFICES ASSUME Inv, [Next]_vars PROVE Inv'
  OBVIOUS
<1>1. CASE \E n \in 1..Len(Stream(plan)) : Reader(n)
  BY <1>1, ReaderInv
<1>2. CASE ParseRequestDatagram
  BY <1>2, LineInv, HeaderInv, EmptyLineInv, BodyInv, InvalidInv, DoneInv
     DEF ParseRequestDatagram
<1>3. CASE OnStreamWritten
  BY <1>3, WrittenInv
<1>4. CASE UNCHANGED vars
  <2>1. UNCHANGED <<plan, sent, rbuf, pc, state, req, res, wbuf, closed, handled, refused,
                    answered>>
    BY <1>4 DEF vars, parserVars, history
  <2>2. Typed' <=> Typed
    BY <2>1 DEF Typed
  <2>3. Reading' <=> Reading
    <3>1. \A k : Base(k)' = Base(k)
      BY <2>1 DEF Base
    <3>2. ReadAll' <=> ReadAll
      BY <2>1, <3>1 DEF ReadAll
    <3>3. ReadSome' <=> ReadSome
      <4>1. \A m, pos, off : ReadTo(m, pos, off)' <=> ReadTo(m, pos, off)
        BY <2>1 DEF ReadTo, FieldsRead
      <4>2. /\ plan' = plan /\ answered' = answered /\ sent' = sent /\ rbuf' = rbuf
            /\ Base(answered)' = Base(answered)
        BY <2>1, <3>1
      <4>3. PICK p, n, b : p = plan /\ n = answered /\ b = Base(answered)
        OBVIOUS
      <4> DEFINE e == Encode(p[n + 1])
      <4>4. ReadSome <=> /\ n < Len(p)
                         /\ \E off \in 0..Len(e) : \E pos \in 0..off :
                              /\ sent = b + off /\ rbuf = SubSeq(e, pos + 1, off)
                              /\ ReadTo(p[n + 1], pos, off)
        BY <4>3, Zenon DEF ReadSome
      <4>5. ReadSome' <=> /\ n < Len(p)
                          /\ \E off \in 0..Len(e) : \E pos \in 0..off :
                               /\ sent' = b + off /\ rbuf' = SubSeq(e, pos + 1, off)
                               /\ ReadTo(p[n + 1], pos, off)'
        BY <4>2, <4>3, Zenon DEF ReadSome
      <4> HIDE DEF e
      <4> QED BY <4>1, <4>2, <4>4, <4>5
    <3> QED BY <2>1, <3>2, <3>3 DEF Reading
  <2>4. Writing' <=> Writing
    <3>1. \A k : Base(k)' = Base(k)
      BY <2>1 DEF Base
    <3>2. Handled' <=> Handled
      BY <2>1, <3>1 DEF Handled
    <3>3. Refused' <=> Refused
      BY <2>1, <3>1 DEF Refused
    <3>4. IsOwn(res, answered + 1)' <=> IsOwn(res, answered + 1)
      BY <2>1 DEF IsOwn
    <3> QED BY <2>1, <3>2, <3>3, <3>4 DEF Writing
  <2> QED BY <2>1, <2>2, <2>3, <2>4 DEF Inv
<1> QED BY <1>1, <1>2, <1>3, <1>4 DEF Next

\* The inductive invariant of a connection holds in every reachable state
THEOREM Invariance == Spec => []Inv
BY InitInv, NextInv, PTL DEF Spec

-----------------------------------------------------------------------------
\* HttpConn's state is always typed (TypeOK): the parser never leaves the stream it was
\* given, and only lines that are header fields are in the request.
THEOREM TypeCorrect == Spec => []TypeOK
<1>1. Inv => TypeOK
  <2> SUFFICES ASSUME Inv PROVE TypeOK
    OBVIOUS
  <2>1. Typed
    BY DEF Inv
  <2>2. Range(req.headers) \subseteq HeaderLines
    <3>1. req.headers \in Seq(HeaderLines)
      BY <2>1 DEF Typed
    <3> QED BY <3>1, RangeEquality, ElementOfSeq
  <2>3. req.method \in Methods
    BY <2>1 DEF Typed
  <2>4. /\ res.status \in PageCodes \cup {200, 302, 501}
        /\ res.body \in 1..Len(plan) \cup {None}
    BY <2>1 DEF Typed
  <2> QED BY <2>1, <2>2, <2>3, <2>4, Zenon DEF Typed, TypeOK
<1> QED BY <1>1, Invariance, PTL

\* Every response in the write buffer is made for its request, and there is one at most
\* (ResponseIsOwn): DoRequest, the error pages and what the reused HTTPResponse keeps.
THEOREM OwnResponses == Spec => []ResponseIsOwn
<1>1. Inv => ResponseIsOwn
  <2> SUFFICES ASSUME Inv PROVE ResponseIsOwn
    OBVIOUS
  <2>1. CASE wbuf = <<>>
    BY <2>1 DEF ResponseIsOwn
  <2>2. CASE Writing
    <3>1. wbuf = <<res>> /\ IsOwn(res, answered + 1)
      BY <2>2 DEF Writing
    <3>2. Len(wbuf) = 1 /\ DOMAIN wbuf = {1} /\ wbuf[1] = res
      BY <3>1
    <3> QED BY <3>1, <3>2 DEF ResponseIsOwn, IsOwn
  <2> QED BY <2>1, <2>2 DEF Inv, Reading
<1> QED BY <1>1, Invariance, PTL

-----------------------------------------------------------------------------
(***************************************************************************)
(* The connection implements HttpSession.                                  *)
(***************************************************************************)

LEMMA InitRefines == Init => Session!Init
BY DEF Init, Session!Init

LEMMA StepRefines == Inv /\ [Next]_vars => [Session!Next]_(Session!vars)
<1> SUFFICES ASSUME Inv, [Next]_vars PROVE Session!Next \/ UNCHANGED Session!vars
  OBVIOUS
<1>1. CASE \/ \E n \in 1..Len(Stream(plan)) : Reader(n)
           \/ ParseRequestLine \/ ParseRequestHeader \/ ParseRequestEmptyLine \/ ParseRequestBody
  BY <1>1, ReadingIsSilent
<1>2. CASE ParseInvalid
  <2>1. /\ answered < Len(plan) /\ refused' = TRUE
        /\ UNCHANGED <<plan, handled, closed, answered>>
        /\ ~refused => /\ ~closed /\ Len(handled) = answered
                       /\ ~Session!WellFormed(plan[answered + 1])
    BY <1>2, InvalidInv
  <2>2. CASE refused
    <3>1. refused' = refused
      BY <2>1, <2>2 DEF Inv, Typed
    <3> QED BY <2>1, <3>1 DEF Session!vars
  <2>3. CASE ~refused
    BY <2>1, <2>3 DEF Session!Next, Session!Refuse, Session!Turn
  <2> QED BY <2>2, <2>3
<1>3. CASE ParseDone
  <2>1. Session!Handle
    BY <1>3, DoneInv, SessionRange DEF Session!Handle
  <2> QED BY <2>1 DEF Session!Next
<1>4. CASE OnStreamWritten
  BY <1>4, WrittenInv DEF Session!Next
<1>5. CASE UNCHANGED vars
  BY <1>5 DEF vars, parserVars, history, Session!vars
<1> QED BY <1>1, <1>2, <1>3, <1>4, <1>5 DEF Next, ParseRequestDatagram

\* However the reactor cuts the stream into pieces, the connection is an HttpSession
\* (SessionSpec): requests are handled as they were sent, in order and once each, every one
\* is answered before the next, and the connection is kept exactly if that was asked for.
THEOREM Refinement == Spec => SessionSpec
<1>1. Spec => [][Session!Next]_(Session!vars)
  BY Invariance, StepRefines, PTL DEF Spec
<1>2. Spec => Session!Init
  BY InitRefines DEF Spec
<1> QED BY <1>1, <1>2 DEF SessionSpec, Session!Spec

-----------------------------------------------------------------------------
(***************************************************************************)
(* The cache of opened files.                                              *)
(***************************************************************************)

LEMMA CacheInitInv == CacheInit => CacheInv
BY SocketAssumption, NothingAssumption DEF CacheInit, CacheInv, CacheTypeOK, CacheMatchesTable

\* Opening a file that is not in the cache
LEMMA OpenNewInv ==
  ASSUME CacheInv, NEW c \in Conns, NEW f \in Files, OpenNew(c, f)
  PROVE  CacheInv'
<1>1. PICK d \in Fds : /\ table[d] = Nothing
                       /\ table' = [table EXCEPT ![d] = f]
                       /\ mapping' = [mapping EXCEPT ![f] = d]
                       /\ Got(c, f, d)
  BY DEF OpenNew
<1>2. CacheTypeOK'
  BY <1>1 DEF OpenNew, Got, CacheInv, CacheTypeOK
<1>3. CacheMatchesTable'
  BY <1>1, NothingAssumption DEF OpenNew, CacheInv, CacheTypeOK, CacheMatchesTable
<1>4. \A g \in old' : mapping'[g] # Nothing
  BY <1>1, NothingAssumption DEF OpenNew, CacheInv, CacheTypeOK
<1>5. \A k \in Conns : stage'[k] # "idle" => asked'[k] \in Files /\ handle'[k] \in Fds
  BY <1>1 DEF Got, CacheInv, CacheTypeOK
<1>6. ASSUME NEW k \in Conns \ late', stage'[k] # "idle"
      PROVE  asked'[k] \notin old' /\ mapping'[asked'[k]] = handle'[k]
  <2>1. f \notin old /\ mapping[f] = Nothing /\ old' = old
    BY DEF OpenNew, CacheInv
  <2>2. CASE k = c
    BY <1>1, <2>1, <2>2 DEF Got, CacheInv, CacheTypeOK
  <2>3. CASE k # c
    <3>1. /\ k \in Conns \ late /\ stage[k] # "idle"
          /\ asked'[k] = asked[k] /\ handle'[k] = handle[k]
      BY <1>1, <1>6, <2>3 DEF Got, CacheInv, CacheTypeOK
    <3>2. asked[k] \in Files /\ handle[k] \in Fds /\ asked[k] \notin old
          /\ mapping[asked[k]] = handle[k]
      BY <3>1 DEF CacheInv
    <3>3. asked[k] # f
      BY <2>1, <3>2, NothingAssumption
    <3> QED BY <1>1, <2>1, <3>1, <3>2, <3>3 DEF CacheInv, CacheTypeOK
  <2> QED BY <2>2, <2>3
<1> QED BY <1>2, <1>3, <1>4, <1>5, <1>6 DEF CacheInv

\* The sweep closes old entries only
LEMMA SweepInv == ASSUME CacheInv, Sweep PROVE CacheInv'
<1>1. CacheTypeOK'
  BY DEF Sweep, CacheInv, CacheTypeOK, connVars
<1>2. CacheMatchesTable'
  <2>1. ASSUME NEW f \in Files, mapping'[f] # Nothing PROVE table'[mapping'[f]] = f
    <3>1. f \notin old /\ mapping'[f] = mapping[f] /\ mapping[f] \in Fds
      BY <2>1 DEF Sweep, CacheInv, CacheTypeOK
    <3>2. table[mapping[f]] = f
      BY <2>1, <3>1 DEF CacheInv, CacheMatchesTable
    <3>3. ~\E g \in old : mapping[g] = mapping[f]
      BY <3>1, <3>2, NothingAssumption DEF CacheInv, CacheTypeOK, CacheMatchesTable
    <3> QED BY <3>1, <3>2, <3>3 DEF Sweep
  <2>2. ASSUME NEW d \in Fds, table'[d] \in Files PROVE mapping'[table'[d]] = d
    <3>1. table'[d] = table[d] /\ ~\E g \in old : mapping[g] = d
      BY <2>2, NothingAssumption DEF Sweep
    <3>2. mapping[table[d]] = d
      BY <2>2, <3>1 DEF CacheInv, CacheMatchesTable
    <3> QED BY <2>2, <3>1, <3>2 DEF Sweep
  <2> QED BY <2>1, <2>2 DEF CacheMatchesTable
<1>3. \A c \in Conns \ late' : stage'[c] # "idle" =>
        asked'[c] \notin old' /\ mapping'[asked'[c]] = handle'[c]
  BY DEF Sweep, CacheInv, connVars
<1> QED BY <1>1, <1>2, <1>3 DEF CacheInv, Sweep, connVars

LEMMA CacheNextInv == CacheInv /\ [CacheNext]_cacheVars => CacheInv'
<1> SUFFICES ASSUME CacheInv, [CacheNext]_cacheVars PROVE CacheInv'
  OBVIOUS
<1> USE DEF CacheTypeOK, CacheMatchesTable, connVars
<1>1. CASE Start
  BY <1>1 DEF CacheInv, Start
<1>2. CASE Stop
  BY <1>2 DEF CacheInv, Stop
<1>3. CASE Test
  BY <1>3 DEF CacheInv, Test
<1>4. CASE Sweep
  BY <1>4, SweepInv
<1>5. ASSUME NEW c \in Conns, NEW f \in Files, OpenCached(c, f) PROVE CacheInv'
  BY <1>5 DEF CacheInv, OpenCached, Got
<1>6. ASSUME NEW c \in Conns, NEW f \in Files, OpenNew(c, f) PROVE CacheInv'
  BY <1>6, OpenNewInv
<1>7. ASSUME NEW c \in Conns, PutFile(c) PROVE CacheInv'
  BY <1>7 DEF CacheInv, PutFile
<1>8. ASSUME NEW c \in Conns, SendFile(c) PROVE CacheInv'
  BY <1>8 DEF CacheInv, SendFile
<1>9. ASSUME NEW c \in Conns, Disconnect(c) PROVE CacheInv'
  BY <1>9 DEF CacheInv, Disconnect
<1>10. ASSUME NEW f \in Files, Idle60(f) PROVE CacheInv'
  BY <1>10 DEF CacheInv, Idle60
<1>11. ASSUME NEW d \in Fds, AcceptSocket(d) PROVE CacheInv'
  BY <1>11, SocketAssumption, NothingAssumption DEF CacheInv, AcceptSocket
<1>12. ASSUME NEW d \in Fds, CloseSocket(d) PROVE CacheInv'
  BY <1>12, SocketAssumption, NothingAssumption DEF CacheInv, CloseSocket
<1>13. CASE UNCHANGED cacheVars
  BY <1>13 DEF CacheInv, cacheVars
<1> QED BY <1>1, <1>2, <1>3, <1>4, <1>5, <1>6, <1>7, <1>8, <1>9, <1>10, <1>11, <1>12, <1>13
        DEF CacheNext, Cleanup, RespondFile

\* The invariant holds in every reachable state
THEOREM CacheInvariance == CacheSpec => []CacheInv
<1> QED BY CacheInitInv, CacheNextInv, PTL DEF CacheSpec

\* file_mappings_ and the open descriptors always correspond (http_server.cc:349 and 377)
THEOREM CacheCorrect == CacheSpec => []CacheMatchesTable
<1>1. CacheInv => CacheMatchesTable
  BY DEF CacheInv
<1> QED BY <1>1, CacheInvariance, PTL

\* A response sent within 60 seconds of its OpenFile comes from the file asked for
THEOREM RecentRight == CacheSpec => []RecentIsSentRight
<1>1. CacheInv => RecentIsSentRight
  BY NothingAssumption DEF CacheInv, CacheMatchesTable, RecentIsSentRight
<1> QED BY <1>1, CacheInvariance, PTL
=============================================================================
