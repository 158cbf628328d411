---------------------------- MODULE BufferProofs ----------------------------
(***************************************************************************)
(* Proofs about Buffer, for arrays of any size and any strings, lengths    *)
(* and delimiters: the indices stay in the array, room is made, and the    *)
(* class implements a byte stream.                                         *)
(***************************************************************************)
EXTENDS Buffer, SequenceTheorems, WellFoundedInduction, TLAPS

Memory == Bytes \cup {Junk}

\* A well-formed object
GoodBuffer(b) ==
  /\ b = [data |-> b.data, reader |-> b.reader, writer |-> b.writer, capacity |-> b.capacity]
  /\ b.capacity \in Nat /\ b.writer \in Nat /\ b.reader \in Nat
  /\ b.reader <= b.writer /\ b.writer <= b.capacity
  /\ b.data \in [0..(b.capacity - 1) -> Memory]

BufferInv == GoodBuffer(buf)

-----------------------------------------------------------------------------
(***************************************************************************)
(* Making room and appending.                                              *)
(***************************************************************************)

LEMMA DivMod ==
  ASSUME NEW m \in Nat, NEW p \in Nat \ {0}
  PROVE  m = (m \div p) * p + (m % p) /\ m \div p \in Nat /\ m % p \in 0..(p - 1)
<1>1. m = (m \div p) * p + (m % p)
  OBVIOUS
<1>2. m \div p \in Nat
  OBVIOUS
<1>3. m % p \in 0..(p - 1)
  OBVIOUS
<1> QED BY <1>1, <1>2, <1>3

\* A memcpy from the end reads the readable bytes only, too
LEMMA SourceInArray ==
  ASSUME NEW b, GoodBuffer(b), NEW i \in Nat, i < ReadableBytes(b)
  PROVE  CopySource(b, i) \in 0..(b.capacity - 1)
<1> DEFINE p == b.reader
           n == ReadableBytes(b)
<1>1. p \in Nat /\ n \in Nat /\ n + p <= b.capacity /\ i < n
  BY DEF GoodBuffer, ReadableBytes
<1>2. CASE CopyOrder = "forward" \/ p = 0
  BY <1>1, <1>2 DEF CopySource, GoodBuffer
<1>3. CASE ~(CopyOrder = "forward" \/ p = 0)
  <2> DEFINE q == (n - 1 - i) \div p
             r == (n - 1 - i) % p
  <2>1. CopySource(b, i) = i + (q + 1) * p
    BY <1>3 DEF CopySource
  <2> HIDE DEF p, n
  <2>2. p \in Nat \ {0}
    BY <1>1, <1>3
  <2>3. n - 1 - i \in Nat
    BY <1>1
  <2>4. n - 1 - i = q * p + r /\ q \in Nat /\ r \in 0..(p - 1)
    BY <2>2, <2>3, DivMod
  <2> HIDE DEF q, r
  <2>5. (q + 1) * p = q * p + p
    BY <2>2, <2>4
  <2>6. q * p \in Nat
    BY <2>2, <2>4
  <2>7. i + (q + 1) * p = n - 1 - r + p
    BY <1>1, <2>2, <2>4, <2>5, <2>6
  <2>8. n - 1 - r + p \in 0..(n + p - 1)
    BY <1>1, <2>2, <2>4
  <2> QED BY <1>1, <2>1, <2>7, <2>8 DEF GoodBuffer
<1> QED BY <1>2, <1>3

LEMMA MoveGood ==
  ASSUME NEW b, GoodBuffer(b)
  PROVE  /\ GoodBuffer(MoveReadableToHead(b))
         /\ MoveReadableToHead(b).capacity = b.capacity
         /\ MoveReadableToHead(b).reader = 0
         /\ MoveReadableToHead(b).writer = ReadableBytes(b)
         /\ CopyOrder = "forward" =>
              \A i \in 0..(ReadableBytes(b) - 1) :
                MoveReadableToHead(b).data[i] = b.data[b.reader + i]
<1>1. ReadableBytes(b) \in Nat /\ ReadableBytes(b) <= b.capacity
  BY DEF ReadableBytes, GoodBuffer
<1>2. \A i \in 0..(b.capacity - 1) :
        (IF i < ReadableBytes(b) THEN b.data[CopySource(b, i)] ELSE b.data[i]) \in Memory
  <2> SUFFICES ASSUME NEW i \in 0..(b.capacity - 1)
               PROVE  (IF i < ReadableBytes(b) THEN b.data[CopySource(b, i)] ELSE b.data[i])
                        \in Memory
    OBVIOUS
  <2>1. i < ReadableBytes(b) => CopySource(b, i) \in 0..(b.capacity - 1)
    BY SourceInArray DEF GoodBuffer
  <2> QED BY <2>1 DEF GoodBuffer
<1>3. GoodBuffer(MoveReadableToHead(b))
  BY <1>1, <1>2 DEF MoveReadableToHead, GoodBuffer
<1>4. CopyOrder = "forward" =>
        \A i \in 0..(ReadableBytes(b) - 1) :
          MoveReadableToHead(b).data[i] = b.data[b.reader + i]
  BY <1>1 DEF MoveReadableToHead, CopySource, GoodBuffer
<1> QED BY <1>3, <1>4 DEF MoveReadableToHead

LEMMA ReallocatedGood ==
  ASSUME NEW b, GoodBuffer(b), NEW n \in Nat
  PROVE  /\ GoodBuffer(Reallocated(b, n))
         /\ Reallocated(b, n).capacity = b.writer + 2 * n
         /\ Reallocated(b, n).reader = 0
         /\ Reallocated(b, n).writer = ReadableBytes(b)
         /\ \A i \in 0..(ReadableBytes(b) - 1) :
              Reallocated(b, n).data[i] = b.data[b.reader + i]
<1>1. ReadableBytes(b) \in Nat /\ ReadableBytes(b) <= b.writer
  BY DEF ReadableBytes, GoodBuffer
<1>2. \A i \in 0..(b.writer + 2 * n - 1) :
        (IF i < ReadableBytes(b) THEN b.data[b.reader + i] ELSE Junk) \in Memory
  BY DEF ReadableBytes, GoodBuffer, Memory
<1>3. GoodBuffer(Reallocated(b, n))
  BY <1>1, <1>2 DEF Reallocated, GoodBuffer
<1>4. \A i \in 0..(ReadableBytes(b) - 1) :
        Reallocated(b, n).data[i] = b.data[b.reader + i]
  BY <1>1 DEF Reallocated, GoodBuffer
<1> QED BY <1>3, <1>4 DEF Reallocated

\* What EnsureBytesForWrite leaves: an object with room, which has the same bytes to read
LEMMA EnsuredGood ==
  ASSUME NEW b, GoodBuffer(b), NEW n \in Nat
  PROVE  /\ GoodBuffer(Ensured(b, n))
         /\ Ensured(b, n).writer + n <= Ensured(b, n).capacity
         /\ ReadableBytes(Ensured(b, n)) = ReadableBytes(b)
         /\ \/ Ensured(b, n) = b
            \/ Ensured(b, n).reader = 0
         /\ CopyOrder = "forward" =>
              \A i \in 0..(ReadableBytes(b) - 1) :
                Ensured(b, n).data[Ensured(b, n).reader + i] = b.data[b.reader + i]
<1>1. CASE WritableBytes(b) > n
  BY <1>1 DEF Ensured, WritableBytes, GoodBuffer
<1>2. CASE ~(WritableBytes(b) > n) /\ b.reader + WritableBytes(b) >= n
  <2>1. Ensured(b, n) = MoveReadableToHead(b)
    BY <1>2 DEF Ensured
  <2>2. ReadableBytes(b) \in Nat /\ ReadableBytes(b) + n <= b.capacity
    BY <1>2 DEF ReadableBytes, WritableBytes, GoodBuffer
  <2> QED BY <2>1, <2>2, MoveGood DEF ReadableBytes
<1>3. CASE ~(WritableBytes(b) > n) /\ ~(b.reader + WritableBytes(b) >= n)
  <2>1. Ensured(b, n) = Reallocated(b, n)
    BY <1>3 DEF Ensured
  <2>2. ReadableBytes(b) \in Nat /\ ReadableBytes(b) + n <= b.writer + 2 * n
    BY DEF ReadableBytes, GoodBuffer
  <2>3. /\ GoodBuffer(Reallocated(b, n)) /\ Reallocated(b, n).reader = 0
        /\ Reallocated(b, n).capacity = b.writer + 2 * n
        /\ Reallocated(b, n).writer = ReadableBytes(b)
        /\ \A i \in 0..(ReadableBytes(b) - 1) :
             Reallocated(b, n).data[i] = b.data[b.reader + i]
    BY ReallocatedGood
  <2> DEFINE r == Reallocated(b, n)
  <2> HIDE DEF r
  <2>4. ReadableBytes(r) = r.writer - r.reader
    BY DEF ReadableBytes
  <2>5. Reallocated(b, n) = r
    BY DEF r
  <2> QED BY <2>1, <2>2, <2>3, <2>4, <2>5
<1> QED BY <1>1, <1>2, <1>3

\* Append puts the string behind what is there
LEMMA AppendedGood ==
  ASSUME NEW b, GoodBuffer(b), NEW s \in Seq(Bytes),
         NEW e, e = Ensured(b, Len(s)), NEW a, a = Appended(b, s)
  PROVE  /\ GoodBuffer(a)
         /\ a.reader = e.reader /\ a.writer = e.writer + Len(s)
         /\ \A i \in 0..(e.writer - 1) : a.data[i] = e.data[i]
         /\ \A i \in 1..Len(s) : a.data[e.writer + i - 1] = s[i]
<1>1. Len(s) \in Nat /\ \A i \in 1..Len(s) : s[i] \in Bytes
  BY LenProperties, ElementOfSeq
<1>2. GoodBuffer(e) /\ e.writer + Len(s) <= e.capacity
  BY <1>1, EnsuredGood
<1>3. a = [data |-> [i \in 0..(e.capacity - 1) |->
                       IF i >= e.writer /\ i < e.writer + Len(s)
                       THEN s[i - e.writer + 1] ELSE e.data[i]],
           reader |-> e.reader, writer |-> e.writer + Len(s), capacity |-> e.capacity]
  BY DEF Appended
<1>4. \A i \in 0..(e.capacity - 1) :
        (IF i >= e.writer /\ i < e.writer + Len(s) THEN s[i - e.writer + 1] ELSE e.data[i])
          \in Memory
  BY <1>1, <1>2 DEF GoodBuffer, Memory
<1>5. GoodBuffer(a)
  BY <1>1, <1>2, <1>3, <1>4 DEF GoodBuffer
<1>6. \A i \in 0..(e.writer - 1) : a.data[i] = e.data[i]
  BY <1>1, <1>2, <1>3 DEF GoodBuffer
<1>7. \A i \in 1..Len(s) : a.data[e.writer + i - 1] = s[i]
  BY SMTT(30), <1>1, <1>2, <1>3 DEF GoodBuffer
<1>8. a.reader = e.reader /\ a.writer = e.writer + Len(s)
  BY <1>3
<1> QED BY <1>5, <1>6, <1>7, <1>8

-----------------------------------------------------------------------------
(***************************************************************************)
(* Parts of the array as strings.                                          *)
(***************************************************************************)

LEMMA CopiedSeq ==
  ASSUME NEW b, GoodBuffer(b), NEW i \in Nat, NEW n \in Nat, i + n <= b.capacity
  PROVE  /\ Copied(b, i, n) \in Seq(Memory)
         /\ Len(Copied(b, i, n)) = n
         /\ \A k \in 1..n : Copied(b, i, n)[k] = b.data[i + k - 1]
<1>1. \A k \in 1..n : i + k - 1 \in 0..(b.capacity - 1)
  BY DEF GoodBuffer
<1>2. \A k \in 1..n : b.data[i + k - 1] \in Memory
  BY <1>1 DEF GoodBuffer
<1>3. Copied(b, i, n) \in [1..n -> Memory]
  BY <1>2 DEF Copied
<1>4. Copied(b, i, n) \in Seq(Memory)
  BY <1>3, SeqDef
<1>5. Len(Copied(b, i, n)) = n
  BY <1>3, <1>4, LenProperties
<1>6. \A k \in 1..n : Copied(b, i, n)[k] = b.data[i + k - 1]
  BY DEF Copied
<1> QED BY <1>4, <1>5, <1>6

LEMMA CopiedNothing == ASSUME NEW b, NEW i PROVE Copied(b, i, 0) = <<>>
BY DEF Copied

\* Neighbouring parts
LEMMA CopiedJoined ==
  ASSUME NEW b, GoodBuffer(b), NEW i \in Nat, NEW m \in Nat, NEW n \in Nat,
         NEW j \in Nat, j = i + m, NEW l \in Nat, l = m + n, i + l <= b.capacity
  PROVE  Copied(b, i, m) \o Copied(b, j, n) = Copied(b, i, l)
<1> DEFINE s == Copied(b, i, m)
           t == Copied(b, j, n)
           u == Copied(b, i, l)
<1>0. b.capacity \in Nat
  BY DEF GoodBuffer
<1>1. s \in Seq(Memory) /\ Len(s) = m /\ \A k \in 1..m : s[k] = b.data[i + k - 1]
  <2>1. i + m <= b.capacity
    BY <1>0
  <2> QED BY <2>1, CopiedSeq
<1>2. t \in Seq(Memory) /\ Len(t) = n /\ \A k \in 1..n : t[k] = b.data[j + k - 1]
  <2>1. j \in Nat /\ j + n <= b.capacity
    OBVIOUS
  <2> QED BY <2>1, CopiedSeq
<1>3. u \in Seq(Memory) /\ Len(u) = l /\ \A k \in 1..l : u[k] = b.data[i + k - 1]
  <2>1. l \in Nat /\ i + l <= b.capacity
    BY <1>0
  <2> QED BY <2>1, CopiedSeq
<1> HIDE DEF s, t, u
<1>4. /\ s \o t \in Seq(Memory) /\ Len(s \o t) = l
      /\ \A k \in 1..l : (s \o t)[k] = IF k <= m THEN s[k] ELSE t[k - m]
  BY <1>1, <1>2, ConcatProperties
<1>5. ASSUME NEW k \in 1..l PROVE (s \o t)[k] = u[k]
  <2>1. CASE k <= m
    <3>1. k \in 1..m
      BY <2>1
    <3>2. (s \o t)[k] = s[k]
      BY <1>4, <2>1
    <3> QED BY <1>1, <1>3, <3>1, <3>2
  <2>2. CASE ~(k <= m)
    <3>1. k - m \in 1..n /\ j + (k - m) - 1 = i + k - 1
      BY <2>2
    <3>2. t[k - m] = b.data[i + k - 1]
      BY <1>2, <3>1
    <3> QED BY <1>3, <1>4, <2>2, <3>2
  <2> QED BY <2>1, <2>2
<1>6. s \o t = u
  BY <1>3, <1>4, <1>5, SeqEqual
<1> QED BY <1>6 DEF s, t, u

\* l bytes of a string, behind the first m
Part(s, m, l) == SubSeq(s, m + 1, m + l)

LEMMA PartProperties ==
  ASSUME NEW s \in Seq(Memory), NEW m \in Nat, NEW l \in Nat, m + l <= Len(s)
  PROVE  /\ Part(s, m, l) \in Seq(Memory) /\ Len(Part(s, m, l)) = l
         /\ \A k \in 1..l : Part(s, m, l)[k] = s[m + k]
<1> DEFINE r == SubSeq(s, m + 1, m + l)
<1>0. Len(s) \in Nat
  BY LenProperties
<1>1. m + 1 \in Int /\ m + l \in Int
  OBVIOUS
<1>2. \A k \in (m + 1)..(m + l) : s[k] \in Memory
  <2>1. ASSUME NEW k \in (m + 1)..(m + l) PROVE k \in 1..Len(s)
    BY <1>0
  <2> QED BY <2>1, ElementOfSeq
<1>3. /\ r \in Seq(Memory)
      /\ Len(r) = IF m + 1 <= m + l THEN m + l - (m + 1) + 1 ELSE 0
      /\ \A k \in 1..(m + l - (m + 1) + 1) : r[k] = s[(m + 1) + k - 1]
  BY <1>1, <1>2, SubSeqProperties
<1> HIDE DEF r
<1>4. Len(r) = l
  BY <1>3
<1>5. ASSUME NEW k \in 1..l PROVE r[k] = s[m + k]
  <2>1. k \in 1..(m + l - (m + 1) + 1) /\ (m + 1) + k - 1 = m + k
    OBVIOUS
  <2> QED BY <1>3, <2>1
<1>6. r \in Seq(Memory) /\ Len(r) = l /\ \A k \in 1..l : r[k] = s[m + k]
  BY <1>3, <1>4, <1>5
<1> QED BY <1>6 DEF Part, r

LEMMA CopiedPart ==
  ASSUME NEW b, GoodBuffer(b), NEW i \in Nat, NEW n \in Nat, i + n <= b.capacity,
         NEW m \in Nat, NEW l \in Nat, m + l <= n, NEW j \in Nat, j = i + m
  PROVE  Part(Copied(b, i, n), m, l) = Copied(b, j, l)
<1> DEFINE s == Copied(b, i, n)
           t == Copied(b, j, l)
           r == Part(s, m, l)
<1>1. s \in Seq(Memory) /\ Len(s) = n /\ \A k \in 1..n : s[k] = b.data[i + k - 1]
  BY CopiedSeq
<1>2. /\ t \in Seq(Memory) /\ Len(t) = l
      /\ \A k \in 1..l : t[k] = b.data[j + k - 1]
  <2>1. j + l <= b.capacity
    BY DEF GoodBuffer
  <2> QED BY <2>1, CopiedSeq
<1> HIDE DEF s, t
<1>3. r \in Seq(Memory) /\ Len(r) = l /\ \A k \in 1..l : r[k] = s[m + k]
  BY <1>1, PartProperties
<1> HIDE DEF r
<1>4. ASSUME NEW k \in 1..l PROVE r[k] = t[k]
  <2>1. m + k \in 1..n /\ i + (m + k) - 1 = j + k - 1
    OBVIOUS
  <2> QED BY <1>1, <1>2, <1>3, <2>1
<1>5. r = t
  BY <1>2, <1>3, <1>4, SeqEqual
<1> QED BY <1>5 DEF s, t, r

LEMMA CopiedFirst ==
  ASSUME NEW b, GoodBuffer(b), NEW i \in Nat, NEW n \in Nat, i + n <= b.capacity,
         NEW m \in 0..n
  PROVE  Stream!First(Copied(b, i, n), m) = Copied(b, i, m)
<1>1. m \in Nat /\ 0 \in Nat /\ 0 + m <= n /\ i = i + 0
  OBVIOUS
<1>2. Part(Copied(b, i, n), 0, m) = Copied(b, i, m)
  BY <1>1, CopiedPart
<1>3. Part(Copied(b, i, n), 0, m) = SubSeq(Copied(b, i, n), 1, m)
  BY <1>1 DEF Part
<1> QED BY <1>2, <1>3 DEF Stream!First

LEMMA CopiedRest ==
  ASSUME NEW b, GoodBuffer(b), NEW i \in Nat, NEW n \in Nat, i + n <= b.capacity,
         NEW m \in 0..n
  PROVE  Stream!Rest(Copied(b, i, n), m) = Copied(b, i + m, n - m)
<1> DEFINE l == n - m
           p == i + m
<1>1. m \in Nat /\ l \in Nat /\ p \in Nat /\ m + l <= n /\ p = i + m /\ m + l = n
  OBVIOUS
<1> HIDE DEF l, p
<1>2. Part(Copied(b, i, n), m, l) = Copied(b, p, l)
  BY <1>1, CopiedPart
<1>3. Len(Copied(b, i, n)) = n
  BY CopiedSeq
<1>4. Part(Copied(b, i, n), m, l) = SubSeq(Copied(b, i, n), m + 1, Len(Copied(b, i, n)))
  BY <1>1, <1>3 DEF Part
<1> QED BY <1>2, <1>4 DEF Stream!Rest, l, p

-----------------------------------------------------------------------------
(***************************************************************************)
(* Every operation leaves a well-formed object.                            *)
(***************************************************************************)

LEMMA SetGood ==
  ASSUME BufferInv, NEW r \in Nat, NEW w \in Nat, r <= w, w <= buf.capacity, Set(r, w)
  PROVE  /\ GoodBuffer(buf')
         /\ buf'.data = buf.data /\ buf'.capacity = buf.capacity
         /\ buf'.reader = r /\ buf'.writer = w
<1>1. buf' = [data |-> buf.data, reader |-> r, writer |-> w, capacity |-> buf.capacity]
  BY DEF Set, BufferInv, GoodBuffer
<1> QED BY <1>1 DEF BufferInv, GoodBuffer

\* The indices, the readable bytes and the room
LEMMA Sizes ==
  ASSUME BufferInv
  PROVE  /\ buf.reader \in Nat /\ buf.writer \in Nat /\ buf.capacity \in Nat
         /\ buf.reader <= buf.writer /\ buf.writer <= buf.capacity
         /\ ReadableBytes(buf) \in Nat /\ buf.reader + ReadableBytes(buf) = buf.writer
         /\ WritableBytes(buf) \in Nat /\ buf.writer + WritableBytes(buf) = buf.capacity
<1>1. /\ buf.reader \in Nat /\ buf.writer \in Nat /\ buf.capacity \in Nat
      /\ buf.reader <= buf.writer /\ buf.writer <= buf.capacity
  BY DEF BufferInv, GoodBuffer
<1>2. ReadableBytes(buf) \in Nat /\ buf.reader + ReadableBytes(buf) = buf.writer
  BY <1>1 DEF ReadableBytes
<1>3. WritableBytes(buf) \in Nat /\ buf.writer + WritableBytes(buf) = buf.capacity
  BY <1>1 DEF WritableBytes
<1> QED BY <1>1, <1>2, <1>3

LEMMA LeastNat ==
  ASSUME NEW n \in Nat, NEW m \in Nat
  PROVE  Minimum(n, m) \in 0..m /\ Minimum(n, m) \in 0..n
BY DEF Minimum

LEMMA InitInv == Init => BufferInv
<1> SUFFICES ASSUME Init PROVE BufferInv
  OBVIOUS
<1>1. InitSize \in Nat
  BY SizesAssumption
<1> QED BY <1>1 DEF Init, BufferInv, GoodBuffer, Memory

\* Delimiters are not empty
LEMMA DelimLen ==
  ASSUME NEW d \in Delims
  PROVE  d \in Seq(Bytes) /\ Len(d) \in Nat \ {0}
<1>1. d \in Seq(Bytes) /\ d # <<>>
  BY StringsAssumption
<1> QED BY <1>1, EmptySeq

\* A set of numbers that is not empty has a least member
LEMMA LeastMember ==
  ASSUME NEW S \in SUBSET Nat, S # {},
         NEW x, x = CHOOSE i \in S : \A j \in S : i <= j
  PROVE  x \in S /\ \A j \in S : x <= j
<1>1. \E i \in S : \A j \in S : ~(j < i)
  <2>1. \E i \in S : \A j \in S : ~(<<j, i>> \in OpToRel(<, Nat))
    BY NatLessThanWellFounded, WFMin, Zenon
  <2> QED BY <2>1, Zenon DEF OpToRel
<1>2. \E i \in S : \A j \in S : i <= j
  BY <1>1
<1> QED BY <1>2

\* The first occurrence of the delimiter
LEMMA FirstFound ==
  ASSUME BufferInv, NEW d \in Delims, Found(d) # {},
         NEW at, at = CHOOSE i \in Found(d) : \A j \in Found(d) : i <= j
  PROVE  /\ at \in buf.reader..buf.writer /\ at + Len(d) <= buf.writer
         /\ Copied(buf, at, Len(d)) = d
         /\ \A j \in Found(d) : at <= j
<1>1. Found(d) \in SUBSET Nat
  BY Sizes DEF Found
<1>2. at \in Found(d) /\ \A j \in Found(d) : at <= j
  BY <1>1, LeastMember
<1> QED BY <1>2 DEF Found

LEMMA NextInv == BufferInv /\ [Next]_vars => BufferInv'
<1> SUFFICES ASSUME BufferInv, [Next]_vars PROVE BufferInv'
  OBVIOUS
<1> USE SizesAssumption
<1>0. ASSUME NEW r \in Nat, NEW w \in Nat, r <= w, w <= buf.capacity, Set(r, w)
      PROVE  BufferInv'
  BY <1>0, SetGood DEF BufferInv
<1>1. ASSUME NEW s \in Chunks, AppendBytes(s) PROVE BufferInv'
  <2>1. s \in Seq(Bytes)
    BY StringsAssumption
  <2>2. GoodBuffer(Appended(buf, s))
    BY <2>1, AppendedGood DEF BufferInv
  <2> QED BY <1>1, <2>2 DEF AppendBytes, BufferInv
<1>2. ASSUME NEW d \in Delims, ReadStringAndForwardTill(d) PROVE BufferInv'
  <2>1. CASE Found(d) = {}
    BY <1>2, <2>1 DEF ReadStringAndForwardTill, BufferInv
  <2>2. CASE Found(d) # {}
    <3> DEFINE at == CHOOSE i \in Found(d) : \A j \in Found(d) : i <= j
    <3>1. at \in buf.reader..buf.writer /\ at + Len(d) <= buf.writer
      BY <2>2, FirstFound
    <3>2. Set(at + Len(d), buf.writer)
      BY <1>2, <2>2 DEF ReadStringAndForwardTill
    <3> HIDE DEF at
    <3>3. at + Len(d) \in Nat
      BY <3>1, DelimLen, Sizes
    <3> QED BY <1>0, <3>1, <3>2, <3>3, Sizes
  <2> QED BY <2>1, <2>2
<1>3. ASSUME NEW n \in Lengths, EnsureBytesForWrite(n) PROVE BufferInv'
  BY <1>3, EnsuredGood DEF EnsureBytesForWrite, BufferInv
<1>4. ASSUME NEW n \in Lengths, ReaderIdxForward(n) PROVE BufferInv'
  <2>1. Set(buf.reader + Minimum(n, ReadableBytes(buf)), buf.writer)
    BY <1>4 DEF ReaderIdxForward
  <2>2. Minimum(n, ReadableBytes(buf)) \in 0..ReadableBytes(buf)
    BY Sizes, LeastNat
  <2> QED BY <1>0, <2>1, <2>2, Sizes
<1>5. ASSUME NEW n \in Lengths, ReaderIdxBackward(n) PROVE BufferInv'
  <2>1. Set(buf.reader - Minimum(n, buf.reader), buf.writer)
    BY <1>5 DEF ReaderIdxBackward
  <2>2. Minimum(n, buf.reader) \in 0..buf.reader
    BY Sizes, LeastNat
  <2> QED BY <1>0, <2>1, <2>2, Sizes
<1>6. ASSUME NEW n \in Lengths, WriterIdxForward(n) PROVE BufferInv'
  <2>1. Set(buf.reader, buf.writer + Minimum(n, WritableBytes(buf)))
    BY <1>6 DEF WriterIdxForward
  <2>2. Minimum(n, WritableBytes(buf)) \in 0..WritableBytes(buf)
    BY Sizes, LeastNat
  <2> QED BY <1>0, <2>1, <2>2, Sizes
<1>7. ASSUME NEW n \in Lengths, WriterIdxBackward(n) PROVE BufferInv'
  <2>1. Set(buf.reader, buf.writer - Minimum(n, ReadableBytes(buf)))
    BY <1>7 DEF WriterIdxBackward
  <2>2. Minimum(n, ReadableBytes(buf)) \in 0..ReadableBytes(buf)
    BY Sizes, LeastNat
  <2> QED BY <1>0, <2>1, <2>2, Sizes
<1>8. ASSUME NEW n \in Lengths, ReadString(n) PROVE BufferInv'
  BY <1>8 DEF ReadString, BufferInv
<1>9. ASSUME NEW n \in Lengths, ReadStringAndForward(n) PROVE BufferInv'
  <2>1. CASE n > ReadableBytes(buf)
    BY <1>9, <2>1 DEF ReadStringAndForward, BufferInv
  <2>2. CASE ~(n > ReadableBytes(buf))
    <3>1. Set(buf.reader + n, buf.writer)
      BY <1>9, <2>2 DEF ReadStringAndForward
    <3> QED BY <1>0, <2>2, <3>1, Sizes
  <2> QED BY <2>1, <2>2
<1>10. ASSUME NEW n \in Lengths, NEW i \in Lengths, ReadStringFrom(i, n) PROVE BufferInv'
  BY <1>10 DEF ReadStringFrom, BufferInv
<1>11. CASE Reset
  BY <1>0, <1>11, Sizes DEF Reset
<1>12. CASE ReadAll
  BY <1>0, <1>12, Sizes DEF ReadAll
<1>13. CASE TrimLeft
  <2>1. PICK r \in buf.reader..buf.writer : Set(r, buf.writer)
    BY <1>13 DEF TrimLeft
  <2> QED BY <1>0, <2>1, Sizes
<1>14. CASE TrimRight
  <2>1. PICK w \in buf.reader..buf.writer : Set(buf.reader, w)
    BY <1>14 DEF TrimRight
  <2> QED BY <1>0, <2>1, Sizes
<1>15. CASE UNCHANGED vars
  BY <1>15 DEF vars, BufferInv
<1> QED BY <1>1, <1>2, <1>3, <1>4, <1>5, <1>6, <1>7, <1>8, <1>9, <1>10, <1>11, <1>12,
           <1>13, <1>14, <1>15 DEF Next

LEMMA AlwaysInv == Spec => []BufferInv
<1> QED BY InitInv, NextInv, PTL DEF Spec

\* Both indices stay in the array, in order, whatever is appended, read, skipped and put
\* back (buffer.h:231-234)
THEOREM TypeCorrect == Spec => []TypeOK
<1>1. BufferInv => TypeOK
  BY DEF BufferInv, GoodBuffer, TypeOK, Memory
<1> QED BY <1>1, AlwaysInv, PTL

\* "Make sure there is enough room." (buffer.h:209): for any history of the object, any
\* length and whichever way memcpy copies overlapping areas
THEOREM RoomIsEnsured == Spec => []RoomEnsured
<1>1. BufferInv => RoomEnsured
  BY SizesAssumption, EnsuredGood DEF BufferInv, RoomEnsured
<1> QED BY <1>1, AlwaysInv, PTL

-----------------------------------------------------------------------------
(***************************************************************************)
(* The refinement.                                                         *)
(***************************************************************************)

\* What was read and what there is to read
LEMMA Mapped ==
  ASSUME BufferInv
  PROVE  /\ Copied(buf, 0, buf.reader) \in Seq(Memory)
         /\ Len(Copied(buf, 0, buf.reader)) = buf.reader
         /\ Content(buf) = Copied(buf, buf.reader, ReadableBytes(buf))
         /\ Content(buf) \in Seq(Memory)
         /\ Len(Content(buf)) = ReadableBytes(buf)
         /\ \A k \in 1..ReadableBytes(buf) : Content(buf)[k] = buf.data[buf.reader + k - 1]
<1>1. GoodBuffer(buf) /\ 0 \in Nat /\ 0 + buf.reader <= buf.capacity
  BY Sizes DEF BufferInv
<1>2. /\ Copied(buf, 0, buf.reader) \in Seq(Memory)
      /\ Len(Copied(buf, 0, buf.reader)) = buf.reader
  BY <1>1, CopiedSeq, Sizes
<1>3. buf.reader + ReadableBytes(buf) <= buf.capacity
  BY Sizes
<1>4. /\ Copied(buf, buf.reader, ReadableBytes(buf)) \in Seq(Memory)
      /\ Len(Copied(buf, buf.reader, ReadableBytes(buf))) = ReadableBytes(buf)
      /\ \A k \in 1..ReadableBytes(buf) :
           Copied(buf, buf.reader, ReadableBytes(buf))[k] = buf.data[buf.reader + k - 1]
  BY ZenonT(40), <1>1, <1>3, CopiedSeq, Sizes
<1> QED BY <1>2, <1>4 DEF Content

\* The beginning and the rest of what there is to read
LEMMA ContentParts ==
  ASSUME BufferInv, NEW k \in 0..ReadableBytes(buf)
  PROVE  /\ Stream!First(Content(buf), k) = Copied(buf, buf.reader, k)
         /\ Stream!Rest(Content(buf), k) = Copied(buf, buf.reader + k, ReadableBytes(buf) - k)
<1>1. /\ GoodBuffer(buf) /\ buf.reader \in Nat /\ ReadableBytes(buf) \in Nat
      /\ buf.reader + ReadableBytes(buf) <= buf.capacity
  BY Sizes DEF BufferInv
<1>2. Content(buf) = Copied(buf, buf.reader, ReadableBytes(buf))
  BY DEF Content
<1>3. Stream!First(Copied(buf, buf.reader, ReadableBytes(buf)), k) = Copied(buf, buf.reader, k)
  BY <1>1, CopiedFirst
<1>4. Stream!Rest(Copied(buf, buf.reader, ReadableBytes(buf)), k) =
        Copied(buf, buf.reader + k, ReadableBytes(buf) - k)
  BY <1>1, CopiedRest
<1> QED BY <1>2, <1>3, <1>4

\* A step that moves the reader on by k consumes k bytes
LEMMA Consumes ==
  ASSUME BufferInv, NEW k \in 0..ReadableBytes(buf), NEW result,
         Set(buf.reader + k, buf.writer), out' = result
  PROVE  Stream!Consume(k, result)
<1>0. GoodBuffer(buf) /\ buf.reader + k \in Nat /\ buf.reader + k <= buf.writer
  BY Sizes DEF BufferInv
<1>1. /\ buf'.data = buf.data /\ buf'.reader = buf.reader + k /\ buf'.writer = buf.writer
  BY <1>0, SetGood, Sizes
<1>2. Copied(buf, 0, buf.reader)' = Copied(buf, 0, buf.reader) \o Copied(buf, buf.reader, k)
  <2>1. Copied(buf, 0, buf.reader)' = Copied(buf, 0, buf.reader + k)
    BY <1>1 DEF Copied
  <2> DEFINE r == buf.reader
             l == r + k
  <2>2. /\ 0 \in Nat /\ r \in Nat /\ k \in Nat /\ l \in Nat
        /\ r = 0 + r /\ l = r + k /\ 0 + l <= buf.capacity
    BY <1>0, Sizes
  <2> HIDE DEF r, l
  <2>3. Copied(buf, 0, r) \o Copied(buf, r, k) = Copied(buf, 0, l)
    BY <1>0, <2>2, CopiedJoined
  <2> QED BY <2>1, <2>3 DEF r, l
<1>3. Content(buf)' = Copied(buf, buf.reader + k, ReadableBytes(buf) - k)
  <2>1. ReadableBytes(buf)' = ReadableBytes(buf) - k
    BY <1>1, Sizes DEF ReadableBytes
  <2> QED BY <1>1, <2>1 DEF Content, Copied
<1>4. Copied(buf, 0, buf.reader)' =
        Copied(buf, 0, buf.reader) \o Stream!First(Content(buf), k)
  BY <1>2, ContentParts
<1>5. Content(buf)' = Stream!Rest(Content(buf), k)
  BY <1>3, ContentParts
<1> QED BY <1>4, <1>5 DEF Stream!Consume

\* A step that leaves the object alone consumes nothing
LEMMA ConsumesNothing ==
  ASSUME BufferInv, NEW result, UNCHANGED buf, out' = result
  PROVE  Stream!Consume(0, result)
<1>1. Set(buf.reader + 0, buf.writer)
  <2>1. buf.reader + 0 = buf.reader
    BY Sizes
  <2>2. buf' = [buf EXCEPT !.reader = buf.reader, !.writer = buf.writer]
    BY DEF BufferInv, GoodBuffer
  <2> QED BY <2>1, <2>2 DEF Set
<1>2. 0 \in 0..ReadableBytes(buf)
  BY Sizes
<1> QED BY <1>1, <1>2, Consumes

\* A step that moves the writer back drops the last bytes
LEMMA Drops ==
  ASSUME BufferInv, NEW k \in 0..ReadableBytes(buf), Set(buf.reader, buf.writer - k)
  PROVE  /\ Copied(buf, 0, buf.reader)' = Copied(buf, 0, buf.reader)
         /\ Content(buf)' = Stream!First(Content(buf), Len(Content(buf)) - k)
<1>0. buf.writer - k \in Nat /\ buf.reader <= buf.writer - k /\ buf.writer - k <= buf.capacity
      /\ ReadableBytes(buf) - k \in 0..ReadableBytes(buf)
  BY Sizes
<1>1. /\ buf'.data = buf.data /\ buf'.reader = buf.reader /\ buf'.writer = buf.writer - k
  BY <1>0, SetGood, Sizes
<1>2. ReadableBytes(buf)' = ReadableBytes(buf) - k
  BY <1>1, Sizes DEF ReadableBytes
<1>3. Content(buf)' = Copied(buf, buf.reader, ReadableBytes(buf) - k)
  BY <1>1, <1>2 DEF Content, Copied
<1>4. Stream!First(Content(buf), ReadableBytes(buf) - k) =
        Copied(buf, buf.reader, ReadableBytes(buf) - k)
  BY <1>0, ContentParts
<1>5. Copied(buf, 0, buf.reader)' = Copied(buf, 0, buf.reader)
  BY <1>1 DEF Copied
<1>6. Len(Content(buf)) = ReadableBytes(buf)
  BY Mapped
<1> QED BY <1>3, <1>4, <1>5, <1>6

\* A step that moves the writer on appends what the array holds there
LEMMA Exposes ==
  ASSUME BufferInv, NEW k \in 0..WritableBytes(buf), Set(buf.reader, buf.writer + k)
  PROVE  /\ Copied(buf, 0, buf.reader)' = Copied(buf, 0, buf.reader)
         /\ Content(buf)' = Content(buf) \o Copied(buf, buf.writer, k)
         /\ Copied(buf, buf.writer, k) \in [1..k -> Memory]
<1>0. buf.writer + k \in Nat /\ buf.reader <= buf.writer + k /\ buf.writer + k <= buf.capacity
      /\ k \in Nat
  BY Sizes
<1>1. /\ buf'.data = buf.data /\ buf'.reader = buf.reader /\ buf'.writer = buf.writer + k
  BY <1>0, SetGood, Sizes
<1>2. ReadableBytes(buf)' = ReadableBytes(buf) + k
  BY <1>1, Sizes DEF ReadableBytes
<1>3. Content(buf)' = Copied(buf, buf.reader, ReadableBytes(buf) + k)
  BY <1>1, <1>2 DEF Content, Copied
<1>4. Copied(buf, buf.reader, ReadableBytes(buf)) \o Copied(buf, buf.writer, k) =
        Copied(buf, buf.reader, ReadableBytes(buf) + k)
  <2> DEFINE r == buf.reader
             w == buf.writer
             m == ReadableBytes(buf)
             l == m + k
  <2>1. /\ GoodBuffer(buf) /\ r \in Nat /\ w \in Nat /\ m \in Nat /\ l \in Nat
        /\ w = r + m /\ l = m + k /\ r + l <= buf.capacity
    BY <1>0, Sizes DEF BufferInv
  <2> HIDE DEF r, w, m, l
  <2>2. Copied(buf, r, m) \o Copied(buf, w, k) = Copied(buf, r, l)
    BY <1>0, <2>1, CopiedJoined
  <2> QED BY <2>2 DEF r, w, m, l
<1>5. Copied(buf, 0, buf.reader)' = Copied(buf, 0, buf.reader)
  BY <1>1 DEF Copied
<1>6. Copied(buf, buf.writer, k) \in [1..k -> Memory]
  <2>1. Copied(buf, buf.writer, k) \in Seq(Memory) /\ Len(Copied(buf, buf.writer, k)) = k
    BY <1>0, CopiedSeq, Sizes DEF BufferInv
  <2> QED BY <2>1, LenProperties
<1>7. Content(buf) = Copied(buf, buf.reader, ReadableBytes(buf))
  BY DEF Content
<1> QED BY <1>3, <1>4, <1>5, <1>6, <1>7

\* Nothing to read is lost when room is made; what was read may be
LEMMA EnsuredContent ==
  ASSUME CopyOrder = "forward", BufferInv, NEW n \in Nat, NEW e, e = Ensured(buf, n)
  PROVE  /\ Content(e) = Content(buf)
         /\ Copied(e, 0, e.reader) \in {Copied(buf, 0, buf.reader), <<>>}
<1>1. /\ GoodBuffer(e) /\ ReadableBytes(e) = ReadableBytes(buf)
      /\ e = buf \/ e.reader = 0
      /\ \A i \in 0..(ReadableBytes(buf) - 1) : e.data[e.reader + i] = buf.data[buf.reader + i]
  BY EnsuredGood DEF BufferInv
<1>2. e.reader \in Nat
  BY <1>1 DEF GoodBuffer
<1>3. Copied(e, e.reader, ReadableBytes(buf)) = Copied(buf, buf.reader, ReadableBytes(buf))
  <2>1. ASSUME NEW k \in 1..ReadableBytes(buf)
        PROVE  e.data[e.reader + k - 1] = buf.data[buf.reader + k - 1]
    <3>1. /\ k - 1 \in 0..(ReadableBytes(buf) - 1)
          /\ e.reader + (k - 1) = e.reader + k - 1 /\ buf.reader + (k - 1) = buf.reader + k - 1
      BY <1>2, Sizes
    <3>2. e.data[e.reader + (k - 1)] = buf.data[buf.reader + (k - 1)]
      BY <1>1, <3>1
    <3> QED BY <3>1, <3>2
  <2> QED BY <2>1 DEF Copied
<1>4. Content(e) = Content(buf)
  BY <1>1, <1>3 DEF Content
<1>5. CASE e = buf
  BY <1>4, <1>5
<1>6. CASE e.reader = 0
  BY <1>4, <1>6, CopiedNothing
<1> QED BY <1>1, <1>5, <1>6

\* What there is to read, before and from an index on
LEMMA ContentSplit ==
  ASSUME NEW b, GoodBuffer(b), NEW w \in b.reader..b.writer
  PROVE  Content(b) = Copied(b, b.reader, w - b.reader) \o Copied(b, w, b.writer - w)
<1> DEFINE r == b.reader
           m == w - r
           n == b.writer - w
           l == ReadableBytes(b)
<1>1. /\ r \in Nat /\ w \in Nat /\ m \in Nat /\ n \in Nat /\ l \in Nat
      /\ w = r + m /\ l = m + n /\ r + l <= b.capacity
  BY DEF GoodBuffer, ReadableBytes
<1> HIDE DEF r, m, n, l
<1>2. Copied(b, r, m) \o Copied(b, w, n) = Copied(b, r, l)
  BY <1>1, CopiedJoined
<1> QED BY <1>2 DEF Content, r, m, n, l

\* Append: the string comes behind what there is to read
LEMMA AppendedContent ==
  ASSUME CopyOrder = "forward", BufferInv, NEW s \in Seq(Bytes), NEW a, a = Appended(buf, s)
  PROVE  /\ Content(a) = Content(buf) \o s
         /\ Copied(a, 0, a.reader) \in {Copied(buf, 0, buf.reader), <<>>}
<1> DEFINE e == Ensured(buf, Len(s))
<1>0. Len(s) \in Nat
  BY LenProperties
<1>1. /\ Content(e) = Content(buf)
      /\ Copied(e, 0, e.reader) \in {Copied(buf, 0, buf.reader), <<>>}
  BY <1>0, EnsuredContent
<1>2. GoodBuffer(e)
  BY <1>0, EnsuredGood DEF BufferInv
<1>3. /\ GoodBuffer(a) /\ a.reader = e.reader /\ a.writer = e.writer + Len(s)
      /\ \A i \in 0..(e.writer - 1) : a.data[i] = e.data[i]
      /\ \A i \in 1..Len(s) : a.data[e.writer + i - 1] = s[i]
  BY AppendedGood DEF BufferInv
<1> HIDE DEF e
<1>4. /\ e.reader \in Nat /\ e.writer \in Nat /\ e.reader <= e.writer
      /\ a.writer <= a.capacity /\ a.capacity \in Nat
  BY <1>2, <1>3 DEF GoodBuffer
<1>5. /\ ReadableBytes(e) \in Nat /\ e.reader + ReadableBytes(e) = e.writer
      /\ ReadableBytes(a) = ReadableBytes(e) + Len(s)
  BY <1>0, <1>3, <1>4 DEF ReadableBytes
<1>6. Copied(a, e.reader, ReadableBytes(e)) = Content(e)
  <2>1. ASSUME NEW k \in 1..ReadableBytes(e)
        PROVE  a.data[e.reader + k - 1] = e.data[e.reader + k - 1]
    <3>1. e.reader + k - 1 \in 0..(e.writer - 1)
      BY <1>4, <1>5
    <3> QED BY <1>3, <3>1
  <2> QED BY <2>1 DEF Copied, Content
<1>7. Copied(a, e.writer, Len(s)) = s
  <2>1. Copied(a, e.writer, Len(s)) = [k \in 1..Len(s) |-> s[k]]
    BY <1>3 DEF Copied
  <2>2. s \in [1..Len(s) -> Bytes]
    BY LenProperties
  <2> QED BY <2>1, <2>2
<1>8. Copied(a, e.reader, ReadableBytes(e)) \o Copied(a, e.writer, Len(s)) = Content(a)
  <2>1. GoodBuffer(a) /\ e.writer \in a.reader..a.writer
    BY <1>0, <1>3, <1>4
  <2>2. e.writer - a.reader = ReadableBytes(e) /\ a.writer - e.writer = Len(s)
    <3>1. e.writer - e.reader = ReadableBytes(e)
      BY <1>4, <1>5
    <3>2. (e.writer + Len(s)) - e.writer = Len(s)
      BY <1>0, <1>4
    <3>3. a.reader = e.reader /\ a.writer = e.writer + Len(s)
      BY <1>3
    <3> QED BY <3>1, <3>2, <3>3
  <2> QED BY <1>3, <2>1, <2>2, ContentSplit
<1>9. Content(a) = Content(e) \o s
  BY <1>6, <1>7, <1>8
<1>10. Copied(a, 0, a.reader) = Copied(e, 0, e.reader)
  <2>1. ASSUME NEW k \in 1..e.reader PROVE a.data[0 + k - 1] = e.data[0 + k - 1]
    <3>1. 0 + k - 1 \in 0..(e.writer - 1)
      BY <1>4
    <3> QED BY <1>3, <3>1
  <2> QED BY <1>3, <2>1 DEF Copied
<1> QED BY <1>1, <1>9, <1>10

\* ReaderIdxBackward: what was read last is to be read again
LEMMA PutsBack ==
  ASSUME BufferInv, NEW n \in Nat, ReaderIdxBackward(n)
  PROVE  Stream!PutBack(n)
<1> DEFINE past == Copied(buf, 0, buf.reader)
           k == Minimum(n, buf.reader)
           r == buf.reader - k
<1>0. k \in 0..buf.reader
  BY LeastNat, Sizes
<1>1. Set(r, buf.writer) /\ out' = <<>>
  BY DEF ReaderIdxBackward
<1>2. Len(past) = buf.reader
  BY Mapped
<1>k. Stream!Least(n, Len(past)) = k
  BY <1>2 DEF Stream!Least, Minimum
<1> HIDE DEF k
<1>3. /\ r \in 0..buf.reader /\ r \in Nat /\ r <= buf.writer /\ 0 + r = r /\ r + k = buf.reader
      /\ k \in Nat /\ 0 \in Nat
  BY <1>0, Sizes
<1> HIDE DEF r
<1>4. /\ buf'.data = buf.data /\ buf'.reader = r /\ buf'.writer = buf.writer
  BY <1>1, <1>3, SetGood, Sizes
<1>5. past' = Copied(buf, 0, r)
  BY <1>4 DEF Copied
<1>6. ReadableBytes(buf)' = k + ReadableBytes(buf)
  BY <1>3, <1>4, Sizes DEF ReadableBytes
<1>7. Content(buf)' = Copied(buf, r, k + ReadableBytes(buf))
  BY <1>4, <1>6 DEF Content, Copied
<1>8. GoodBuffer(buf) /\ 0 + buf.reader <= buf.capacity /\ buf.reader \in Nat
  BY Sizes DEF BufferInv
<1>9. Stream!First(past, r) = Copied(buf, 0, r)
  BY <1>3, <1>8, CopiedFirst
<1>10. Stream!Rest(past, r) = Copied(buf, r, k)
  <2>1. Stream!Rest(past, r) = Copied(buf, 0 + r, buf.reader - r)
    BY <1>3, <1>8, CopiedRest
  <2>2. buf.reader - r = k
    BY <1>3, <1>8
  <2> QED BY <1>3, <2>1, <2>2
<1>11. Copied(buf, r, k) \o Content(buf) = Copied(buf, r, k + ReadableBytes(buf))
  <2>1. ReadableBytes(buf) \in Nat /\ r + k + ReadableBytes(buf) <= buf.capacity
    BY <1>3, Sizes
  <2> DEFINE m == ReadableBytes(buf)
             l == k + m
             i == buf.reader
  <2>2. /\ m \in Nat /\ l \in Nat /\ i \in Nat /\ r \in Nat /\ k \in Nat
        /\ r + l <= buf.capacity /\ l = k + m /\ i = r + k
        /\ GoodBuffer(buf)
    BY <1>3, <1>8, <2>1
  <2> HIDE DEF l, m, i
  <2>3. Copied(buf, r, k) \o Copied(buf, i, m) = Copied(buf, r, l)
    BY <2>2, CopiedJoined
  <2> QED BY <2>3 DEF Content, m, l, i
<1>12. Len(past) - k = r
  BY <1>2, <1>3, <1>8
<1>13. past' = Stream!First(past, Len(past) - k)
  BY <1>5, <1>9, <1>12
<1>14. Content(buf)' = Stream!Rest(past, Len(past) - k) \o Content(buf)
  BY <1>7, <1>10, <1>11, <1>12
<1> HIDE DEF past
<1> QED BY <1>1, <1>k, <1>13, <1>14 DEF Stream!PutBack, past

\* Where the delimiter is, in the array and in what there is to read
LEMMA OffsetsFound ==
  ASSUME BufferInv, NEW d \in Delims, NEW o \in Nat
  PROVE  o \in Stream!Offsets(Content(buf), d) <=> buf.reader + o \in Found(d)
<1>1. /\ Len(d) \in Nat /\ Len(Content(buf)) = ReadableBytes(buf)
      /\ buf.reader \in Nat /\ ReadableBytes(buf) \in Nat
      /\ buf.reader + ReadableBytes(buf) = buf.writer /\ buf.writer <= buf.capacity
      /\ buf.capacity \in Nat
  BY DelimLen, Mapped, Sizes
<1>2. ASSUME o + Len(d) <= ReadableBytes(buf)
      PROVE  SubSeq(Content(buf), o + 1, o + Len(d)) = Copied(buf, buf.reader + o, Len(d))
  <2> DEFINE i == buf.reader
             m == ReadableBytes(buf)
             j == i + o
             l == Len(d)
  <2>1. /\ GoodBuffer(buf) /\ i \in Nat /\ m \in Nat /\ i + m <= buf.capacity
        /\ j \in Nat /\ l \in Nat /\ o + l <= m /\ j = i + o
    BY <1>1, <1>2 DEF BufferInv
  <2> HIDE DEF i, m, j, l
  <2>2. Part(Copied(buf, i, m), o, l) = Copied(buf, j, l)
    BY <2>1, CopiedPart
  <2> QED BY <2>2 DEF Content, Part, i, m, j, l
<1>3. o \in Stream!Offsets(Content(buf), d) <=>
        /\ o \in 0..ReadableBytes(buf) /\ o + Len(d) <= ReadableBytes(buf)
        /\ SubSeq(Content(buf), o + 1, o + Len(d)) = d
  BY <1>1 DEF Stream!Offsets
<1>4. buf.reader + o \in Found(d) <=>
        /\ buf.reader + o \in buf.reader..buf.writer /\ buf.reader + o + Len(d) <= buf.writer
        /\ Copied(buf, buf.reader + o, Len(d)) = d
  BY DEF Found
<1>5. buf.reader + o \in buf.reader..buf.writer <=> o \in 0..ReadableBytes(buf)
  BY <1>1
<1>6. buf.reader + o + Len(d) <= buf.writer <=> o + Len(d) <= ReadableBytes(buf)
  BY <1>1
<1> QED BY <1>2, <1>3, <1>4, <1>5, <1>6

\* ReadStringAndForwardTill reads up to the first occurrence
LEMMA ReadsTill ==
  ASSUME BufferInv, NEW d \in Delims, ReadStringAndForwardTill(d)
  PROVE  Stream!ReadTill(d)
<1> DEFINE T == Stream!Offsets(Content(buf), d)
<1>0. \A o \in T : o \in Nat
  BY Mapped, Sizes DEF Stream!Offsets
<1>1. CASE Found(d) = {}
  <2>1. T = {}
    BY <1>0, <1>1, OffsetsFound
  <2>2. Stream!Consume(0, <<>>)
    BY <1>1, ConsumesNothing DEF ReadStringAndForwardTill
  <2> QED BY <2>1, <2>2 DEF Stream!ReadTill
<1>2. CASE Found(d) # {}
  <2> DEFINE at == CHOOSE i \in Found(d) : \A j \in Found(d) : i <= j
             o == at - buf.reader
  <2>1. /\ at \in buf.reader..buf.writer /\ at + Len(d) <= buf.writer
        /\ \A j \in Found(d) : at <= j
        /\ at \in Found(d)
    BY <1>2, FirstFound DEF Found
  <2>2. out' = Copied(buf, buf.reader, at - buf.reader) /\ Set(at + Len(d), buf.writer)
    BY <1>2 DEF ReadStringAndForwardTill
  <2> HIDE DEF at
  <2>3. /\ o \in 0..ReadableBytes(buf) /\ o \in Nat /\ buf.reader + o = at
        /\ o + Len(d) \in 0..ReadableBytes(buf)
        /\ buf.reader + (o + Len(d)) = at + Len(d)
    <3> DEFINE l == Len(d)
               i == buf.reader
               m == ReadableBytes(buf)
               w == buf.writer
    <3>1. l \in Nat /\ i \in Nat /\ m \in Nat /\ w \in Nat /\ i + m = w
      BY DelimLen, Sizes
    <3>2. at \in i..w /\ at + l <= w /\ o = at - i
      BY <2>1
    <3> HIDE DEF l, i, m, w, o
    <3>3. o \in 0..m /\ o \in Nat /\ i + o = at /\ o + l \in 0..m /\ i + (o + l) = at + l
      BY <3>1, <3>2
    <3> QED BY <3>3 DEF l, i, m
  <2>4. o \in T
    BY <2>1, <2>3, OffsetsFound
  <2>5. \A p \in T : o <= p
    <3> SUFFICES ASSUME NEW p \in T PROVE o <= p
      OBVIOUS
    <3>1. p \in Nat /\ buf.reader + p \in Found(d)
      BY <1>0, OffsetsFound
    <3>2. at <= buf.reader + p
      BY <2>1, <3>1
    <3> QED BY <2>3, <3>1, <3>2, Sizes
  <2> HIDE DEF o
  <2>6. o = CHOOSE x \in T : \A p \in T : x <= p
    <3> DEFINE y == CHOOSE x \in T : \A p \in T : x <= p
    <3>1. y \in T /\ \A p \in T : y <= p
      BY <2>4, <2>5
    <3> HIDE DEF y
    <3>2. o = y
      BY <1>0, <2>3, <2>4, <2>5, <3>1
    <3> QED BY <3>2 DEF y
  <2>7. Stream!Consume(o + Len(d), Copied(buf, buf.reader, o))
    <3>1. at - buf.reader = o
      BY DEF o
    <3> QED BY <2>2, <2>3, <3>1, Consumes
  <2>8. Stream!First(Content(buf), o) = Copied(buf, buf.reader, o)
    BY <2>3, ContentParts
  <2>9. Stream!Consume(o + Len(d), Stream!First(Content(buf), o))
    BY <2>7, <2>8
  <2>10. T # {}
    BY <2>4
  <2> HIDE DEF T
  <2> QED BY <2>6, <2>9, <2>10 DEF Stream!ReadTill, T
<1> QED BY <1>1, <1>2

\* TrimLeft consumes the blanks there are in front
LEMMA TrimsLeft == ASSUME BufferInv, TrimLeft PROVE Stream!TrimLeft
<1> DEFINE s == Content(buf)
           n == ReadableBytes(buf)
<1>1. PICK r \in buf.reader..buf.writer :
        /\ \A i \in buf.reader..(r - 1) : buf.data[i] \in Blanks
        /\ r < buf.writer => buf.data[r] \notin Blanks
        /\ Set(r, buf.writer)
  BY DEF TrimLeft
<1> DEFINE k == r - buf.reader
<1>2. /\ k \in 0..n /\ n \in Nat /\ buf.reader \in Nat /\ buf.reader + k = r
      /\ k < n <=> r < buf.writer
  BY <1>1, Sizes
<1>3. Len(s) = n /\ \A i \in 1..n : s[i] = buf.data[buf.reader + i - 1]
  BY Mapped
<1> HIDE DEF s, n, k
<1>4. ASSUME NEW i \in 1..k PROVE s[i] \in Blanks
  <2>1. i \in 1..n /\ buf.reader + i - 1 \in buf.reader..(r - 1)
    BY <1>2
  <2> QED BY <1>1, <1>3, <2>1
<1>5. k < n => s[k + 1] \notin Blanks
  <2>1. k < n => k + 1 \in 1..n /\ buf.reader + (k + 1) - 1 = r
    BY <1>2
  <2> QED BY <1>1, <1>2, <1>3, <2>1
<1>6. ASSUME NEW m \in 0..n, \A i \in 1..m : s[i] \in Blanks,
             m < n => s[m + 1] \notin Blanks
      PROVE  m = k
  <2>1. ~(m < k)
    <3> SUFFICES ASSUME m < k PROVE FALSE
      OBVIOUS
    <3>1. m < n /\ m + 1 \in 1..k
      BY <1>2
    <3> QED BY <1>4, <1>6, <3>1
  <2>2. ~(k < m)
    <3> SUFFICES ASSUME k < m PROVE FALSE
      OBVIOUS
    <3>1. k < n /\ k + 1 \in 1..m
      BY <1>2
    <3> QED BY <1>5, <1>6, <3>1
  <2> QED BY <1>2, <2>1, <2>2
<1>7. Stream!Leading(s) = k
  <2> DEFINE First(m) == /\ \A i \in 1..m : s[i] \in Blanks
                         /\ m < n => s[m + 1] \notin Blanks
             x == CHOOSE m \in 0..n : First(m)
  <2>1. x \in 0..n /\ First(x)
    BY <1>2, <1>4, <1>5
  <2>2. x = k
    BY <1>6, <2>1
  <2> QED BY <1>3, <2>2 DEF Stream!Leading
<1>8. Stream!Consume(k, <<>>)
  <2>1. out' = <<>>
    BY DEF TrimLeft
  <2> QED BY <1>1, <1>2, <2>1, Consumes DEF n
<1> QED BY <1>7, <1>8 DEF Stream!TrimLeft, s

\* TrimRight drops the blanks there are at the end
LEMMA TrimsRight == ASSUME BufferInv, TrimRight PROVE Stream!TrimRight
<1> DEFINE s == Content(buf)
           n == ReadableBytes(buf)
<1>1. PICK w \in buf.reader..buf.writer :
        /\ \A i \in w..(buf.writer - 1) : buf.data[i] \in Blanks
        /\ w > buf.reader => buf.data[w - 1] \notin Blanks
        /\ Set(buf.reader, w)
  BY DEF TrimRight
<1> DEFINE k == buf.writer - w
<1>2. /\ k \in 0..n /\ n \in Nat /\ w \in Nat /\ buf.reader \in Nat /\ buf.writer = w + k
      /\ buf.reader + n = buf.writer
      /\ k < n <=> w > buf.reader
  BY <1>1, Sizes
<1>3. Len(s) = n /\ \A i \in 1..n : s[i] = buf.data[buf.reader + i - 1]
  BY Mapped
<1> HIDE DEF s, n, k
<1>4. ASSUME NEW i \in (n - k + 1)..n PROVE s[i] \in Blanks
  <2>1. i \in 1..n /\ buf.reader + i - 1 \in w..(buf.writer - 1)
    BY <1>2
  <2> QED BY <1>1, <1>3, <2>1
<1>5. k < n => s[n - k] \notin Blanks
  <2>1. k < n => n - k \in 1..n /\ buf.reader + (n - k) - 1 = w - 1
    BY <1>2
  <2> QED BY <1>1, <1>2, <1>3, <2>1
<1>6. ASSUME NEW m \in 0..n, \A i \in (n - m + 1)..n : s[i] \in Blanks,
             m < n => s[n - m] \notin Blanks
      PROVE  m = k
  <2>1. ~(m < k)
    <3> SUFFICES ASSUME m < k PROVE FALSE
      OBVIOUS
    <3>1. m < n /\ n - m \in (n - k + 1)..n
      BY <1>2
    <3> QED BY <1>4, <1>6, <3>1
  <2>2. ~(k < m)
    <3> SUFFICES ASSUME k < m PROVE FALSE
      OBVIOUS
    <3>1. k < n /\ n - k \in (n - m + 1)..n
      BY <1>2
    <3> QED BY <1>5, <1>6, <3>1
  <2> QED BY <1>2, <2>1, <2>2
<1>7. Stream!Trailing(s) = k
  <2> DEFINE Last(m) == /\ \A i \in (n - m + 1)..n : s[i] \in Blanks
                        /\ m < n => s[n - m] \notin Blanks
             x == CHOOSE m \in 0..n : Last(m)
  <2>1. x \in 0..n /\ Last(x)
    BY <1>2, <1>4, <1>5
  <2>2. x = k
    BY <1>6, <2>1
  <2> QED BY <1>3, <2>2 DEF Stream!Trailing
<1>8. /\ Copied(buf, 0, buf.reader)' = Copied(buf, 0, buf.reader)
      /\ s' = Stream!First(s, Len(s) - k)
  <2>1. Set(buf.reader, buf.writer - k)
    BY <1>1, <1>2, Sizes
  <2> QED BY <1>2, <2>1, Drops DEF n, s
<1>9. out' = <<>>
  BY DEF TrimRight
<1>10. Stream!Least(k, Len(s)) = k
  BY <1>2, <1>3 DEF Stream!Least
<1> QED BY <1>7, <1>8, <1>9, <1>10 DEF Stream!TrimRight, Stream!Drop, s

\* The class implements a byte stream (buffer.h:14-17), for any strings, lengths and
\* delimiters and any sequence of operations, where memcpy copies overlapping areas from
\* the front: nothing that was appended is lost, doubled, reordered or invented by a
\* rearrangement or a reallocation of the array.
THEOREM Refinement == ASSUME CopyOrder = "forward" PROVE Spec => StreamSpec
<1> DEFINE past == Copied(buf, 0, buf.reader)
<1> USE SizesAssumption
<1>1. Init => Stream!Init
  <2> SUFFICES ASSUME Init PROVE Stream!Init
    OBVIOUS
  <2>1. buf.reader = 0 /\ ReadableBytes(buf) = 0 /\ out = <<>>
    BY DEF Init, ReadableBytes
  <2>2. past = <<>> /\ Content(buf) = <<>>
    BY <2>1, CopiedNothing DEF Content
  <2> QED BY <2>1, <2>2 DEF Stream!Init
<1>2. BufferInv /\ [Next]_vars => [Stream!Next]_(Stream!vars)
  <2> SUFFICES ASSUME BufferInv, [Next]_vars PROVE [Stream!Next]_(Stream!vars)
    OBVIOUS
  <2>1. ASSUME NEW s \in Chunks, AppendBytes(s) PROVE Stream!AppendBytes(s)
    <3>1. buf' = Appended(buf, s) /\ out' = <<>>
      BY <2>1 DEF AppendBytes
    <3>2. s \in Seq(Bytes)
      BY StringsAssumption
    <3>3. /\ Content(Appended(buf, s)) = Content(buf) \o s
          /\ Copied(Appended(buf, s), 0, Appended(buf, s).reader) \in {past, <<>>}
      BY <3>2, AppendedContent
    <3>4. Content(buf)' = Content(buf) \o s /\ past' \in {past, <<>>}
      <4>1. Content(buf)' = Content(Appended(buf, s))
        BY <3>1 DEF Content, ReadableBytes, Copied
      <4>2. past' = Copied(Appended(buf, s), 0, Appended(buf, s).reader)
        BY <3>1 DEF Copied
      <4> QED BY <3>3, <4>1, <4>2
    <3> QED BY <3>1, <3>4 DEF Stream!AppendBytes
  <2>2. ASSUME NEW d \in Delims, ReadStringAndForwardTill(d) PROVE Stream!ReadTill(d)
    BY <2>2, ReadsTill
  <2>3. ASSUME NEW n \in Lengths, EnsureBytesForWrite(n) PROVE Stream!MakeRoom
    <3>1. buf' = Ensured(buf, n) /\ out' = <<>> /\ n \in Nat
      BY <2>3 DEF EnsureBytesForWrite
    <3>2. /\ Content(Ensured(buf, n)) = Content(buf)
          /\ Copied(Ensured(buf, n), 0, Ensured(buf, n).reader) \in {past, <<>>}
      BY <3>1, EnsuredContent
    <3>3. Content(buf)' = Content(buf) /\ past' \in {past, <<>>}
      <4>1. Content(buf)' = Content(Ensured(buf, n))
        BY <3>1 DEF Content, ReadableBytes, Copied
      <4>2. past' = Copied(Ensured(buf, n), 0, Ensured(buf, n).reader)
        BY <3>1 DEF Copied
      <4> QED BY <3>2, <4>1, <4>2
    <3> QED BY <3>1, <3>3 DEF Stream!MakeRoom
  <2>4. ASSUME NEW n \in Lengths, ReaderIdxForward(n) PROVE Stream!Skip(n)
    <3> DEFINE k == Minimum(n, ReadableBytes(buf))
    <3>1. k \in 0..ReadableBytes(buf)
      BY LeastNat, Sizes
    <3>2. Stream!Least(n, Len(Content(buf))) = k
      BY Mapped DEF Stream!Least, Minimum
    <3>3. Set(buf.reader + k, buf.writer) /\ out' = <<>>
      BY <2>4 DEF ReaderIdxForward
    <3> HIDE DEF k
    <3>4. Stream!Consume(k, <<>>)
      BY <3>1, <3>3, Consumes
    <3> QED BY <3>2, <3>4 DEF Stream!Skip
  <2>5. ASSUME NEW n \in Lengths, ReaderIdxBackward(n) PROVE Stream!PutBack(n)
    BY <2>5, PutsBack
  <2>6. ASSUME NEW n \in Lengths, WriterIdxForward(n) PROVE Stream!Expose(n)
    <3> DEFINE k == Minimum(n, WritableBytes(buf))
    <3>1. k \in 0..WritableBytes(buf) /\ k \in 0..n
      BY LeastNat, Sizes
    <3>2. Set(buf.reader, buf.writer + k) /\ out' = <<>>
      BY <2>6 DEF WriterIdxForward
    <3> HIDE DEF k
    <3>3. /\ past' = past
          /\ Content(buf)' = Content(buf) \o Copied(buf, buf.writer, k)
          /\ Copied(buf, buf.writer, k) \in [1..k -> Bytes \cup {Junk}]
      BY <3>1, <3>2, Exposes DEF Memory
    <3> QED BY <3>1, <3>2, <3>3 DEF Stream!Expose
  <2>7. ASSUME NEW n \in Lengths, WriterIdxBackward(n) PROVE Stream!Drop(n)
    <3> DEFINE k == Minimum(n, ReadableBytes(buf))
    <3>1. k \in 0..ReadableBytes(buf)
      BY LeastNat, Sizes
    <3>2. Stream!Least(n, Len(Content(buf))) = k
      BY Mapped DEF Stream!Least, Minimum
    <3>3. Set(buf.reader, buf.writer - k) /\ out' = <<>>
      BY <2>7 DEF WriterIdxBackward
    <3> HIDE DEF k
    <3>4. past' = past /\ Content(buf)' = Stream!First(Content(buf), Len(Content(buf)) - k)
      BY <3>1, <3>3, Drops
    <3> QED BY <3>2, <3>3, <3>4 DEF Stream!Drop
  <2>8. ASSUME NEW n \in Lengths, ReadString(n) PROVE Stream!PeekAll(n)
    <3>1. past' = past /\ Content(buf)' = Content(buf)
      BY <2>8 DEF ReadString
    <3>2. Len(Content(buf)) = ReadableBytes(buf) /\ ReadableBytes(buf) \in Nat
      BY Mapped, Sizes
    <3>3. CASE n > ReadableBytes(buf)
      BY <2>8, <3>1, <3>2, <3>3 DEF ReadString, Stream!PeekAll
    <3>4. CASE ~(n > ReadableBytes(buf))
      <4>1. out' = Copied(buf, buf.reader, n)
        BY <2>8, <3>4 DEF ReadString
      <4>2. Stream!First(Content(buf), n) = Copied(buf, buf.reader, n)
        BY <3>2, <3>4, ContentParts
      <4>3. n <= Len(Content(buf))
        BY <3>2, <3>4
      <4> QED BY <3>1, <4>1, <4>2, <4>3 DEF Stream!PeekAll
    <3> QED BY <3>3, <3>4
  <2>9. ASSUME NEW n \in Lengths, ReadStringAndForward(n) PROVE Stream!Read(n)
    <3>1. Len(Content(buf)) = ReadableBytes(buf) /\ ReadableBytes(buf) \in Nat
      BY Mapped, Sizes
    <3>2. CASE n > ReadableBytes(buf)
      <4>1. Stream!Consume(0, <<>>)
        BY <2>9, <3>2, ConsumesNothing DEF ReadStringAndForward
      <4>2. ~(n <= Len(Content(buf)))
        BY <3>1, <3>2
      <4> QED BY <4>1, <4>2 DEF Stream!Read
    <3>3. CASE ~(n > ReadableBytes(buf))
      <4>1. n \in 0..ReadableBytes(buf) /\ n <= Len(Content(buf))
        BY <3>1, <3>3
      <4>2. out' = Copied(buf, buf.reader, n) /\ Set(buf.reader + n, buf.writer)
        BY <2>9, <3>3 DEF ReadStringAndForward
      <4>3. Stream!Consume(n, Copied(buf, buf.reader, n))
        BY <4>1, <4>2, Consumes
      <4>4. Stream!First(Content(buf), n) = Copied(buf, buf.reader, n)
        BY <4>1, ContentParts
      <4> QED BY <4>1, <4>3, <4>4 DEF Stream!Read
    <3> QED BY <3>2, <3>3
  <2>10. ASSUME NEW n \in Lengths, NEW i \in Lengths, ReadStringFrom(i, n)
         PROVE  Stream!Peek(i, n)
    <3>1. past' = past /\ Content(buf)' = Content(buf)
      BY <2>10 DEF ReadStringFrom
    <3>2. Len(Content(buf)) = ReadableBytes(buf) /\ ReadableBytes(buf) \in Nat
      BY Mapped, Sizes
    <3>3. CASE i >= ReadableBytes(buf)
      BY <2>10, <3>1, <3>2, <3>3 DEF ReadStringFrom, Stream!Peek
    <3>4. CASE ~(i >= ReadableBytes(buf))
      <4> DEFINE l == ReadableBytes(buf) - i
                 p == buf.reader + i
                 k == Minimum(n, l)
      <4>1. out' = Copied(buf, p, k)
        BY <2>10, <3>4 DEF ReadStringFrom
      <4>2. Stream!Rest(Content(buf), i) = Copied(buf, p, l)
        BY <3>2, <3>4, ContentParts
      <4>3. Stream!Least(n, Len(Content(buf)) - i) = k
        BY <3>2 DEF Stream!Least, Minimum
      <4>4. l \in Nat /\ p \in Nat /\ p + l <= buf.capacity
        BY <3>2, <3>4, Sizes
      <4>5. k \in 0..l
        BY <4>4, LeastNat
      <4> HIDE DEF l, p, k
      <4>6. Stream!First(Copied(buf, p, l), k) = Copied(buf, p, k)
        BY <4>4, <4>5, CopiedFirst DEF BufferInv
      <4>7. i < Len(Content(buf))
        BY <3>2, <3>4
      <4> QED BY <3>1, <4>1, <4>2, <4>3, <4>6, <4>7 DEF Stream!Peek
    <3> QED BY <3>3, <3>4
  <2>11. CASE Reset
    <3>1. buf'.reader = 0 /\ buf'.writer = 0
      BY <2>11, SetGood, Sizes DEF Reset
    <3>2. ReadableBytes(buf)' = 0
      BY <3>1 DEF ReadableBytes
    <3>3. past' = <<>> /\ Content(buf)' = <<>>
      BY <3>1, <3>2 DEF Content, Copied
    <3> QED BY <2>11, <3>3 DEF Reset, Stream!Reset, Stream!Next
  <2>12. CASE ReadAll
    <3>1. ReadableBytes(buf) \in 0..ReadableBytes(buf)
      BY Sizes
    <3>2. buf.reader + ReadableBytes(buf) = buf.writer
      BY Sizes
    <3>3. out' = Content(buf) /\ Set(buf.reader + ReadableBytes(buf), buf.writer)
      BY <2>12, <3>2 DEF ReadAll
    <3>4. Stream!Consume(ReadableBytes(buf), Content(buf))
      BY <3>1, <3>3, Consumes
    <3>5. Len(Content(buf)) = ReadableBytes(buf)
      BY Mapped
    <3> QED BY <3>4, <3>5 DEF Stream!ReadAll, Stream!Next
  <2>13. CASE TrimLeft
    BY <2>13, TrimsLeft DEF Stream!Next
  <2>14. CASE TrimRight
    BY <2>14, TrimsRight DEF Stream!Next
  <2>15. CASE UNCHANGED vars
    BY <2>15 DEF vars, Stream!vars, Content, ReadableBytes, Copied
  <2> QED BY <2>1, <2>2, <2>3, <2>4, <2>5, <2>6, <2>7, <2>8, <2>9, <2>10, <2>11, <2>12,
             <2>13, <2>14, <2>15 DEF Next, Stream!Next
<1> QED BY <1>1, <1>2, AlwaysInv, PTL DEF Spec, StreamSpec, Stream!Spec
=============================================================================
