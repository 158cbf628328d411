---------------------------- MODULE ConnIOProofs ----------------------------
(***************************************************************************)
(* Proofs about ConnIO, for scripts of any length, files of any size, any  *)
(* Cap and however reads and writes are cut: types; an echo server loses   *)
(* nothing; responses of an HTTP server arrive in order and whole.         *)
(***************************************************************************)
EXTENDS ConnIO, SequenceTheorems, FiniteSetTheorems, WellFoundedInduction, TLAPS

Tokens == UNION {Range(s.tokens) : s \in Scripts}

\* Where the bytes of an echo server's client are.  It is never sent a file.
Places5 == /\ got \in Seq(Tokens) /\ wbuf \in Seq(Tokens) /\ rbuf \in Seq(Tokens)
           /\ inbox \in Seq(Tokens) /\ todo \in Seq(Tokens)

EchoInv == Echo => Places5 /\ file.of = None /\ EchoIntact

-----------------------------------------------------------------------------
(***************************************************************************)
(* Sequences.                                                              *)
(***************************************************************************)

\* A sequence is its two parts
LEMMA Cut ==
  ASSUME NEW T, NEW s \in Seq(T), NEW n \in 0..Len(s)
  PROVE  /\ SubSeq(s, 1, n) \in Seq(T) /\ SubSeq(s, n + 1, Len(s)) \in Seq(T)
         /\ SubSeq(s, 1, n) \o SubSeq(s, n + 1, Len(s)) = s
<1>1. Len(s) \in Nat /\ \A i \in 1..Len(s) : s[i] \in T
  BY LenProperties, ElementOfSeq
<1>2. SubSeq(s, 1, n) \in Seq(T)
  BY <1>1, SubSeqProperties
<1>3. SubSeq(s, n + 1, Len(s)) \in Seq(T)
  BY <1>1, SubSeqProperties
<1>4. 1 \in 1..(Len(s) + 1) /\ n \in (1 - 1)..Len(s) /\ Len(s) \in n..Len(s)
  BY <1>1
<1>5. SubSeq(s, 1, n) \o SubSeq(s, n + 1, Len(s)) = SubSeq(s, 1, Len(s))
  BY <1>4, ConcatAdjacentSubSeq
<1> QED BY <1>2, <1>3, <1>5, SubSeqFull

\* Grouping does not matter
LEMMA Regroup ==
  ASSUME NEW a \in Seq(Tokens), NEW b \in Seq(Tokens), NEW c \in Seq(Tokens)
  PROVE  (a \o b) \o c = a \o (b \o c)
BY ConcatAssociative

LEMMA Join ==
  ASSUME NEW a \in Seq(Tokens), NEW b \in Seq(Tokens)
  PROVE  a \o b \in Seq(Tokens)
BY ConcatProperties

LEMMA MinOfTwo ==
  ASSUME NEW m \in Nat, NEW n \in Nat
  PROVE  Min({m, n}) \in {m, n} /\ Min({m, n}) <= m /\ Min({m, n}) <= n
<1>1. \E x \in {m, n} : \A y \in {m, n} : x <= y
  <2>1. CASE m <= n
    BY <2>1
  <2>2. CASE n <= m
    BY <2>2
  <2> QED BY <2>1, <2>2
<1>2. Min({m, n}) \in {m, n} /\ \A y \in {m, n} : Min({m, n}) <= y
  BY <1>1 DEF Min
<1> QED BY <1>2

-----------------------------------------------------------------------------
(***************************************************************************)
(* The steps.                                                              *)
(***************************************************************************)

LEMMA InitEcho == Init => EchoInv
<1> SUFFICES ASSUME Init, Echo PROVE Places5 /\ file.of = None /\ EchoIntact
  BY DEF EchoInv
<1>1. script \in Scripts /\ todo = script.tokens /\ got = <<>> /\ wbuf = <<>> /\ rbuf = <<>>
      /\ inbox = <<>> /\ file.of = None
  BY DEF Init
<1>2. todo \in Seq(Tokens)
  <2>1. Range(script.tokens) \subseteq Tokens
    BY <1>1 DEF Tokens
  <2> QED BY <1>1, <2>1, ScriptsAssumption, SeqMonotonic
<1>3. Places5
  BY <1>1, <1>2, EmptySeq DEF Places5
<1>4. got \o wbuf \o rbuf \o inbox \o todo = todo
  BY <1>1, <1>2, EmptySeq, ConcatEmptySeq
<1> QED BY <1>1, <1>3, <1>4 DEF EchoIntact

\* A step that moves nothing, or after which nothing has to hold any more
LEMMA QuietEcho ==
  ASSUME EchoInv, UNCHANGED <<script, got, wbuf, rbuf, file>>,
         \/ UNCHANGED <<inbox, todo, reset>>
         \/ reset' /\ inbox' = <<>> /\ UNCHANGED todo
  PROVE  EchoInv'
BY EmptySeq DEF EchoInv, Echo, Places5, EchoIntact

LEMMA SendsEcho == ASSUME EchoInv, Sends PROVE EchoInv'
<1> SUFFICES ASSUME Echo' PROVE Places5' /\ (file.of = None)' /\ EchoIntact'
  BY DEF EchoInv
<1>1. /\ Echo /\ Places5 /\ file.of = None /\ ~reset /\ todo # <<>>
      /\ got \o wbuf \o rbuf \o inbox \o todo = script.tokens
      /\ inbox' = Append(inbox, todo[1]) /\ todo' = Tail(todo)
      /\ UNCHANGED <<script, got, wbuf, rbuf, file, reset>>
  BY DEF EchoInv, Sends, Echo, session, EchoIntact
<1>2. todo[1] \in Tokens /\ Tail(todo) \in Seq(Tokens) /\ <<todo[1]>> \in Seq(Tokens)
      /\ todo = <<todo[1]>> \o Tail(todo)
  <2>1. todo \in Seq(Tokens) /\ Len(todo) \in Nat \ {0}
    BY <1>1, EmptySeq DEF Places5
  <2>2. todo[1] \in Tokens
    BY <2>1, ElementOfSeq
  <2>3. Tail(todo) \in Seq(Tokens) /\ Tail(todo) = SubSeq(todo, 2, Len(todo))
    BY <1>1, <2>1, HeadTailProperties, TailIsSubSeq
  <2>4. 1 \in 1..Len(todo) /\ Len(todo) \in 1..Len(todo)
    BY <2>1
  <2>5. SubSeq(todo, 1, Len(todo)) = <<todo[1]>> \o SubSeq(todo, 1 + 1, Len(todo))
    BY <2>1, <2>4, SubSeqRecursiveFirst
  <2> QED BY <2>1, <2>2, <2>3, <2>5, SubSeqFull
<1>3. inbox' = inbox \o <<todo[1]>>
  BY <1>1, <1>2, AppendIsConcat DEF Places5
<1>4. Places5'
  BY <1>1, <1>2, <1>3, ConcatProperties DEF Places5
<1>5. (got \o wbuf \o rbuf) \in Seq(Tokens)
  BY <1>1, ConcatProperties DEF Places5
<1>6. got \o wbuf \o rbuf \o inbox' \o todo' = got \o wbuf \o rbuf \o inbox \o todo
  <2> DEFINE g == got \o wbuf \o rbuf
             h == <<todo[1]>>
  <2>1. g \in Seq(Tokens) /\ inbox \in Seq(Tokens) /\ h \in Seq(Tokens)
        /\ Tail(todo) \in Seq(Tokens)
    BY <1>1, <1>2, <1>5 DEF Places5
  <2>2. inbox' = inbox \o h /\ todo = h \o Tail(todo) /\ todo' = Tail(todo)
    BY <1>1, <1>2, <1>3
  <2> HIDE DEF g, h
  <2>3. g \o inbox \in Seq(Tokens)
    BY <2>1, Join
  <2>4. (g \o inbox) \o h = g \o (inbox \o h)
    BY <2>1, Regroup
  <2>5. ((g \o inbox) \o h) \o Tail(todo) = (g \o inbox) \o (h \o Tail(todo))
    BY <2>1, <2>3, Regroup
  <2>6. g \o inbox' \o todo' = g \o inbox \o todo
    BY <2>2, <2>4, <2>5
  <2> QED BY <1>1, <2>6 DEF g
<1> QED BY <1>1, <1>4, <1>6 DEF EchoIntact

\* Reader takes what it reads from the inbox, and leaves all of it in one of the buffers
LEMMA ReadEcho == ASSUME EchoInv, ReadData PROVE EchoInv'
<1> SUFFICES ASSUME Echo' PROVE Places5' /\ (file.of = None)' /\ EchoIntact'
  BY DEF EchoInv
<1> DEFINE n == Min({Cap, Len(inbox)})
           read == SubSeq(inbox, 1, n)
           rest == SubSeq(inbox, n + 1, Len(inbox))
<1>1. /\ Echo /\ Places5 /\ file.of = None /\ ~reset
      /\ got \o wbuf \o rbuf \o inbox \o todo = script.tokens
      /\ inbox' = rest /\ OnStreamReached(rbuf \o read)
      /\ UNCHANGED <<script, got, todo, reset>>
  BY DEF EchoInv, ReadData, Read, Echo, EchoIntact
<1>2. OnMessage(rbuf \o read)
  BY <1>1 DEF OnStreamReached
<1>3. n \in 0..Len(inbox)
  <2>1. Len(inbox) \in Nat /\ Cap \in Nat
    BY <1>1, IOAssumption, LenProperties DEF Places5
  <2>2. n \in {Cap, Len(inbox)} /\ n <= Len(inbox)
    BY <2>1, MinOfTwo
  <2> QED BY <2>1, <2>2
<1>4. read \in Seq(Tokens) /\ rest \in Seq(Tokens) /\ read \o rest = inbox
  BY <1>1, <1>3, Cut DEF Places5
<1> HIDE DEF read, rest, n
<1> DEFINE held == wbuf \o rbuf
<1>5. held \in Seq(Tokens) /\ rbuf \o read \in Seq(Tokens) /\ wbuf' \o rbuf' = held \o read
      /\ wbuf' \in Seq(Tokens) /\ rbuf' \in Seq(Tokens)
  <2>0. wbuf \in Seq(Tokens) /\ rbuf \in Seq(Tokens) /\ read \in Seq(Tokens)
    BY <1>1, <1>4 DEF Places5
  <2>1. held \in Seq(Tokens) /\ rbuf \o read \in Seq(Tokens)
    BY <2>0, Join
  <2>2. wbuf \o (rbuf \o read) \in Seq(Tokens) /\ held \o read = wbuf \o (rbuf \o read)
    BY <2>0, <2>1, Join, Regroup
  <2>3. CASE AllRead
    BY <1>2, <2>1, <2>2, <2>3, EmptySeq, ConcatEmptySeq DEF OnMessage
  <2>4. CASE ~AllRead
    BY <1>2, <2>0, <2>1, <2>2, <2>4 DEF OnMessage
  <2> QED BY <2>1, <2>2, <2>3, <2>4
<1>6. Places5'
  BY <1>1, <1>4, <1>5 DEF Places5
<1>7. got' \o wbuf' \o rbuf' \o inbox' \o todo' = got \o wbuf \o rbuf \o inbox \o todo
  <2> DEFINE w == wbuf'
             r == rbuf'
  <2>0. got \in Seq(Tokens) /\ wbuf \in Seq(Tokens) /\ rbuf \in Seq(Tokens)
    BY <1>1 DEF Places5
  <2>w. w \in Seq(Tokens) /\ r \in Seq(Tokens) /\ w \o r = held \o read
    BY <1>5
  <2>h. held = wbuf \o rbuf /\ held \in Seq(Tokens)
    BY <1>5
  <2> HIDE DEF held, w, r
  <2>1. (got \o w) \o r = got \o (w \o r)
    BY <2>0, <2>w, Regroup
  <2>2. got \o held \in Seq(Tokens)
    BY <2>0, <2>h, Join
  <2>3. (got \o held) \o read = got \o (held \o read)
    <3>1. got \in Seq(Tokens) /\ held \in Seq(Tokens) /\ read \in Seq(Tokens)
      BY <1>4, <2>0, <2>h
    <3> QED BY <3>1, Regroup, ZenonT(60)
  <2>5. (got \o wbuf) \o rbuf = got \o (wbuf \o rbuf)
    BY <2>0, Regroup
  <2>4. ((got \o held) \o read) \o rest = (got \o held) \o inbox
    BY <1>4, <2>2, Regroup
  <2>6. ((got \o w) \o r) \o rest = ((got \o wbuf) \o rbuf) \o inbox
    BY <2>1, <2>3, <2>4, <2>5, <2>w, <2>h
  <2> QED BY <1>1, <2>6 DEF w, r
<1> QED BY <1>1, <1>2, <1>6, <1>7 DEF EchoIntact, OnMessage

\* Writer passes on what it takes from the write buffer
LEMMA WriteEcho ==
  ASSUME EchoInv, Echo, ~reset, NEW n \in 0..Len(wbuf),
         got' = got \o SubSeq(wbuf, 1, n), wbuf' = SubSeq(wbuf, n + 1, Len(wbuf)),
         UNCHANGED <<script, reset, rbuf, inbox, todo, file>>
  PROVE  EchoInv'
<1>1. /\ Places5 /\ file.of = None
      /\ got \o wbuf \o rbuf \o inbox \o todo = script.tokens
  BY DEF EchoInv, EchoIntact
<1>2. SubSeq(wbuf, 1, n) \in Seq(Tokens) /\ wbuf' \in Seq(Tokens)
      /\ SubSeq(wbuf, 1, n) \o wbuf' = wbuf
  BY <1>1, Cut DEF Places5
<1>3. got' \in Seq(Tokens) /\ got' \o wbuf' = got \o wbuf
  <2> DEFINE sent == SubSeq(wbuf, 1, n)
  <2>1. got \in Seq(Tokens) /\ sent \in Seq(Tokens) /\ wbuf' \in Seq(Tokens)
        /\ sent \o wbuf' = wbuf /\ got' = got \o sent
    BY <1>1, <1>2 DEF Places5
  <2> HIDE DEF sent
  <2>2. got \o sent \in Seq(Tokens)
    BY <2>1, Join
  <2> DEFINE w == wbuf'
  <2>3. w \in Seq(Tokens)
    BY <2>1
  <2> HIDE DEF w
  <2>4. (got \o sent) \o w = got \o (sent \o w)
    BY SMTT(30), <2>1, <2>3, Regroup
  <2> QED BY <2>1, <2>2, <2>4 DEF w
<1>4. Places5'
  BY <1>1, <1>2, <1>3 DEF Places5
<1> QED BY <1>1, <1>3, <1>4 DEF EchoInv, EchoIntact

LEMMA WriterEcho == ASSUME EchoInv, Writer PROVE EchoInv'
<1>1. CASE ~Echo
  <2>1. UNCHANGED script
    BY DEF Writer, WriteFails, CloseConnGuarded, WritePartial, WriteAll, WriteFile
  <2> QED BY <1>1, <2>1 DEF EchoInv, Echo
<1>2. CASE Echo
  <2>1. Places5 /\ ~FileNeedSending
    BY <1>2 DEF EchoInv, FileNeedSending
  <2>2. Len(wbuf) \in Nat /\ wbuf = SubSeq(wbuf, 1, Len(wbuf))
    BY <2>1, LenProperties, SubSeqFull DEF Places5
  <2>3. CASE WriteFails
    BY <2>3, QuietEcho DEF WriteFails, CloseConnGuarded, socket, session
  <2>4. CASE WritePartial
    <3>1. PICK n \in 1..(Len(wbuf) - 1) : /\ got' = got \o SubSeq(wbuf, 1, n)
                                          /\ wbuf' = SubSeq(wbuf, n + 1, Len(wbuf))
      BY <2>4 DEF WritePartial
    <3>2. n \in 0..Len(wbuf)
      BY <2>2
    <3>3. ~reset /\ UNCHANGED <<script, reset, rbuf, inbox, todo, file>>
      BY <2>4 DEF WritePartial, socket
    <3> QED BY <1>2, <3>1, <3>2, <3>3, WriteEcho
  <2>5. CASE WriteAll
    <3>1. ~reset /\ got' = got \o wbuf /\ wbuf' = <<>>
          /\ UNCHANGED <<script, reset, rbuf, inbox, todo, file>>
      BY <1>2, <2>5 DEF WriteAll, WriteDone, socket
    <3>2. SubSeq(wbuf, Len(wbuf) + 1, Len(wbuf)) = <<>>
      BY <2>2, SubSeqEmpty
    <3>3. Len(wbuf) \in 0..Len(wbuf)
      BY <2>2
    <3> QED BY <1>2, <2>2, <3>1, <3>2, <3>3, WriteEcho
  <2> QED BY <2>1, <2>3, <2>4, <2>5 DEF Writer, WriteFile
<1> QED BY <1>1, <1>2

LEMMA NextEcho == EchoInv /\ [Next]_vars => EchoInv'
<1> SUFFICES ASSUME EchoInv, [Next]_vars PROVE EchoInv'
  OBVIOUS
<1>1. CASE Sends
  BY <1>1, SendsEcho
<1>2. CASE Closes \/ Resets \/ Wait \/ ReadFails \/ UNCHANGED vars
  BY <1>2, QuietEcho
  DEF Closes, Resets, Wait, ReadFails, CloseConnGuarded, vars, socket, session
<1>3. CASE ReadData
  BY <1>3, ReadEcho
<1>4. CASE Writer
  BY <1>4, WriterEcho
<1> QED BY <1>1, <1>2, <1>3, <1>4 DEF Next, Client, Loop, Reader

\* The bytes of an echo server's client are never lost, sent twice or overtaken: Reader and
\* Writer with TCPServer::OnStreamReached, for any buffer size and any number of bytes that
\* are sent ahead
THEOREM EchoLosesNothing == Spec => []EchoIntact
<1>1. EchoInv => EchoIntact
  BY DEF EchoInv, EchoIntact
<1> QED BY <1>1, InitEcho, NextEcho, PTL DEF Spec

-----------------------------------------------------------------------------
(***************************************************************************)
(* Types.                                                                  *)
(***************************************************************************)

\* TypeOK, with what is left of a script told by its elements.  A file that is not sent to
\* its end has an offset and a target size that add up: SendFileAndUpdate moves both.
TypeInv ==
  /\ script \in Scripts
  /\ todo \in Seq(Tokens) /\ Len(todo) <= Len(script.tokens)
  /\ \A i \in 1..Len(todo) : todo[i] = script.tokens[Len(script.tokens) - Len(todo) + i]
  /\ fin \in BOOLEAN /\ reset \in BOOLEAN /\ invalid \in BOOLEAN
  /\ armed \subseteq mask /\ mask \subseteq {"in", "out"} /\ fired \subseteq {"in", "out"}
  /\ pc \in {"wait", "dispatch", "write", "closed"}
  /\ kept \in {None, "keep-alive", "close"}
  /\ file = [of |-> file.of, offset |-> file.offset, target |-> file.target]
  /\ file.offset \in 0..FileSize /\ file.target \in 0..FileSize
  /\ file.target > 0 => file.offset + file.target = FileSize

LEMMA TokensTyped == ASSUME script \in Scripts PROVE script.tokens \in Seq(Tokens)
<1>1. Range(script.tokens) \subseteq Tokens
  BY DEF Tokens
<1> QED BY <1>1, ScriptsAssumption, SeqMonotonic

\* What is left when a token is sent
LEMMA TodoTail ==
  ASSUME TypeInv, todo # <<>>
  PROVE  LET left == Tail(todo) total == Len(script.tokens) IN
         /\ todo[1] = script.tokens[total - Len(todo) + 1] /\ todo[1] \in Tokens
         /\ left \in Seq(Tokens) /\ Len(left) = Len(todo) - 1 /\ Len(todo) \in Nat \ {0}
         /\ \A i \in 1..Len(left) : left[i] = todo[i + 1]
         /\ \A i \in 1..Len(left) : left[i] = script.tokens[total - Len(left) + i]
<1> DEFINE left == Tail(todo)
           total == Len(script.tokens)
           tokens == script.tokens
<1>1. todo \in Seq(Tokens) /\ script.tokens \in Seq(Tokens)
  BY TokensTyped DEF TypeInv
<1>2. Len(todo) \in Nat \ {0} /\ total \in Nat /\ Len(todo) <= total
  BY <1>1, EmptySeq, LenProperties DEF TypeInv
<1>3. left \in Seq(Tokens) /\ Len(left) = Len(todo) - 1
      /\ \A i \in 1..Len(left) : left[i] = todo[i + 1]
  BY <1>1, HeadTailProperties
<1>4. todo[1] \in Tokens
  BY <1>1, <1>2, ElementOfSeq
<1>5. \A i \in 1..Len(todo) : todo[i] = tokens[total - Len(todo) + i]
  BY DEF TypeInv
<1>6. todo[1] = tokens[total - Len(todo) + 1]
  BY <1>2, <1>5
<1>7. \A i \in 1..Len(left) : left[i] = tokens[total - Len(left) + i]
  <2> SUFFICES ASSUME NEW i \in 1..Len(left) PROVE left[i] = tokens[total - Len(left) + i]
    OBVIOUS
  <2>1. i + 1 \in 1..Len(todo) /\ i \in Nat
    BY <1>2, <1>3
  <2>2. left[i] = tokens[total - Len(todo) + (i + 1)]
    BY <1>3, <1>5, <2>1
  <2> DEFINE m == Len(todo)
             k == Len(left)
  <2>3. m \in Nat /\ k = m - 1 /\ total \in Nat /\ i \in Nat
    BY <1>2, <1>3, <2>1
  <2> HIDE DEF m, k, total
  <2>4. total - m + (i + 1) = total - k + i
    BY <2>3
  <2> QED BY <2>2, <2>4 DEF m, k
<1> QED BY <1>2, <1>3, <1>4, <1>6, <1>7

LEMMA TodoIsSuffix == ASSUME TypeInv PROVE IsSuffix(todo, script.tokens)
<1> DEFINE s == todo
           t == script.tokens
           m == Len(todo)
           n == Len(script.tokens)
<1>1. s \in Seq(Tokens) /\ t \in Seq(Tokens)
  BY TokensTyped DEF TypeInv
<1>2. m \in Nat /\ n \in Nat /\ m <= n /\ m = Len(s) /\ n = Len(t)
  BY <1>1, LenProperties DEF TypeInv
<1>3. \A i \in 1..m : s[i] = t[n - m + i]
  BY DEF TypeInv
<1> HIDE DEF s, t, m, n
<1>4. Reverse(s) = [i \in 1..m |-> s[(m - i) + 1]] /\ Reverse(t) = [i \in 1..n |-> t[(n - i) + 1]]
  BY <1>2 DEF Reverse
<1>5. \A i \in 1..m : s[(m - i) + 1] = t[(n - i) + 1] /\ s[(m - i) + 1] \in Tokens
  <2> SUFFICES ASSUME NEW i \in 1..m
               PROVE  s[(m - i) + 1] = t[(n - i) + 1] /\ s[(m - i) + 1] \in Tokens
    OBVIOUS
  <2> DEFINE k == (m - i) + 1
  <2>1. k \in 1..m /\ n - m + k = (n - i) + 1
    BY <1>2
  <2>2. s[k] = t[n - m + k]
    BY <1>3, <2>1
  <2>3. s[k] \in Tokens
    BY <1>1, <1>2, <2>1, ElementOfSeq
  <2> QED BY <2>1, <2>2, <2>3
<1>6. Len(Reverse(s)) = m /\ Len(Reverse(t)) = n
  BY <1>2, <1>4
<1>7. \A i \in 1..m : Reverse(s)[i] \in Tokens /\ Reverse(t)[i] \in Tokens
                     /\ Reverse(s)[i] = Reverse(t)[i]
  BY <1>2, <1>4, <1>5
<1> DEFINE a == SubSeq(Reverse(s), 1, m)
           b == SubSeq(Reverse(t), 1, m)
<1>8. a \in Seq(Tokens) /\ Len(a) = m /\ \A i \in 1..m : a[i] = Reverse(s)[i]
  BY <1>2, <1>7, SubSeqProperties
<1>9. b \in Seq(Tokens) /\ Len(b) = m /\ \A i \in 1..m : b[i] = Reverse(t)[i]
  BY <1>2, <1>7, SubSeqProperties
<1>10. a = b
  BY <1>7, <1>8, <1>9, SeqEqual
<1> QED BY <1>2, <1>6, <1>10 DEF IsSuffix, IsPrefix, s, t

\* How much of a file Writer sends
LEMMA SentInFile ==
  ASSUME TypeInv, FileNeedSending,
         NEW n \in 0..Min({TargetLength, FileSize - file.offset})
  PROVE  n \in Nat /\ n <= file.target /\ file.offset + file.target = FileSize
<1>1. file.offset \in Nat /\ file.target \in Nat /\ FileSize \in Nat
      /\ file.offset + file.target = FileSize
  BY IOAssumption DEF TypeInv, FileNeedSending
<1>2. TargetLength \in Nat /\ FileSize - file.offset \in Nat
      /\ FileSize - file.offset = file.target
  BY <1>1 DEF TargetLength
<1>3. Min({TargetLength, FileSize - file.offset}) \in Nat
      /\ Min({TargetLength, FileSize - file.offset}) <= file.target
  BY <1>2, MinOfTwo
<1> QED BY <1>1, <1>3

LEMMA InitType == Init => TypeInv
<1> SUFFICES ASSUME Init PROVE TypeInv
  OBVIOUS
<1>1. script \in Scripts /\ todo = script.tokens /\ script.tokens \in Seq(Tokens)
  BY TokensTyped DEF Init
<1>2. Len(todo) \in Nat
  BY <1>1, LenProperties
<1>3. \A i \in 1..Len(todo) : todo[i] = script.tokens[Len(script.tokens) - Len(todo) + i]
  BY <1>1, <1>2
<1>4. /\ fin \in BOOLEAN /\ reset \in BOOLEAN /\ invalid \in BOOLEAN
      /\ armed \subseteq mask /\ mask \subseteq {"in", "out"} /\ fired \subseteq {"in", "out"}
      /\ pc \in {"wait", "dispatch", "write", "closed"}
      /\ kept \in {None, "keep-alive", "close"}
  BY DEF Init
<1>5. /\ file = [of |-> file.of, offset |-> file.offset, target |-> file.target]
      /\ file.offset = 0 /\ file.target = 0
  BY DEF Init
<1>6. Len(todo) <= Len(script.tokens)
  BY <1>1, <1>2
<1> QED BY <1>1, <1>3, <1>4, <1>5, <1>6, IOAssumption DEF TypeInv

LEMMA NextType == TypeInv /\ [Next]_vars => TypeInv'
<1> SUFFICES ASSUME TypeInv, [Next]_vars PROVE TypeInv'
  OBVIOUS
<1>1. CASE Sends
  <2>1. todo # <<>> /\ todo' = Tail(todo)
        /\ UNCHANGED <<script, fin, reset, invalid, mask, armed, fired, pc, kept, file>>
    BY <1>1 DEF Sends, session
  <2>2. /\ todo' \in Seq(Tokens) /\ Len(todo') <= Len(script.tokens)
        /\ \A i \in 1..Len(todo') : todo'[i] = script.tokens[Len(script.tokens) - Len(todo') + i]
    <3>1. Len(script.tokens) \in Nat /\ Len(todo) <= Len(script.tokens)
      BY TokensTyped, LenProperties DEF TypeInv
    <3> QED BY <2>1, <3>1, TodoTail
  <2> QED BY <2>1, <2>2 DEF TypeInv
<1>2. CASE Closes \/ Resets
  BY <1>2 DEF Closes, Resets, TypeInv, session
<1>3. CASE Wait
  BY <1>3 DEF Wait, TypeInv, socket, session
<1>4. CASE ReadFails \/ WriteFails
  BY <1>4 DEF ReadFails, WriteFails, CloseConnGuarded, TypeInv, socket, session
<1>5. CASE ReadData
  <2>1. PICK data : OnStreamReached(data)
    BY <1>5 DEF ReadData, Read
  <2>2. UNCHANGED <<script, todo, fin, reset, fired>> /\ pc' \in {"write", "wait"}
        /\ mask' \subseteq {"in", "out"} /\ armed' \subseteq mask'
    BY <1>5 DEF ReadData, Read, AfterReader, TypeInv
  <2>3. kept' \in {None, "keep-alive", "close"} /\ invalid' \in BOOLEAN
    BY <2>1 DEF OnStreamReached, OnMessage, OnRequest, OnRefused, TypeInv
  <2>4. file' = file \/ \E r : file' = PutFile(r, Answered + 1)
    BY <2>1 DEF OnStreamReached, OnMessage, OnRequest, OnRefused
  <2>5. file' = [of |-> file'.of, offset |-> file'.offset, target |-> file'.target]
        /\ file'.offset \in 0..FileSize /\ file'.target \in 0..FileSize
        /\ (file'.target > 0 => file'.offset + file'.target = FileSize)
    BY <2>4, IOAssumption DEF PutFile, Size, TypeInv
  <2> QED BY <2>2, <2>3, <2>5 DEF TypeInv
<1>6. CASE WritePartial
  BY <1>6 DEF WritePartial, TypeInv, socket
<1>7. CASE WriteAll
  BY <1>7 DEF WriteAll, WriteDone, TypeInv, socket
<1>8. CASE WriteFile
  <2>1. PICK n \in 0..Min({TargetLength, FileSize - file.offset}) : file' = Sent(n)
    BY <1>8 DEF WriteFile
  <2>2. n \in Nat /\ n <= file.target /\ file.offset + file.target = FileSize
    BY <1>8, SentInFile DEF WriteFile
  <2>3. /\ file' = [of |-> file'.of, offset |-> file'.offset, target |-> file'.target]
        /\ file'.offset \in 0..FileSize /\ file'.target \in 0..FileSize
        /\ file'.target > 0 => file'.offset + file'.target = FileSize
    <3>1. file.offset \in Nat /\ file.target \in Nat /\ FileSize \in Nat
          /\ file = [of |-> file.of, offset |-> file.offset, target |-> file.target]
      BY IOAssumption DEF TypeInv
    <3>2. file' = [of |-> file.of, offset |-> file.offset + n, target |-> file.target - n]
      BY <2>1, <3>1 DEF Sent
    <3> QED BY <2>2, <3>1, <3>2
  <2>4. UNCHANGED <<script, todo, fin, reset, fired, invalid>>
        /\ pc' \in {"wait", "closed"} /\ kept' \in {None, "keep-alive", "close"}
        /\ mask' \subseteq {"in", "out"} /\ armed' \subseteq mask'
    BY <1>8 DEF WriteFile, WriteDone, TypeInv, socket
  <2> QED BY <2>3, <2>4 DEF TypeInv
<1>9. CASE UNCHANGED vars
  BY <1>9 DEF vars, TypeInv, socket, session
<1> QED BY <1>1, <1>2, <1>3, <1>4, <1>5, <1>6, <1>7, <1>8, <1>9
        DEF Next, Client, Loop, Reader, Writer

\* Type correctness: what a client has still to send is the end of its script, a
\* registration waits for events of mask_ only, and offset_ and target_size_ stay in the
\* file (reactor.cc:324), although the length asked for wraps
THEOREM TypeCorrect == Spec => []TypeOK
<1>1. TypeInv => TypeOK
  BY TodoIsSuffix DEF TypeInv, TypeOK
<1> QED BY <1>1, InitType, NextType, PTL DEF Spec

-----------------------------------------------------------------------------
(***************************************************************************)
(* Bytes of the responses.                                                 *)
(***************************************************************************)

Bytes == Nat \X {"head", "file"} \X Nat

LEMMA RegroupBytes ==
  ASSUME NEW a \in Seq(Bytes), NEW b \in Seq(Bytes), NEW c \in Seq(Bytes)
  PROVE  (a \o b) \o c = a \o (b \o c)
BY ConcatAssociative

LEMMA JoinBytes ==
  ASSUME NEW a \in Seq(Bytes), NEW b \in Seq(Bytes)
  PROVE  a \o b \in Seq(Bytes)
BY ConcatProperties

LEMMA FunctionIsSeq ==
  ASSUME NEW S, NEW n \in Nat, NEW f \in [1..n -> S]
  PROVE  f \in Seq(S) /\ Len(f) = n
OBVIOUS

LEMMA HeadOfTyped ==
  ASSUME NEW j \in Nat
  PROVE  /\ HeadOf(j) \in Seq(Bytes) /\ Len(HeadOf(j)) = 2 /\ HeadOf(j) # <<>>
         /\ HeadOf(j)[2][1] = j
<1>1. \A i \in 1..2 : <<j, "head", i>> \in Bytes
  BY DEF Bytes
<1>2. HeadOf(j) \in [1..2 -> Bytes]
  BY <1>1 DEF HeadOf
<1>3. HeadOf(j) \in Seq(Bytes) /\ Len(HeadOf(j)) = 2
  BY <1>2, FunctionIsSeq
<1>4. HeadOf(j) # <<>>
  BY <1>3, EmptySeq
<1> QED BY <1>3, <1>4 DEF HeadOf

LEMMA ContentTyped ==
  ASSUME NEW j \in Nat, NEW a \in Nat, NEW b \in Nat, a <= b
  PROVE  /\ Content(j, a, b) \in Seq(Bytes) /\ Len(Content(j, a, b)) = b - a
         /\ \A i \in 1..(b - a) : Content(j, a, b)[i] = <<j, "file", a + i>>
<1>1. \A i \in 1..(b - a) : <<j, "file", a + i>> \in Bytes
  BY DEF Bytes
<1>2. Content(j, a, b) \in [1..(b - a) -> Bytes] /\ b - a \in Nat
  BY <1>1 DEF Content
<1>3. Content(j, a, b) \in Seq(Bytes) /\ Len(Content(j, a, b)) = b - a
  BY <1>2, FunctionIsSeq
<1> QED BY <1>3 DEF Content

LEMMA ContentEmpty ==
  ASSUME NEW j \in Nat, NEW a \in Nat
  PROVE  Content(j, a, a) = <<>>
<1>1. Content(j, a, a) \in Seq(Bytes) /\ Len(Content(j, a, a)) = a - a
  BY ContentTyped
<1> QED BY <1>1, EmptySeq

\* A file is its two parts
LEMMA ContentCut ==
  ASSUME NEW j \in Nat, NEW a \in Nat, NEW b \in Nat, NEW c \in Nat, a <= b, b <= c
  PROVE  Content(j, a, b) \o Content(j, b, c) = Content(j, a, c)
<1> DEFINE s == Content(j, a, b)
           t == Content(j, b, c)
           u == Content(j, a, c)
<1>1. s \in Seq(Bytes) /\ Len(s) = b - a /\ \A i \in 1..(b - a) : s[i] = <<j, "file", a + i>>
  BY ContentTyped
<1>2. t \in Seq(Bytes) /\ Len(t) = c - b /\ \A i \in 1..(c - b) : t[i] = <<j, "file", b + i>>
  BY ContentTyped
<1>3. u \in Seq(Bytes) /\ Len(u) = c - a /\ \A i \in 1..(c - a) : u[i] = <<j, "file", a + i>>
  <2>1. a <= c
    OBVIOUS
  <2> QED BY <2>1, ContentTyped
<1> HIDE DEF s, t, u
<1>4. s \o t \in Seq(Bytes) /\ Len(s \o t) = c - a
      /\ \A i \in 1..(c - a) : (s \o t)[i] = IF i <= b - a THEN s[i] ELSE t[i - (b - a)]
  <2>1. s \o t \in Seq(Bytes) /\ Len(s \o t) = Len(s) + Len(t)
        /\ \A i \in 1..(Len(s) + Len(t)) :
             (s \o t)[i] = IF i <= Len(s) THEN s[i] ELSE t[i - Len(s)]
    BY <1>1, <1>2, ConcatProperties
  <2>2. Len(s) = b - a /\ Len(s) + Len(t) = c - a
    BY <1>1, <1>2
  <2> QED BY <2>1, <2>2
<1>5. \A i \in 1..(c - a) : (s \o t)[i] = u[i]
  <2> SUFFICES ASSUME NEW i \in 1..(c - a) PROVE (s \o t)[i] = u[i]
    OBVIOUS
  <2>1. CASE i <= b - a
    <3>1. i \in 1..(b - a)
      BY <2>1
    <3> QED BY <1>1, <1>3, <1>4, <2>1, <3>1
  <2>2. CASE ~(i <= b - a)
    <3> DEFINE k == i - (b - a)
    <3>1. k \in 1..(c - b) /\ b + k = a + i
      BY <2>2
    <3>2. (s \o t)[i] = t[k]
      BY <1>4, <2>2
    <3> HIDE DEF k
    <3> QED BY <1>2, <1>3, <3>1, <3>2
  <2> QED BY <2>1, <2>2
<1>6. Len(s \o t) = Len(u)
  BY <1>3, <1>4
<1>7. s \o t = u
  BY <1>3, <1>4, <1>5, <1>6, SeqEqual
<1> QED BY <1>7 DEF s, t, u

\* What is in front of something is a prefix, and not all of it
LEMMA InFront ==
  ASSUME NEW s \in Seq(Bytes), NEW t \in Seq(Bytes)
  PROVE  /\ IsPrefix(s, s \o t)
         /\ t # <<>> => s # s \o t
<1>1. Len(s) \in Nat /\ Len(t) \in Nat /\ Len(s \o t) = Len(s) + Len(t) /\ s \o t \in Seq(Bytes)
  BY ConcatProperties, LenProperties
<1>2. \A i \in 1..Len(s) : (s \o t)[i] = s[i] /\ s[i] \in Bytes
  BY <1>1, ConcatProperties, ElementOfSeq
<1> DEFINE a == SubSeq(s, 1, Len(s))
           b == SubSeq(s \o t, 1, Len(s))
<1>3. a \in Seq(Bytes) /\ Len(a) = Len(s) /\ \A i \in 1..Len(s) : a[i] = s[i]
  BY <1>1, <1>2, SubSeqProperties
<1>4. b \in Seq(Bytes) /\ Len(b) = Len(s) /\ \A i \in 1..Len(s) : b[i] = (s \o t)[i]
  BY <1>1, <1>2, SubSeqProperties
<1>5. a = b
  BY <1>2, <1>3, <1>4, SeqEqual
<1>6. IsPrefix(s, s \o t)
  BY <1>1, <1>5 DEF IsPrefix
<1>7. t # <<>> => s # s \o t
  BY ConcatEqualIffEmpty
<1> QED BY <1>6, <1>7

LEMMA AnsweredTyped == ASSUME due \in Seq(Bytes) PROVE Answered \in Nat
<1>1. CASE due = <<>>
  BY <1>1 DEF Answered
<1>2. CASE due # <<>>
  <2>1. Len(due) \in Nat \ {0}
    BY <1>2, EmptySeq
  <2>2. due[Len(due)] \in Bytes
    BY <2>1, ElementOfSeq
  <2> QED BY <1>2, <2>2 DEF Answered, Last, Bytes
<1> QED BY <1>1, <1>2

\* The number of a response can be told from what is due
LEMMA AnsweredNext ==
  ASSUME due \in Seq(Bytes), NEW j \in Nat, NEW n \in Nat,
         due' = due \o HeadOf(j) \o Content(j, 0, n)
  PROVE  due' \in Seq(Bytes) /\ Answered' = j
<1> DEFINE h == HeadOf(j)
           c == Content(j, 0, n)
           d == due \o h
           e == due'
<1>1. h \in Seq(Bytes) /\ Len(h) = 2 /\ h[2][1] = j
  BY HeadOfTyped
<1>2. c \in Seq(Bytes) /\ Len(c) = n /\ \A i \in 1..n : c[i] = <<j, "file", i>>
  <2>0. 0 \in Nat /\ 0 <= n
    OBVIOUS
  <2>1. \A i \in 1..(n - 0) : c[i] = <<j, "file", 0 + i>>
    BY <2>0, ContentTyped
  <2>2. c \in Seq(Bytes) /\ Len(c) = n - 0
    BY <2>0, ContentTyped
  <2> HIDE DEF c
  <2> QED BY <2>1, <2>2
<1>3. e = d \o c
  OBVIOUS
<1> HIDE DEF h, c, e
<1>4. Len(due) \in Nat
  BY LenProperties
<1>5. d \in Seq(Bytes) /\ Len(d) = Len(due) + 2 /\ d[Len(due) + 2] = h[2]
  <2> DEFINE k == Len(due) + 2
  <2>1. d \in Seq(Bytes) /\ Len(d) = Len(due) + Len(h)
        /\ \A i \in 1..(Len(due) + Len(h)) :
             d[i] = IF i <= Len(due) THEN due[i] ELSE h[i - Len(due)]
    BY <1>1, ConcatProperties
  <2>2. k \in 1..(Len(due) + Len(h)) /\ ~(k <= Len(due)) /\ k - Len(due) = 2
    BY <1>1, <1>4
  <2>3. d[k] = h[2]
    BY <2>1, <2>2
  <2> QED BY <1>1, <2>1, <2>3
<1> HIDE DEF d
<1>6. e \in Seq(Bytes) /\ Len(e) = Len(d) + n
      /\ \A i \in 1..(Len(d) + n) : e[i] = IF i <= Len(d) THEN d[i] ELSE c[i - Len(d)]
  BY <1>2, <1>3, <1>5, ConcatProperties
<1>7. e # <<>>
  BY <1>4, <1>5, <1>6, EmptySeq
<1>8. e[Len(e)][1] = j
  <2>1. CASE n = 0
    BY <1>1, <1>4, <1>5, <1>6, <2>1
  <2>2. CASE n # 0
    <3>1. Len(e) \in 1..(Len(d) + n) /\ ~(Len(e) <= Len(d)) /\ Len(e) - Len(d) = n /\ n \in 1..n
      BY <1>4, <1>5, <1>6, <2>2
    <3>2. e[Len(e)] = c[n]
      BY <1>6, <3>1
    <3> QED BY <1>2, <3>1, <3>2
  <2> QED BY <2>1, <2>2
<1> QED BY <1>6, <1>7, <1>8 DEF e, Answered, Last

-----------------------------------------------------------------------------
(***************************************************************************)
(* Reader and Writer of an HTTP server.                                    *)
(***************************************************************************)

HttpTypes ==
  ~Echo => /\ got \in Seq(Bytes) /\ wbuf \in Seq(Bytes) /\ due \in Seq(Bytes)
           /\ rbuf \in Seq(Tokens) /\ inbox \in Seq(Tokens)
           /\ file.of \in Nat \cup {None}
           /\ file.of = None => file.target = 0

\* What Reader reads: the first n tokens, behind those in the read buffer
LEMMA ReadParts ==
  ASSUME rbuf \in Seq(Tokens), inbox \in Seq(Tokens), ReadData
  PROVE  \E n \in 1..Len(inbox) : \E data \in Seq(Tokens) :
           /\ OnStreamReached(data)
           /\ Len(data) = Len(rbuf) + n
           /\ \A i \in 1..Len(data) :
                data[i] = IF i <= Len(rbuf) THEN rbuf[i] ELSE inbox[i - Len(rbuf)]
           /\ inbox' \in Seq(Tokens) /\ Len(inbox') = Len(inbox) - n
           /\ \A i \in 1..Len(inbox') : inbox'[i] = inbox[n + i]
<1> DEFINE n == Min({Cap, Len(inbox)})
           read == SubSeq(inbox, 1, n)
           rest == SubSeq(inbox, n + 1, Len(inbox))
           data == rbuf \o read
<1>1. inbox # <<>> /\ inbox' = rest /\ OnStreamReached(data)
  BY DEF ReadData, Read
<1>2. n \in 1..Len(inbox) /\ Len(inbox) \in Nat
  <2>1. Len(inbox) \in Nat \ {0} /\ Cap \in Nat \ {0}
    BY <1>1, IOAssumption, EmptySeq
  <2>2. n \in {Cap, Len(inbox)} /\ n <= Len(inbox)
    BY <2>1, MinOfTwo
  <2> QED BY <2>1, <2>2
<1> HIDE DEF n
<1>3. \A i \in 1..Len(inbox) : inbox[i] \in Tokens
  BY ElementOfSeq
<1>4. read \in Seq(Tokens) /\ Len(read) = n /\ \A i \in 1..n : read[i] = inbox[i]
  BY <1>2, <1>3, SubSeqProperties
<1>5. rest \in Seq(Tokens) /\ Len(rest) = Len(inbox) - n
      /\ \A i \in 1..Len(rest) : rest[i] = inbox[n + i]
  <2> DEFINE m == n + 1
             l == Len(inbox)
  <2>1. m \in Int /\ l \in Int /\ \A i \in m..l : inbox[i] \in Tokens
    BY <1>2, <1>3
  <2>2. rest \in Seq(Tokens) /\ Len(rest) = (IF m <= l THEN l - m + 1 ELSE 0)
        /\ \A i \in 1..(l - m + 1) : rest[i] = inbox[m + i - 1]
    BY <2>1, SubSeqProperties
  <2>3. Len(rest) = l - n /\ l - m + 1 = l - n /\ \A i \in 1..(l - n) : m + i - 1 = n + i
    BY <1>2, <2>2
  <2> HIDE DEF m, rest
  <2> QED BY <2>2, <2>3
<1> HIDE DEF read, rest
<1>6. data \in Seq(Tokens) /\ Len(data) = Len(rbuf) + n
      /\ \A i \in 1..(Len(rbuf) + n) :
           data[i] = IF i <= Len(rbuf) THEN rbuf[i] ELSE read[i - Len(rbuf)]
  BY <1>4, ConcatProperties
<1>7. \A i \in 1..Len(data) :
        data[i] = IF i <= Len(rbuf) THEN rbuf[i] ELSE inbox[i - Len(rbuf)]
  <2> SUFFICES ASSUME NEW i \in 1..Len(data)
               PROVE  data[i] = IF i <= Len(rbuf) THEN rbuf[i] ELSE inbox[i - Len(rbuf)]
    OBVIOUS
  <2> DEFINE k == i - Len(rbuf)
  <2>1. Len(rbuf) \in Nat /\ (i <= Len(rbuf) \/ k \in 1..n) /\ i \in 1..(Len(rbuf) + n)
    BY <1>2, <1>6, LenProperties
  <2> HIDE DEF data
  <2>2. data[i] = IF i <= Len(rbuf) THEN rbuf[i] ELSE read[k]
    BY <1>6, <2>1
  <2> HIDE DEF k
  <2>3. ~(i <= Len(rbuf)) => read[k] = inbox[k]
    BY <1>4, <2>1
  <2> QED BY <2>2, <2>3 DEF k
<1> HIDE DEF data
<1> QED BY <1>1, <1>2, <1>5, <1>6, <1>7

LEMMA LeastMember ==
  ASSUME NEW S \in SUBSET Nat, S # {}
  PROVE  Min(S) \in S
<1>1. \E i \in S : \A j \in S : ~(j < i)
  <2>1. \E i \in S : \A j \in S : ~(<<j, i>> \in OpToRel(<, Nat))
    BY NatLessThanWellFounded, WFMin, Zenon
  <2> QED BY <2>1, Zenon DEF OpToRel
<1>2. \E i \in S : \A j \in S : i <= j
  BY <1>1
<1> QED BY <1>2 DEF Min

\* What the handler does: it waits for the rest, answers one of the requests it has, or
\* refuses
LEMMA Handled ==
  ASSUME ~Echo, NEW data \in Seq(Tokens), OnStreamReached(data)
  PROVE  \/ /\ ~invalid /\ \A i \in 1..Len(data) : data[i] = "half"
            /\ rbuf' = data /\ UNCHANGED <<wbuf, file, invalid, kept, due>>
         \/ ~invalid /\ \E i \in 1..Len(data) : data[i] # "half" /\ OnRequest(data[i])
         \/ OnRefused /\ (invalid \/ \E i \in 1..Len(data) : data[i] # "half")
<1> DEFINE complete == {i \in DOMAIN data : data[i] # "half"}
           m == Min(complete)
<1>1. DOMAIN data = 1..Len(data) /\ Len(data) \in Nat
  BY LenProperties
<1>2. complete # {} => m \in 1..Len(data) /\ data[m] # "half"
  <2>1. complete \in SUBSET Nat
    BY <1>1
  <2>2. complete # {} => m \in complete
    BY <2>1, LeastMember
  <2> QED BY <1>1, <2>2
<1>3. complete = {} => \A i \in 1..Len(data) : data[i] = "half"
  BY <1>1
<1>4. \/ Echo /\ OnMessage(data)
      \/ /\ ~Echo /\ ~invalid /\ complete = {}
         /\ rbuf' = data /\ UNCHANGED <<wbuf, file, invalid, kept, due>>
      \/ ~Echo /\ ~invalid /\ complete # {} /\ OnRequest(data[m])
      \/ ~Echo /\ (invalid \/ complete # {}) /\ OnRefused
  BY DEF OnStreamReached
<1> HIDE DEF complete, m
<1>5. CASE complete = {}
  BY <1>3, <1>4, <1>5
<1>6. CASE complete # {}
  BY <1>2, <1>4, <1>6
<1> QED BY <1>5, <1>6

LEMMA Answers ==
  ASSUME due \in Seq(Bytes), wbuf \in Seq(Bytes), NEW r, OnRequest(r)
  PROVE  LET j == Answered + 1 IN
         /\ j \in Nat /\ Size(r) \in Nat
         /\ wbuf' = wbuf \o HeadOf(j) /\ wbuf' \in Seq(Bytes) /\ wbuf' # <<>>
         /\ due' = due \o HeadOf(j) \o Content(j, 0, Size(r)) /\ due' \in Seq(Bytes)
         /\ Answered' = Answered + 1
<1> DEFINE j == Answered + 1
           n == Size(r)
<1>1. j \in Nat /\ n \in Nat
  BY AnsweredTyped, IOAssumption DEF Size
<1>2. wbuf' = wbuf \o HeadOf(j) /\ due' = due \o HeadOf(j) \o Content(j, 0, n)
  BY DEF OnRequest
<1> HIDE DEF j, n
<1>3. due' \in Seq(Bytes) /\ Answered' = j
  BY <1>1, <1>2, AnsweredNext
<1>4. wbuf' \in Seq(Bytes) /\ wbuf' # <<>>
  <2>1. HeadOf(j) \in Seq(Bytes) /\ HeadOf(j) # <<>>
    BY <1>1, HeadOfTyped
  <2> QED BY <1>2, <2>1, JoinBytes, ConcatEqualIffEmpty
<1> QED BY <1>1, <1>2, <1>3, <1>4 DEF j, n

LEMMA Refuses ==
  ASSUME due \in Seq(Bytes), OnRefused
  PROVE  LET j == Answered + 1 IN
         /\ j \in Nat
         /\ wbuf' = HeadOf(j) /\ wbuf' \in Seq(Bytes) /\ wbuf' # <<>>
         /\ due' = due \o HeadOf(j) /\ due' \in Seq(Bytes)
         /\ Answered' = Answered + 1
<1> DEFINE j == Answered + 1
           d == due'
<1>1. j \in Nat
  BY AnsweredTyped
<1>2. wbuf' = HeadOf(j) /\ d = due \o HeadOf(j)
  BY DEF OnRefused
<1> HIDE DEF j
<1>3. HeadOf(j) \in Seq(Bytes) /\ HeadOf(j) # <<>>
  BY <1>1, HeadOfTyped
<1>4. d \in Seq(Bytes)
  BY <1>2, <1>3, JoinBytes
<1>5. d = due \o HeadOf(j) \o Content(j, 0, 0)
  <2>1. Content(j, 0, 0) = <<>>
    BY <1>1, ContentEmpty
  <2> HIDE DEF d
  <2> QED BY <1>2, <1>4, <2>1, ConcatEmptySeq
<1>6. Answered' = j
  BY <1>1, <1>5, AnsweredNext
<1> QED BY <1>1, <1>2, <1>3, <1>4, <1>6 DEF j, d

LEMMA ScriptStays == [Next]_vars => UNCHANGED script
BY DEF Next, Client, Sends, Closes, Resets, Loop, Wait, Reader, ReadFails, ReadData, Read,
       CloseConnGuarded, Writer, WriteFails, WritePartial, WriteAll, WriteFile, vars

\* Writer sends a part of its buffer
LEMMA PartialParts ==
  ASSUME wbuf \in Seq(Bytes), got \in Seq(Bytes), WritePartial
  PROVE  /\ got' \in Seq(Bytes) /\ wbuf' \in Seq(Bytes) /\ wbuf' # <<>>
         /\ got' \o wbuf' = got \o wbuf
<1>1. Len(wbuf) \in Nat
  BY LenProperties
<1>2. PICK n \in 1..(Len(wbuf) - 1) : /\ got' = got \o SubSeq(wbuf, 1, n)
                                      /\ wbuf' = SubSeq(wbuf, n + 1, Len(wbuf))
  BY DEF WritePartial
<1> DEFINE s == SubSeq(wbuf, 1, n)
           t == SubSeq(wbuf, n + 1, Len(wbuf))
<1>3. n \in 0..Len(wbuf)
  BY <1>1
<1>4. s \in Seq(Bytes) /\ t \in Seq(Bytes) /\ s \o t = wbuf
  BY <1>3, Cut
<1>5. t # <<>>
  <2>1. \A i \in (n + 1)..Len(wbuf) : wbuf[i] \in Bytes
    BY <1>1, ElementOfSeq
  <2> DEFINE m == n + 1
             l == Len(wbuf)
  <2>2. m \in Int /\ l \in Int /\ m <= l
    BY <1>1
  <2>3. Len(t) = l - m + 1
    BY <2>1, <2>2, SubSeqProperties
  <2> HIDE DEF t, m, l
  <2>4. Len(t) # 0
    BY <2>2, <2>3
  <2> QED BY <2>4, EmptySeq
<1> HIDE DEF s, t
<1>6. got \o s \in Seq(Bytes) /\ (got \o s) \o t = got \o (s \o t)
  BY <1>4, JoinBytes, RegroupBytes
<1> QED BY <1>2, <1>4, <1>5, <1>6 DEF s, t

\* Writer sends its buffer with n bytes of the file
LEMMA FileParts ==
  ASSUME TypeInv, HttpTypes, ~Echo, WriteFile
  PROVE  \E n \in Nat :
           /\ n <= file.target /\ file.offset + file.target = FileSize
           /\ file.of \in Nat /\ file' = Sent(n)
           /\ file'.of = file.of /\ file'.offset = file.offset + n
           /\ file'.target = file.target - n
           /\ Content(file.of, file.offset, file.offset + n) \in Seq(Bytes)
           /\ got' = got \o wbuf \o Content(file.of, file.offset, file.offset + n)
           /\ got' \in Seq(Bytes)
<1>1. PICK n \in 0..Min({TargetLength, FileSize - file.offset}) :
        /\ got' = got \o wbuf \o Content(file.of, file.offset, file.offset + n)
        /\ file' = Sent(n)
  BY DEF WriteFile
<1>2. n \in Nat /\ n <= file.target /\ file.offset + file.target = FileSize
  BY SentInFile DEF WriteFile
<1>3. file.of \in Nat /\ file.offset \in Nat /\ file.target \in Nat
      /\ file = [of |-> file.of, offset |-> file.offset, target |-> file.target]
  BY DEF HttpTypes, TypeInv, WriteFile, FileNeedSending
<1>4. file' = [of |-> file.of, offset |-> file.offset + n, target |-> file.target - n]
  BY <1>1, <1>3 DEF Sent
<1> DEFINE a == file.offset
           b == file.offset + n
<1>5. a \in Nat /\ b \in Nat /\ a <= b
  BY <1>2, <1>3
<1> HIDE DEF a, b
<1>6. Content(file.of, a, b) \in Seq(Bytes)
  BY <1>3, <1>5, ContentTyped
<1>7. got' = got \o wbuf \o Content(file.of, a, b)
  BY <1>1 DEF a, b
<1>8. got' \in Seq(Bytes)
  <2>1. got \in Seq(Bytes) /\ wbuf \in Seq(Bytes)
    BY DEF HttpTypes
  <2> QED BY <1>6, <1>7, <2>1, JoinBytes
<1>9. /\ file'.of = file.of /\ file'.offset = file.offset + n
      /\ file'.target = file.target - n
      /\ Content(file.of, file.offset, file.offset + n) \in Seq(Bytes)
  BY <1>4, <1>6 DEF a, b
<1> QED BY <1>1, <1>2, <1>3, <1>8, <1>9

LEMMA InitHttpTypes == Init => HttpTypes
<1> SUFFICES ASSUME Init, ~Echo PROVE HttpTypes
  BY DEF HttpTypes
<1>1. got = <<>> /\ wbuf = <<>> /\ due = <<>> /\ rbuf = <<>> /\ inbox = <<>>
      /\ file.of = None /\ file.target = 0
  BY DEF Init
<1> QED BY <1>1, EmptySeq DEF HttpTypes

LEMMA NextHttpTypes == TypeInv /\ HttpTypes /\ [Next]_vars => HttpTypes'
<1> SUFFICES ASSUME TypeInv, HttpTypes, [Next]_vars, ~Echo' PROVE HttpTypes'
  BY DEF HttpTypes
<1>0. ~Echo
  BY ScriptStays DEF Echo
<1>t. /\ got \in Seq(Bytes) /\ wbuf \in Seq(Bytes) /\ due \in Seq(Bytes)
      /\ rbuf \in Seq(Tokens) /\ inbox \in Seq(Tokens)
      /\ file.of \in Nat \cup {None}
      /\ file.of = None => file.target = 0
  BY <1>0 DEF HttpTypes
<1>1. CASE Sends
  <2>1. inbox' = Append(inbox, todo[1]) /\ todo # <<>>
        /\ UNCHANGED <<got, wbuf, due, rbuf, file>>
    BY <1>1 DEF Sends, session
  <2>2. inbox' \in Seq(Tokens)
    BY <1>t, <2>1, TodoTail, AppendProperties
  <2> QED BY <1>t, <2>1, <2>2 DEF HttpTypes
<1>2. CASE Closes \/ Wait \/ ReadFails \/ WriteFails \/ UNCHANGED vars
  BY <1>t, <1>2
  DEF Closes, Wait, ReadFails, WriteFails, CloseConnGuarded, vars, socket, session, HttpTypes
<1>3. CASE Resets
  BY <1>t, <1>3, EmptySeq DEF Resets, session, HttpTypes
<1>4. CASE ReadData
  <2>1. PICK n \in 1..Len(inbox), data \in Seq(Tokens) :
          OnStreamReached(data) /\ inbox' \in Seq(Tokens)
    BY <1>t, <1>4, ReadParts
  <2>2. UNCHANGED got
    BY <1>4 DEF ReadData, Read
  <2>3. CASE rbuf' = data /\ UNCHANGED <<wbuf, file, invalid, kept, due>>
    BY <1>t, <2>1, <2>2, <2>3 DEF HttpTypes
  <2>4. CASE \E i \in 1..Len(data) : OnRequest(data[i])
    <3>1. PICK r : OnRequest(r)
      BY <2>4
    <3>2. wbuf' \in Seq(Bytes) /\ due' \in Seq(Bytes) /\ Answered + 1 \in Nat
      BY <1>t, <3>1, Answers
    <3>3. rbuf' = <<>> /\ (file' = file \/ file'.of = Answered + 1)
      BY <3>1 DEF OnRequest, PutFile
    <3>4. file'.of \in Nat \cup {None} /\ (file'.of = None => file'.target = 0)
      BY <1>t, <3>2, <3>3, NoneAssumption
    <3> QED BY <1>t, <2>1, <2>2, <3>2, <3>3, <3>4, EmptySeq DEF HttpTypes
  <2>5. CASE OnRefused
    <3>1. wbuf' \in Seq(Bytes) /\ due' \in Seq(Bytes)
      BY <1>t, <2>5, Refuses
    <3>2. rbuf' = <<>> /\ file' = file
      BY <2>5 DEF OnRefused
    <3> QED BY <1>t, <2>1, <2>2, <3>1, <3>2, EmptySeq DEF HttpTypes
  <2> QED BY <1>0, <2>1, <2>3, <2>4, <2>5, Handled
<1>5. CASE WritePartial
  <2>1. got' \in Seq(Bytes) /\ wbuf' \in Seq(Bytes)
    BY <1>t, <1>5, PartialParts
  <2>2. UNCHANGED <<due, rbuf, inbox, file>>
    BY <1>5 DEF WritePartial, socket
  <2> QED BY <1>t, <2>1, <2>2 DEF HttpTypes
<1>6. CASE WriteAll
  <2>1. got' = got \o wbuf /\ wbuf' = <<>> /\ UNCHANGED <<due, inbox, file>>
        /\ (rbuf' = <<>> \/ rbuf' = rbuf)
    BY <1>6 DEF WriteAll, WriteDone, socket
  <2> QED BY <1>t, <2>1, JoinBytes, EmptySeq DEF HttpTypes
<1>7. CASE WriteFile
  <2>1. got' \in Seq(Bytes) /\ file'.of \in Nat
    BY <1>0, <1>7, FileParts
  <2>2. (wbuf' = <<>> \/ wbuf' = wbuf) /\ UNCHANGED <<due, inbox>>
        /\ (rbuf' = <<>> \/ rbuf' = rbuf)
    BY <1>7 DEF WriteFile, WriteDone, socket
  <2> QED BY <1>t, <2>1, <2>2, EmptySeq, NoneAssumption DEF HttpTypes
<1> QED BY <1>1, <1>2, <1>3, <1>4, <1>5, <1>6, <1>7
        DEF Next, Client, Loop, Reader, Writer

-----------------------------------------------------------------------------
(***************************************************************************)
(* A client that asks for no files may send ahead as it likes, until a     *)
(* request of it is refused.                                               *)
(***************************************************************************)

PlainInv ==
  ~Echo /\ "file" \notin Range(script.tokens) =>
    /\ \A i \in 1..Len(rbuf) : rbuf[i] # "file"
    /\ \A i \in 1..Len(inbox) : inbox[i] # "file"
    /\ file.target = 0
    /\ ~invalid => got \o wbuf = due

LEMMA InitPlain == Init => PlainInv
<1> SUFFICES ASSUME Init PROVE PlainInv
  OBVIOUS
<1>1. got = <<>> /\ wbuf = <<>> /\ due = <<>> /\ rbuf = <<>> /\ inbox = <<>>
      /\ file.target = 0 /\ ~invalid
  BY DEF Init
<1>2. <<>> \in Seq(Bytes) /\ Len(<<>>) = 0
  BY EmptySeq
<1>3. got \o wbuf = due
  BY <1>1, <1>2, ConcatEmptySeq
<1> QED BY <1>1, <1>2, <1>3 DEF PlainInv

LEMMA NextPlain == TypeInv /\ HttpTypes /\ PlainInv /\ [Next]_vars => PlainInv'
<1> SUFFICES ASSUME TypeInv, HttpTypes, PlainInv, [Next]_vars,
                    ~Echo', "file" \notin Range(script'.tokens)
             PROVE  PlainInv'
  BY DEF PlainInv
<1>0. ~Echo /\ "file" \notin Range(script.tokens)
  BY ScriptStays DEF Echo
<1>t. /\ got \in Seq(Bytes) /\ wbuf \in Seq(Bytes) /\ due \in Seq(Bytes)
      /\ rbuf \in Seq(Tokens) /\ inbox \in Seq(Tokens)
  BY <1>0 DEF HttpTypes
<1>p. /\ \A i \in 1..Len(rbuf) : rbuf[i] # "file"
      /\ \A i \in 1..Len(inbox) : inbox[i] # "file"
      /\ file.target = 0
      /\ ~invalid => got \o wbuf = due
  BY <1>0 DEF PlainInv
<1>l. Len(<<>>) = 0
  BY EmptySeq
<1>1. CASE Sends
  <2>1. inbox' = Append(inbox, todo[1]) /\ todo # <<>>
        /\ UNCHANGED <<got, wbuf, due, rbuf, file, invalid>>
    BY <1>1 DEF Sends, session
  <2>2. todo[1] \in Range(script.tokens) /\ todo[1] \in Tokens
    <3>1. todo[1] = script.tokens[Len(script.tokens) - Len(todo) + 1] /\ todo[1] \in Tokens
          /\ Len(todo) \in Nat \ {0}
      BY <2>1, TodoTail
    <3>2. Len(script.tokens) \in Nat /\ DOMAIN script.tokens = 1..Len(script.tokens)
          /\ Len(todo) <= Len(script.tokens)
      BY TokensTyped, LenProperties DEF TypeInv
    <3>3. Len(script.tokens) - Len(todo) + 1 \in DOMAIN script.tokens
      BY <3>1, <3>2
    <3> QED BY <3>1, <3>3 DEF Range
  <2>3. Len(inbox') = Len(inbox) + 1 /\ Len(inbox) \in Nat
        /\ (\A i \in 1..Len(inbox) : inbox'[i] = inbox[i])
        /\ inbox'[Len(inbox) + 1] = todo[1]
    BY <1>t, <2>1, <2>2, AppendProperties, LenProperties
  <2>4. \A i \in 1..Len(inbox') : inbox'[i] # "file"
    BY <1>0, <1>p, <2>2, <2>3
  <2> QED BY <1>p, <2>1, <2>4 DEF PlainInv
<1>2. CASE Closes \/ Wait \/ ReadFails \/ WriteFails \/ UNCHANGED vars
  BY <1>p, <1>2
  DEF Closes, Wait, ReadFails, WriteFails, CloseConnGuarded, vars, socket, session, PlainInv
<1>3. CASE Resets
  BY <1>p, <1>l, <1>3 DEF Resets, session, PlainInv
<1>4. CASE ReadData
  <2>1. PICK n \in 1..Len(inbox), data \in Seq(Tokens) :
          /\ OnStreamReached(data)
          /\ Len(data) = Len(rbuf) + n
          /\ \A i \in 1..Len(data) :
               data[i] = IF i <= Len(rbuf) THEN rbuf[i] ELSE inbox[i - Len(rbuf)]
          /\ inbox' \in Seq(Tokens) /\ Len(inbox') = Len(inbox) - n
          /\ \A i \in 1..Len(inbox') : inbox'[i] = inbox[n + i]
    BY <1>t, <1>4, ReadParts
  <2>2. UNCHANGED got
    BY <1>4 DEF ReadData, Read
  <2>3. Len(rbuf) \in Nat /\ Len(inbox) \in Nat
    BY <1>t, LenProperties
  <2>4. \A i \in 1..Len(data) : data[i] # "file"
    <3> SUFFICES ASSUME NEW i \in 1..Len(data) PROVE data[i] # "file"
      OBVIOUS
    <3>1. CASE i <= Len(rbuf)
      <4>1. i \in 1..Len(rbuf) /\ data[i] = rbuf[i]
        BY <2>1, <2>3, <3>1
      <4> QED BY <1>p, <4>1
    <3>2. CASE ~(i <= Len(rbuf))
      <4> DEFINE k == i - Len(rbuf)
      <4>1. k \in 1..Len(inbox) /\ data[i] = inbox[k]
        BY <2>1, <2>3, <3>2
      <4> HIDE DEF k
      <4> QED BY <1>p, <4>1
    <3> QED BY <3>1, <3>2
  <2>5. \A i \in 1..Len(inbox') : inbox'[i] # "file"
    BY <1>p, <2>1, <2>3
  <2>6. CASE rbuf' = data /\ UNCHANGED <<wbuf, file, invalid, kept, due>>
    BY <1>p, <2>2, <2>4, <2>5, <2>6 DEF PlainInv
  <2>7. CASE \E i \in 1..Len(data) : OnRequest(data[i])
    <3>1. PICK r : OnRequest(r) /\ r # "file"
      BY <2>4, <2>7
    <3> DEFINE j == Answered + 1
    <3>2. j \in Nat /\ wbuf' = wbuf \o HeadOf(j) /\ Size(r) = 0
          /\ due' = due \o HeadOf(j) \o Content(j, 0, Size(r)) /\ due' \in Seq(Bytes)
      BY <1>t, <3>1, Answers DEF Size
    <3>3. rbuf' = <<>> /\ file'.target = 0 /\ invalid' = invalid
      BY <1>p, <3>1 DEF OnRequest, PutFile, Size
    <3> HIDE DEF j
    <3>4. HeadOf(j) \in Seq(Bytes) /\ Content(j, 0, 0) = <<>>
      BY <3>2, HeadOfTyped, ContentEmpty
    <3>5. due' = due \o HeadOf(j)
      <4> DEFINE d == due \o HeadOf(j)
      <4>1. d \in Seq(Bytes)
        BY <1>t, <3>4, JoinBytes
      <4>2. due' = d \o <<>>
        BY <3>2, <3>4
      <4> HIDE DEF d
      <4>3. due' = d
        BY <4>1, <4>2, ConcatEmptySeq
      <4> QED BY <4>3 DEF d
    <3>6. ~invalid' => got' \o wbuf' = due'
      <4> SUFFICES ASSUME ~invalid' PROVE got' \o wbuf' = due'
        OBVIOUS
      <4>1. got \o wbuf = due
        BY <1>p, <3>3
      <4> QED BY ZenonT(40), <1>t, <4>1, <2>2, <3>2, <3>4, <3>5, RegroupBytes
    <3> QED BY <1>p, <1>l, <2>5, <3>3, <3>6 DEF PlainInv
  <2>8. CASE OnRefused
    <3>1. rbuf' = <<>> /\ file' = file /\ invalid'
      BY <2>8 DEF OnRefused
    <3> QED BY <1>p, <1>l, <2>5, <3>1 DEF PlainInv
  <2> QED BY <1>0, <2>1, <2>6, <2>7, <2>8, Handled
<1>5. CASE WritePartial
  <2>1. got' \o wbuf' = got \o wbuf
    BY <1>t, <1>5, PartialParts
  <2>2. UNCHANGED <<due, rbuf, inbox, file, invalid>>
    BY <1>5 DEF WritePartial, socket
  <2> QED BY <1>p, <2>1, <2>2 DEF PlainInv
<1>6. CASE WriteAll
  <2>1. got' = got \o wbuf /\ wbuf' = <<>> /\ UNCHANGED <<due, inbox, file, invalid>>
        /\ (rbuf' = <<>> \/ rbuf' = rbuf)
    BY <1>6 DEF WriteAll, WriteDone, socket
  <2>2. ~invalid' => got' \o wbuf' = due'
    BY <1>t, <1>p, <2>1, ConcatEmptySeq
  <2> QED BY <1>p, <1>l, <2>1, <2>2 DEF PlainInv
<1>7. ~WriteFile
  BY <1>p DEF WriteFile, FileNeedSending
<1> QED BY <1>1, <1>2, <1>3, <1>4, <1>5, <1>6, <1>7
        DEF Next, Client, Loop, Reader, Writer

-----------------------------------------------------------------------------
(***************************************************************************)
(* A client that waits for its responses.  There are three states of the   *)
(* connection, until it is closed.                                         *)
(***************************************************************************)

\* All that was asked is answered and sent.  Of what has arrived only the last token can
\* complete a request, and EPOLLOUT is not armed.
Idle ==
  /\ wbuf = <<>> /\ got = due /\ file.target = 0 /\ ~invalid /\ kept = None
  /\ \A i \in 1..Len(rbuf) : rbuf[i] = "half"
  /\ \A i \in 1..Len(inbox) : inbox[i] # "half" => i = Len(inbox)
  /\ mask = {"in"} /\ pc # "write" /\ (pc = "dispatch" => "out" \notin fired)

\* A response is in the write buffer, with its file behind it, and there is nothing to read
Sending ==
  /\ inbox = <<>> /\ wbuf # <<>> /\ (invalid => kept = "close")
  /\ pc = "write" => armed = {}
  /\ ~FileNeedSending => got \o wbuf = due
  /\ FileNeedSending => /\ file.offset = 0
                        /\ got \o wbuf \o Content(file.of, 0, FileSize) = due

\* The socket has taken a part of a file, and nothing is armed for the rest: Writer, which
\* would send the head again, is not called any more
Stalled ==
  /\ inbox = <<>> /\ wbuf # <<>> /\ pc = "wait" /\ armed = {}
  /\ file.of \in Nat /\ file.offset < FileSize
  /\ got \o Content(file.of, file.offset, FileSize) = due

Intact == IsPrefix(got, due) /\ (wbuf = <<>> => got = due)

\* There are no more answers than requests, and one fewer while one is unread
Counted ==
  /\ Answered <= Requests(SentTokens)
  /\ (\E i \in 1..Len(inbox) : inbox[i] # "half") => Answered < Requests(SentTokens)

WaitInv ==
  ~Echo /\ ~eager => \/ pc = "closed" /\ Intact
                     \/ pc # "closed" /\ Counted /\ (Idle \/ Sending \/ Stalled)

LEMMA StatesIntact ==
  ASSUME TypeInv, HttpTypes, ~Echo, Idle \/ Sending \/ Stalled
  PROVE  Intact /\ (wbuf # <<>> => got # due)
<1>t. got \in Seq(Bytes) /\ wbuf \in Seq(Bytes) /\ due \in Seq(Bytes)
  BY DEF HttpTypes
<1>1. CASE Idle
  <2>1. got = got \o <<>> /\ <<>> \in Seq(Bytes)
    BY <1>t, ConcatEmptySeq, EmptySeq
  <2>2. IsPrefix(got, got)
    BY <1>t, <2>1, InFront
  <2> QED BY <1>1, <2>2 DEF Idle, Intact
<1>2. CASE Sending /\ ~FileNeedSending
  <2>1. wbuf # <<>> /\ got \o wbuf = due
    BY <1>2 DEF Sending
  <2> QED BY <1>t, <2>1, InFront DEF Intact
<1>3. CASE Sending /\ FileNeedSending
  <2> DEFINE c == Content(file.of, 0, FileSize)
             t == wbuf \o c
  <2>1. wbuf # <<>> /\ (got \o wbuf) \o c = due
    BY <1>3 DEF Sending
  <2>2. c \in Seq(Bytes)
    <3>1. file.of \in Nat /\ FileSize \in Nat /\ 0 \in Nat /\ 0 <= FileSize
      BY <1>3, IOAssumption DEF FileNeedSending, HttpTypes
    <3> QED BY <3>1, ContentTyped
  <2> HIDE DEF c
  <2>3. t \in Seq(Bytes) /\ due = got \o t /\ t # <<>>
    <3>1. t \in Seq(Bytes)
      BY <1>t, <2>2, JoinBytes
    <3>2. (got \o wbuf) \o c = got \o t
      BY <1>t, <2>2, RegroupBytes
    <3>3. t # <<>>
      BY <1>t, <2>1, <2>2, ConcatEqualIffEmpty
    <3> QED BY <2>1, <3>1, <3>2, <3>3
  <2> HIDE DEF t
  <2> QED BY <1>t, <2>1, <2>3, InFront DEF Intact
<1>4. CASE Stalled
  <2> DEFINE a == file.offset
             c == Content(file.of, a, FileSize)
  <2>1. wbuf # <<>> /\ got \o c = due /\ file.of \in Nat /\ a < FileSize
    BY <1>4 DEF Stalled
  <2>2. a \in Nat /\ FileSize \in Nat /\ a <= FileSize
    BY IOAssumption DEF TypeInv
  <2> HIDE DEF a
  <2>3. c \in Seq(Bytes) /\ Len(c) = FileSize - a
    BY <2>1, <2>2, ContentTyped
  <2> HIDE DEF c
  <2>4. Len(c) # 0
    BY <2>1, <2>2, <2>3
  <2>5. c # <<>>
    BY <2>4, EmptySeq
  <2> QED BY <1>t, <2>1, <2>3, <2>5, InFront DEF Intact
<1> QED BY <1>1, <1>2, <1>3, <1>4

\* A token more is at most one request more
LEMMA RequestsCount ==
  ASSUME TypeInv, todo # <<>>, todo' = Tail(todo), script' = script
  PROVE  /\ Requests(SentTokens) \in Nat
         /\ Requests(SentTokens)' = IF todo[1] = "half" THEN Requests(SentTokens)
                                    ELSE Requests(SentTokens) + 1
<1> DEFINE t == script.tokens
           n == Len(t) - Len(todo)
           S(k) == {i \in 1..k : t[i] # "half"}
<1>1. t \in Seq(Tokens) /\ Len(t) \in Nat /\ Len(todo) \in Nat \ {0} /\ Len(todo) <= Len(t)
  BY TokensTyped, TodoTail, LenProperties DEF TypeInv
<1>2. Len(todo') = Len(todo) - 1 /\ todo[1] = t[n + 1]
  BY TodoTail
<1>3. n \in Nat /\ n + 1 <= Len(t) /\ Len(t) - Len(todo') = n + 1
  BY <1>1, <1>2
<1>4. ASSUME NEW k \in Nat, k <= Len(t)
      PROVE  Requests(SubSeq(t, 1, k)) = Cardinality(S(k))
  <2> DEFINE s == SubSeq(t, 1, k)
  <2>1. \A i \in 1..k : t[i] \in Tokens
    BY <1>1, <1>4, ElementOfSeq
  <2>2. s \in Seq(Tokens) /\ Len(s) = k /\ \A i \in 1..k : s[i] = t[i]
    BY <1>4, <2>1, SubSeqProperties
  <2>3. DOMAIN s = 1..k
    BY <2>2, LenProperties
  <2> HIDE DEF s
  <2>4. {i \in DOMAIN s : s[i] # "half"} = S(k)
    BY <2>2, <2>3
  <2> QED BY <2>4 DEF Requests, s
<1>5. IsFiniteSet(S(n)) /\ Cardinality(S(n)) \in Nat
  <2>1. IsFiniteSet(1..n)
    BY <1>3, FS_Interval
  <2>2. S(n) \in SUBSET (1..n)
    OBVIOUS
  <2>3. IsFiniteSet(S(n))
    BY <2>1, <2>2, FS_Subset
  <2> QED BY <2>3, FS_CardinalityType
<1>6. S(n + 1) = IF t[n + 1] = "half" THEN S(n) ELSE S(n) \cup {n + 1}
  BY <1>3
<1>7. n + 1 \notin S(n)
  BY <1>3
<1>8. Cardinality(S(n + 1)) = IF t[n + 1] = "half" THEN Cardinality(S(n))
                              ELSE Cardinality(S(n)) + 1
  BY <1>5, <1>6, <1>7, FS_AddElement
<1>9. Requests(SentTokens) = Cardinality(S(n))
  BY <1>1, <1>3, <1>4 DEF SentTokens
<1>10. Requests(SentTokens)' = Cardinality(S(n + 1))
  <2>1. SentTokens' = SubSeq(t, 1, n + 1)
    BY <1>3 DEF SentTokens
  <2>2. Requests(SubSeq(t, 1, n + 1)) = Cardinality(S(n + 1))
    BY <1>3, <1>4
  <2> QED BY <2>1, <2>2 DEF Requests
<1> QED BY <1>2, <1>5, <1>8, <1>9, <1>10

LEMMA InitWait == Init => WaitInv
<1> SUFFICES ASSUME Init PROVE WaitInv
  OBVIOUS
<1>1. got = <<>> /\ wbuf = <<>> /\ due = <<>> /\ rbuf = <<>> /\ inbox = <<>>
      /\ file.target = 0 /\ ~invalid /\ kept = None /\ mask = {"in"} /\ pc = "wait"
  BY DEF Init
<1>2. Len(<<>>) = 0
  BY EmptySeq
<1>3. Idle
  BY <1>1, <1>2 DEF Idle
<1>4. Counted
  <2> DEFINE s == SentTokens
  <2>1. Answered = 0
    BY <1>1 DEF Answered
  <2>2. s = <<>>
    <3>1. Len(todo) \in Nat /\ todo = script.tokens
      BY InitType, LenProperties DEF Init, TypeInv
    <3>2. s = SubSeq(script.tokens, 1, 0)
      BY <3>1 DEF SentTokens
    <3> QED BY <3>2, SubSeqEmpty
  <2>3. DOMAIN s = {}
    BY <2>2
  <2>4. {i \in DOMAIN s : s[i] # "half"} = {}
    BY <2>3
  <2>5. Requests(SentTokens) = 0
    BY <2>4, FS_EmptySet DEF Requests
  <2> QED BY <1>1, <1>2, <2>1, <2>5 DEF Counted
<1> QED BY <1>1, <1>3, <1>4 DEF WaitInv

LEMMA SendsWait == ASSUME TypeInv, HttpTypes, WaitInv, ~Echo, Sends PROVE WaitInv'
<1>1. /\ todo # <<>> /\ pc # "closed"
      /\ inbox' = Append(inbox, todo[1]) /\ todo' = Tail(todo)
      /\ eager' = (eager \/ Answered < Requests(SentTokens) \/ got # due)
      /\ UNCHANGED <<script, got, mask, armed, fired, pc, rbuf, wbuf, file, invalid, kept, due>>
  BY DEF Sends, session
<1> SUFFICES ASSUME ~eager' PROVE pc' # "closed" /\ Counted' /\ Idle'
  BY DEF WaitInv
<1>2. ~eager /\ ~(Answered < Requests(SentTokens)) /\ got = due
  BY <1>1
<1>3. Counted /\ Idle
  <2>1. Counted /\ (Idle \/ Sending \/ Stalled)
    BY <1>1, <1>2 DEF WaitInv
  <2>2. wbuf # <<>> => got # due
    BY <2>1, StatesIntact
  <2> QED BY <1>2, <2>1, <2>2 DEF Sending, Stalled
<1>4. inbox \in Seq(Tokens) /\ todo[1] \in Tokens /\ Answered \in Nat
  BY <1>1, TodoTail, AnsweredTyped DEF HttpTypes
<1>5. Len(inbox) \in Nat /\ Len(inbox') = Len(inbox) + 1
      /\ (\A i \in 1..Len(inbox) : inbox'[i] = inbox[i]) /\ inbox'[Len(inbox) + 1] = todo[1]
  BY <1>1, <1>4, AppendProperties, LenProperties
<1>6. \A i \in 1..Len(inbox) : inbox[i] = "half"
  BY <1>2, <1>3 DEF Counted
<1>7. Answered' = Answered
  BY <1>1 DEF Answered
<1> DEFINE q == Requests(SentTokens)
           qq == Requests(SentTokens)'
<1>8. q \in Nat /\ qq = IF todo[1] = "half" THEN q ELSE q + 1
  BY <1>1, RequestsCount
<1>9. Answered <= q
  BY <1>3 DEF Counted
<1> HIDE DEF q, qq
<1>10. Answered' <= qq
  BY <1>4, <1>7, <1>8, <1>9
<1>11. ASSUME NEW i \in 1..Len(inbox'), inbox'[i] # "half"
       PROVE  i = Len(inbox') /\ Answered' < qq
  <2>1. i = Len(inbox) + 1
    BY <1>5, <1>6, <1>11
  <2>2. todo[1] # "half"
    BY <1>5, <1>11, <2>1
  <2> QED BY <1>4, <1>5, <1>7, <1>8, <1>9, <2>1, <2>2
<1>12. Counted'
  BY <1>10, <1>11 DEF Counted, qq
<1>13. Idle'
  BY <1>1, <1>3, <1>11 DEF Idle
<1> QED BY <1>1, <1>12, <1>13

\* The buffers, the counts and the response stay
LEMMA QuietWait ==
  ASSUME HttpTypes, ~Echo, Counted, inbox' \in {inbox, <<>>},
         UNCHANGED <<script, todo, due>>
  PROVE  Counted'
<1>1. Answered' = Answered /\ Requests(SentTokens)' = Requests(SentTokens)
  BY DEF Answered, Requests, SentTokens
<1>2. Len(<<>>) = 0
  BY EmptySeq
<1> QED BY <1>1, <1>2 DEF Counted

LEMMA ReadWait == ASSUME TypeInv, HttpTypes, WaitInv, ~Echo, ReadData PROVE WaitInv'
<1>1. /\ inbox # <<>> /\ pc = "dispatch" /\ pc' = AfterReader
      /\ UNCHANGED <<script, todo, got, fired, eager>>
      /\ IF wbuf' # <<>> THEN mask' = mask \cup {"out"} /\ armed' = mask'
                         ELSE UNCHANGED <<mask, armed>>
  BY DEF ReadData, Read
<1> SUFFICES ASSUME ~eager
             PROVE  pc' # "closed" /\ Counted' /\ (Idle' \/ Sending')
  BY <1>1 DEF WaitInv
<1>2. Counted /\ Idle
  BY <1>1 DEF WaitInv, Sending, Stalled
<1>3. pc' = "wait"
  BY <1>1, <1>2 DEF Idle, AfterReader
<1>t. /\ got \in Seq(Bytes) /\ wbuf \in Seq(Bytes) /\ due \in Seq(Bytes)
      /\ rbuf \in Seq(Tokens) /\ inbox \in Seq(Tokens)
  BY DEF HttpTypes
<1>4. PICK n \in 1..Len(inbox), data \in Seq(Tokens) :
        /\ OnStreamReached(data)
        /\ Len(data) = Len(rbuf) + n
        /\ \A i \in 1..Len(data) :
             data[i] = IF i <= Len(rbuf) THEN rbuf[i] ELSE inbox[i - Len(rbuf)]
        /\ inbox' \in Seq(Tokens) /\ Len(inbox') = Len(inbox) - n
        /\ \A i \in 1..Len(inbox') : inbox'[i] = inbox[n + i]
  BY <1>t, ReadParts
<1>5. Len(rbuf) \in Nat /\ Len(inbox) \in Nat
  BY <1>t, LenProperties
<1>i. /\ wbuf = <<>> /\ got = due /\ file.target = 0 /\ ~invalid /\ kept = None
      /\ \A i \in 1..Len(rbuf) : rbuf[i] = "half"
      /\ \A i \in 1..Len(inbox) : inbox[i] # "half" => i = Len(inbox)
      /\ mask = {"in"}
  BY <1>2 DEF Idle
\* What completes a request is the last that has arrived
<1>6. ASSUME NEW i \in 1..Len(data), data[i] # "half"
      PROVE  inbox' = <<>> /\ Answered < Requests(SentTokens)
  <2> DEFINE k == i - Len(rbuf)
  <2>1. ~(i <= Len(rbuf))
    <3> SUFFICES ASSUME i <= Len(rbuf) PROVE FALSE
      OBVIOUS
    <3>1. i \in 1..Len(rbuf) /\ data[i] = rbuf[i]
      BY <1>4, <1>5
    <3> QED BY <1>i, <1>6, <3>1
  <2>2. k \in 1..n /\ k \in 1..Len(inbox) /\ data[i] = inbox[k]
    BY <1>4, <1>5, <2>1
  <2> HIDE DEF k
  <2>3. k = Len(inbox) /\ Answered < Requests(SentTokens)
    BY <1>2, <1>6, <1>i, <2>2 DEF Counted
  <2>4. Len(inbox') = 0
    BY <1>4, <1>5, <2>2, <2>3
  <2>5. inbox' = <<>>
    <3> DEFINE b == inbox'
    <3>1. b \in Seq(Tokens) /\ Len(b) = 0
      BY <1>4, <2>4
    <3> HIDE DEF b
    <3>2. b = <<>>
      BY <3>1, EmptySeq
    <3> QED BY <3>2 DEF b
  <2> QED BY <2>3, <2>5
<1>7. ASSUME inbox' = <<>>, Answered < Requests(SentTokens), Answered' = Answered + 1
      PROVE  Counted'
  <2>1. Requests(SentTokens)' = Requests(SentTokens) /\ Len(inbox') = 0
    BY <1>1, <1>7, EmptySeq DEF Requests, SentTokens
  <2> DEFINE q == Requests(SentTokens)
  <2>2. q \in Nat /\ Answered \in Nat
    <3>1. IsFiniteSet(1..Len(SentTokens)) /\ DOMAIN SentTokens = 1..Len(SentTokens)
      <4>1. script.tokens \in Seq(Tokens) /\ todo \in Seq(Tokens)
            /\ Len(todo) <= Len(script.tokens)
        BY TokensTyped DEF TypeInv
      <4>2. Len(script.tokens) \in Nat /\ Len(todo) \in Nat
        BY <4>1, LenProperties
      <4>3. \A i \in 1..(Len(script.tokens) - Len(todo)) : script.tokens[i] \in Tokens
        BY <4>1, <4>2, ElementOfSeq
      <4> DEFINE k == Len(script.tokens) - Len(todo)
      <4>4. k \in Nat
        BY <4>1, <4>2
      <4>5. SubSeq(script.tokens, 1, k) \in Seq(Tokens)
        BY <4>3, <4>4, SubSeqProperties
      <4>6. SentTokens \in Seq(Tokens)
        BY <4>5 DEF SentTokens
      <4> QED BY <4>6, LenProperties, FS_Interval
    <3>2. {i \in DOMAIN SentTokens : SentTokens[i] # "half"} \in SUBSET (1..Len(SentTokens))
      BY <3>1
    <3> QED BY <1>t, <3>1, <3>2, FS_Subset, FS_CardinalityType, AnsweredTyped DEF Requests
  <2>3. Answered < q
    BY <1>7
  <2>4. Requests(SentTokens)' = q
    BY <2>1
  <2> HIDE DEF q
  <2>5. Answered' <= Requests(SentTokens)'
    BY <1>7, <2>2, <2>3, <2>4
  <2> QED BY <2>1, <2>5 DEF Counted
\* The rest of the request is still to come
<1>8. CASE /\ \A i \in 1..Len(data) : data[i] = "half"
           /\ rbuf' = data /\ UNCHANGED <<wbuf, file, invalid, kept, due>>
  <2>1. ASSUME NEW i \in 1..Len(inbox'), inbox'[i] # "half"
        PROVE  i = Len(inbox') /\ \E k \in 1..Len(inbox) : inbox[k] # "half"
    <3> DEFINE k == n + i
    <3>1. k \in 1..Len(inbox) /\ inbox[k] # "half"
      BY <1>4, <1>5, <2>1
    <3>2. k = Len(inbox)
      BY <1>i, <3>1
    <3>3. i = Len(inbox')
      <4> DEFINE l == Len(inbox)
                 m == Len(inbox')
      <4>1. l \in Nat /\ n \in 1..l /\ m = l - n /\ i \in 1..m /\ n + i = l
        BY <1>4, <1>5, <3>2
      <4> HIDE DEF l, m
      <4>2. i = m
        BY <4>1
      <4> QED BY <4>2 DEF m
    <3> QED BY <3>1, <3>3
  <2>2. Counted'
    <3>1. Answered' = Answered /\ Requests(SentTokens)' = Requests(SentTokens)
      BY <1>1, <1>8 DEF Answered, Requests, SentTokens
    <3> QED BY <1>2, <2>1, <3>1 DEF Counted
  <2>3. Idle'
    BY <1>1, <1>3, <1>8, <1>i, <2>1 DEF Idle
  <2> QED BY <1>3, <2>2, <2>3
\* It is answered
<1>9. CASE \E i \in 1..Len(data) : data[i] # "half" /\ OnRequest(data[i])
  <2>1. PICK i \in 1..Len(data) : data[i] # "half" /\ OnRequest(data[i])
    BY <1>9
  <2> DEFINE r == data[i]
             j == Answered + 1
             h == HeadOf(j)
  <2>2. inbox' = <<>> /\ Answered < Requests(SentTokens)
    BY <1>6, <2>1
  <2>3. /\ j \in Nat /\ Size(r) \in Nat
        /\ wbuf' = wbuf \o h /\ wbuf' # <<>>
        /\ due' = due \o h \o Content(j, 0, Size(r))
        /\ Answered' = Answered + 1
    BY <1>t, <2>1, Answers
  <2>4. h \in Seq(Bytes)
    BY <2>3, HeadOfTyped
  <2>5. invalid' = FALSE
        /\ file' = IF r \in {"file", "empty"} THEN PutFile(r, j) ELSE file
    BY <1>i, <2>1 DEF OnRequest
  <2> HIDE DEF r, j, h
  <2>6. Counted'
    BY <1>7, <2>2, <2>3
  <2>7. wbuf' = h /\ got' = due
    BY <1>1, <1>i, <2>3, <2>4, ConcatEmptySeq
  <2>8. CASE r = "file"
    <3>1. Size(r) = FileSize /\ file' = [of |-> j, offset |-> 0, target |-> FileSize]
      BY <2>5, <2>8 DEF PutFile, Size
    <3>2. file'.of = j /\ file'.offset = 0 /\ FileNeedSending'
      BY <2>3, <3>1, IOAssumption, NoneAssumption DEF FileNeedSending
    <3>3. got' \o wbuf' \o Content(file'.of, 0, FileSize) = due'
      BY <2>3, <2>7, <3>1, <3>2
    <3>4. Sending'
      BY <1>3, <2>2, <2>3, <2>5, <3>2, <3>3 DEF Sending, Content
    <3> QED BY <1>3, <2>6, <3>4
  <2>9. CASE r # "file"
    <3>1. Size(r) = 0 /\ file'.target = 0
      BY <1>i, <2>5, <2>9 DEF PutFile, Size
    <3>2. ~FileNeedSending'
      BY <3>1 DEF FileNeedSending
    <3>3. got' \o wbuf' = due'
      <4> DEFINE d == due \o h
      <4>1. d \in Seq(Bytes)
        BY <1>t, <2>4, JoinBytes
      <4>2. due' = d \o <<>>
        BY <2>3, <3>1, ContentEmpty
      <4> HIDE DEF d
      <4>3. due' = d
        BY <4>1, <4>2, ConcatEmptySeq
      <4> QED BY <2>7, <4>3 DEF d
    <3>4. Sending'
      BY <1>3, <2>2, <2>3, <2>5, <3>2, <3>3 DEF Sending
    <3> QED BY <1>3, <2>6, <3>4
  <2> QED BY <2>8, <2>9
\* It is refused
<1>10. CASE OnRefused /\ \E i \in 1..Len(data) : data[i] # "half"
  <2>1. inbox' = <<>> /\ Answered < Requests(SentTokens)
    BY <1>6, <1>10
  <2>2. wbuf' # <<>> /\ due' = due \o wbuf' /\ Answered' = Answered + 1
    BY <1>t, <1>10, Refuses
  <2>3. kept' = "close" /\ file' = file
    BY <1>10, <1>i DEF OnRefused
  <2>4. Counted'
    BY <1>7, <2>1, <2>2
  <2>5. ~FileNeedSending' /\ got' \o wbuf' = due'
    BY <1>1, <1>i, <2>2, <2>3 DEF FileNeedSending
  <2>6. Sending'
    BY <1>3, <2>1, <2>2, <2>3, <2>5 DEF Sending
  <2> QED BY <1>3, <2>4, <2>6
<1> QED BY <1>4, <1>8, <1>9, <1>10, <1>i, Handled

\* All is sent: the connection is kept for the next request, or closed
LEMMA DoneWait ==
  ASSUME HttpTypes, ~Echo, ~Echo', Counted, inbox = <<>>, invalid => kept = "close",
         WriteDone, got' = due, file'.target = 0,
         UNCHANGED <<script, todo, due, inbox, invalid>>
  PROVE  WaitInv'
<1>1. wbuf' = <<>> /\ mask' = {"in"} /\ Len(<<>>) = 0
  BY EmptySeq DEF WriteDone
<1>2. CASE kept = "keep-alive"
  <2>1. pc' = "wait" /\ rbuf' = <<>> /\ kept' = None /\ ~invalid'
    BY <1>2 DEF WriteDone
  <2>2. Counted'
    BY QuietWait
  <2>3. Idle'
    BY <1>1, <2>1 DEF Idle
  <2> QED BY <2>1, <2>2, <2>3 DEF WaitInv
<1>3. CASE kept # "keep-alive"
  <2>1. pc' = "closed"
    BY <1>3 DEF WriteDone
  <2>2. due = due \o <<>> /\ <<>> \in Seq(Bytes) /\ due \in Seq(Bytes)
    BY ConcatEmptySeq, EmptySeq DEF HttpTypes
  <2>3. IsPrefix(due, due)
    BY <2>2, InFront
  <2>4. Intact'
    BY <1>1, <2>3 DEF Intact
  <2> QED BY <2>1, <2>4 DEF WaitInv
<1> QED BY <1>2, <1>3

LEMMA WriterWait == ASSUME TypeInv, HttpTypes, WaitInv, ~Echo, Writer PROVE WaitInv'
<1>1. UNCHANGED <<script, todo, inbox, due, invalid, eager>> /\ pc = "write"
  BY DEF Writer, WriteFails, CloseConnGuarded, WritePartial, WriteAll, WriteFile, socket, session
<1> SUFFICES ASSUME ~eager PROVE WaitInv'
  BY <1>1 DEF WaitInv
<1>e. ~Echo'
  BY <1>1 DEF Echo
<1>2. Counted /\ Sending
  BY <1>1 DEF WaitInv, Idle, Stalled
<1>3. Counted'
  BY <1>1, <1>2, QuietWait
<1>t. got \in Seq(Bytes) /\ wbuf \in Seq(Bytes) /\ due \in Seq(Bytes)
  BY DEF HttpTypes
<1>4. CASE WriteFails
  <2>1. Intact
    BY <1>2, StatesIntact
  <2>2. pc' = "closed" /\ UNCHANGED <<got, wbuf>>
    BY <1>4 DEF WriteFails, CloseConnGuarded, session
  <2> QED BY <1>1, <2>1, <2>2 DEF WaitInv, Intact
<1>5. CASE WritePartial
  <2>1. wbuf' # <<>> /\ got' \o wbuf' = got \o wbuf
    BY <1>t, <1>5, PartialParts
  <2>2. pc' = "wait" /\ UNCHANGED <<file, kept>>
    BY <1>5 DEF WritePartial
  <2>3. FileNeedSending' = FileNeedSending
    BY <2>2 DEF FileNeedSending
  <2>4. FileNeedSending' => /\ file'.offset = 0
                            /\ (got' \o wbuf') \o Content(file'.of, 0, FileSize) = due'
    BY <1>1, <1>2, <2>1, <2>2, <2>3 DEF Sending, Content
  <2>5. Sending'
    BY <1>1, <1>2, <2>1, <2>2, <2>3, <2>4 DEF Sending
  <2> QED BY <1>3, <2>2, <2>5 DEF WaitInv
<1>6. CASE WriteAll
  <2>1. got' = got \o wbuf /\ WriteDone /\ UNCHANGED file /\ ~FileNeedSending
    BY <1>6 DEF WriteAll
  <2>2. got' = due
    BY <1>2, <2>1 DEF Sending
  <2>3. file'.target = 0
    <3>1. file.target \in Nat /\ ~(file.target > 0)
      BY <2>1 DEF TypeInv, HttpTypes, FileNeedSending
    <3> QED BY <2>1, <3>1
  <2> QED BY <1>e, <1>1, <1>2, <2>1, <2>2, <2>3, DoneWait DEF Sending
<1>7. CASE WriteFile
  <2>1. PICK n \in Nat :
          /\ n <= file.target /\ file.offset + file.target = FileSize
          /\ file.of \in Nat
          /\ file'.of = file.of /\ file'.offset = file.offset + n
          /\ file'.target = file.target - n
          /\ Content(file.of, file.offset, file.offset + n) \in Seq(Bytes)
          /\ got' = got \o wbuf \o Content(file.of, file.offset, file.offset + n)
    BY <1>7, FileParts
  <2>2. file.offset = 0 /\ got \o wbuf \o Content(file.of, 0, FileSize) = due
    BY <1>2, <1>7 DEF Sending, WriteFile
  <2>3. file.target = FileSize /\ FileSize \in Nat /\ n <= FileSize
        /\ file'.offset = n /\ file'.target = FileSize - n
        /\ got' = got \o wbuf \o Content(file.of, 0, n)
    <3>1. file.target \in Nat /\ FileSize \in Nat
      BY IOAssumption DEF TypeInv
    <3>2. file.target = FileSize /\ file.offset + n = n
      BY <2>1, <2>2, <3>1
    <3> QED BY <2>1, <2>2, <3>1, <3>2
  <2>4. CASE file'.target = 0
    <3>1. n = FileSize
      BY <2>3, <2>4
    <3>2. got' = due
      BY <2>2, <2>3, <3>1
    <3>3. WriteDone
      BY <1>7, <2>4 DEF WriteFile
    <3> QED BY <1>e, <1>1, <1>2, <2>4, <3>2, <3>3, DoneWait DEF Sending
  <2>5. CASE file'.target # 0
    <3>1. pc' = "wait" /\ UNCHANGED <<armed, wbuf>>
      BY <1>7, <2>5 DEF WriteFile
    <3>2. n < FileSize
      BY <2>3, <2>5
    <3> DEFINE a == Content(file.of, 0, n)
               b == Content(file.of, n, FileSize)
               g == got \o wbuf
    <3>3. a \in Seq(Bytes) /\ b \in Seq(Bytes) /\ a \o b = Content(file.of, 0, FileSize)
      <4>1. file.of \in Nat /\ 0 \in Nat /\ n \in Nat /\ FileSize \in Nat
            /\ 0 <= n /\ n <= FileSize
        BY <2>1, <2>3
      <4>2. a \in Seq(Bytes)
        BY <4>1, ContentTyped
      <4>3. b \in Seq(Bytes)
        BY <4>1, ContentTyped
      <4>4. a \o b = Content(file.of, 0, FileSize)
        BY <4>1, ContentCut
      <4> QED BY <4>2, <4>3, <4>4
    <3>4. got' = g \o a /\ g \o (a \o b) = due /\ g \in Seq(Bytes)
      BY <1>t, <2>2, <2>3, <3>3, JoinBytes
    <3> HIDE DEF a, g
    <3>5. got' \o b = due
      BY <3>3, <3>4, RegroupBytes
    <3>6. Stalled'
      BY <1>1, <1>2, <2>1, <2>3, <3>1, <3>2, <3>5 DEF Stalled, Sending, Content
    <3> QED BY <1>3, <3>1, <3>6 DEF WaitInv
  <2> QED BY <2>4, <2>5
<1> QED BY <1>4, <1>5, <1>6, <1>7 DEF Writer

LEMMA NextWait == TypeInv /\ HttpTypes /\ WaitInv /\ [Next]_vars => WaitInv'
<1> SUFFICES ASSUME TypeInv, HttpTypes, WaitInv, [Next]_vars, ~Echo' PROVE WaitInv'
  BY DEF WaitInv
<1>0. ~Echo
  BY ScriptStays DEF Echo
<1>1. CASE Sends
  BY <1>0, <1>1, SendsWait
<1>2. CASE ReadData
  BY <1>0, <1>2, ReadWait
<1>3. CASE Writer
  BY <1>0, <1>3, WriterWait
<1>4. CASE Closes \/ Resets
  <2>1. /\ inbox' \in {inbox, <<>>} /\ pc # "closed"
        /\ UNCHANGED <<script, todo, got, mask, armed, fired, pc, rbuf, wbuf, file, invalid, kept,
                       due, eager>>
    BY <1>4 DEF Closes, Resets, session
  <2> SUFFICES ASSUME ~eager PROVE WaitInv'
    BY <2>1 DEF WaitInv
  <2>2. Counted /\ (Idle \/ Sending \/ Stalled)
    BY <1>0, <2>1 DEF WaitInv
  <2>3. Counted'
    BY <1>0, <2>1, <2>2, QuietWait
  <2>4. Len(<<>>) = 0
    BY EmptySeq
  <2>5. Idle => Idle'
    BY <2>1, <2>4 DEF Idle
  <2>6. Sending => Sending'
    BY <2>1 DEF Sending, FileNeedSending, Content
  <2>7. Stalled => Stalled'
    BY <2>1 DEF Stalled, Content
  <2> QED BY <2>1, <2>2, <2>3, <2>5, <2>6, <2>7 DEF WaitInv
<1>5. CASE Wait
  <2>1. /\ fired' \in (SUBSET armed) \ {{}} /\ armed' = {} /\ pc = "wait"
        /\ pc' = IF "in" \in fired' THEN "dispatch" ELSE "write"
        /\ UNCHANGED <<script, todo, inbox, got, mask, rbuf, wbuf, file, invalid, kept, due, eager>>
    BY <1>5 DEF Wait, socket, session
  <2> SUFFICES ASSUME ~eager PROVE WaitInv'
    BY <2>1 DEF WaitInv
  <2>2. Counted /\ (Idle \/ Sending \/ Stalled)
    BY <1>0, <2>1 DEF WaitInv
  <2>3. Counted'
    BY <1>0, <2>1, <2>2, QuietWait
  <2>4. Idle => Idle'
    <3> SUFFICES ASSUME Idle PROVE Idle'
      OBVIOUS
    <3>1. armed \subseteq {"in"}
      BY DEF Idle, TypeInv
    <3>2. "out" \notin fired' /\ fired' # {} /\ fired' \subseteq {"in"}
      BY <2>1, <3>1
    <3>3. pc' = "dispatch"
      BY <2>1, <3>2
    <3> QED BY <2>1, <3>2, <3>3 DEF Idle
  <2>5. Sending => Sending'
    BY <2>1 DEF Sending, FileNeedSending, Content
  <2>6. ~Stalled
    <3> SUFFICES ASSUME armed = {} PROVE FALSE
      BY DEF Stalled
    <3>1. fired' # {} /\ fired' \subseteq armed
      BY <2>1
    <3> QED BY <3>1
  <2> QED BY <2>1, <2>2, <2>3, <2>4, <2>5, <2>6 DEF WaitInv
<1>6. CASE ReadFails
  <2>1. pc = "dispatch" /\ pc' = "closed" /\ UNCHANGED <<got, wbuf, due, eager>>
    BY <1>6 DEF ReadFails, CloseConnGuarded, session
  <2>2. ~eager => Intact
    BY <1>0, <2>1, StatesIntact DEF WaitInv
  <2> QED BY <2>1, <2>2 DEF WaitInv, Intact
<1>7. CASE UNCHANGED vars
  <2>1. UNCHANGED <<script, todo, inbox, got, mask, armed, fired, pc, rbuf, wbuf, file, invalid, kept,
                    due, eager>>
    BY <1>7 DEF vars, socket, session
  <2>2. Counted' = Counted
    BY <2>1 DEF Counted, Answered, Requests, SentTokens
  <2> QED BY <1>0, <2>1, <2>2 DEF WaitInv, Idle, Sending, Stalled, FileNeedSending, Content, Intact
<1> QED BY <1>1, <1>2, <1>3, <1>4, <1>5, <1>6, <1>7 DEF Next, Client, Loop, Reader

\* The client of an HTTP server gets its responses in order and whole, each with its file,
\* if it waits for each of them or asks for no files, and then until a request of it is
\* refused, be it for a beginning that was dropped with the request before: Reader and
\* Writer with the handlers of HTTPServer, for files of any size and however the requests
\* are cut and the responses taken
THEOREM ResponsesArriveIntact == Spec => []ResponsesIntact
<1>1. TypeInv /\ HttpTypes /\ PlainInv /\ WaitInv => ResponsesIntact
  <2> SUFFICES ASSUME TypeInv, HttpTypes, PlainInv, WaitInv, ~Echo,
                      ~eager \/ ("file" \notin Range(script.tokens) /\ ~invalid)
               PROVE  Intact
    BY DEF ResponsesIntact, Intact
  <2>1. CASE ~eager
    BY <2>1, StatesIntact DEF WaitInv
  <2>2. CASE "file" \notin Range(script.tokens) /\ ~invalid
    <3>1. got \o wbuf = due /\ got \in Seq(Bytes) /\ wbuf \in Seq(Bytes)
      BY <2>2 DEF PlainInv, HttpTypes
    <3>2. IsPrefix(got, due)
      BY <3>1, InFront
    <3>3. wbuf = <<>> => got = due
      BY <3>1, ConcatEmptySeq
    <3> QED BY <3>2, <3>3 DEF Intact
  <2> QED BY <2>1, <2>2
<1> QED BY <1>1, InitType, NextType, InitHttpTypes, NextHttpTypes, InitPlain, NextPlain,
           InitWait, NextWait, PTL DEF Spec
=============================================================================
