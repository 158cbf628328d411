------------------------- MODULE InstancePoolProofs -------------------------
(***************************************************************************)
(* Proofs about InstancePool, for any number of threads, any first size    *)
(* and any bound on the slots: every slot has one place, a deleter finds   *)
(* room, and no object is wiped.  What the operations do to a queue is     *)
(* proved in CircularQueueProofs, for items of any kind.                   *)
(***************************************************************************)
EXTENDS InstancePool, FiniteSetTheorems, SequenceTheorems, TLAPS

Queue == INSTANCE CircularQueueProofs
           WITH Items <- Slots, Queues <- {}, MaxLimit <- 0, queue <- <<>>

-----------------------------------------------------------------------------
(***************************************************************************)
(* Queues of slots, none of which is in the queue twice.                   *)
(***************************************************************************)

Elements(c) == {c[i] : i \in DOMAIN c}
Distinct(c) == \A i, j \in DOMAIN c : c[i] = c[j] => i = j

PoolQueue(q) == Queue!GoodQueue(q) /\ Distinct(Contents(q))
InQueue(q)   == Elements(Contents(q))

LEMMA AppendDistinct ==
  ASSUME NEW c \in Seq(Slots), Distinct(c), NEW s \in Slots, s \notin Elements(c)
  PROVE  Distinct(Append(c, s)) /\ Elements(Append(c, s)) = Elements(c) \cup {s}
<1> DEFINE d == Append(c, s)
<1>1. Len(c) \in Nat /\ DOMAIN c = 1..Len(c)
  BY LenProperties
<1>2. /\ d \in Seq(Slots) /\ Len(d) = Len(c) + 1
      /\ \A i \in 1..Len(c) : d[i] = c[i]
      /\ d[Len(c) + 1] = s
  BY AppendProperties
<1>3. DOMAIN d = 1..(Len(c) + 1)
  BY <1>2, LenProperties
<1> HIDE DEF d
<1>4. \A i \in 1..Len(c) : c[i] # s
  BY <1>1 DEF Elements
<1>5. Distinct(d)
  <2> SUFFICES ASSUME NEW i \in 1..(Len(c) + 1), NEW j \in 1..(Len(c) + 1), d[i] = d[j]
               PROVE  i = j
    BY <1>3 DEF Distinct
  <2>1. CASE i \in 1..Len(c) /\ j \in 1..Len(c)
    BY <1>1, <1>2, <2>1 DEF Distinct
  <2>2. CASE i = Len(c) + 1 /\ j = Len(c) + 1
    BY <2>2
  <2>3. CASE i \in 1..Len(c) /\ j = Len(c) + 1
    BY <1>2, <1>4, <2>3
  <2>4. CASE i = Len(c) + 1 /\ j \in 1..Len(c)
    BY <1>2, <1>4, <2>4
  <2> QED BY <1>1, <2>1, <2>2, <2>3, <2>4
<1>6. Elements(d) = Elements(c) \cup {s}
  <2>1. ASSUME NEW x \in Elements(d) PROVE x \in Elements(c) \cup {s}
    <3>1. PICK i \in 1..(Len(c) + 1) : x = d[i]
      BY <1>3 DEF Elements
    <3>2. CASE i \in 1..Len(c)
      BY <1>1, <1>2, <3>1, <3>2 DEF Elements
    <3>3. CASE i = Len(c) + 1
      BY <1>2, <3>1, <3>3
    <3> QED BY <1>1, <3>2, <3>3
  <2>2. ASSUME NEW i \in 1..Len(c) PROVE c[i] \in Elements(d)
    BY <1>1, <1>2, <1>3 DEF Elements
  <2>3. s \in Elements(d)
    BY <1>1, <1>2, <1>3 DEF Elements
  <2> QED BY <1>1, <2>1, <2>2, <2>3 DEF Elements
<1> QED BY <1>5, <1>6 DEF d

LEMMA TailDistinct ==
  ASSUME NEW c \in Seq(Slots), Distinct(c), c # <<>>
  PROVE  /\ Distinct(Tail(c)) /\ Elements(Tail(c)) = Elements(c) \ {c[1]}
         /\ c[1] \in Elements(c)
<1> DEFINE d == Tail(c)
<1>1. Len(c) \in Nat \ {0} /\ DOMAIN c = 1..Len(c)
  BY LenProperties, EmptySeq
<1>2. /\ d \in Seq(Slots) /\ Len(d) = Len(c) - 1
      /\ \A i \in 1..Len(d) : d[i] = c[i + 1]
  BY HeadTailProperties
<1>3. DOMAIN d = 1..(Len(c) - 1)
  BY <1>2, LenProperties
<1> HIDE DEF d
<1>4. \A i \in 1..(Len(c) - 1) : d[i] = c[i + 1] /\ i + 1 \in 1..Len(c) /\ i + 1 # 1
  BY <1>1, <1>2
<1>5. Distinct(d)
  <2> SUFFICES ASSUME NEW i \in 1..(Len(c) - 1), NEW j \in 1..(Len(c) - 1), d[i] = d[j]
               PROVE  i = j
    BY <1>3 DEF Distinct
  <2>1. c[i + 1] = c[j + 1]
    BY <1>4
  <2>2. i + 1 = j + 1
    BY <1>1, <1>4, <2>1 DEF Distinct
  <2> QED BY <1>1, <2>2
<1>6. 1 \in DOMAIN c
  BY <1>1
<1>7. ASSUME NEW x \in Elements(d) PROVE x \in Elements(c) \ {c[1]}
  <2>1. PICK i \in 1..(Len(c) - 1) : x = d[i]
    BY <1>3 DEF Elements
  <2>2. x = c[i + 1] /\ i + 1 \in DOMAIN c /\ i + 1 # 1
    BY <1>1, <1>4, <2>1
  <2>3. c[i + 1] # c[1]
    BY <1>6, <2>2 DEF Distinct
  <2> QED BY <2>2, <2>3 DEF Elements
<1>8. ASSUME NEW x \in Elements(c) \ {c[1]} PROVE x \in Elements(d)
  <2>1. PICK i \in 1..Len(c) : x = c[i]
    BY <1>1 DEF Elements
  <2>2. i # 1
    BY <2>1
  <2>3. i - 1 \in 1..(Len(c) - 1) /\ (i - 1) + 1 = i
    BY <1>1, <2>2
  <2>4. d[i - 1] = x
    BY <1>4, <2>1, <2>3
  <2> QED BY <1>3, <2>3, <2>4 DEF Elements
<1>9. Elements(d) = Elements(c) \ {c[1]}
  BY <1>7, <1>8
<1> QED BY <1>5, <1>6, <1>9 DEF Elements, d

LEMMA DistinctCardinality ==
  ASSUME NEW c \in Seq(Slots), Distinct(c)
  PROVE  IsFiniteSet(Elements(c)) /\ Cardinality(Elements(c)) = Len(c)
<1>1. Len(c) \in Nat /\ DOMAIN c = 1..Len(c) /\ c \in [1..Len(c) -> Slots]
  BY LenProperties
<1>2. IsFiniteSet(1..Len(c)) /\ Cardinality(1..Len(c)) = Len(c)
  BY <1>1, FS_Interval
<1>3. c \in [1..Len(c) -> Elements(c)]
  BY <1>1 DEF Elements
<1>4. c \in Surjection(1..Len(c), Elements(c))
  BY <1>1, <1>3 DEF Surjection, Elements
<1>5. c \in Injection(1..Len(c), Elements(c))
  BY <1>1, <1>3 DEF Injection, IsInjective, Distinct
<1> QED BY <1>2, <1>4, <1>5, FS_Surjection

LEMMA ZeroIsNoSlot == Zero \notin Slots
BY ZeroAssumption, SizesAssumption DEF Slots

\* What is in a queue, and the size of it
LEMMA QueueElements ==
  ASSUME NEW q, PoolQueue(q)
  PROVE  /\ Contents(q) \in Seq(Slots) /\ Len(Contents(q)) = Distance(q)
         /\ IsFiniteSet(InQueue(q)) /\ Cardinality(InQueue(q)) = Distance(q)
         /\ InQueue(q) \subseteq Slots
         /\ Distance(q) \in Nat /\ q.capacity \in Nat \ {0}
         /\ Full(q) <=> Distance(q) = q.capacity - 1
         /\ Empty(q) <=> Contents(q) = <<>>
<1> USE ZeroIsNoSlot DEF PoolQueue
<1>1. Queue!Contents(q) = Contents(q) /\ Queue!Distance(q) = Distance(q)
  BY DEF Contents, Distance, ItemAt, Queue!Contents, Queue!Distance, Queue!ItemAt
<1>2. (Queue!Full(q) <=> Full(q)) /\ (Queue!Empty(q) <=> Empty(q))
  BY DEF Full, Empty, Queue!Full, Queue!Empty
<1>3. Contents(q) \in Seq(Slots) /\ Len(Contents(q)) = Distance(q)
  <2>1. Queue!Contents(q) \in Seq(Slots) /\ Len(Queue!Contents(q)) = Queue!Distance(q)
    BY Queue!ContentsSeq
  <2> QED BY <1>1, <2>1
<1>4. q.capacity \in Nat \ {0} /\ Distance(q) \in Nat
  <2>1. q.capacity \in Nat \ {0} /\ Queue!Distance(q) \in 0..(q.capacity - 1)
    BY Queue!Indices
  <2> QED BY <1>1, <2>1
<1>5. (Full(q) <=> Distance(q) = q.capacity - 1) /\ (Empty(q) <=> Contents(q) = <<>>)
  <2>1. /\ Queue!Full(q) <=> Queue!Distance(q) = q.capacity - 1
        /\ Queue!Empty(q) <=> Queue!Contents(q) = <<>>
    BY Queue!EmptyAndFull
  <2> QED BY <1>1, <1>2, <2>1
<1>6. IsFiniteSet(InQueue(q)) /\ Cardinality(InQueue(q)) = Distance(q)
  BY <1>3, DistinctCardinality DEF InQueue
<1>7. InQueue(q) \subseteq Slots
  BY <1>3, LenProperties, ElementOfSeq DEF InQueue, Elements
<1> QED BY <1>3, <1>4, <1>5, <1>6, <1>7

\* Push adds a slot that is not in the queue yet
LEMMA PushedSlots ==
  ASSUME NEW q, PoolQueue(q), ~Full(q), NEW s \in Slots, s \notin InQueue(q)
  PROVE  /\ PoolQueue(Pushed(q, s))
         /\ InQueue(Pushed(q, s)) = InQueue(q) \cup {s}
         /\ Pushed(q, s).capacity = q.capacity
<1>1. ~Queue!Full(q)
  BY DEF Full, Queue!Full
<1>2. Queue!GoodQueue(q)
  BY DEF PoolQueue
<1>3. /\ Queue!GoodQueue(Queue!Pushed(q, s)) /\ Queue!Pushed(q, s).capacity = q.capacity
      /\ Queue!Contents(Queue!Pushed(q, s)) = Append(Queue!Contents(q), s)
  BY <1>1, <1>2, ZeroIsNoSlot, Queue!PushGood
<1>4. Queue!Pushed(q, s) = Pushed(q, s)
  BY DEF Pushed, Queue!Pushed
<1>5. \A x : Queue!Contents(x) = Contents(x)
  BY DEF Contents, Distance, ItemAt, Queue!Contents, Queue!Distance, Queue!ItemAt
<1>6. Contents(Pushed(q, s)) = Append(Contents(q), s)
  BY <1>3, <1>4, <1>5
<1>7. /\ Distinct(Append(Contents(q), s))
      /\ Elements(Append(Contents(q), s)) = Elements(Contents(q)) \cup {s}
  BY QueueElements, AppendDistinct DEF PoolQueue, InQueue
<1> QED BY <1>3, <1>4, <1>6, <1>7 DEF PoolQueue, InQueue

\* Pop takes the front slot
LEMMA PoppedSlots ==
  ASSUME NEW q, PoolQueue(q), ~Empty(q), NEW s, s = q.data[q.front]
  PROVE  /\ PoolQueue(Popped(q))
         /\ s \in InQueue(q) /\ InQueue(Popped(q)) = InQueue(q) \ {s}
         /\ Popped(q).capacity = q.capacity
<1>1. ~Queue!Empty(q)
  BY DEF Empty, Queue!Empty
<1>2. Queue!GoodQueue(q)
  BY DEF PoolQueue
<1>3. /\ Queue!GoodQueue(Queue!Popped(q)) /\ Queue!Popped(q).capacity = q.capacity
      /\ Queue!Contents(q) # <<>>
      /\ Queue!Contents(Queue!Popped(q)) = Tail(Queue!Contents(q))
  BY <1>1, <1>2, ZeroIsNoSlot, Queue!PopGood
<1>4. Queue!Popped(q) = Popped(q)
  BY DEF Popped, Queue!Popped
<1>5. \A x : Queue!Contents(x) = Contents(x)
  BY DEF Contents, Distance, ItemAt, Queue!Contents, Queue!Distance, Queue!ItemAt
<1>6. Contents(Popped(q)) = Tail(Contents(q)) /\ Contents(q) # <<>>
  BY <1>3, <1>4, <1>5
<1>7. /\ Distinct(Tail(Contents(q))) /\ Contents(q)[1] \in Elements(Contents(q))
      /\ Elements(Tail(Contents(q))) = Elements(Contents(q)) \ {Contents(q)[1]}
  BY <1>6, QueueElements, TailDistinct DEF PoolQueue
<1>8. Contents(q)[1] = s
  <2>1. /\ q.capacity \in Nat \ {0} /\ q.front \in 0..(q.capacity - 1)
    BY <1>2, ZeroIsNoSlot, Queue!Indices
  <2>2. Distance(q) \in Nat \ {0}
    BY <1>6, QueueElements, EmptySeq
  <2>3. Contents(q)[1] = ItemAt(q, 0)
    BY <2>2 DEF Contents
  <2>4. (q.front + 0) % q.capacity = q.front
    BY <2>1
  <2> QED BY <2>3, <2>4 DEF ItemAt
<1> QED BY <1>3, <1>4, <1>6, <1>7, <1>8 DEF PoolQueue, InQueue

\* A queue that slots were pushed into holds those slots
LEMMA FilledSlots ==
  ASSUME NEW n \in Nat, NEW c \in Seq(Slots), Len(c) <= n, Distinct(c)
  PROVE  /\ PoolQueue(Filled(n, c))
         /\ InQueue(Filled(n, c)) = Elements(c)
         /\ Filled(n, c).capacity = n + 1
<1> DEFINE q == Filled(n, c)
<1>1. Len(c) \in Nat /\ DOMAIN c = 1..Len(c) /\ c \in [1..Len(c) -> Slots]
  BY LenProperties
<1>2. Len(c) % (n + 1) = Len(c)
  <2> DEFINE m == Len(c)
  <2>1. m \in 0..n
    BY <1>1
  <2> HIDE DEF m
  <2>2. m % (n + 1) = m
    BY <2>1
  <2> QED BY <2>2 DEF m
<1>3. /\ q.capacity = n + 1 /\ q.num = Len(c) /\ q.front = 0 /\ q.rear = Len(c)
      /\ q.data = [i \in 0..n |-> IF i < Len(c) THEN c[i + 1] ELSE Zero]
  BY <1>2 DEF Filled
<1> HIDE DEF q
<1>4. Queue!Distance(q) = Len(c)
  BY <1>1, <1>3 DEF Queue!Distance
<1>5. ASSUME NEW i \in 0..n, i < Len(c) PROVE q.data[i] = c[i + 1] /\ c[i + 1] \in Slots
  <2>1. i + 1 \in 1..Len(c)
    BY <1>1, <1>5
  <2> QED BY <1>1, <1>3, <1>5, <2>1
<1>6. \A i \in 0..n : q.data[i] \in Slots \cup {Zero}
  <2> SUFFICES ASSUME NEW i \in 0..n PROVE q.data[i] \in Slots \cup {Zero}
    OBVIOUS
  <2>1. CASE i < Len(c)
    BY <1>5, <2>1
  <2>2. CASE ~(i < Len(c))
    BY <1>3, <2>2
  <2> QED BY <2>1, <2>2
<1>7. Queue!GoodQueue(q)
  <2>1. q.capacity - 1 = n /\ q.capacity \in Nat \ {0}
    BY <1>3
  <2>2. Queue!QueueOK(q)
    <3>1. q.front \in 0..(q.capacity - 1) /\ q.rear \in 0..(q.capacity - 1) /\ q.num \in Nat
      BY <1>1, <1>3
    <3>2. DOMAIN q.data = 0..n
      BY <1>3
    <3> QED BY <1>6, <2>1, <3>1, <3>2 DEF Queue!QueueOK
  <2>3. q.data \in [0..n -> Slots \cup {Zero}]
    BY <1>3, <1>6
  <2>4. ASSUME NEW i \in 0..n, Queue!InWindow(q, i) PROVE q.data[i] \in Slots
    <3>1. i < Len(c)
      BY <1>1, <1>3, <2>4 DEF Queue!InWindow
    <3> QED BY <1>5, <3>1
  <2> QED BY <1>3, <1>4, <2>1, <2>2, <2>3, <2>4 DEF Queue!GoodQueue
<1>8. Contents(q) = c
  <2>1. Distance(q) = Len(c)
    BY <1>1, <1>3 DEF Distance
  <2>2. ASSUME NEW k \in 1..Len(c) PROVE ItemAt(q, k - 1) = c[k]
    <3>1. k - 1 \in 0..n /\ k - 1 < Len(c) /\ (k - 1) + 1 = k
      BY <1>1
    <3>2. (0 + (k - 1)) % (n + 1) = k - 1
      BY <3>1
    <3>3. ItemAt(q, k - 1) = q.data[k - 1]
      BY <1>3, <3>2 DEF ItemAt
    <3> QED BY <1>5, <3>1, <3>3
  <2>3. Contents(q) = [k \in 1..Len(c) |-> c[k]]
    BY <2>1, <2>2 DEF Contents
  <2> QED BY <1>1, <2>3
<1> QED BY <1>3, <1>7, <1>8 DEF PoolQueue, InQueue, q

-----------------------------------------------------------------------------
(***************************************************************************)
(* The inductive invariant.                                                *)
(***************************************************************************)

\* The slots that deleters are about to put back
Args == {arg[t] : t \in Returning}

\* The queue has room for every slot there is
QueueInv ==
  /\ total \in Nat /\ total <= MaxSlots
  /\ PoolQueue(que)
  /\ que.capacity = total + 1

\* Every slot has one place
PlacesInv ==
  /\ InQueue(que) \cup held \cup Args \cup lost = 1..total
  /\ InQueue(que) \cap held = {} /\ InQueue(que) \cap Args = {} /\ InQueue(que) \cap lost = {}
  /\ held \cap Args = {} /\ held \cap lost = {} /\ Args \cap lost = {}
  /\ \A t, u \in Returning : arg[t] = arg[u] => t = u

\* The thread that has mtx_ wipes a slot that is in the queue
ThreadInv ==
  /\ pc \in [Threads -> {"idle", "destroyed", "pushed"}]
  /\ arg \in [Threads -> Slots \cup {None}]
  /\ mtx \in Threads \cup {None}
  /\ \A t \in Threads : pc[t] = "pushed" <=> mtx = t
  /\ \A t \in Threads : pc[t] = "pushed" => arg[t] \in InQueue(que)

ObjectInv ==
  /\ slot \in [Slots -> {"raw", "object", "dead"}]
  /\ \A s \in held : slot[s] = "object"

PoolInv == QueueInv /\ PlacesInv /\ ThreadInv /\ ObjectInv

LEMMA InitInv == Init => PoolInv
<1> SUFFICES ASSUME Init PROVE PoolInv
  OBVIOUS
<1> DEFINE c == [i \in 1..FirstSize |-> i]
<1>1. c \in Seq(Slots) /\ Len(c) = FirstSize /\ DOMAIN c = 1..FirstSize
  <2>1. c \in [1..FirstSize -> Slots]
    BY SizesAssumption DEF Slots
  <2>2. c \in Seq(Slots)
    BY <2>1, SizesAssumption, SeqDef
  <2> QED BY <2>1, <2>2, SizesAssumption, LenProperties
<1>2. Distinct(c) /\ Elements(c) = 1..FirstSize
  BY <1>1 DEF Distinct, Elements
<1>3. que = Filled(FirstSize, c)
  BY DEF Init
<1> HIDE DEF c
<1>4. PoolQueue(que) /\ InQueue(que) = 1..FirstSize /\ que.capacity = FirstSize + 1
  BY <1>1, <1>2, <1>3, SizesAssumption, FilledSlots
<1>5. Returning = {} /\ Args = {}
  BY DEF Init, Returning, Args
<1>6. QueueInv
  BY <1>4, SizesAssumption DEF Init, QueueInv
<1>7. PlacesInv
  BY <1>4, <1>5 DEF Init, PlacesInv
<1>8. ThreadInv
  BY NoneAssumption DEF Init, ThreadInv
<1>9. ObjectInv
  BY DEF Init, ObjectInv
<1> QED BY <1>6, <1>7, <1>8, <1>9 DEF PoolInv

\* The queue Construct takes a slot from: the old one, or one with a new block
ConstructQue == IF Empty(que) THEN Grown(que, total) ELSE que
ConstructTotal == IF Empty(que) THEN total + que.capacity - 1 ELSE total

LEMMA ConstructRoom ==
  ASSUME PoolInv, Empty(que) => 2 * total <= MaxSlots
  PROVE  /\ ConstructTotal \in Nat /\ ConstructTotal <= MaxSlots
         /\ PoolQueue(ConstructQue) /\ ConstructQue.capacity = ConstructTotal + 1
         /\ InQueue(ConstructQue) \cup held \cup Args \cup lost = 1..ConstructTotal
         /\ InQueue(ConstructQue) \cap (held \cup Args \cup lost) = {}
<1>1. CASE ~Empty(que)
  BY <1>1 DEF PoolInv, QueueInv, PlacesInv, ConstructQue, ConstructTotal
<1>2. CASE Empty(que)
  <2> DEFINE c == [i \in 1..total |-> total + i]
  <2>1. total \in Nat /\ 2 * total <= MaxSlots /\ MaxSlots \in Nat /\ que.capacity = total + 1
    BY <1>2, SizesAssumption DEF PoolInv, QueueInv
  <2>2. c \in Seq(Slots) /\ Len(c) = total /\ DOMAIN c = 1..total
    <3>1. c \in [1..total -> Slots]
      BY <2>1 DEF Slots
    <3>2. c \in Seq(Slots)
      BY <2>1, <3>1, SeqDef
    <3> QED BY <2>1, <3>1, <3>2, LenProperties
  <2>3. Distinct(c)
    BY <2>1, <2>2 DEF Distinct
  <2>4. Elements(c) = (total + 1)..(2 * total)
    <3>1. Elements(c) = {total + i : i \in 1..total}
      BY <2>2 DEF Elements
    <3>2. ASSUME NEW x \in (total + 1)..(2 * total) PROVE x \in {total + i : i \in 1..total}
      <4>1. x - total \in 1..total /\ total + (x - total) = x
        BY <2>1
      <4> QED BY <4>1
    <3>3. \A i \in 1..total : total + i \in (total + 1)..(2 * total)
      BY <2>1
    <3> QED BY <3>1, <3>2, <3>3
  <2>5. Contents(que) = <<>>
    BY <1>2, QueueElements DEF PoolInv, QueueInv
  <2>6. InQueue(que) = {}
    BY <2>5 DEF InQueue, Elements
  <2>7. que.capacity - 1 = total /\ 2 * (que.capacity - 1) = 2 * total
    BY <2>1
  <2>8. Grown(que, total) = Filled(2 * total, c)
    <3>1. Grown(que, total) = Filled(2 * total, c \o <<>>)
      BY <2>5, <2>7 DEF Grown
    <3>2. c \o <<>> = c
      BY <2>2, ConcatEmptySeq
    <3> QED BY <3>1, <3>2
  <2> HIDE DEF c
  <2>9. /\ PoolQueue(Grown(que, total)) /\ Grown(que, total).capacity = 2 * total + 1
        /\ InQueue(Grown(que, total)) = (total + 1)..(2 * total)
    <3>1. 2 * total \in Nat /\ Len(c) <= 2 * total
      BY <2>1, <2>2
    <3> QED BY <2>2, <2>3, <2>4, <2>8, <3>1, FilledSlots
  <2>10. ConstructQue = Grown(que, total) /\ ConstructTotal = 2 * total
    BY <1>2, <2>1 DEF ConstructQue, ConstructTotal
  <2>11. held \cup Args \cup lost = 1..total
    BY <2>6 DEF PoolInv, PlacesInv
  <2>12. ((total + 1)..(2 * total)) \cup (1..total) = 1..(2 * total)
         /\ ((total + 1)..(2 * total)) \cap (1..total) = {}
    BY <2>1
  <2>13. 2 * total \in Nat
    BY <2>1
  <2> QED BY <2>1, <2>9, <2>10, <2>11, <2>12, <2>13
<1> QED BY <1>1, <1>2

LEMMA NextInv == PoolInv /\ [Next]_vars => PoolInv'
<1> SUFFICES ASSUME PoolInv, [Next]_vars PROVE PoolInv'
  OBVIOUS
<1>1. ASSUME NEW t \in Threads, Construct(t) PROVE PoolInv'
  <2> DEFINE q == ConstructQue
             n == ConstructTotal
             s == q.data[q.front]
  <2>1. /\ pc[t] = "idle" /\ mtx = None
        /\ Empty(que) => 2 * total <= MaxSlots
        /\ ~Empty(q) /\ que' = Popped(q) /\ total' = n
        /\ UNCHANGED <<pc, arg, mtx>>
        /\ \/ /\ slot' = [slot EXCEPT ![s] = "object"] /\ held' = held \cup {s}
              /\ UNCHANGED lost
           \/ lost' = lost \cup {s} /\ UNCHANGED <<slot, held>>
    BY <1>1 DEF Construct, ConstructQue, ConstructTotal
  <2>2. /\ n \in Nat /\ n <= MaxSlots /\ PoolQueue(q) /\ q.capacity = n + 1
        /\ InQueue(q) \cup held \cup Args \cup lost = 1..n
        /\ InQueue(q) \cap (held \cup Args \cup lost) = {}
    BY <2>1, ConstructRoom
  <2> HIDE DEF q, n
  <2>3. /\ PoolQueue(que') /\ que'.capacity = q.capacity
        /\ s \in InQueue(q) /\ InQueue(que') = InQueue(q) \ {s}
    BY <2>1, <2>2, PoppedSlots
  <2>4. s \in Slots
    BY <2>2, <2>3, QueueElements
  <2> HIDE DEF s
  <2>5. QueueInv'
    BY <2>1, <2>2, <2>3 DEF QueueInv
  <2>6. Returning' = Returning /\ Args' = Args
    BY <2>1 DEF Returning, Args
  <2>7. /\ held \cap Args = {} /\ held \cap lost = {} /\ Args \cap lost = {}
        /\ \A t1, t2 \in Returning : arg[t1] = arg[t2] => t1 = t2
    BY DEF PoolInv, PlacesInv
  <2>8. InQueue(que)' = InQueue(que')
    BY DEF InQueue, Contents, Distance, ItemAt
  <2>9. PlacesInv'
    <3>1. \A t1, t2 \in Returning' : arg'[t1] = arg'[t2] => t1 = t2
      BY <2>1, <2>6, <2>7
    <3>2. CASE held' = held \cup {s} /\ lost' = lost
      BY <2>1, <2>2, <2>3, <2>6, <2>7, <2>8, <3>1, <3>2 DEF PlacesInv
    <3>3. CASE lost' = lost \cup {s} /\ held' = held
      BY <2>1, <2>2, <2>3, <2>6, <2>7, <2>8, <3>1, <3>3 DEF PlacesInv
    <3> QED BY <2>1, <3>2, <3>3
  <2>10. ThreadInv'
    <3>1. \A t1 \in Threads : pc[t1] # "pushed"
      BY <2>1, NoneAssumption DEF PoolInv, ThreadInv
    <3> QED BY <2>1, <3>1 DEF PoolInv, ThreadInv
  <2>11. ObjectInv'
    <3>1. /\ slot \in [Slots -> {"raw", "object", "dead"}]
          /\ \A u \in held : slot[u] = "object"
      BY DEF PoolInv, ObjectInv
    <3>2. CASE slot' = [slot EXCEPT ![s] = "object"] /\ held' = held \cup {s}
      <4>1. slot' \in [Slots -> {"raw", "object", "dead"}]
        BY <3>1, <3>2
      <4>2. ASSUME NEW u \in held' PROVE slot'[u] = "object"
        BY <2>4, <3>1, <3>2, <4>2
      <4> QED BY <4>1, <4>2 DEF ObjectInv
    <3>3. CASE slot' = slot /\ held' = held
      BY <3>1, <3>3 DEF ObjectInv
    <3> QED BY <2>1, <3>2, <3>3
  <2> QED BY <2>5, <2>9, <2>10, <2>11 DEF PoolInv
<1>2. ASSUME NEW t \in Threads, NEW s \in Slots, Destruct(t, s) PROVE PoolInv'
  <2>1. /\ pc[t] = "idle" /\ s \in held /\ held' = held \ {s}
        /\ slot' = [slot EXCEPT ![s] = "dead"]
        /\ pc' = [pc EXCEPT ![t] = "destroyed"] /\ arg' = [arg EXCEPT ![t] = s]
        /\ UNCHANGED <<que, total, lost, mtx>>
    BY <1>2 DEF Destruct
  <2>2. QueueInv'
    BY <2>1 DEF PoolInv, QueueInv
  <2>3. Returning' = Returning \cup {t} /\ t \notin Returning
    BY <2>1 DEF PoolInv, ThreadInv, Returning
  <2>4. arg'[t] = s /\ \A u \in Returning : arg'[u] = arg[u]
    BY <2>1, <2>3 DEF PoolInv, ThreadInv, Returning
  <2>5. Args' = Args \cup {s}
    BY <2>3, <2>4 DEF Args
  <2>6. InQueue(que)' = InQueue(que)
    BY <2>1
  <2>7. /\ InQueue(que) \cup held \cup Args \cup lost = 1..total
        /\ InQueue(que) \cap held = {} /\ InQueue(que) \cap Args = {}
        /\ InQueue(que) \cap lost = {}
        /\ held \cap Args = {} /\ held \cap lost = {} /\ Args \cap lost = {}
        /\ \A t1, t2 \in Returning : arg[t1] = arg[t2] => t1 = t2
    BY DEF PoolInv, PlacesInv
  <2>8. \A t1, t2 \in Returning' : arg'[t1] = arg'[t2] => t1 = t2
    <3>1. \A u \in Returning : arg[u] # s
      BY <2>1, <2>7 DEF Args
    <3> QED BY <2>3, <2>4, <2>7, <3>1
  <2>9. PlacesInv'
    BY <2>1, <2>5, <2>6, <2>7, <2>8 DEF PlacesInv
  <2>10. ThreadInv'
    <3>1. mtx # t
      BY <2>1 DEF PoolInv, ThreadInv
    <3> QED BY <2>1, <2>6, <3>1 DEF PoolInv, ThreadInv
  <2>11. ObjectInv'
    BY <2>1 DEF PoolInv, ObjectInv
  <2> QED BY <2>2, <2>9, <2>10, <2>11 DEF PoolInv
<1>3. ASSUME NEW t \in Threads, GiveBack(t) PROVE PoolInv'
  <2> DEFINE s == arg[t]
  <2>1. /\ pc[t] = "destroyed" /\ mtx = None /\ ~Full(que) /\ que' = Pushed(que, s)
        /\ mtx' = t /\ pc' = [pc EXCEPT ![t] = "pushed"]
        /\ UNCHANGED <<total, slot, held, lost, arg>>
    BY <1>3 DEF GiveBack
  <2>2. /\ InQueue(que) \cup held \cup Args \cup lost = 1..total
        /\ InQueue(que) \cap held = {} /\ InQueue(que) \cap Args = {}
        /\ InQueue(que) \cap lost = {}
        /\ held \cap Args = {} /\ held \cap lost = {} /\ Args \cap lost = {}
        /\ \A t1, t2 \in Returning : arg[t1] = arg[t2] => t1 = t2
    BY DEF PoolInv, PlacesInv
  <2>3. t \in Returning /\ s \in Args
    BY <2>1 DEF Returning, Args
  <2>4. s \in Slots
    BY <2>2, <2>3, SizesAssumption DEF PoolInv, QueueInv, Slots
  <2>5. s \notin InQueue(que)
    BY <2>2, <2>3
  <2>6. /\ PoolQueue(que') /\ que'.capacity = que.capacity
        /\ InQueue(que') = InQueue(que) \cup {s}
    BY <2>1, <2>4, <2>5, PushedSlots DEF PoolInv, QueueInv
  <2>7. QueueInv'
    BY <2>1, <2>6 DEF PoolInv, QueueInv
  <2>8. Returning' = Returning \ {t}
    BY <2>1 DEF PoolInv, ThreadInv, Returning
  <2>9. Args' = Args \ {s}
    BY <2>1, <2>2, <2>3, <2>8 DEF Args
  <2>10. InQueue(que)' = InQueue(que) \cup {s}
    BY <2>6
  <2>11. \A t1, t2 \in Returning' : arg'[t1] = arg'[t2] => t1 = t2
    BY <2>1, <2>2, <2>8
  <2> HIDE DEF s
  <2>12. PlacesInv'
    BY <2>1, <2>2, <2>3, <2>9, <2>10, <2>11 DEF PlacesInv
  <2>13. ThreadInv'
    <3>1. \A u \in Threads : pc[u] # "pushed"
      BY <2>1, NoneAssumption DEF PoolInv, ThreadInv
    <3>2. arg'[t] \in InQueue(que)'
      BY <2>1, <2>10 DEF s
    <3> QED BY <2>1, <3>1, <3>2 DEF PoolInv, ThreadInv
  <2>14. ObjectInv'
    BY <2>1 DEF PoolInv, ObjectInv
  <2> QED BY <2>7, <2>12, <2>13, <2>14 DEF PoolInv
<1>4. ASSUME NEW t \in Threads, Wipe(t) PROVE PoolInv'
  <2>1. /\ pc[t] = "pushed" /\ slot' = [slot EXCEPT ![arg[t]] = "raw"]
        /\ mtx' = IF mtx = t THEN None ELSE mtx
        /\ pc' = [pc EXCEPT ![t] = "idle"] /\ arg' = [arg EXCEPT ![t] = None]
        /\ UNCHANGED <<que, total, held, lost>>
    BY <1>4 DEF Wipe
  <2>2. mtx = t /\ mtx' = None /\ arg[t] \in InQueue(que)
    BY <2>1 DEF PoolInv, ThreadInv
  <2>3. QueueInv'
    BY <2>1 DEF PoolInv, QueueInv
  <2>4. Returning' = Returning /\ t \notin Returning
    BY <2>1 DEF PoolInv, ThreadInv, Returning
  <2>5. \A u \in Returning : arg'[u] = arg[u]
    BY <2>1, <2>4 DEF PoolInv, ThreadInv, Returning
  <2>6. Args' = Args
    BY <2>4, <2>5 DEF Args
  <2>7. InQueue(que)' = InQueue(que)
    BY <2>1
  <2>8. PlacesInv'
    BY <2>1, <2>4, <2>5, <2>6, <2>7 DEF PoolInv, PlacesInv
  <2>9. ThreadInv'
    BY <2>1, <2>2, <2>7, NoneAssumption DEF PoolInv, ThreadInv
  <2>10. ObjectInv'
    <3>1. arg[t] \notin held
      BY <2>2 DEF PoolInv, PlacesInv
    <3>2. /\ slot \in [Slots -> {"raw", "object", "dead"}]
          /\ \A u \in held : slot[u] = "object"
      BY DEF PoolInv, ObjectInv
    <3>3. slot' = [slot EXCEPT ![arg[t]] = "raw"] /\ held' = held
      BY <2>1
    <3>4. slot' \in [Slots -> {"raw", "object", "dead"}]
      BY <3>2, <3>3
    <3>5. ASSUME NEW u \in held PROVE slot'[u] = "object"
      <4>1. u \in Slots /\ u # arg[t]
        BY <3>1, SizesAssumption DEF PoolInv, QueueInv, PlacesInv, Slots
      <4> QED BY <3>2, <3>3, <4>1
    <3> QED BY <3>3, <3>4, <3>5 DEF ObjectInv
  <2> QED BY <2>3, <2>8, <2>9, <2>10 DEF PoolInv
<1>5. CASE UNCHANGED vars
  <2>1. InQueue(que)' = InQueue(que) /\ Returning' = Returning /\ Args' = Args
    BY <1>5 DEF vars, Returning, Args
  <2> QED BY <1>5, <2>1 DEF vars, PoolInv, QueueInv, PlacesInv, ThreadInv, ObjectInv
<1> QED BY <1>1, <1>2, <1>3, <1>4, <1>5 DEF Next

\* The inductive invariant, from which the theorems below follow
THEOREM Invariance == Spec => []PoolInv
<1> QED BY InitInv, NextInv, PTL DEF Spec

-----------------------------------------------------------------------------
(***************************************************************************)
(* What the pool promises.                                                 *)
(***************************************************************************)

LEMMA SetsFinite ==
  ASSUME PoolInv
  PROVE  /\ IsFiniteSet(held) /\ IsFiniteSet(lost) /\ IsFiniteSet(Args)
         /\ IsFiniteSet(1..total) /\ Cardinality(1..total) = total
         /\ Cardinality(Returning) = Cardinality(Args)
<1>1. total \in Nat
  BY DEF PoolInv, QueueInv
<1>2. IsFiniteSet(1..total) /\ Cardinality(1..total) = total
  BY <1>1, FS_Interval
<1>3. held \in SUBSET (1..total) /\ lost \in SUBSET (1..total) /\ Args \in SUBSET (1..total)
  BY DEF PoolInv, PlacesInv
<1>4. IsFiniteSet(held) /\ IsFiniteSet(lost) /\ IsFiniteSet(Args)
  BY <1>2, <1>3, FS_Subset
<1>5. Cardinality(Returning) = Cardinality(Args)
  <2> DEFINE f == [t \in Returning |-> arg[t]]
  <2>1. f \in [Returning -> Args]
    BY DEF Args
  <2>2. f \in Injection(Returning, Args)
    BY <2>1 DEF Injection, IsInjective, PoolInv, PlacesInv
  <2>3. f \in Surjection(Returning, Args)
    BY <2>1 DEF Surjection, Args
  <2> QED BY <1>4, <2>2, <2>3, FS_Injection
<1> QED BY <1>2, <1>4, <1>5

\* Two sets without a common member
LEMMA DisjointUnion ==
  ASSUME NEW S, IsFiniteSet(S), NEW T, IsFiniteSet(T), S \cap T = {}
  PROVE  /\ IsFiniteSet(S \cup T)
         /\ Cardinality(S \cup T) = Cardinality(S) + Cardinality(T)
         /\ Cardinality(S) \in Nat /\ Cardinality(T) \in Nat
<1>1. Cardinality(S) \in Nat /\ Cardinality(T) \in Nat
  BY FS_CardinalityType
<1>2. IsFiniteSet(S \cup T)
      /\ Cardinality(S \cup T) = Cardinality(S) + Cardinality(T) - Cardinality(S \cap T)
  BY FS_Union
<1>3. Cardinality(S \cap T) = 0
  BY FS_EmptySet
<1> QED BY <1>1, <1>2, <1>3

\* No slot is handed out twice and none gets lost but to a constructor that threw
\* (instance_pool.hpp:37, 51 and 89), for any number of threads and slots
THEOREM EverySlotAccounted == Spec => []SlotsAccounted
<1>1. ASSUME PoolInv PROVE SlotsAccounted
  <2>1. PoolQueue(que) /\ total \in Nat
    BY <1>1 DEF PoolInv, QueueInv
  <2>2. /\ InQueue(que) \cup held \cup Args \cup lost = 1..total
        /\ InQueue(que) \cap held = {} /\ (InQueue(que) \cup held) \cap Args = {}
        /\ (InQueue(que) \cup held \cup Args) \cap lost = {}
    BY <1>1 DEF PoolInv, PlacesInv
  <2>3. IsFiniteSet(InQueue(que)) /\ Cardinality(InQueue(que)) = Distance(que)
    BY <2>1, QueueElements
  <2>4. /\ IsFiniteSet(held) /\ IsFiniteSet(lost) /\ IsFiniteSet(Args)
        /\ Cardinality(1..total) = total /\ Cardinality(Returning) = Cardinality(Args)
    BY <1>1, SetsFinite
  <2>5. /\ IsFiniteSet(InQueue(que) \cup held)
        /\ Cardinality(InQueue(que) \cup held) = Distance(que) + Cardinality(held)
        /\ Distance(que) \in Nat /\ Cardinality(held) \in Nat
    BY <2>2, <2>3, <2>4, DisjointUnion
  <2>6. /\ IsFiniteSet(InQueue(que) \cup held \cup Args)
        /\ Cardinality(InQueue(que) \cup held \cup Args) =
             Distance(que) + Cardinality(held) + Cardinality(Args)
        /\ Cardinality(Args) \in Nat
    BY <2>2, <2>4, <2>5, DisjointUnion
  <2>7. /\ Cardinality(InQueue(que) \cup held \cup Args \cup lost) =
             Distance(que) + Cardinality(held) + Cardinality(Args) + Cardinality(lost)
    BY <2>2, <2>4, <2>6, DisjointUnion
  <2>8. Distance(que) + Cardinality(held) + Cardinality(Returning) + Cardinality(lost) = total
    BY <2>2, <2>4, <2>7
  <2> QED BY <2>2, <2>8 DEF SlotsAccounted, InQueue, Elements, Args
<1> QED BY <1>1, Invariance, PTL

\* Push in a deleter never throws out_of_range (circular_queue.hpp:135), for any number of
\* threads and slots: a full queue would hold the slot the deleter has
THEOREM RoomToGiveBack == Spec => []GiveBackHasRoom
<1>1. ASSUME PoolInv PROVE GiveBackHasRoom
  <2> SUFFICES ASSUME NEW t \in Threads, pc[t] = "destroyed", Full(que) PROVE FALSE
    BY DEF GiveBackHasRoom
  <2>1. PoolQueue(que) /\ total \in Nat /\ que.capacity = total + 1
    BY <1>1 DEF PoolInv, QueueInv
  <2>2. IsFiniteSet(InQueue(que)) /\ Cardinality(InQueue(que)) = total
    BY <2>1, QueueElements
  <2>3. InQueue(que) \in SUBSET (1..total) /\ InQueue(que) \cap Args = {}
        /\ Args \subseteq 1..total
    BY <1>1 DEF PoolInv, PlacesInv
  <2>4. InQueue(que) = 1..total
    BY <1>1, <2>2, <2>3, SetsFinite, FS_Subset
  <2>5. arg[t] \in Args
    BY DEF Args, Returning
  <2> QED BY <2>3, <2>4, <2>5
<1> QED BY <1>1, Invariance, PTL

\* The memset of a deleter comes after the slot is in the queue again, but under the same
\* mtx_ as the push (instance_pool.hpp:95-97): it never wipes an object built there since,
\* whatever the threads do
THEOREM ObjectsStayIntact == Spec => []ObjectsIntact
<1>1. PoolInv => ObjectsIntact
  BY DEF PoolInv, ObjectInv, ObjectsIntact
<1> QED BY <1>1, Invariance, PTL
=============================================================================
