------------------------ MODULE CircularQueueProofs ------------------------
(***************************************************************************)
(* Proofs about CircularQueue for any number of queues, any items and any  *)
(* capacities: the objects stay well formed, Size() agrees with the        *)
(* indices, and the class implements BoundedFifo.                          *)
(***************************************************************************)
EXTENDS CircularQueue, SequenceTheorems, TLAPS

\* Indices wrap at most once
LEMMA Wrap ==
  ASSUME NEW n \in Nat \ {0}, NEW i \in 0..(n - 1), NEW k \in 0..n
  PROVE  (i + k) % n = IF i + k < n THEN i + k ELSE i + k - n
<1>1. CASE i + k < n
  BY <1>1
<1>2. CASE i + k >= n
  <2>1. PICK y \in 0..(n - 1) : i + k = n + y
    BY <1>2
  <2>2. (n + y) % n = y
    OBVIOUS
  <2> QED BY <2>1, <2>2
<1> QED BY <1>1, <1>2

LEMMA NextSlot ==
  ASSUME NEW n \in Nat \ {0}, NEW i \in 0..(n - 1)
  PROVE  (i + 1) % n = IF i + 1 < n THEN i + 1 ELSE 0
<1>1. CASE i + 1 < n
  BY <1>1
<1>2. CASE i + 1 = n
  BY <1>2
<1> QED BY <1>1, <1>2

-----------------------------------------------------------------------------
(***************************************************************************)
(* Objects: what the operations of the class return.                       *)
(***************************************************************************)

\* A well-formed object whose window holds items and whose size is right
GoodQueue(q) ==
  /\ QueueOK(q)
  /\ q.data \in [0..(q.capacity - 1) -> Items \cup {Zero}]
  /\ q.num = Distance(q)
  /\ \A i \in 0..(q.capacity - 1) : InWindow(q, i) => q.data[i] \in Items

\* The indices of a well-formed object
LEMMA Indices ==
  ASSUME NEW q, GoodQueue(q)
  PROVE  /\ q.capacity \in Nat \ {0}
         /\ q.front \in 0..(q.capacity - 1) /\ q.rear \in 0..(q.capacity - 1)
         /\ Distance(q) \in 0..(q.capacity - 1)
         /\ (q.front + Distance(q)) % q.capacity = q.rear
<1>1. /\ q.capacity \in Nat \ {0}
      /\ q.front \in 0..(q.capacity - 1) /\ q.rear \in 0..(q.capacity - 1)
  BY DEF GoodQueue, QueueOK
<1>2. Distance(q) \in 0..(q.capacity - 1)
  BY <1>1 DEF Distance
<1> DEFINE d == Distance(q)
           c == q.capacity
           f == q.front
<1>d. c \in Nat \ {0} /\ f \in 0..(c - 1) /\ d \in 0..c
  BY <1>1, <1>2
<1> HIDE DEF d, c, f
<1>w. (f + d) % c = IF f + d < c THEN f + d ELSE f + d - c
  BY <1>d, Wrap
<1>3. (q.front + Distance(q)) % q.capacity =
        IF q.front + Distance(q) < q.capacity THEN q.front + Distance(q)
                                              ELSE q.front + Distance(q) - q.capacity
  BY <1>w DEF d, c, f
<1> QED BY <1>1, <1>2, <1>3 DEF Distance

\* The window in terms of offsets from the front
LEMMA WindowOffsets ==
  ASSUME NEW q, GoodQueue(q), NEW k \in 0..(Distance(q) - 1)
  PROVE  /\ (q.front + k) % q.capacity \in 0..(q.capacity - 1)
         /\ (q.front + k) % q.capacity =
              IF q.front + k < q.capacity THEN q.front + k ELSE q.front + k - q.capacity
         /\ InWindow(q, (q.front + k) % q.capacity)
         /\ ItemAt(q, k) \in Items
<1>0. /\ q.capacity \in Nat \ {0}
      /\ q.front \in 0..(q.capacity - 1) /\ q.rear \in 0..(q.capacity - 1)
      /\ k \in 0..q.capacity
  BY Indices
<1>1. (q.front + k) % q.capacity =
        IF q.front + k < q.capacity THEN q.front + k ELSE q.front + k - q.capacity
  BY <1>0, Wrap
<1>2. /\ (q.front + k) % q.capacity \in 0..(q.capacity - 1)
      /\ InWindow(q, (q.front + k) % q.capacity)
  BY <1>0, <1>1 DEF Distance, InWindow
<1> QED BY <1>1, <1>2 DEF GoodQueue, ItemAt

\* The items are a sequence as long as the window
LEMMA ContentsSeq ==
  ASSUME NEW q, GoodQueue(q)
  PROVE  /\ Contents(q) \in Seq(Items)
         /\ Len(Contents(q)) = Distance(q)
         /\ \A k \in 1..Distance(q) : Contents(q)[k] = ItemAt(q, k - 1)
<1>1. Distance(q) \in Nat
  BY Indices
<1>2. \A k \in 1..Distance(q) : ItemAt(q, k - 1) \in Items
  <2> SUFFICES ASSUME NEW k \in 1..Distance(q) PROVE ItemAt(q, k - 1) \in Items
    OBVIOUS
  <2>1. k - 1 \in 0..(Distance(q) - 1)
    BY <1>1
  <2> QED BY <2>1, WindowOffsets
<1>3. Contents(q) \in [1..Distance(q) -> Items]
  BY <1>2 DEF Contents
<1>4. Contents(q) \in Seq(Items)
  BY <1>1, <1>3, SeqDef
<1> QED BY <1>1, <1>3, <1>4, LenProperties DEF Contents

\* The constructor
LEMMA ConstructGood ==
  ASSUME NEW n \in Nat
  PROVE  /\ GoodQueue(ConstructQueue(n))
         /\ ConstructQueue(n).capacity = n + 1
         /\ Contents(ConstructQueue(n)) = <<>>
<1> DEFINE q == ConstructQueue(n)
<1>1. /\ q.capacity = n + 1 /\ q.num = 0 /\ q.front = 0 /\ q.rear = 0
      /\ q.data = [i \in 0..n |-> Zero]
  BY DEF ConstructQueue
<1>2. Distance(q) = 0
  BY <1>1 DEF Distance
<1>3. GoodQueue(q)
  BY <1>1, <1>2 DEF GoodQueue, QueueOK, InWindow
<1>4. Contents(q) = <<>>
  BY <1>2 DEF Contents
<1> QED BY <1>1, <1>3, <1>4

\* Empty() means that there is no item, Full() that there are Capacity() items
LEMMA EmptyAndFull ==
  ASSUME NEW q, GoodQueue(q)
  PROVE  /\ Empty(q) <=> Contents(q) = <<>>
         /\ Full(q) <=> Distance(q) = q.capacity - 1
<1>1. Empty(q) <=> Distance(q) = 0
  BY Indices DEF Empty, Distance
<1>2. Empty(q) <=> Contents(q) = <<>>
  BY <1>1, ContentsSeq, EmptySeq
<1>3. Full(q) <=> Distance(q) = q.capacity - 1
  <2> DEFINE r == (q.rear + 1) % q.capacity
  <2>1. r = IF q.rear + 1 < q.capacity THEN q.rear + 1 ELSE 0
    BY Indices, NextSlot
  <2>2. Full(q) <=> q.front = r
    BY DEF Full
  <2> HIDE DEF r
  <2> QED BY <2>1, <2>2, Indices DEF Distance
<1> QED BY <1>2, <1>3

\* Push appends the item
LEMMA PushGood ==
  ASSUME NEW q, GoodQueue(q), ~Full(q), NEW v \in Items
  PROVE  /\ GoodQueue(Pushed(q, v))
         /\ Pushed(q, v).capacity = q.capacity
         /\ Contents(Pushed(q, v)) = Append(Contents(q), v)
         /\ Distance(q) < q.capacity - 1
<1> DEFINE p == Pushed(q, v)
           r == (q.rear + 1) % q.capacity
<1>1. /\ p.capacity = q.capacity /\ p.num = q.num + 1 /\ p.front = q.front
      /\ p.rear = r
      /\ p.data = [q.data EXCEPT ![q.rear] = v]
  BY DEF Pushed
<1>2. r = IF q.rear + 1 < q.capacity THEN q.rear + 1 ELSE 0
  BY Indices, NextSlot
<1>3. r # q.front
  BY DEF Full
<1> HIDE DEF p, r
<1>4. /\ Distance(p) = Distance(q) + 1 /\ Distance(p) < q.capacity
      /\ p.rear \in 0..(q.capacity - 1)
  BY <1>1, <1>2, <1>3, Indices DEF Distance
<1>5. \A i \in 0..(q.capacity - 1) : InWindow(p, i) => InWindow(q, i) \/ i = q.rear
  BY <1>1, <1>2, <1>3, Indices DEF InWindow
<1>6. p.data \in [0..(q.capacity - 1) -> Items \cup {Zero}]
  BY <1>1, Indices DEF GoodQueue
<1>7. GoodQueue(p)
  <2>1. QueueOK(p)
    BY <1>1, <1>4, <1>6, Indices DEF GoodQueue, QueueOK
  <2>2. p.num = Distance(p)
    BY <1>1, <1>4 DEF GoodQueue
  <2>3. \A i \in 0..(q.capacity - 1) : InWindow(p, i) => p.data[i] \in Items
    BY <1>1, <1>5, Indices DEF GoodQueue
  <2> QED BY <1>1, <1>6, <2>1, <2>2, <2>3 DEF GoodQueue
<1>8. ASSUME NEW k \in 0..(Distance(q) - 1)
      PROVE  ItemAt(p, k) = ItemAt(q, k)
  <2> DEFINE s == (q.front + k) % q.capacity
  <2>1. InWindow(q, s) /\ s \in 0..(q.capacity - 1)
    BY WindowOffsets
  <2>2. ItemAt(p, k) = p.data[s] /\ ItemAt(q, k) = q.data[s]
    BY <1>1 DEF ItemAt
  <2> HIDE DEF s
  <2>3. s # q.rear
    BY <2>1, Indices DEF InWindow
  <2> QED BY <1>1, <2>1, <2>2, <2>3 DEF GoodQueue
<1>9. ItemAt(p, Distance(q)) = v
  <2>1. ItemAt(p, Distance(q)) = p.data[q.rear]
    BY <1>1, Indices DEF ItemAt
  <2> QED BY <1>1, <2>1, Indices DEF GoodQueue
<1>10. Contents(p) = Append(Contents(q), v)
  <2>1. /\ Append(Contents(q), v) \in Seq(Items)
        /\ Len(Append(Contents(q), v)) = Distance(q) + 1
        /\ \A k \in 1..(Distance(q) + 1) :
             Append(Contents(q), v)[k] = IF k <= Distance(q) THEN ItemAt(q, k - 1) ELSE v
    BY ContentsSeq, AppendProperties, Indices
  <2>2. /\ Contents(p) \in Seq(Items) /\ Len(Contents(p)) = Distance(q) + 1
        /\ \A k \in 1..(Distance(q) + 1) : Contents(p)[k] = ItemAt(p, k - 1)
    BY <1>4, <1>7, ContentsSeq
  <2>3. \A k \in 1..(Distance(q) + 1) :
          ItemAt(p, k - 1) = IF k <= Distance(q) THEN ItemAt(q, k - 1) ELSE v
    <3> SUFFICES ASSUME NEW k \in 1..(Distance(q) + 1)
                 PROVE  ItemAt(p, k - 1) = IF k <= Distance(q) THEN ItemAt(q, k - 1) ELSE v
      OBVIOUS
    <3>1. CASE k <= Distance(q)
      <4>1. k - 1 \in 0..(Distance(q) - 1)
        BY <3>1, Indices
      <4> QED BY <3>1, <4>1, <1>8
    <3>2. CASE k = Distance(q) + 1
      <4>1. k - 1 = Distance(q) /\ ~(k <= Distance(q))
        BY <3>2, Indices
      <4> QED BY <4>1, <1>9
    <3> QED BY <3>1, <3>2, Indices
  <2>4. \A k \in 1..(Distance(q) + 1) : Contents(p)[k] = Append(Contents(q), v)[k]
    BY <2>1, <2>2, <2>3
  <2> QED BY <2>1, <2>2, <2>4, SeqEqual
<1> QED BY <1>1, <1>4, <1>7, <1>10, Indices DEF p

\* Pop takes the first item
LEMMA PopGood ==
  ASSUME NEW q, GoodQueue(q), ~Empty(q)
  PROVE  /\ GoodQueue(Popped(q))
         /\ Popped(q).capacity = q.capacity
         /\ Contents(q) # <<>>
         /\ Contents(Popped(q)) = Tail(Contents(q))
<1> DEFINE p == Popped(q)
           r == (q.front + 1) % q.capacity
<1>1. /\ p.capacity = q.capacity /\ p.num = q.num - 1 /\ p.rear = q.rear
      /\ p.front = r
      /\ p.data = [q.data EXCEPT ![q.front] = Zero]
  BY DEF Popped
<1>2. r = IF q.front + 1 < q.capacity THEN q.front + 1 ELSE 0
  BY Indices, NextSlot
<1>3. q.rear # q.front
  BY DEF Empty
<1> HIDE DEF p, r
<1>4. /\ Distance(q) = Distance(p) + 1 /\ Distance(p) \in Nat
      /\ p.front \in 0..(q.capacity - 1)
  <2>1. Distance(p) = IF q.rear >= r THEN q.rear - r ELSE q.rear + q.capacity - r
    BY <1>1 DEF Distance
  <2>2. /\ q.front \in Nat /\ q.rear \in Nat /\ q.capacity \in Nat
        /\ q.front < q.capacity /\ q.rear < q.capacity
    BY Indices
  <2>3. CASE q.front + 1 < q.capacity
    BY <1>1, <1>2, <1>3, <2>1, <2>2, <2>3 DEF Distance
  <2>4. CASE q.front + 1 = q.capacity
    BY <1>1, <1>2, <1>3, <2>1, <2>2, <2>4 DEF Distance
  <2> QED BY <2>2, <2>3, <2>4
<1>5. \A i \in 0..(q.capacity - 1) : InWindow(p, i) => InWindow(q, i) /\ i # q.front
  BY <1>1, <1>2, <1>3, Indices DEF InWindow
<1>6. p.data \in [0..(q.capacity - 1) -> Items \cup {Zero}]
  BY <1>1, Indices DEF GoodQueue
<1>7. GoodQueue(p)
  <2>1. p.num = Distance(p)
    BY <1>1, <1>4 DEF GoodQueue
  <2>2. QueueOK(p)
    BY <1>1, <1>4, <1>6, <2>1, Indices DEF QueueOK
  <2>3. \A i \in 0..(q.capacity - 1) : InWindow(p, i) => p.data[i] \in Items
    BY <1>1, <1>5, Indices DEF GoodQueue
  <2> QED BY <1>1, <1>6, <2>1, <2>2, <2>3 DEF GoodQueue
<1>8. ASSUME NEW k \in 0..(Distance(p) - 1)
      PROVE  ItemAt(p, k) = ItemAt(q, k + 1)
  <2> DEFINE s == (p.front + k) % q.capacity
             t == (q.front + (k + 1)) % q.capacity
  <2>1. /\ InWindow(p, s) /\ s \in 0..(q.capacity - 1)
        /\ s = IF p.front + k < q.capacity THEN p.front + k ELSE p.front + k - q.capacity
    BY <1>1, <1>7, WindowOffsets
  <2>2. t = IF q.front + (k + 1) < q.capacity THEN q.front + (k + 1)
                                              ELSE q.front + (k + 1) - q.capacity
    <3>1. k + 1 \in 0..(Distance(q) - 1)
      BY <1>4
    <3> QED BY <3>1, WindowOffsets
  <2>3. ItemAt(p, k) = p.data[s] /\ ItemAt(q, k + 1) = q.data[t]
    BY <1>1 DEF ItemAt
  <2> HIDE DEF s, t
  <2>4. s = t
    BY <1>1, <1>2, <1>4, <2>1, <2>2, Indices
  <2>5. s # q.front
    BY <1>5, <2>1
  <2> QED BY <1>1, <2>1, <2>3, <2>4, <2>5 DEF GoodQueue
<1>9. Contents(q) # <<>>
  BY EmptyAndFull
<1>10. Contents(p) = Tail(Contents(q))
  <2>1. /\ Tail(Contents(q)) \in Seq(Items)
        /\ Len(Tail(Contents(q))) = Distance(p)
        /\ \A k \in 1..Distance(p) : Tail(Contents(q))[k] = Contents(q)[k + 1]
    BY <1>4, <1>9, ContentsSeq, HeadTailProperties
  <2>2. /\ Contents(p) \in Seq(Items) /\ Len(Contents(p)) = Distance(p)
        /\ \A k \in 1..Distance(p) : Contents(p)[k] = ItemAt(p, k - 1)
    BY <1>7, ContentsSeq
  <2>3. ASSUME NEW k \in 1..Distance(p)
        PROVE  ItemAt(p, k - 1) = Contents(q)[k + 1]
    <3>1. k - 1 \in 0..(Distance(p) - 1) /\ k + 1 \in 1..Distance(q)
          /\ (k - 1) + 1 = (k + 1) - 1
      BY <1>4
    <3> QED BY <3>1, <1>8, ContentsSeq
  <2>4. \A k \in 1..Distance(p) : Contents(p)[k] = Tail(Contents(q))[k]
    BY <2>1, <2>2, <2>3
  <2> QED BY <2>1, <2>2, <2>4, SeqEqual
<1> QED BY <1>1, <1>7, <1>9, <1>10 DEF p

\* The other array's items, in order, in the first slots
LEMMA AssignFromGood ==
  ASSUME NEW q, GoodQueue(q), NEW other, GoodQueue(other), q.capacity >= other.capacity
  PROVE  /\ GoodQueue(AssignFrom(q, other))
         /\ AssignFrom(q, other).capacity = q.capacity
         /\ Contents(AssignFrom(q, other)) = Contents(other)
<1> DEFINE p == AssignFrom(q, other)
<1>1. /\ p.capacity = q.capacity /\ p.num = other.num /\ p.front = 0
      /\ p.rear = Distance(other)
      /\ p.data = [i \in 0..(q.capacity - 1) |->
                     IF i < Distance(other) THEN ItemAt(other, i) ELSE q.data[i]]
  BY DEF AssignFrom
<1> HIDE DEF p
<1>2. p.rear \in 0..(q.capacity - 1) /\ Distance(p) = Distance(other)
  BY <1>1, Indices DEF Distance
<1>3. \A i \in 0..(Distance(other) - 1) : ItemAt(other, i) \in Items
  BY WindowOffsets
<1>4. p.data \in [0..(q.capacity - 1) -> Items \cup {Zero}]
  <2>1. ASSUME NEW i \in 0..(q.capacity - 1) PROVE p.data[i] \in Items \cup {Zero}
    <3>1. CASE i < Distance(other)
      BY <1>1, <1>3, <3>1, Indices
    <3>2. CASE ~(i < Distance(other))
      BY <1>1, <3>2 DEF GoodQueue
    <3> QED BY <3>1, <3>2
  <2> QED BY <1>1, <2>1
<1>5. GoodQueue(p)
  <2>1. p.num = Distance(p)
    BY <1>1, <1>2 DEF GoodQueue
  <2>2. QueueOK(p)
    <3>1. p.capacity \in Nat \ {0} /\ p.front \in 0..(p.capacity - 1)
          /\ p.rear \in 0..(p.capacity - 1) /\ p.num \in Nat
      BY <1>1, <1>2, <2>1, Indices
    <3>2. DOMAIN p.data = 0..(p.capacity - 1)
      BY <1>1
    <3>3. \A i \in 0..(p.capacity - 1) : p.data[i] \in Items \cup {Zero}
      BY <1>1, <1>4
    <3> QED BY <3>1, <3>2, <3>3 DEF QueueOK
  <2>3. ASSUME NEW i \in 0..(q.capacity - 1), InWindow(p, i) PROVE p.data[i] \in Items
    <3>1. i < Distance(other)
      BY <1>1, <2>3, Indices DEF InWindow
    <3> QED BY <1>1, <1>3, <3>1, Indices
  <2> QED BY <1>1, <1>4, <2>1, <2>2, <2>3 DEF GoodQueue
<1>6. ASSUME NEW k \in 0..(Distance(other) - 1) PROVE ItemAt(p, k) = ItemAt(other, k)
  <2>1. (p.front + k) % p.capacity = k /\ k \in 0..(q.capacity - 1) /\ k < Distance(other)
    <3>1. k \in 0..(q.capacity - 1) /\ k < Distance(other) /\ q.capacity \in Nat \ {0}
      BY <1>2, Indices
    <3>2. (0 + k) % q.capacity = k
      BY <3>1
    <3> QED BY <1>1, <3>1, <3>2
  <2> QED BY <1>1, <2>1 DEF ItemAt
<1>7. Contents(p) = Contents(other)
  <2>1. ASSUME NEW k \in 1..Distance(other) PROVE ItemAt(p, k - 1) = ItemAt(other, k - 1)
    <3>1. k - 1 \in 0..(Distance(other) - 1)
      BY Indices
    <3> QED BY <3>1, <1>6
  <2> QED BY <1>2, <2>1 DEF Contents
<1> QED BY <1>1, <1>5, <1>7 DEF p

\* A copy has the capacity and the items of the original
LEMMA DeepCopyGood ==
  ASSUME NEW other, GoodQueue(other)
  PROVE  /\ GoodQueue(DeepCopy(other))
         /\ DeepCopy(other).capacity = other.capacity
         /\ Contents(DeepCopy(other)) = Contents(other)
<1>1. other.capacity - 1 \in Nat /\ (other.capacity - 1) + 1 = other.capacity
      /\ other.capacity \in Nat
  BY Indices
<1>2. GoodQueue(ConstructQueue(other.capacity - 1))
      /\ ConstructQueue(other.capacity - 1).capacity = other.capacity
  BY <1>1, ConstructGood
<1> QED BY <1>1, <1>2, AssignFromGood DEF DeepCopy

\* Assignment carries the items over and never shrinks the queue
LEMMA AssignedGood ==
  ASSUME NEW q, GoodQueue(q), NEW other, GoodQueue(other)
  PROVE  /\ GoodQueue(Assigned(q, other))
         /\ Assigned(q, other).capacity =
              IF q.capacity >= other.capacity THEN q.capacity ELSE other.capacity
         /\ Contents(Assigned(q, other)) = Contents(other)
<1>1. CASE q.capacity >= other.capacity
  BY <1>1, AssignFromGood DEF Assigned
<1>2. CASE ~(q.capacity >= other.capacity)
  BY <1>2, DeepCopyGood DEF Assigned
<1> QED BY <1>1, <1>2

\* A moved-from queue is empty, without capacity
LEMMA MovedFromGood ==
  GoodQueue(MovedFrom) /\ MovedFrom.capacity = 1 /\ Contents(MovedFrom) = <<>>
<1>1. 0 \in Nat /\ 0 + 1 = 1
  OBVIOUS
<1> QED BY <1>1, ConstructGood DEF MovedFrom

-----------------------------------------------------------------------------
(***************************************************************************)
(* The program: every object stays good.                                   *)
(***************************************************************************)

Inv == /\ DOMAIN queue = Queues
       /\ queue = [n \in Queues |-> queue[n]]
       /\ \A n \in Queues : GoodQueue(queue[n])

LEMMA InitInv == Init => Inv
<1> SUFFICES ASSUME Init PROVE Inv
  OBVIOUS
<1>1. queue \in [Queues -> {ConstructQueue(n) : n \in 0..MaxLimit}]
  BY DEF Init
<1>2. \A n \in 0..MaxLimit : GoodQueue(ConstructQueue(n))
  BY ConstructGood, MaxLimitAssumption
<1> QED BY <1>1, <1>2 DEF Inv

LEMMA NextInv == Inv /\ [Next]_queue => Inv'
<1> SUFFICES ASSUME Inv, [Next]_queue PROVE Inv'
  OBVIOUS
<1>1. ASSUME NEW n \in Queues, NEW v \in Items, Push(n, v) PROVE Inv'
  BY <1>1, PushGood DEF Inv, Push
<1>2. ASSUME NEW n \in Queues, Pop(n) PROVE Inv'
  BY <1>2, PopGood DEF Inv, Pop
<1>3. ASSUME NEW n \in Queues, NEW m \in Queues, Assign(n, m) PROVE Inv'
  BY <1>3, AssignedGood DEF Inv, Assign
<1>4. ASSUME NEW n \in Queues, NEW m \in Queues, CopyConstruct(n, m) PROVE Inv'
  BY <1>4, DeepCopyGood DEF Inv, CopyConstruct
<1>5. ASSUME NEW n \in Queues, NEW m \in Queues, MoveConstruct(n, m) PROVE Inv'
  BY <1>5, MovedFromGood DEF Inv, MoveConstruct
<1>6. CASE UNCHANGED queue
  BY <1>6 DEF Inv
<1> QED BY <1>1, <1>2, <1>3, <1>4, <1>5, <1>6 DEF Next

LEMMA AlwaysInv == Spec => []Inv
<1> QED BY InitInv, NextInv, PTL DEF Spec

\* Every object stays well formed (circular_queue.hpp:36-42, the five members)
THEOREM WellFormed == Spec => []TypeOK
<1>1. Inv => TypeOK
  BY DEF Inv, TypeOK, GoodQueue
<1> QED BY <1>1, AlwaysInv, PTL

\* Size() is the number of items between the indices, for any sequence of operations, and
\* none of them is zeroed memory
THEOREM WindowsHoldItems == Spec => []WindowHoldsItems
<1>1. Inv => WindowHoldsItems
  BY ZeroAssumption DEF Inv, WindowHoldsItems, GoodQueue, QueueOK
<1> QED BY <1>1, AlwaysInv, PTL

-----------------------------------------------------------------------------
(***************************************************************************)
(* The refinement.                                                         *)
(***************************************************************************)

\* Any number of circular queues of any capacity implement first-in first-out sequences
\* with value semantics: push, pop, copy, assignment and move of the class do to the
\* items what BoundedFifo says.
THEOREM Refinement == Spec => FifoSpec
<1> DEFINE items == [n \in Queues |-> Contents(queue[n])]
           limit == [n \in Queues |-> queue[n].capacity - 1]
<1>1. Init => Fifo!Init
  <2> SUFFICES ASSUME Init PROVE Fifo!Init
    OBVIOUS
  <2>1. \A n \in Queues : \E k \in 0..MaxLimit : queue[n] = ConstructQueue(k)
    BY DEF Init
  <2>2. \A n \in Queues : Contents(queue[n]) = <<>> /\ queue[n].capacity - 1 \in 0..MaxLimit
    <3> SUFFICES ASSUME NEW n \in Queues
                 PROVE  Contents(queue[n]) = <<>> /\ queue[n].capacity - 1 \in 0..MaxLimit
      OBVIOUS
    <3>1. PICK k \in 0..MaxLimit : queue[n] = ConstructQueue(k)
      BY <2>1
    <3>2. k \in Nat
      BY MaxLimitAssumption
    <3>3. Contents(queue[n]) = <<>> /\ queue[n].capacity = k + 1
      BY <3>1, <3>2, ConstructGood
    <3> QED BY <3>2, <3>3
  <2> QED BY <2>2 DEF Fifo!Init
<1>2. Inv /\ [Next]_queue => [Fifo!Next]_(Fifo!vars)
  <2> SUFFICES ASSUME Inv, [Next]_queue PROVE [Fifo!Next]_(Fifo!vars)
    OBVIOUS
  <2>0. \A n \in Queues : GoodQueue(queue[n]) /\ queue[n].capacity \in Nat
    BY Indices DEF Inv
  <2>1. ASSUME NEW n \in Queues, NEW v \in Items, Push(n, v) PROVE Fifo!Push(n, v)
    <3>1. /\ Contents(queue'[n]) = Append(Contents(queue[n]), v)
          /\ queue'[n].capacity = queue[n].capacity
          /\ Len(Contents(queue[n])) < queue[n].capacity - 1
      BY <2>0, <2>1, PushGood, ContentsSeq DEF Push, Inv
    <3>2. \A i \in Queues : i # n => queue'[i] = queue[i]
      BY <2>1 DEF Push, Inv
    <3> QED BY <3>1, <3>2 DEF Fifo!Push
  <2>2. ASSUME NEW n \in Queues, Pop(n) PROVE Fifo!Pop(n)
    <3>1. /\ Contents(queue'[n]) = Tail(Contents(queue[n]))
          /\ queue'[n].capacity = queue[n].capacity
          /\ Contents(queue[n]) # <<>>
      BY <2>0, <2>2, PopGood DEF Pop, Inv
    <3>2. \A i \in Queues : i # n => queue'[i] = queue[i]
      BY <2>2 DEF Pop, Inv
    <3> QED BY <3>1, <3>2 DEF Fifo!Pop
  <2>3. ASSUME NEW n \in Queues, NEW m \in Queues, Assign(n, m) PROVE Fifo!Assign(n, m)
    <3>1. /\ Contents(queue'[n]) = Contents(queue[m])
          /\ queue'[n].capacity = IF queue[n].capacity >= queue[m].capacity
                                  THEN queue[n].capacity ELSE queue[m].capacity
      BY <2>0, <2>3, AssignedGood DEF Assign, Inv
    <3>2. \A i \in Queues : i # n => queue'[i] = queue[i]
      BY <2>3 DEF Assign, Inv
    <3>3. queue'[n].capacity - 1 = IF queue[n].capacity - 1 >= queue[m].capacity - 1
                                   THEN queue[n].capacity - 1 ELSE queue[m].capacity - 1
      BY <2>0, <3>1
    <3>4. items' = [items EXCEPT ![n] = items[m]]
      BY <3>1, <3>2
    <3>5. limit' = [limit EXCEPT ![n] = IF @ >= limit[m] THEN @ ELSE limit[m]]
      BY <3>2, <3>3
    <3> QED BY <3>4, <3>5 DEF Fifo!Assign
  <2>4. ASSUME NEW n \in Queues, NEW m \in Queues, CopyConstruct(n, m)
        PROVE  Fifo!CopyConstruct(n, m)
    <3>1. /\ Contents(queue'[n]) = Contents(queue[m])
          /\ queue'[n].capacity = queue[m].capacity
      BY <2>0, <2>4, DeepCopyGood DEF CopyConstruct, Inv
    <3>2. \A i \in Queues : i # n => queue'[i] = queue[i]
      BY <2>4 DEF CopyConstruct, Inv
    <3> QED BY <3>1, <3>2 DEF Fifo!CopyConstruct
  <2>5. ASSUME NEW n \in Queues, NEW m \in Queues, n # m, MoveConstruct(n, m)
        PROVE  Fifo!MoveConstruct(n, m)
    <3>1. queue'[n] = queue[m] /\ queue'[m] = MovedFrom
      BY <2>5 DEF MoveConstruct, Inv
    <3>2. \A i \in Queues : i # n /\ i # m => queue'[i] = queue[i]
      BY <2>5 DEF MoveConstruct, Inv
    <3>3. items' = [items EXCEPT ![n] = items[m], ![m] = <<>>]
      BY <2>5, <3>1, <3>2, MovedFromGood
    <3>4. MovedFrom.capacity - 1 = 0
      BY MovedFromGood
    <3>5. limit' = [limit EXCEPT ![n] = limit[m], ![m] = 0]
      BY <2>5, <3>1, <3>2, <3>4
    <3> QED BY <3>3, <3>5 DEF Fifo!MoveConstruct
  <2>6. CASE UNCHANGED queue
    BY <2>6 DEF Fifo!vars
  <2> QED BY <2>1, <2>2, <2>3, <2>4, <2>5, <2>6 DEF Next, Fifo!Next
<1> QED BY <1>1, <1>2, AlwaysInv, PTL DEF Spec, FifoSpec, Fifo!Spec
=============================================================================
