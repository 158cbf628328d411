-------------------------- MODULE CircularQueueOps --------------------------
(***************************************************************************)
(* pool/circular_queue.hpp as operators.  A queue is its five members;     *)
(* data is the array, whose slots hold an item or zeroed memory (Zero).    *)
(* One slot is always left free to tell a full queue from an empty one.    *)
(***************************************************************************)
EXTENDS Naturals, Sequences

CONSTANT Zero  \* zeroed memory

Empty(q) == q.front = q.rear

\* A Full that is true one item too late
FullTooLate(q) == q.num = q.capacity

Full(q)  == q.front = (q.rear + 1) % q.capacity

\* CircularQueue(capacity): one slot more than asked for, all of it zeroed
ConstructQueue(n) ==
  [capacity |-> n + 1, num |-> 0, front |-> 0, rear |-> 0,
   data |-> [i \in 0..n |-> Zero]]

\* Push when not full
Pushed(q, v) ==
  [capacity |-> q.capacity, num |-> q.num + 1,
   front |-> q.front, rear |-> (q.rear + 1) % q.capacity,
   data |-> [q.data EXCEPT ![q.rear] = v]]

\* Pop that wraps the index one slot too late
PoppedUnwrapped(q) ==
  [capacity |-> q.capacity, num |-> q.num - 1,
   front |-> IF q.front = q.capacity THEN 0 ELSE q.front + 1, rear |-> q.rear,
   data |-> [q.data EXCEPT ![q.front] = Zero]]

\* Pop when not empty: the item is destructed and its memory zeroed
Popped(q) ==
  [capacity |-> q.capacity, num |-> q.num - 1,
   front |-> (q.front + 1) % q.capacity, rear |-> q.rear,
   data |-> [q.data EXCEPT ![q.front] = Zero]]

\* The item i places behind the front
ItemAt(q, i) == q.data[(q.front + i) % q.capacity]

\* The number of steps IterateAssignFrom makes before ofront meets orear
Distance(q) == IF q.rear >= q.front THEN q.rear - q.front
                                    ELSE q.rear + q.capacity - q.front

\* A copy that takes the other array as it lies
AssignFromInPlace(q, other) ==
  [capacity |-> q.capacity, num |-> other.num, front |-> 0, rear |-> Distance(other),
   data |-> [i \in 0..(q.capacity - 1) |->
               IF i < Distance(other) THEN other.data[i] ELSE q.data[i]]]

\* IterateAssignFrom: the items of other are assigned to the slots from 0 on.  The other
\* slots stay as they are, with the items the queue held there.
AssignFrom(q, other) ==
  [capacity |-> q.capacity, num |-> other.num, front |-> 0, rear |-> Distance(other),
   data |-> [i \in 0..(q.capacity - 1) |->
               IF i < Distance(other) THEN ItemAt(other, i) ELSE q.data[i]]]

\* DeepCopy: a zeroed array of the size of other's, and its items
DeepCopy(other) == AssignFrom(ConstructQueue(other.capacity - 1), other)

\* operator=: the own array is kept when it is large enough
Assigned(q, other) ==
  IF q.capacity >= other.capacity THEN AssignFrom(q, other) ELSE DeepCopy(other)

\* What a move leaves behind: capacity_ = 1 makes the queue empty and full at once
MovedFrom == ConstructQueue(0)

\* A slot is between front and rear, where the queue's items are
InWindow(q, i) == IF q.front <= q.rear THEN q.front <= i /\ i < q.rear
                                       ELSE q.front <= i \/ i < q.rear

\* The items of a queue in order
Contents(q) == [k \in 1..Distance(q) |-> ItemAt(q, k - 1)]
=============================================================================
