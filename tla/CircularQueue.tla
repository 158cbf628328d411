--------------------------- MODULE CircularQueue ---------------------------
(***************************************************************************)
(* A program that uses objects of pool/circular_queue.hpp.  The class is   *)
(* not thread safe: its users hold a lock, so an operation is one step.    *)
(***************************************************************************)
EXTENDS CircularQueueOps

CONSTANTS
  Queues,    \* the queue objects
  Items,     \* the values they hold
  MaxLimit   \* the largest capacity a queue is constructed with

ASSUME ZeroAssumption     == Zero \notin Items
ASSUME MaxLimitAssumption == MaxLimit \in Nat

VARIABLE queue  \* queue[n]: the CircularQueue object n

Init == queue \in [Queues -> {ConstructQueue(n) : n \in 0..MaxLimit}]

Push(n, v) == ~Full(queue[n]) /\ queue' = [queue EXCEPT ![n] = Pushed(@, v)]

Pop(n) == ~Empty(queue[n]) /\ queue' = [queue EXCEPT ![n] = Popped(@)]

Assign(n, m) == queue' = [queue EXCEPT ![n] = Assigned(@, queue[m])]

\* An object n is constructed anew from m
CopyConstruct(n, m) == queue' = [queue EXCEPT ![n] = DeepCopy(queue[m])]

MoveConstruct(n, m) == queue' = [queue EXCEPT ![n] = queue[m], ![m] = MovedFrom]

Next == \/ \E n \in Queues, v \in Items : Push(n, v)
        \/ \E n \in Queues : Pop(n)
        \/ \E n \in Queues, m \in Queues :
             n # m /\ (Assign(n, m) \/ CopyConstruct(n, m) \/ MoveConstruct(n, m))

Spec == Init /\ [][Next]_queue

-----------------------------------------------------------------------------
(***************************************************************************)
(* Properties.                                                             *)
(***************************************************************************)

\* A well-formed object: indices in the array, and items in the whole window
QueueOK(q) ==
  /\ q.capacity \in Nat \ {0}
  /\ q.front \in 0..(q.capacity - 1)
  /\ q.rear \in 0..(q.capacity - 1)
  /\ q.num \in Nat
  /\ DOMAIN q.data = 0..(q.capacity - 1)
  /\ \A i \in 0..(q.capacity - 1) : q.data[i] \in Items \cup {Zero}

TypeOK == \A n \in Queues : QueueOK(queue[n])

\* Size() (num_) agrees with the indices, whatever was pushed, popped, copied, assigned
\* and moved, although num_ and front_/rear_ are maintained separately
\* (circular_queue.hpp:80, 117, 165, 243); and no memory that was never assigned, or was
\* zeroed by Pop, is handed out as an item.
WindowHoldsItems ==
  \A n \in Queues :
    /\ queue[n].num = Distance(queue[n])
    /\ \A i \in DOMAIN queue[n].data : InWindow(queue[n], i) => queue[n].data[i] # Zero

\* The class implements bounded first-in first-out queues with value semantics
Fifo == INSTANCE BoundedFifo WITH
          contents <- [n \in Queues |-> Contents(queue[n])],
          limit <- [n \in Queues |-> queue[n].capacity - 1]
FifoSpec == Fifo!Spec
=============================================================================
