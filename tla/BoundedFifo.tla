---------------------------- MODULE BoundedFifo ----------------------------
(***************************************************************************)
(* What detail::CircularQueue promises: objects that each hold a first-in  *)
(* first-out sequence of at most limit[n] items, and copying and moving    *)
(* that carry the sequence over.  CircularQueue.tla implements this.       *)
(***************************************************************************)
EXTENDS Sequences, Naturals

CONSTANTS
  Queues,   \* the queue objects
  Items,    \* the values they hold
  MaxLimit  \* the largest capacity a queue is constructed with

VARIABLES
  contents,  \* contents[n]: the items of queue n, next to pop first
  limit      \* limit[n]: Capacity() of queue n

vars == <<contents, limit>>

Init == /\ contents = [n \in Queues |-> <<>>]
        /\ limit \in [Queues -> 0..MaxLimit]

Push(n, v) == /\ Len(contents[n]) < limit[n]
              /\ contents' = [contents EXCEPT ![n] = Append(@, v)]
              /\ UNCHANGED limit

Pop(n) == /\ contents[n] # <<>>
          /\ contents' = [contents EXCEPT ![n] = Tail(@)]
          /\ UNCHANGED limit

\* Assignment never shrinks the queue that is assigned to
Assign(n, m) ==
  /\ contents' = [contents EXCEPT ![n] = contents[m]]
  /\ limit' = [limit EXCEPT ![n] = IF @ >= limit[m] THEN @ ELSE limit[m]]

CopyConstruct(n, m) ==
  /\ contents' = [contents EXCEPT ![n] = contents[m]]
  /\ limit' = [limit EXCEPT ![n] = limit[m]]

\* The queue moved from is left empty and without capacity
MoveConstruct(n, m) ==
  /\ contents' = [contents EXCEPT ![n] = contents[m], ![m] = <<>>]
  /\ limit' = [limit EXCEPT ![n] = limit[m], ![m] = 0]

Next == \/ \E n \in Queues, v \in Items : Push(n, v)
        \/ \E n \in Queues : Pop(n)
        \/ \E n \in Queues, m \in Queues :
             n # m /\ (Assign(n, m) \/ CopyConstruct(n, m) \/ MoveConstruct(n, m))

Spec == Init /\ [][Next]_vars
=============================================================================
