---------------------------- MODULE InstancePool ----------------------------
(***************************************************************************)
(* pool/instance_pool.hpp: a pool of raw slots for objects of one type.    *)
(* Free slots are in a CircularQueue; Construct takes one and builds an    *)
(* object in it, growing the pool when there is none, and the deleter of   *)
(* the unique_ptr it returns gives the slot back.  Threads share the pool. *)
(* Slots are numbered in the order their blocks were allocated.            *)
(***************************************************************************)
EXTENDS CircularQueueOps, FiniteSets

CONSTANTS
  Threads,    \* the threads that use the pool
  FirstSize,  \* the number of slots the pool is created with
  MaxSlots,   \* bound: the pool does not grow beyond this many slots
  None

ASSUME NoneAssumption  == None \notin Threads
ASSUME ZeroAssumption  == Zero \notin Nat
ASSUME SizesAssumption == FirstSize \in Nat /\ MaxSlots \in Nat /\ FirstSize <= MaxSlots

VARIABLES
  que,    \* que_: the free slots
  total,  \* the number of slots in all blocks
  slot,   \* slot[s]: what is in the memory of slot s
  held,   \* the slots that a unique_ptr of the program owns
  lost,   \* history: slots taken for an object whose constructor threw
  pc,     \* pc[t]: where thread t is in the deleter
  arg,    \* arg[t]: the slot it runs for
  mtx     \* holder of mtx_

vars == <<que, total, slot, held, lost, pc, arg, mtx>>

Slots == 1..MaxSlots

TypeOK ==
  /\ que.capacity \in 1..(MaxSlots + 1)
  /\ que.front \in 0..(que.capacity - 1) /\ que.rear \in 0..(que.capacity - 1)
  /\ \A i \in DOMAIN que.data : que.data[i] \in Slots \cup {Zero}
  /\ total \in 0..MaxSlots
  /\ slot \in [Slots -> {"raw", "object", "dead"}]
  /\ held \in SUBSET Slots
  /\ lost \in SUBSET Slots
  /\ pc \in [Threads -> {"idle", "destroyed", "pushed"}]
  /\ arg \in [Threads -> Slots \cup {None}]
  /\ mtx \in Threads \cup {None}

\* A new queue for n slots, with the slots of s, no more than n, pushed one by one
Filled(n, s) ==
  [capacity |-> n + 1, num |-> Len(s), front |-> 0, rear |-> Len(s) % (n + 1),
   data |-> [i \in 0..n |-> IF i < Len(s) THEN s[i + 1] ELSE Zero]]

Init ==
  /\ que = Filled(FirstSize, [i \in 1..FirstSize |-> i])
  /\ total = FirstSize
  /\ slot = [s \in Slots |-> "raw"]
  /\ held = {}
  /\ lost = {}
  /\ pc = [t \in Threads |-> "idle"]
  /\ arg = [t \in Threads |-> None]
  /\ mtx = None

\* A Grow that reserves room for the new block only
GrownByBlock(q, n) ==
  Filled(q.capacity - 1, [i \in 1..(q.capacity - 1) |-> n + i] \o Contents(q))

\* Grow: a queue of twice the capacity, with the slots of a new block as large as all
\* that exist (n), and then what the old queue held
Grown(q, n) ==
  Filled(2 * (q.capacity - 1), [i \in 1..(q.capacity - 1) |-> n + i] \o Contents(q))

\* A Construct that leaves the slot it uses in the queue
ConstructUnpopped(t) ==
  /\ pc[t] = "idle" /\ mtx = None
  /\ ~Empty(que)
  /\ held' = held \cup {que.data[que.front]}
  /\ slot' = [slot EXCEPT ![que.data[que.front]] = "object"]
  /\ UNCHANGED <<que, total, lost, pc, arg, mtx>>

\* Construct, all of it under mtx_.  A constructor that throws leaves the slot neither
\* free nor owned.  (With FirstSize = 0 the grown queue is empty too and Front throws.)
Construct(t) ==
  /\ pc[t] = "idle" /\ mtx = None
  /\ Empty(que) => 2 * total <= MaxSlots
  /\ LET q == IF Empty(que) THEN Grown(que, total) ELSE que
         s == q.data[q.front]
     IN  /\ ~Empty(q)
         /\ que' = Popped(q)
         /\ total' = IF Empty(que) THEN total + que.capacity - 1 ELSE total
         /\ \/ /\ slot' = [slot EXCEPT ![s] = "object"]
               /\ held' = held \cup {s}
               /\ UNCHANGED lost
            \/ /\ lost' = lost \cup {s}
               /\ UNCHANGED <<slot, held>>
  /\ UNCHANGED <<pc, arg, mtx>>

\* The deleter: the object's destructor runs before mtx_ is taken
Destruct(t, s) ==
  /\ pc[t] = "idle"
  /\ s \in held
  /\ held' = held \ {s}
  /\ slot' = [slot EXCEPT ![s] = "dead"]
  /\ pc' = [pc EXCEPT ![t] = "destroyed"]
  /\ arg' = [arg EXCEPT ![t] = s]
  /\ UNCHANGED <<que, total, lost, mtx>>

\* A deleter that holds mtx_ for the push only
GiveBackUnlocked(t) ==
  /\ pc[t] = "destroyed" /\ mtx = None
  /\ ~Full(que)
  /\ que' = Pushed(que, arg[t])
  /\ pc' = [pc EXCEPT ![t] = "pushed"]
  /\ UNCHANGED <<total, slot, held, lost, arg, mtx>>

\* The slot is put back.  (Push would throw if the queue were full.)
GiveBack(t) ==
  /\ pc[t] = "destroyed" /\ mtx = None
  /\ ~Full(que)
  /\ que' = Pushed(que, arg[t])
  /\ mtx' = t
  /\ pc' = [pc EXCEPT ![t] = "pushed"]
  /\ UNCHANGED <<total, slot, held, lost, arg>>

\* The slot, already in the queue, is zeroed, and mtx_ released
Wipe(t) ==
  /\ pc[t] = "pushed"
  /\ slot' = [slot EXCEPT ![arg[t]] = "raw"]
  /\ mtx' = IF mtx = t THEN None ELSE mtx
  /\ pc' = [pc EXCEPT ![t] = "idle"]
  /\ arg' = [arg EXCEPT ![t] = None]
  /\ UNCHANGED <<que, total, held, lost>>

Next == \E t \in Threads :
          Construct(t) \/ GiveBack(t) \/ Wipe(t) \/ \E s \in Slots : Destruct(t, s)

Spec == Init /\ [][Next]_vars

-----------------------------------------------------------------------------
(***************************************************************************)
(* Properties.                                                             *)
(***************************************************************************)

\* Threads whose deleter is about to put a slot back
Returning == {t \in Threads : pc[t] = "destroyed"}

\* Every slot of every block has exactly one place: once in the queue, with the program,
\* in a deleter, or lost to a constructor that threw; growing adds whole blocks only.
\* So no slot is handed out twice (instance_pool.hpp:37, 51 and 89).
SlotsAccounted ==
  LET inQueue == {Contents(que)[i] : i \in DOMAIN Contents(que)}
  IN  /\ Distance(que) + Cardinality(held) + Cardinality(Returning) + Cardinality(lost)
           = total
      /\ inQueue \cup held \cup {arg[t] : t \in Returning} \cup lost = 1..total

\* The deleter's Push never finds the queue full: Grow keeps room for every slot, so the
\* out_of_range that would end the program in a destructor is not thrown.
GiveBackHasRoom == \A t \in Threads : pc[t] = "destroyed" => ~Full(que)

\* The memset of a deleter, which comes after the slot is in the queue again, never
\* wipes an object built there since (instance_pool.hpp:97).
ObjectsIntact == \A s \in held : slot[s] = "object"
=============================================================================
