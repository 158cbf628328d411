-------------------------- MODULE ServerStopProofs --------------------------
(***************************************************************************)
(* Proofs about ServerStop, for any number of loops, connections,          *)
(* descriptors and calls of Stop.                                          *)
(***************************************************************************)
EXTENDS ServerStop, WellFoundedInduction, TLAPS

-----------------------------------------------------------------------------
(***************************************************************************)
(* The inductive invariant.                                                *)
(***************************************************************************)

\* The number of loop l is no epoll instance any more, or about to be none
Visited(l) == stopped[l] \/ (stop.half /\ stop.at = l)

\* Who can have which descriptor
TableInv ==
  /\ \A n \in Fds, l \in Loops : table[n] = Epoll(l) => n = l
  /\ \A n \in Fds : table[n] = Listener => n = Acceptor
  /\ \A n \in Fds, c \in Conns : table[n] = Client(c) => c \in conns /\ fd[c] = n
  /\ \A l \in Loops : Visited(l) <=> table[l] # Epoll(l)

\* A connection has its descriptor, if a second Stop has not closed it
ConnInv ==
  \A c \in conns : /\ fd[c] \in Fds
                   /\ \/ table[fd[c]] = Client(c)
                      \/ stops > 1 /\ fd[c] \in Loops /\ Visited(fd[c])

\* A Stop visits one loop after the other; the first finds none of them stopped
StopInv ==
  /\ stop.by = "no" => ~stop.half
  /\ stop.by # "no" => stops > 0 /\ Alive
  /\ stop.half => stop.at \in Loops
  /\ stops = 0 /\ Alive => \A l \in Loops : ~stopped[l]
  /\ stops = 1 /\ stop.by # "no" => \A l \in Loops : l >= stop.at => ~stopped[l]

\* The threads, and what the destructor has done
MainInv ==
  /\ main = "constructed" => \A l \in Loops : pc[l] = "none"
  /\ main = "react" => \A l \in Loops : l >= at => pc[l] = "none"
  /\ main = "join" => \A l \in Loops : l < at => pc[l] = "ended"
  /\ main \notin {"constructed", "react", "join"} => \A l \in Loops : pc[l] \in {"none", "ended"}
  /\ table[Acceptor] = Listener <=> Alive \/ main = "listener"
  /\ main = "listener" => at = 0
  /\ main = "stop" => \A l \in Loops : l < at => stopped[l]
  /\ main \in {"clear", "epoller", "gone"} => \A l \in Loops : stopped[l]
  /\ main \in {"epoller", "gone"} => conns = {}

IInv == TypeOK /\ TableInv /\ ConnInv /\ StopInv /\ MainInv

-----------------------------------------------------------------------------
(***************************************************************************)
(* Descriptors.                                                            *)
(***************************************************************************)

LEMMA Distinct ==
  /\ \A l, k : Epoll(l) = Epoll(k) => l = k
  /\ \A c, d : Client(c) = Client(d) => c = d
  /\ \A l : Epoll(l) # Free /\ Epoll(l) # Other /\ Epoll(l) # Listener
  /\ \A c : Client(c) # Free /\ Client(c) # Other /\ Client(c) # Listener
  /\ \A l, c : Epoll(l) # Client(c)
  /\ Free # Other /\ Free # Listener /\ Other # Listener
BY DEF Epoll, Client, Free, Other, Listener

\* A set of numbers that is not empty has a least one
LEMMA MinIsLeast ==
  ASSUME NEW S \in SUBSET Nat, S # {}
  PROVE  Min(S) \in S
<1>1. PICK x \in S : \A y \in S : ~(<<y, x>> \in OpToRel(<, Nat))
  BY NatLessThanWellFounded, WFMin, Zenon
<1>2. \A y \in S : ~(y < x)
  BY <1>1, Zenon DEF OpToRel
<1>3. \A y \in S : x <= y
  BY <1>2
<1> QED BY <1>3 DEF Min

LEMMA LowestIsFree == ASSUME Room PROVE Lowest \in Fds /\ table[Lowest] = Free
<1>1. {n \in Fds : table[n] = Free} \in SUBSET Nat
  BY StopAssumption DEF Fds
<1> QED BY <1>1, MinIsLeast DEF Room, Lowest

LEMMA Numbers ==
  /\ Loops \subseteq Fds /\ Acceptor \in Fds /\ Acceptor \notin Loops /\ NoFd \notin Fds
  /\ \A l \in Loops : l + 1 \in 0..NumLoop
BY StopAssumption DEF Loops, Fds, Acceptor, NoFd

-----------------------------------------------------------------------------
(***************************************************************************)
(* Init, and the steps of Run and of the threads between two events.       *)
(***************************************************************************)

LEMMA InitInv == Init => IInv
<1> SUFFICES ASSUME Init PROVE IInv
  OBVIOUS
<1> USE Numbers, Distinct, StopAssumption DEF Init
<1>1. TypeOK
  BY DEF TypeOK, epfd, Loops
<1>2. TableInv
  BY DEF TableInv, Visited
<1>3. ConnInv /\ StopInv /\ MainInv
  BY DEF ConnInv, StopInv, MainInv, Alive
<1> QED BY <1>1, <1>2, <1>3 DEF IInv

\* A step that changes neither descriptors nor Stop
LEMMA QuietInv ==
  ASSUME IInv, UNCHANGED <<table, stopped, conns, fd, stop, stops>>, Alive <=> Alive', MainInv',
         TypeOK'
  PROVE  IInv'
BY DEF IInv, TableInv, ConnInv, StopInv, Visited

LEMMA RunInv == ASSUME IInv, Run \/ React \/ Wait PROVE IInv'
<1> USE Numbers, StopAssumption DEF IInv, TypeOK, MainInv, Alive, Loops
<1>1. CASE Run
  BY SMTT(30), <1>1, QuietInv DEF Run
<1>2. CASE React
  BY SMTT(30), <1>2, QuietInv DEF React
<1>3. CASE Wait
  BY SMTT(30), <1>3, QuietInv DEF Wait
<1> QED BY <1>1, <1>2, <1>3

LEMMA ThreadInv ==
  ASSUME IInv, NEW l \in Loops, Test(l) \/ EpollWait(l) \/ Event(l)
  PROVE  IInv'
<1>1. pc[l] \notin {"none", "ended"} /\ \E s \in {"test", "wait", "blocked", "handle", "ended"} :
        pc' = [pc EXCEPT ![l] = s]
  BY DEF Test, EpollWait, Event
<1>2. UNCHANGED <<table, stopped, conns, fd, stop, stops, main, at, watched>>
  BY DEF Test, EpollWait, Event
<1>3. TypeOK' /\ MainInv'
  BY <1>1, <1>2 DEF IInv, TypeOK, MainInv, Alive
<1> QED BY <1>2, <1>3, QuietInv DEF Alive

-----------------------------------------------------------------------------
(***************************************************************************)
(* Handlers.                                                               *)
(***************************************************************************)

LEMMA AcceptInv ==
  ASSUME IInv, NEW c \in Conns, NEW l \in Loops, Accept(c, l),
         UNCHANGED <<stopped, stop, stops, main, at>>, ~(main \in {"epoller", "gone"})
  PROVE  /\ TableInv' /\ ConnInv'
         /\ table' \in [Fds -> {Free, Other, Listener} \cup {Epoll(k) : k \in Loops}
                                 \cup {Client(d) : d \in Conns}]
         /\ watched' \in [Loops -> SUBSET ({Listener} \cup {Client(d) : d \in Conns})]
         /\ conns' \subseteq Conns /\ fd' \in [Conns -> Fds \cup {NoFd}]
         /\ table'[Acceptor] = Listener <=> table[Acceptor] = Listener
<1> USE Distinct, Numbers DEF IInv, TypeOK
<1>1. CASE table[epfd(l)] # Epoll(l)
  BY <1>1 DEF Accept, TableInv, ConnInv, Visited
<1>2. CASE table[epfd(l)] = Epoll(l)
  <2>1. PICK n \in Fds : /\ table[n] = Free
                         /\ table' = [table EXCEPT ![n] = Client(c)]
                         /\ fd' = [fd EXCEPT ![c] = n]
                         /\ conns' = conns \cup {c}
                         /\ watched' = [watched EXCEPT ![l] = @ \cup {Client(c)}]
                         /\ c \notin conns
    BY <1>2, LowestIsFree DEF Accept
  <2>2. TableInv'
    BY <2>1 DEF TableInv, Visited
  <2>3. ConnInv'
    BY <2>1 DEF ConnInv, TableInv, Visited
  <2> QED BY <2>1, <2>2, <2>3
<1> QED BY <1>1, <1>2

LEMMA CloseInv ==
  ASSUME IInv, NEW c \in Conns, NEW l \in Loops, Close(c, l),
         UNCHANGED <<stopped, stop, stops, main, at>>
  PROVE  /\ TableInv' /\ ConnInv'
         /\ table' \in [Fds -> {Free, Other, Listener} \cup {Epoll(k) : k \in Loops}
                                 \cup {Client(d) : d \in Conns}]
         /\ watched' \in [Loops -> SUBSET ({Listener} \cup {Client(d) : d \in Conns})]
         /\ conns' \subseteq Conns
         /\ table'[Acceptor] = Listener <=> table[Acceptor] = Listener
<1> USE Distinct, Numbers DEF IInv, TypeOK
<1> DEFINE n == fd[c]
<1>1. /\ n \in Fds /\ c \in conns /\ conns' = conns \ {c} /\ fd' = fd
      /\ table' = [table EXCEPT ![n] = Free]
      /\ watched' = [k \in Loops |-> watched[k] \ {table[n]}]
  BY DEF Close, ConnInv, Closed, Unwatched
<1>2. table[n] = Client(c) \/ (stops > 1 /\ n \in Loops /\ Visited(n))
  BY <1>1 DEF ConnInv
<1> HIDE DEF n
<1>3. \A k \in Loops : table[k] = Epoll(k) => k # n
  BY <1>1, <1>2 DEF TableInv
<1>4. \A d \in conns' : fd[d] = n => stops > 1 /\ n \in Loops /\ Visited(n)
  BY <1>1, <1>2 DEF ConnInv
<1>5. TableInv'
  <2>1. \A m \in Fds, d \in Conns : table'[m] = Client(d) => d \in conns' /\ fd'[d] = m
    BY <1>1 DEF TableInv, n
  <2> QED BY <1>1, <1>3, <2>1 DEF TableInv, Visited
<1>6. ConnInv'
  BY <1>1, <1>4 DEF ConnInv, Visited
<1> QED BY <1>1, <1>2, <1>5, <1>6

LEMMA HandleInv == ASSUME IInv, NEW l \in Loops, Handle(l) PROVE IInv'
<1>1. main \in {"react", "join"} /\ pc[l] = "handle" /\ pc' = [pc EXCEPT ![l] = "test"]
      /\ UNCHANGED <<stopped, stop, stops, main, at>>
  BY DEF Handle, IInv, MainInv, TypeOK
<1>2. StopInv'
  BY <1>1 DEF IInv, StopInv, Alive
<1>3. ASSUME TableInv', ConnInv', TypeOK', table'[Acceptor] = Listener <=> table[Acceptor] = Listener
      PROVE  IInv'
  BY <1>1, <1>2, <1>3 DEF IInv, MainInv, TypeOK, Alive
<1>4. pc' \in [Loops -> {"none", "test", "wait", "blocked", "handle", "stop", "ended"}]
  BY <1>1 DEF IInv, TypeOK
<1>5. CASE Nothing
  BY <1>1, <1>3, <1>4, <1>5 DEF Nothing, IInv, TypeOK, TableInv, ConnInv, Visited
<1>6. ASSUME NEW c \in Conns, NEW k \in Selectable, Accept(c, k) PROVE IInv'
  <2>1. k \in Loops
    BY StopAssumption DEF Selectable, Loops
  <2>2. TypeOK'
    BY <1>1, <1>4, <1>6, <2>1, AcceptInv DEF IInv, TypeOK
  <2> QED BY <1>1, <1>3, <1>6, <2>1, <2>2, AcceptInv
<1>7. ASSUME NEW c \in Conns, Close(c, l) PROVE IInv'
  <2>1. TypeOK'
    BY <1>1, <1>4, <1>7, CloseInv DEF IInv, TypeOK, Close
  <2> QED BY <1>1, <1>3, <1>7, <2>1, CloseInv
<1> QED BY <1>5, <1>6, <1>7 DEF Handle

\* Another part of the program opens something
LEMMA OtherOpensInv == ASSUME IInv, OtherOpens PROVE IInv'
<1>1. PICK n \in Fds : table[n] = Free /\ table' = [table EXCEPT ![n] = Other]
  BY LowestIsFree DEF OtherOpens
<1>2. UNCHANGED <<stopped, pc, watched, conns, fd, stop, stops, main, at>>
  BY DEF OtherOpens
<1> USE <1>1, <1>2, Distinct, Numbers DEF IInv, TypeOK
<1>3. TypeOK'
  OBVIOUS
<1>4. TableInv'
  BY DEF TableInv, Visited
<1>5. ConnInv'
  BY DEF ConnInv, Visited
<1>6. StopInv' /\ MainInv'
  BY DEF StopInv, MainInv, Alive
<1> QED BY <1>3, <1>4, <1>5, <1>6

-----------------------------------------------------------------------------
(***************************************************************************)
(* Stop.                                                                   *)
(***************************************************************************)

LEMMA StopBeginsInv ==
  ASSUME IInv, NEW b \in {"thread", "handler"}, Alive,
         stop.by = "no", stops < MaxStops, stops' = stops + 1,
         stop' = [by |-> b, at |-> 0, half |-> FALSE],
         UNCHANGED <<table, stopped, watched, conns, fd, main, at>>,
         pc' = pc \/ \E l \in Loops : pc[l] = "handle" /\ pc' = [pc EXCEPT ![l] = "stop"]
  PROVE  IInv'
<1>1. /\ stop'.by # "no" /\ stop'.at = 0 /\ ~stop'.half /\ ~stop.half
      /\ stop' \in [by : {"no", "thread", "handler"}, at : 0..NumLoop, half : BOOLEAN]
  BY StopAssumption DEF IInv, StopInv
<1>2. /\ pc' \in [Loops -> {"none", "test", "wait", "blocked", "handle", "stop", "ended"}]
      /\ \A l \in Loops : pc'[l] = pc[l] \/ (pc[l] = "handle" /\ pc'[l] = "stop")
  BY DEF IInv, TypeOK
<1>3. stops \in Nat /\ stops' \in 1..MaxStops
  BY StopAssumption DEF IInv, TypeOK
<1>4. TypeOK'
  BY <1>1, <1>2, <1>3 DEF IInv, TypeOK
<1>5. \A l \in Loops : Visited(l)' <=> Visited(l)
  BY <1>1 DEF Visited
<1>6. TableInv' /\ ConnInv'
  BY <1>3, <1>5 DEF IInv, TableInv, ConnInv
<1>7. StopInv'
  BY <1>1, <1>3 DEF IInv, StopInv, Alive, Loops
<1>8. MainInv'
  BY <1>2 DEF IInv, MainInv, Alive
<1> QED BY <1>4, <1>6, <1>7, <1>8 DEF IInv

LEMMA StopFromThreadInv == ASSUME IInv, StopFromThread PROVE IInv'
BY StopBeginsInv DEF StopFromThread

\* A handler runs only while the server does
LEMMA StopFromHandlerInv == ASSUME IInv, NEW l \in Loops, StopFromHandler(l) PROVE IInv'
<1>1. Alive
  BY DEF StopFromHandler, IInv, MainInv, Alive
<1> QED BY <1>1, StopBeginsInv DEF StopFromHandler

LEMMA CloseEpollInv == ASSUME IInv, CloseEpoll PROVE IInv'
<1> USE Distinct, Numbers DEF IInv, TypeOK
<1> DEFINE n == stop.at
<1>1. /\ n \in Loops /\ ~stop.half /\ stop.by # "no"
      /\ table' = [table EXCEPT ![n] = Free]
      /\ stop' = [stop EXCEPT !.half = TRUE]
      /\ watched' = [l \in Loops |-> watched[l] \ {table[n]}]
      /\ UNCHANGED <<stopped, pc, conns, fd, stops, main, at>>
  BY DEF CloseEpoll, Closed, Unwatched, epfd
<1>2. stop'.half /\ stop'.at = n /\ stop'.by = stop.by
  BY <1>1
<1>3. TypeOK'
  BY <1>1
<1>4. \A l \in Loops : Visited(l)' <=> Visited(l) \/ l = n
  BY <1>1, <1>2 DEF Visited
<1> HIDE DEF n
<1>5. TableInv'
  BY <1>1, <1>4 DEF TableInv
<1>6. ConnInv'
  <2>1. ASSUME NEW c \in conns, fd[c] = n PROVE stops > 1
    BY <1>1, <2>1 DEF ConnInv, TableInv, StopInv, n, Visited
  <2> QED BY <1>1, <1>4, <2>1 DEF ConnInv
<1>7. StopInv' /\ MainInv'
  BY <1>1, <1>2 DEF StopInv, MainInv, Alive, n
<1> QED BY <1>3, <1>5, <1>6, <1>7

LEMMA SetStoppedInv == ASSUME IInv, SetStopped PROVE IInv'
<1> USE Distinct, Numbers DEF IInv, TypeOK
<1> DEFINE n == stop.at
<1>1. /\ n \in Loops /\ stop.half /\ stop.by # "no"
      /\ stopped' = [stopped EXCEPT ![n] = TRUE]
      /\ stop' = [stop EXCEPT !.at = n + 1, !.half = FALSE]
      /\ UNCHANGED <<table, pc, watched, conns, fd, stops, main, at>>
  BY DEF SetStopped, StopInv
<1>2. ~stop'.half /\ stop'.at = n + 1 /\ stop'.by = stop.by
  BY <1>1
<1>3. TypeOK'
  BY <1>1
<1>4. \A l \in Loops : Visited(l)' <=> Visited(l)
  BY <1>1, <1>2 DEF Visited
<1>5. TableInv' /\ ConnInv'
  BY <1>1, <1>4 DEF TableInv, ConnInv
<1>6. StopInv'
  BY <1>1, <1>2 DEF StopInv, Alive, Loops
<1>7. MainInv'
  BY <1>1 DEF MainInv, Alive
<1> QED BY <1>3, <1>5, <1>6, <1>7

LEMMA StopReturnsInv == ASSUME IInv, StopReturns PROVE IInv'
<1> USE Numbers DEF IInv, TypeOK
<1>1. /\ stop.by # "no" /\ ~stop.half /\ stop'.by = "no" /\ ~stop'.half
      /\ UNCHANGED <<table, stopped, watched, conns, fd, stops, main, at>>
      /\ \A l \in Loops : pc[l] \in {"none", "ended"} => pc'[l] = pc[l]
  BY DEF StopReturns, StopInv, Loops
<1>2. TypeOK'
  BY StopAssumption DEF StopReturns
<1>3. \A l \in Loops : Visited(l)' <=> Visited(l)
  BY <1>1 DEF Visited
<1>4. TableInv' /\ ConnInv'
  BY <1>1, <1>3 DEF TableInv, ConnInv
<1>5. StopInv'
  BY <1>1 DEF StopInv, Alive
<1>6. MainInv'
  BY <1>1 DEF MainInv, Alive
<1> QED BY <1>2, <1>4, <1>5, <1>6

-----------------------------------------------------------------------------
(***************************************************************************)
(* Destruction.                                                            *)
(***************************************************************************)

LEMMA DestroyInv == ASSUME IInv, Destroy PROVE IInv'
<1> USE Numbers, StopAssumption DEF IInv, TypeOK
<1>1. TypeOK' /\ TableInv' /\ ConnInv'
  BY DEF Destroy, TableInv, ConnInv, Visited
<1>2. StopInv' /\ MainInv'
  BY DEF Destroy, StopInv, MainInv, Alive
<1> QED BY <1>1, <1>2

LEMMA CloseListenerInv == ASSUME IInv, CloseListener PROVE IInv'
<1> USE Distinct, Numbers DEF IInv, TypeOK
<1>1. /\ table' = [table EXCEPT ![Acceptor] = Free] /\ table[Acceptor] = Listener
      /\ main = "listener" /\ main' = "stop"
      /\ watched' \in [Loops -> SUBSET ({Listener} \cup {Client(c) : c \in Conns})]
      /\ UNCHANGED <<stopped, pc, conns, fd, stop, stops, at>>
  BY DEF CloseListener, Closed, MainInv
<1>2. TypeOK'
  BY <1>1
<1>3. TableInv' /\ ConnInv'
  BY <1>1 DEF TableInv, ConnInv, Visited
<1>4. StopInv'
  BY <1>1 DEF StopInv, Alive
<1>5. MainInv'
  BY <1>1 DEF MainInv, Alive, Loops
<1> QED BY <1>2, <1>3, <1>4, <1>5

\* Nobody can call Stop any more: the numbers of the loops that are stopped are given up
LEMMA StopLoopsInv == ASSUME IInv, StopLoops PROVE IInv'
<1> USE Distinct, Numbers DEF IInv, TypeOK
<1>1. /\ main = "stop" /\ stop.by = "no" /\ ~stop.half
      /\ UNCHANGED <<pc, watched, conns, fd, stop, stops>>
  BY DEF StopLoops, StopInv, Alive
<1>2. CASE at \notin Loops
  <2>1. main' = "clear" /\ UNCHANGED <<table, stopped, at>> /\ at = NumLoop
    BY <1>1, <1>2, StopAssumption DEF StopLoops, Loops
  <2>2. TypeOK' /\ TableInv' /\ ConnInv' /\ StopInv'
    BY <1>1, <2>1 DEF TableInv, ConnInv, StopInv, Visited, Alive
  <2>3. MainInv'
    BY <1>1, <2>1, StopAssumption DEF MainInv, Alive, Loops
  <2> QED BY <2>2, <2>3
<1>3. CASE at \in Loops /\ stopped[at]
  <2>1. at' = at + 1 /\ UNCHANGED <<main, table, stopped>>
    BY <1>3 DEF StopLoops
  <2>2. TypeOK' /\ TableInv' /\ ConnInv' /\ StopInv'
    BY <1>1, <1>3, <2>1 DEF TableInv, ConnInv, StopInv, Visited, Alive
  <2>3. MainInv'
    BY <1>1, <1>3, <2>1 DEF MainInv, Alive, Loops
  <2> QED BY <2>2, <2>3
<1>4. CASE at \in Loops /\ ~stopped[at]
  <2>1. /\ at' = at + 1 /\ main' = main
        /\ table' = [table EXCEPT ![at] = Free] /\ stopped' = [stopped EXCEPT ![at] = TRUE]
    BY <1>4 DEF StopLoops, Closed, epfd
  <2>2. table[at] = Epoll(at)
    BY <1>1, <1>4 DEF TableInv, Visited
  <2>3. TypeOK'
    BY <1>1, <1>4, <2>1
  <2>4. TableInv' /\ ConnInv'
    BY <1>1, <1>4, <2>1, <2>2 DEF TableInv, ConnInv, Visited
  <2>5. StopInv'
    BY <1>1, <2>1 DEF StopInv, Alive
  <2>6. MainInv'
    BY <1>1, <1>4, <2>1 DEF MainInv, Alive, Loops
  <2> QED BY <2>3, <2>4, <2>5, <2>6
<1> QED BY <1>2, <1>3, <1>4

LEMMA ClearConnsInv == ASSUME IInv, ClearConns PROVE IInv'
<1> USE Distinct, Numbers DEF IInv, TypeOK
<1>1. /\ main = "clear" /\ main' = "epoller" /\ at' = 0 /\ conns' = {}
      /\ stop.by = "no" /\ ~stop.half /\ \A l \in Loops : stopped[l]
      /\ table' = [n \in Fds |-> IF \E c \in conns : fd[c] = n THEN Free ELSE table[n]]
      /\ watched' = [l \in Loops |-> watched[l] \ {Client(c) : c \in conns}]
      /\ UNCHANGED <<stopped, pc, fd, stop, stops>>
  BY DEF ClearConns, StopInv, MainInv, Alive
<1>2. TypeOK'
  BY <1>1, StopAssumption
<1>3. TableInv' /\ ConnInv'
  BY <1>1 DEF TableInv, ConnInv, Visited
<1>4. StopInv'
  BY <1>1 DEF StopInv, Alive
<1>5. MainInv'
  BY <1>1 DEF MainInv, Alive
<1> QED BY <1>2, <1>3, <1>4, <1>5

LEMMA CloseAgainInv == ASSUME IInv, CloseAgain PROVE IInv'
<1> USE Distinct, Numbers DEF IInv, TypeOK
<1>1. /\ main = "epoller" /\ stop.by = "no" /\ ~stop.half /\ conns = {}
      /\ \A l \in Loops : stopped[l]
      /\ main' \in {"epoller", "gone"} /\ at' \in 0..NumLoop
      /\ table' = table \/ \E n \in Loops : table' = [table EXCEPT ![n] = Free]
      /\ UNCHANGED <<stopped, pc, watched, conns, fd, stop, stops>>
  BY DEF CloseAgain, StopInv, MainInv, Alive, Closed, epfd
<1>2. TypeOK'
  BY <1>1
<1>3. TableInv' /\ ConnInv'
  BY <1>1 DEF TableInv, ConnInv, Visited
<1>4. StopInv' /\ MainInv'
  BY <1>1 DEF StopInv, MainInv, Alive
<1> QED BY <1>2, <1>3, <1>4

-----------------------------------------------------------------------------
(***************************************************************************)
(* The theorems.                                                           *)
(***************************************************************************)

LEMMA NextInv == IInv /\ [Next]_vars => IInv'
<1> SUFFICES ASSUME IInv, [Next]_vars PROVE IInv'
  OBVIOUS
<1>1. CASE Run \/ React \/ Wait
  BY <1>1, RunInv
<1>2. CASE StopFromThread
  BY <1>2, StopFromThreadInv
<1>3. CASE Stop
  BY <1>3, CloseEpollInv, SetStoppedInv, StopReturnsInv DEF Stop
<1>4. CASE Destroy
  BY <1>4, DestroyInv
<1>5. CASE Destructor
  BY <1>5, CloseListenerInv, StopLoopsInv, ClearConnsInv, CloseAgainInv DEF Destructor
<1>6. CASE OtherOpens
  BY <1>6, OtherOpensInv
<1>7. ASSUME NEW l \in Loops, Thread(l) \/ Event(l) \/ StopFromHandler(l) PROVE IInv'
  BY <1>7, ThreadInv, HandleInv, StopFromHandlerInv DEF Thread
<1>8. CASE UNCHANGED vars
  BY <1>8 DEF vars, IInv, TypeOK, TableInv, ConnInv, StopInv, MainInv, Visited, Alive
<1> QED BY <1>1, <1>2, <1>3, <1>4, <1>5, <1>6, <1>7, <1>8 DEF Next

\* The inductive invariant holds in every state of a server's life
THEOREM Invariance == Spec => []IInv
BY InitInv, NextInv, PTL DEF Spec

\* A server that is destroyed leaves nothing of its own open, with any number of loops,
\* connections and calls of Stop: ~Reactor (reactor.cc), with conns_.clear() and ~Epoller
THEOREM NoLeaks == Spec => []NothingLeaks
<1>1. IInv => NothingLeaks
  <2> SUFFICES ASSUME IInv, main = "gone", NEW n \in Fds
               PROVE  table[n] \in {Free, Other}
    BY DEF NothingLeaks
  <2>1. conns = {} /\ \A l \in Loops : stopped[l]
    BY DEF IInv, MainInv
  <2>2. table[n] # Listener
    BY DEF IInv, TableInv, MainInv, Alive
  <2>3. \A l \in Loops : table[n] # Epoll(l)
    BY <2>1 DEF IInv, TableInv, Visited
  <2>4. \A c \in Conns : table[n] # Client(c)
    BY <2>1 DEF IInv, TableInv
  <2> QED BY <2>2, <2>3, <2>4 DEF IInv, TypeOK
<1> QED BY <1>1, Invariance, PTL

\* What a step that closes n has to satisfy
OwnClose(n) == \/ table[n] = Epoll(n)
               \/ table[n] = Listener /\ main = "listener"
               \/ \E c \in conns \ conns' : table[n] = Client(c)
               \/ n \in Loops /\ (main = "epoller" \/ stops > 1)

\* Opening a descriptor closes none
LEMMA OpeningCloses ==
  ASSUME IInv, NEW m \in Fds, NEW o, o # Free, table' = [table EXCEPT ![m] = o],
         NEW n \in Fds, table[n] # Free
  PROVE  table'[n] # Free
BY DEF IInv, TypeOK

LEMMA HandleCloses ==
  ASSUME IInv, NEW l \in Loops, Handle(l), NEW n \in Fds, table[n] # Free, table'[n] = Free
  PROVE  OwnClose(n)
<1>1. CASE Nothing
  BY <1>1 DEF Nothing
<1>2. ASSUME NEW c \in Conns, NEW k \in Selectable, Accept(c, k) PROVE FALSE
  <2>1. CASE table[epfd(k)] = Epoll(k)
    <3>1. Lowest \in Fds /\ table' = [table EXCEPT ![Lowest] = Client(c)]
      BY <1>2, <2>1, LowestIsFree DEF Accept
    <3>2. Client(c) # Free
      BY Distinct
    <3> QED BY <3>1, <3>2, OpeningCloses
  <2>2. CASE table[epfd(k)] # Epoll(k)
    BY <1>2, <2>2 DEF Accept
  <2> QED BY <2>1, <2>2
<1>3. ASSUME NEW c \in Conns, Close(c, l) PROVE OwnClose(n)
  <2>1. c \in conns \ conns' /\ n = fd[c]
    BY <1>3 DEF Close, Closed, IInv, TypeOK
  <2> QED BY <2>1 DEF OwnClose, IInv, ConnInv
<1> QED BY <1>1, <1>2, <1>3 DEF Handle

LEMMA StopCloses ==
  ASSUME IInv, Stop, NEW n \in Fds, table[n] # Free, table'[n] = Free
  PROVE  OwnClose(n)
<1>1. stop.by # "no" /\ stop.at \in Loops /\ ~stop.half /\ n = stop.at
  BY DEF Stop, CloseEpoll, SetStopped, StopReturns, Closed, epfd, IInv, TypeOK
<1>2. CASE stops > 1
  BY <1>1, <1>2 DEF OwnClose
<1>3. CASE stops = 1
  <2>1. ~Visited(n)
    BY <1>1, <1>3 DEF IInv, StopInv, Visited, Loops
  <2> QED BY <1>1, <2>1 DEF OwnClose, IInv, TableInv
<1>4. stops \in Nat \ {0}
  BY <1>1, StopAssumption DEF IInv, TypeOK, StopInv
<1> QED BY <1>2, <1>3, <1>4

LEMMA DestructorCloses ==
  ASSUME IInv, Destructor, NEW n \in Fds, table[n] # Free, table'[n] = Free
  PROVE  OwnClose(n)
<1> USE DEF IInv, TypeOK
<1>1. CASE CloseListener
  BY <1>1 DEF CloseListener, Closed, MainInv, Alive, OwnClose
<1>2. CASE StopLoops
  <2>1. at \in Loops /\ ~stopped[at] /\ n = at /\ ~stop.half
    BY <1>2 DEF StopLoops, Closed, epfd, StopInv, Alive
  <2> QED BY <2>1 DEF OwnClose, TableInv, Visited
<1>3. CASE ClearConns
  <2>1. PICK c \in conns : fd[c] = n /\ conns' = {}
    BY <1>3 DEF ClearConns
  <2> QED BY <2>1 DEF OwnClose, ConnInv
<1>4. CASE CloseAgain
  BY <1>4 DEF CloseAgain, Closed, epfd, OwnClose
<1> QED BY <1>1, <1>2, <1>3, <1>4 DEF Destructor

\* Whatever closes a descriptor owns it, or closes again the number of an epoll instance
\* that was closed before: in ~Epoller (epoller.cc:9) or in a second Stop
THEOREM OwnersClose == Spec => ClosesOwn
<1>1. IInv /\ [Next]_vars =>
        [\A n \in Fds : table[n] # Free /\ table'[n] = Free => OwnClose(n)]_vars
  <2> SUFFICES ASSUME IInv, Next, NEW n \in Fds, table[n] # Free, table'[n] = Free
               PROVE  OwnClose(n)
    OBVIOUS
  <2>1. CASE Run \/ React \/ Wait \/ StopFromThread \/ Destroy
    BY <2>1 DEF Run, React, Wait, StopFromThread, Destroy
  <2>2. CASE Stop
    BY <2>2, StopCloses
  <2>3. CASE Destructor
    BY <2>3, DestructorCloses
  <2>4. CASE OtherOpens
    <3>1. Lowest \in Fds /\ table' = [table EXCEPT ![Lowest] = Other] /\ Other # Free
      BY <2>4, LowestIsFree, Distinct DEF OtherOpens
    <3> QED BY <3>1, OpeningCloses
  <2>5. ASSUME NEW l \in Loops, Thread(l) \/ Event(l) \/ StopFromHandler(l)
        PROVE  OwnClose(n)
    <3>1. CASE Handle(l)
      BY <3>1, HandleCloses
    <3>2. CASE Test(l) \/ EpollWait(l) \/ Event(l) \/ StopFromHandler(l)
      BY <3>2 DEF Test, EpollWait, Event, StopFromHandler
    <3> QED BY <2>5, <3>1, <3>2 DEF Thread
  <2> QED BY <2>1, <2>2, <2>3, <2>4, <2>5 DEF Next
<1> QED BY <1>1, Invariance, PTL DEF Spec, ClosesOwn, OwnClose
=============================================================================
