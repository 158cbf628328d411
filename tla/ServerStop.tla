----------------------------- MODULE ServerStop -----------------------------
(***************************************************************************)
(* The life of a server: construction, Run, Stop and destruction           *)
(* (net/tcp/tcp_server.cc, net/http/http_server.cc, Reactor::React, Wait,  *)
(* Stop and ~Reactor, EventLoop::Loop and Stop, Epoller::Stop and          *)
(* ~Epoller), with the descriptors that are closed on the way.             *)
(*                                                                         *)
(* close() gives a number free, but an epoll instance lives on as long as  *)
(* a thread is in epoll_wait on it, with what is registered there.  New    *)
(* descriptors get the lowest free number.                                 *)
(*                                                                         *)
(* A program calls Run once or not at all, Stop MaxStops times at most,    *)
(* from a handler or another thread, and does not destroy the server       *)
(* before Run and Stop have returned.  What connections do is in Reactor.  *)
(***************************************************************************)
EXTENDS Naturals, FiniteSetsExt

CONSTANTS
  NumLoop,   \* num_loop_
  Conns,     \* the connections that are accepted
  MaxFd,     \* descriptors are 0..MaxFd
  MaxStops   \* bound on the calls of Stop

ASSUME StopAssumption == /\ NumLoop \in Nat \ {0} /\ MaxStops \in Nat
                         /\ MaxFd \in Nat /\ MaxFd > NumLoop

VARIABLES
  table,    \* who has each descriptor: the descriptor table of the process
  stopped,  \* stopped of each loop
  pc,       \* where the thread of each loop is
  watched,  \* what is registered with each epoll instance
  conns,    \* conns_
  fd,       \* fd_ of each connection, NoFd if there was none yet
  stop,     \* Stop: who called it ("no" if it is not running), the loop it has come to, and
            \* whether it has closed the descriptor of that
  stops,    \* how often Stop has been called
  main,     \* what the thread that owns the server does
  at        \* and the loop it has come to, in Run and in ~Reactor

vars == <<table, stopped, pc, watched, conns, fd, stop, stops, main, at>>

Loops    == 0..(NumLoop - 1)
Fds      == 0..MaxFd
Acceptor == NumLoop   \* its number: it is created after the loops
epfd(l)  == l         \* epfd_ of each loop, for ever
NoFd     == MaxFd + 1

Free       == <<"free">>
Other      == <<"other">>      \* another part of the program
Epoll(l)   == <<"epoll", l>>
Listener   == <<"listener">>
Client(c)  == <<"client", c>>

Lowest == Min({n \in Fds : table[n] = Free})
Room   == \E n \in Fds : table[n] = Free

Closed(n)    == [table EXCEPT ![n] = Free]
Unwatched(n) == [l \in Loops |-> watched[l] \ {table[n]}]

\* Reactor::InitEventLoops, InitAcceptor
Init ==
  /\ table = [n \in Fds |-> IF n \in Loops THEN Epoll(n)
                            ELSE IF n = Acceptor THEN Listener ELSE Free]
  /\ stopped = [l \in Loops |-> FALSE]
  /\ pc = [l \in Loops |-> "none"]
  /\ watched = [l \in Loops |-> IF l = 0 THEN {Listener} ELSE {}]
  /\ conns = {} /\ fd = [c \in Conns |-> NoFd]
  /\ stop = [by |-> "no", at |-> 0, half |-> FALSE] /\ stops = 0
  /\ main = "constructed" /\ at = 0

TypeOK ==
  /\ table \in [Fds -> {Free, Other, Listener} \cup {Epoll(l) : l \in Loops}
                         \cup {Client(c) : c \in Conns}]
  /\ stopped \in [Loops -> BOOLEAN]
  /\ pc \in [Loops -> {"none", "test", "wait", "blocked", "handle", "stop", "ended"}]
  /\ watched \in [Loops -> SUBSET ({Listener} \cup {Client(c) : c \in Conns})]
  /\ conns \subseteq Conns /\ fd \in [Conns -> Fds \cup {NoFd}]
  /\ stop \in [by : {"no", "thread", "handler"}, at : 0..NumLoop, half : BOOLEAN]
  /\ stops \in 0..MaxStops
  /\ main \in {"constructed", "react", "join", "returned", "listener", "stop", "clear",
               "epoller", "gone"}
  /\ at \in 0..NumLoop

-----------------------------------------------------------------------------
(***************************************************************************)
(* Run.                                                                    *)
(***************************************************************************)

Run == /\ main = "constructed"
       /\ main' = "react" /\ at' = 0
       /\ UNCHANGED <<table, stopped, pc, watched, conns, fd, stop, stops>>

\* React starts one thread after the other
React == /\ main = "react"
         /\ IF at \in Loops
            THEN pc' = [pc EXCEPT ![at] = "test"] /\ at' = at + 1 /\ UNCHANGED main
            ELSE main' = "join" /\ at' = 0 /\ UNCHANGED pc
         /\ UNCHANGED <<table, stopped, watched, conns, fd, stop, stops>>

\* Wait joins them
Wait == /\ main = "join"
        /\ IF at \in Loops
           THEN pc[at] = "ended" /\ at' = at + 1 /\ UNCHANGED main
           ELSE main' = "returned" /\ at' = 0
        /\ UNCHANGED <<table, stopped, pc, watched, conns, fd, stop, stops>>

-----------------------------------------------------------------------------
(***************************************************************************)
(* EventLoop::Loop.                                                        *)
(***************************************************************************)

Test(l) == /\ pc[l] = "test"
           /\ pc' = [pc EXCEPT ![l] = IF stopped[l] THEN "ended" ELSE "wait"]
           /\ UNCHANGED <<table, stopped, watched, conns, fd, stop, stops, main, at>>

\* A Loop that tests stopped only when there were events
EpollWaitUntested(l) ==
  /\ pc[l] = "wait"
  /\ pc' = [pc EXCEPT ![l] = IF table[epfd(l)] = Epoll(l) THEN "blocked" ELSE "wait"]
  /\ UNCHANGED <<table, stopped, watched, conns, fd, stop, stops, main, at>>

\* epoll_wait fails at once on a number that is closed, or not an epoll instance any more
EpollWait(l) ==
  /\ pc[l] = "wait"
  /\ pc' = [pc EXCEPT ![l] = IF table[epfd(l)] = Epoll(l) THEN "blocked" ELSE "test"]
  /\ UNCHANGED <<table, stopped, watched, conns, fd, stop, stops, main, at>>

\* An event of something that is registered.  Nothing else ends the wait.
Event(l) == /\ pc[l] = "blocked"
            /\ watched[l] # {}
            /\ pc' = [pc EXCEPT ![l] = "handle"]
            /\ UNCHANGED <<table, stopped, watched, conns, fd, stop, stops, main, at>>

-----------------------------------------------------------------------------
(***************************************************************************)
(* Handlers.                                                               *)
(***************************************************************************)

\* EventLoopSelector
Selectable == IF NumLoop = 1 THEN {0} ELSE 1..(NumLoop - 1)

\* An Acceptor that inserts the connection whether it is attached or not, and so leaves the
\* descriptor of one that is not attached to no one
AcceptUnattached(c, l) ==
  /\ c \notin conns /\ Room /\ fd[c] = NoFd
  /\ IF table[epfd(l)] = Epoll(l)
     THEN /\ table' = [table EXCEPT ![Lowest] = Client(c)]
          /\ fd' = [fd EXCEPT ![c] = Lowest]
          /\ watched' = [watched EXCEPT ![l] = @ \cup {Client(c)}]
          /\ conns' = conns \cup {c}
     ELSE /\ table' = [table EXCEPT ![Lowest] = Client(c)]
          /\ UNCHANGED <<watched, conns, fd>>

\* Acceptor: a connection that cannot be attached, because the epoll instance is closed or
\* its number is another descriptor by now, is destroyed, and its number free again
Accept(c, l) ==
  /\ c \notin conns /\ Room /\ fd[c] = NoFd
  /\ IF table[epfd(l)] = Epoll(l)
     THEN /\ table' = [table EXCEPT ![Lowest] = Client(c)]
          /\ fd' = [fd EXCEPT ![c] = Lowest]
          /\ watched' = [watched EXCEPT ![l] = @ \cup {Client(c)}]
          /\ conns' = conns \cup {c}
     ELSE UNCHANGED <<table, watched, conns, fd>>

\* CloseConnGuarded, and ~ReactorConn
Close(c, l) ==
  /\ c \in conns /\ Client(c) \in watched[l]
  /\ conns' = conns \ {c}
  /\ table' = Closed(fd[c]) /\ watched' = Unwatched(fd[c])
  /\ UNCHANGED fd

Nothing == UNCHANGED <<table, watched, conns, fd>>

Handle(l) ==
  /\ pc[l] = "handle"
  /\ pc' = [pc EXCEPT ![l] = "test"]
  /\ \/ Nothing
     \/ Listener \in watched[l] /\ \E c \in Conns, k \in Selectable : Accept(c, k)
     \/ \E c \in Conns : Close(c, l)
  /\ UNCHANGED <<stopped, stop, stops, main, at>>

Thread(l) == Test(l) \/ EpollWait(l) \/ Handle(l)

-----------------------------------------------------------------------------
(***************************************************************************)
(* Stop.                                                                   *)
(***************************************************************************)

Alive == main \in {"constructed", "react", "join", "returned"}

StopFromThread == /\ stop.by = "no" /\ stops < MaxStops /\ Alive
                  /\ stop' = [by |-> "thread", at |-> 0, half |-> FALSE]
                  /\ stops' = stops + 1
                  /\ UNCHANGED <<table, stopped, pc, watched, conns, fd, main, at>>

StopFromHandler(l) == /\ stop.by = "no" /\ stops < MaxStops /\ pc[l] = "handle"
                      /\ stop' = [by |-> "handler", at |-> 0, half |-> FALSE]
                      /\ stops' = stops + 1
                      /\ pc' = [pc EXCEPT ![l] = "stop"]
                      /\ UNCHANGED <<table, stopped, watched, conns, fd, main, at>>

\* EventLoop::Stop: Epoller::Stop first, ...
CloseEpoll == /\ stop.by # "no" /\ stop.at \in Loops /\ ~stop.half
              /\ table' = Closed(epfd(stop.at)) /\ watched' = Unwatched(epfd(stop.at))
              /\ stop' = [stop EXCEPT !.half = TRUE]
              /\ UNCHANGED <<stopped, pc, conns, fd, stops, main, at>>

\* ... then the flag
SetStopped == /\ stop.half
              /\ stopped' = [stopped EXCEPT ![stop.at] = TRUE]
              /\ stop' = [stop EXCEPT !.at = @ + 1, !.half = FALSE]
              /\ UNCHANGED <<table, pc, watched, conns, fd, stops, main, at>>

StopReturns == /\ stop.by # "no" /\ stop.at = NumLoop
               /\ stop' = [by |-> "no", at |-> 0, half |-> FALSE]
               /\ pc' = [l \in Loops |-> IF pc[l] = "stop" THEN "test" ELSE pc[l]]
               /\ UNCHANGED <<table, stopped, watched, conns, fd, stops, main, at>>

Stop == CloseEpoll \/ SetStopped \/ StopReturns

-----------------------------------------------------------------------------
(***************************************************************************)
(* Destruction, of a server that has not run or whose Run has returned.    *)
(***************************************************************************)

Destroy == /\ main \in {"constructed", "returned"} /\ stop.by = "no"
           /\ main' = "listener" /\ at' = 0
           /\ UNCHANGED <<table, stopped, pc, watched, conns, fd, stop, stops>>

\* ~Reactor: acceptor_.reset(), ...
CloseListener == /\ main = "listener"
                 /\ main' = "stop"
                 /\ table' = Closed(Acceptor)
                 /\ watched' = [watched EXCEPT ![0] = @ \ {Listener}]
                 /\ UNCHANGED <<stopped, pc, conns, fd, stop, stops, at>>

\* A ~Reactor that does not ask whether the loop is stopped
StopLoopsAgain ==
  /\ main = "stop"
  /\ IF at \in Loops
     THEN /\ at' = at + 1 /\ UNCHANGED main
          /\ table' = Closed(epfd(at)) /\ stopped' = [stopped EXCEPT ![at] = TRUE]
     ELSE main' = "clear" /\ UNCHANGED <<at, table, stopped>>
  /\ UNCHANGED <<pc, watched, conns, fd, stop, stops>>

\* ... EventLoop::Stop of the loops that are not stopped, ...
StopLoops ==
  /\ main = "stop"
  /\ IF at \in Loops
     THEN /\ at' = at + 1 /\ UNCHANGED main
          /\ IF stopped[at] THEN UNCHANGED <<table, stopped>>
             ELSE table' = Closed(epfd(at)) /\ stopped' = [stopped EXCEPT ![at] = TRUE]
     ELSE main' = "clear" /\ UNCHANGED <<at, table, stopped>>
  /\ UNCHANGED <<pc, watched, conns, fd, stop, stops>>

\* ... conns_.clear(), ...
ClearConns ==
  /\ main = "clear"
  /\ main' = "epoller" /\ at' = 0
  /\ table' = [n \in Fds |-> IF \E c \in conns : fd[c] = n THEN Free ELSE table[n]]
  /\ watched' = [l \in Loops |-> watched[l] \ {Client(c) : c \in conns}]
  /\ conns' = {}
  /\ UNCHANGED <<stopped, pc, fd, stop, stops>>

\* ... and ~Epoller of each loop, which closes the number again
CloseAgain ==
  /\ main = "epoller"
  /\ IF at \in Loops
     THEN table' = Closed(epfd(at)) /\ at' = at + 1 /\ UNCHANGED main
     ELSE main' = "gone" /\ UNCHANGED <<table, at>>
  /\ UNCHANGED <<stopped, pc, watched, conns, fd, stop, stops>>

Destructor == CloseListener \/ StopLoops \/ ClearConns \/ CloseAgain

\* Another part of the program opens something
OtherOpens == /\ Room
              /\ table' = [table EXCEPT ![Lowest] = Other]
              /\ UNCHANGED <<stopped, pc, watched, conns, fd, stop, stops, main, at>>

Next == \/ Run \/ React \/ Wait \/ StopFromThread \/ Stop \/ Destroy \/ Destructor
        \/ OtherOpens
        \/ \E l \in Loops : Thread(l) \/ Event(l) \/ StopFromHandler(l)

Spec == Init /\ [][Next]_vars

\* Threads run.  Whether there are events, and what the program calls, is open.
FairSpec == /\ Spec
            /\ WF_vars(React) /\ WF_vars(Wait) /\ WF_vars(Stop)
            /\ \A l \in Loops : WF_vars(Thread(l))

-----------------------------------------------------------------------------
(***************************************************************************)
(* Properties.                                                             *)
(***************************************************************************)

\* Stop ends Run, whichever thread calls it, before, while or after the loops start, and
\* whatever the numbers of the epoll instances have become by then, if none of the loops
\* stays blocked.  Stop does nothing to wake one that is (epoller.cc:81).
RunReturns ==
  (\A l \in Loops : []<>(pc[l] # "blocked")) =>
    ((main \in {"react", "join"} /\ \A l \in Loops : stopped[l]) ~> main = "returned")

\* The destruction leaves nothing open, be it of a server that was stopped, or of one that
\* never ran, with connections that were accepted while Stop was at work.
NothingLeaks == main = "gone" => \A n \in Fds : table[n] \in {Free, Other}

\* A descriptor is closed by its owner only.  There is one exception: a number that was
\* an epoll instance's is closed again by ~Epoller (epoller.cc:9), or a second Stop, when
\* it may be a connection's or another part's of the program.
ClosesOwn ==
  [][\A n \in Fds : table[n] # Free /\ table'[n] = Free =>
       \/ table[n] = Epoll(n)
       \/ table[n] = Listener /\ main = "listener"
       \/ \E c \in conns \ conns' : table[n] = Client(c)
       \/ n \in Loops /\ (main = "epoller" \/ stops > 1)]_vars
=============================================================================
