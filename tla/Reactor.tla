------------------------------ MODULE Reactor ------------------------------
(***************************************************************************)
(* The reactor core of AhriMQ: net/reactor.cc with the event loop          *)
(* (net/eventloop.cc), the epoll wrapper (net/epoller.cc), the connection  *)
(* object (net/reactor_conn.cc) and the part of the stream handlers of     *)
(* TCPServer and HTTPServer that changes connection state.                 *)
(*                                                                         *)
(* One thread runs each event loop.  Loop 0 owns the listening socket and  *)
(* runs Acceptor; accepted connections are given to the other loops (or to *)
(* loop 0 when it is the only one).  A connection is a heap object         *)
(* (ReactorConn) referenced by the map Reactor::conns_ and, during         *)
(* Acceptor, by a local shared_ptr; its destructor closes the descriptor   *)
(* and then removes it from epoll, so both must be seen as separate steps: *)
(* descriptors are reused by accept.                                       *)
(*                                                                         *)
(* What a connection transports is abstracted to whether its socket has    *)
(* input (rx), room for output (room) and whether its write buffer holds a *)
(* reply (reply).                                                          *)
(***************************************************************************)
EXTENDS FiniteSets, Naturals

CONSTANTS
  Conns,    \* the connections that will ever be accepted (names are never reused)
  Fds,      \* descriptors the kernel can give to connections
  Loops,    \* the event loops, each with its thread
  Loop0,    \* the loop that owns the acceptor
  Server,   \* which stream handlers are installed: "tcp" or "http"
  None

ASSUME LoopsAssumption  == Loop0 \in Loops
ASSUME ServerAssumption == Server \in {"tcp", "http"}
ASSUME NoneAssumption   == None \notin Conns /\ None \notin Fds /\ None \notin Loops

VARIABLES
  life,      \* life[c]: the ReactorConn object of c
  fd,        \* fd[c]: ReactorConn::fd_
  loopOf,    \* loopOf[c]: ReactorConn::loop_
  watched,   \* watched[c]: ReactorConn::watched_
  owner,     \* owner[f]: the connection whose socket descriptor f is, or None
  epoll,     \* epoll[c]: what c's socket is registered for with its loop's epoll
  rx,        \* rx[c]: what c's socket has to read
  room,      \* room[c]: c's socket accepts more output
  conns,     \* Reactor::conns_
  sessions,  \* TCPServer::tcpconns_ or HTTPServer::httpconns_ (non-null entries)
  reply,     \* reply[c]: content of c's write buffer, and whether a file follows it
  mtx,       \* holder of Reactor::mtx_
  pc,        \* pc[l]: where the thread of loop l is
  cur,       \* cur[l]: the connection that thread works on
  fired,     \* fired[c]: events epoll_wait returned for c and the loop has not handled
  chkFile,   \* chkFile[l]: Writer will look at the file state after the write handler
  early,     \* history: connections with an event handled before Acceptor let go of them
  gone       \* history: connections CloseConnGuarded was called for

objVars    == <<life, fd, loopOf, watched>>
sockVars   == <<rx, room>>
serverVars == <<sessions, reply>>
threadVars == <<pc, cur, chkFile>>
historyVars == <<early, gone>>
vars == <<objVars, owner, epoll, sockVars, conns, serverVars, mtx, threadVars,
          fired, historyVars>>

\* EventLoopSelector with an index that may run one past the last loop
SelectableOffByOne == IF Loops = {Loop0} THEN {Loop0} ELSE (Loops \ {Loop0}) \cup {None}

\* EventLoopSelector: the loops a new connection may be given to
Selectable == IF Loops = {Loop0} THEN {Loop0} ELSE Loops \ {Loop0}

AcceptorPcs == {"acc_open", "acc_attach", "acc_watch", "acc_insert", "acc_return"}
HandlerPcs  == {"reader", "closed", "writer", "written"}
Pcs == {"loop", "detach", "guard", "filecheck"} \cup AcceptorPcs \cup HandlerPcs

\* Acceptor's local variable newconn holds a reference to c
AccHolds(c) == cur[Loop0] = c /\ pc[Loop0] \in AcceptorPcs

Armed(c) == epoll[c] \in {"in", "inout"}
Replies  == {"none", "bytes", "file"}

TypeOK ==
  /\ life \in [Conns -> {"unborn", "alive", "closing", "freed"}]
  /\ fd \in [Conns -> Fds \cup {None}]
  /\ loopOf \in [Conns -> Loops]
  /\ watched \in [Conns -> BOOLEAN]
  /\ owner \in [Fds -> Conns \cup {None}]
  /\ epoll \in [Conns -> {"none", "disabled", "in", "inout"}]
  /\ rx \in [Conns -> {"quiet", "data", "fin", "datafin", "reset"}]
  /\ room \in [Conns -> BOOLEAN]
  /\ conns \in SUBSET Conns
  /\ sessions \in SUBSET Conns
  /\ reply \in [Conns -> Replies]
  /\ mtx \in Loops \cup {None}
  /\ pc \in [Loops -> Pcs]
  /\ cur \in [Loops -> Conns \cup {None}]
  /\ fired \in [Conns -> SUBSET {"IN", "OUT"}]
  /\ chkFile \in [Loops -> BOOLEAN]
  /\ early \in SUBSET Conns
  /\ gone \in SUBSET Conns

Init ==
  /\ life = [c \in Conns |-> "unborn"]
  /\ fd = [c \in Conns |-> None]
  /\ loopOf = [c \in Conns |-> Loop0]
  /\ watched = [c \in Conns |-> FALSE]
  /\ owner = [f \in Fds |-> None]
  /\ epoll = [c \in Conns |-> "none"]
  /\ rx = [c \in Conns |-> "quiet"]
  /\ room = [c \in Conns |-> TRUE]
  /\ conns = {}
  /\ sessions = {}
  /\ reply = [c \in Conns |-> "none"]
  /\ mtx = None
  /\ pc = [l \in Loops |-> "loop"]
  /\ cur = [l \in Loops |-> None]
  /\ fired = [c \in Conns |-> {}]
  /\ chkFile = [l \in Loops |-> FALSE]
  /\ early = {}
  /\ gone = {}

-----------------------------------------------------------------------------
(***************************************************************************)
(* Helpers: control of a thread, the epoll calls, the destructor.          *)
(***************************************************************************)

\* The thread of l works on c and is about to execute p
At(l, c, p) == pc[l] = p /\ cur[l] = c

Goto(l, p) == /\ pc' = [pc EXCEPT ![l] = p]
              /\ cur' = [cur EXCEPT ![l] = IF p = "loop" THEN None ELSE @]

\* Epoller::ModifyConn: MOD a watched connection, ADD one that is not.  MOD of an
\* unregistered socket (ENOENT) and ADD of a registered one (EEXIST) change nothing,
\* and no caller looks at the result.
ModifyConn(c, m) ==
  LET registered == epoll[c] # "none"
      succeeds   == watched[c] = registered /\ life[c] = "alive"
  IN  /\ epoll' = [epoll EXCEPT ![c] = IF succeeds THEN m ELSE @]
      /\ watched' = [watched EXCEPT ![c] = @ \/ succeeds]

\* First half of ~ReactorConn: close(fd_).  Closing the only descriptor of a socket
\* also removes it from epoll.  What the peer does to it is of no more interest.
CloseFd(c) ==
  /\ life' = [life EXCEPT ![c] = "closing"]
  /\ owner' = [owner EXCEPT ![fd[c]] = None]
  /\ epoll' = [epoll EXCEPT ![c] = "none"]
  /\ rx' = [rx EXCEPT ![c] = "quiet"]
  /\ room' = [room EXCEPT ![c] = TRUE]

\* Epoller::DetachConn called for a descriptor that is closed by now: EPOLL_CTL_DEL
\* names the descriptor, so it hits the socket that has the number at this moment.
DetachConn(c) ==
  LET d == owner[fd[c]]
  IN  epoll' = IF d # None /\ loopOf[d] = loopOf[c]
               THEN [epoll EXCEPT ![d] = "none"]
               ELSE epoll

-----------------------------------------------------------------------------
(***************************************************************************)
(* Acceptor, in the thread of loop 0.                                      *)
(***************************************************************************)

\* accept(), the choice of a loop and the construction of the ReactorConn.  The kernel
\* gives any free descriptor.  (A failing accept changes nothing.)
Accept(c) ==
  /\ pc[Loop0] = "loop"
  /\ life[c] = "unborn"
  /\ \E f \in Fds, l \in Selectable :
       /\ owner[f] = None
       /\ owner' = [owner EXCEPT ![f] = c]
       /\ fd' = [fd EXCEPT ![c] = f]
       /\ loopOf' = [loopOf EXCEPT ![c] = l]
  /\ life' = [life EXCEPT ![c] = "alive"]
  /\ pc' = [pc EXCEPT ![Loop0] = "acc_open"]
  /\ cur' = [cur EXCEPT ![Loop0] = c]
  /\ UNCHANGED <<watched, epoll, sockVars, conns, serverVars, mtx, chkFile, fired,
                 historyVars>>

\* ev_accept_handler_: the server creates its session and hands its buffers to c
OnStreamOpen(c) ==
  /\ At(Loop0, c, "acc_open")
  /\ sessions' = sessions \cup {c}
  /\ Goto(Loop0, "acc_attach")
  /\ UNCHANGED <<objVars, owner, epoll, sockVars, conns, reply, mtx, chkFile, fired,
                 historyVars>>

\* AttachConn: epoll_ctl(ADD) of a connection registered for one EPOLLIN
AttachConn(c) ==
  /\ At(Loop0, c, "acc_attach")
  /\ epoll' = [epoll EXCEPT ![c] = "in"]
  /\ Goto(Loop0, "acc_watch")
  /\ UNCHANGED <<objVars, owner, sockVars, conns, serverVars, mtx, chkFile, fired,
                 historyVars>>

\* A caller that does not look at the result of AttachConn
AttachUnchecked(c) ==
  /\ At(Loop0, c, "acc_attach")
  /\ Goto(Loop0, "acc_watch")
  /\ UNCHANGED <<objVars, owner, epoll, sockVars, conns, serverVars, mtx, chkFile, fired,
                 historyVars>>

\* AttachConn fails (ENOMEM, ENOSPC): newconn.reset() destroys the only reference.
\* The session stays in the server's map.
AttachFails(c) ==
  /\ At(Loop0, c, "acc_attach")
  /\ CloseFd(c)
  /\ Goto(Loop0, "detach")
  /\ UNCHANGED <<fd, loopOf, watched, conns, serverVars, mtx, chkFile, fired, historyVars>>

\* watched_ is only set after epoll_ctl(ADD) returned
SetWatched(c) ==
  /\ At(Loop0, c, "acc_watch")
  /\ watched' = [watched EXCEPT ![c] = TRUE]
  /\ Goto(Loop0, "acc_insert")
  /\ UNCHANGED <<life, fd, loopOf, owner, epoll, sockVars, conns, serverVars, mtx, chkFile,
                 fired, historyVars>>

\* conns_[newconn_name] = newconn, under mtx_
Insert(c) ==
  /\ At(Loop0, c, "acc_insert")
  /\ mtx = None
  /\ conns' = conns \cup {c}
  /\ Goto(Loop0, "acc_return")
  /\ UNCHANGED <<objVars, owner, epoll, sockVars, serverVars, mtx, chkFile, fired,
                 historyVars>>

\* An Acceptor that gives its reference up without asking whether it is the last
ReturnKeeps(c) ==
  /\ At(Loop0, c, "acc_return")
  /\ Goto(Loop0, "loop")
  /\ UNCHANGED <<objVars, owner, epoll, sockVars, conns, serverVars, mtx, chkFile, fired,
                 historyVars>>

\* Acceptor returns: its shared_ptr goes.  When the connection was closed in the
\* meantime it was the last reference, and the destructor runs in this thread.
Return(c) ==
  /\ At(Loop0, c, "acc_return")
  /\ IF c \in conns
     THEN Goto(Loop0, "loop") /\ UNCHANGED <<life, owner, epoll, sockVars>>
     ELSE CloseFd(c) /\ Goto(Loop0, "detach")
  /\ UNCHANGED <<fd, loopOf, watched, conns, serverVars, mtx, chkFile, fired, historyVars>>

Acceptor(c) == \/ Accept(c) \/ OnStreamOpen(c) \/ AttachConn(c) \/ AttachFails(c)
               \/ SetWatched(c) \/ Insert(c) \/ Return(c)

-----------------------------------------------------------------------------
(***************************************************************************)
(* EventLoop::Loop: epoll_wait and the dispatch of what it returned.       *)
(***************************************************************************)

\* What epoll reports for c: level-triggered conditions, filtered by the registration
ReadyEvents(c) ==
  (IF Armed(c) /\ rx[c] # "quiet" THEN {"IN"} ELSE {}) \cup
  (IF epoll[c] = "inout" /\ (room[c] \/ rx[c] = "reset") THEN {"OUT"} ELSE {})

Ready(l) == {c \in Conns : loopOf[c] = l /\ ReadyEvents(c) # {}}
Batch(l) == {c \in Conns : loopOf[c] = l /\ fired[c] # {}}

\* epoll_wait returns every ready connection; EPOLLONESHOT disarms each of them
Wait(l) ==
  /\ pc[l] = "loop"
  /\ Batch(l) = {}
  /\ Ready(l) # {}
  /\ fired' = [c \in Conns |-> IF c \in Ready(l) THEN ReadyEvents(c) ELSE fired[c]]
  /\ epoll' = [c \in Conns |-> IF c \in Ready(l) THEN "disabled" ELSE epoll[c]]
  /\ UNCHANGED <<objVars, owner, sockVars, conns, serverVars, mtx, threadVars, historyVars>>

\* The loop takes one returned event: EPOLLIN goes to Reader, and then, unless Reader
\* closed the connection, EPOLLOUT to Writer
Dispatch(l, c) ==
  /\ pc[l] = "loop"
  /\ c \in Batch(l)
  /\ fired' = [fired EXCEPT ![c] = @ \ {IF "IN" \in @ THEN "IN" ELSE "OUT"}]
  /\ pc' = [pc EXCEPT ![l] = IF "IN" \in fired[c] THEN "reader" ELSE "writer"]
  /\ cur' = [cur EXCEPT ![l] = c]
  /\ early' = IF AccHolds(c) THEN early \cup {c} ELSE early
  /\ UNCHANGED <<objVars, owner, epoll, sockVars, conns, serverVars, mtx, chkFile, gone>>

-----------------------------------------------------------------------------
(***************************************************************************)
(* Reactor::Reader with FixedSizeReadToBuf, and the read handlers.         *)
(***************************************************************************)

\* What reading up to 64K of r leaves, and whether everything there was has been read.
\* A FIN behind the data is reported in the place of "all read".
ReadOutcomes(r) ==
  IF r = "data"
  THEN {[left |-> "quiet", all |-> TRUE], [left |-> "data", all |-> FALSE]}
  ELSE {[left |-> "fin", all |-> FALSE], [left |-> "fin", all |-> TRUE],
        [left |-> "datafin", all |-> FALSE]}

\* What OnStreamReached may leave in the write buffer.  TCPServer runs the message
\* callback only when all is read; HTTPServer answers complete requests, possibly with a
\* file, and leaves incomplete ones pending.
HandlerReplies(all) ==
  IF Server = "tcp" THEN (IF all THEN {"none", "bytes"} ELSE {"none"}) ELSE Replies

\* A reply goes behind what the buffer holds; only a new file replaces the file state
AddReply(old, new) == IF new = "none" \/ old = "file" THEN old ELSE new

\* Reader that leaves arming EPOLLOUT to somebody else
ReadNoArm(l, c) ==
  /\ At(l, c, "reader")
  /\ rx[c] \in {"data", "datafin"}
  /\ \E o \in ReadOutcomes(rx[c]) : \E w \in HandlerReplies(o.all) :
       /\ rx' = [rx EXCEPT ![c] = o.left]
       /\ reply' = [reply EXCEPT ![c] = AddReply(@, w)]
  /\ Goto(l, IF "OUT" \in fired[c] THEN "writer" ELSE "loop")
  /\ fired' = [fired EXCEPT ![c] = {}]
  /\ UNCHANGED <<objVars, owner, epoll, room, conns, sessions, mtx, chkFile, historyVars>>

\* Reader that arms EPOLLOUT even if there is nothing to write
ReadArmsAlways(l, c) ==
  /\ At(l, c, "reader")
  /\ rx[c] \in {"data", "datafin"}
  /\ c \in sessions
  /\ \E o \in ReadOutcomes(rx[c]) : \E w \in HandlerReplies(o.all) :
       /\ rx' = [rx EXCEPT ![c] = o.left]
       /\ reply' = [reply EXCEPT ![c] = AddReply(@, w)]
  /\ ModifyConn(c, "inout")
  /\ Goto(l, IF "OUT" \in fired[c] THEN "writer" ELSE "loop")
  /\ fired' = [fired EXCEPT ![c] = {}]
  /\ UNCHANGED <<life, fd, loopOf, owner, room, conns, sessions, mtx, chkFile, historyVars>>

\* Data arrived: ev_read_handler_, then EPOLLOUT is armed if the write buffer has bytes.
\* Without a reply nothing is armed again.
ReadData(l, c) ==
  /\ At(l, c, "reader")
  /\ rx[c] \in {"data", "datafin"}
  /\ c \in sessions
  /\ \E o \in ReadOutcomes(rx[c]) : \E w \in HandlerReplies(o.all) :
       /\ rx' = [rx EXCEPT ![c] = o.left]
       /\ reply' = [reply EXCEPT ![c] = AddReply(@, w)]
  /\ IF reply'[c] # "none" THEN ModifyConn(c, "inout") ELSE UNCHANGED <<epoll, watched>>
  /\ Goto(l, IF "OUT" \in fired[c] THEN "writer" ELSE "loop")
  /\ fired' = [fired EXCEPT ![c] = {}]
  /\ UNCHANGED <<life, fd, loopOf, owner, room, conns, sessions, mtx, chkFile, historyVars>>

\* The read handler finds no session for the connection and asks to close it
ReadNoSession(l, c) ==
  /\ At(l, c, "reader")
  /\ rx[c] \in {"data", "datafin"}
  /\ c \notin sessions
  /\ \E o \in ReadOutcomes(rx[c]) : rx' = [rx EXCEPT ![c] = o.left]
  /\ Goto(l, "guard")
  /\ fired' = [fired EXCEPT ![c] = {}]
  /\ UNCHANGED <<objVars, owner, epoll, room, conns, serverVars, mtx, chkFile, historyVars>>

\* A Reader that takes the peer's FIN for an event without data
ReadFinIgnored(l, c) ==
  /\ At(l, c, "reader")
  /\ rx[c] = "fin"
  /\ Goto(l, "loop")
  /\ fired' = [fired EXCEPT ![c] = {}]
  /\ UNCHANGED <<objVars, owner, epoll, sockVars, conns, serverVars, mtx, chkFile,
                 historyVars>>

\* read() returned 0 at once: the peer closed
ReadFin(l, c) ==
  /\ At(l, c, "reader")
  /\ rx[c] = "fin"
  /\ Goto(l, "closed")
  /\ fired' = [fired EXCEPT ![c] = {}]
  /\ UNCHANGED <<objVars, owner, epoll, sockVars, conns, serverVars, mtx, chkFile,
                 historyVars>>

\* A Reader that does not tell the loop that it closed the connection: Writer is next
OnStreamClosedUntold(l, c) ==
  /\ At(l, c, "closed")
  /\ sessions' = sessions \ {c}
  /\ reply' = [reply EXCEPT ![c] = "none"]
  /\ Goto(l, "writer")
  /\ UNCHANGED <<objVars, owner, epoll, sockVars, conns, mtx, chkFile, fired, early, gone>>

\* ev_close_handler_: the session is destroyed, its buffers with it
OnStreamClosed(l, c) ==
  /\ At(l, c, "closed")
  /\ sessions' = sessions \ {c}
  /\ reply' = [reply EXCEPT ![c] = "none"]
  /\ Goto(l, "guard")
  /\ UNCHANGED <<objVars, owner, epoll, sockVars, conns, mtx, chkFile, fired, early, gone>>

\* read() failed: the connection is closed without the close handler
ReadError(l, c) ==
  /\ At(l, c, "reader")
  /\ rx[c] = "reset"
  /\ Goto(l, "guard")
  /\ fired' = [fired EXCEPT ![c] = {}]
  /\ UNCHANGED <<objVars, owner, epoll, sockVars, conns, serverVars, mtx, chkFile,
                 historyVars>>

Reader(l, c) == \/ ReadData(l, c) \/ ReadNoSession(l, c) \/ ReadFin(l, c)
                \/ OnStreamClosed(l, c) \/ ReadError(l, c)

-----------------------------------------------------------------------------
(***************************************************************************)
(* Reactor::Writer with FixedSizeWriteFromBuf and SendFile,                *)
(* InvokeWriteDoneHandler, and the write handlers.                         *)
(***************************************************************************)

\* The branch for an empty write buffer (reactor.cc:284) has no action: WriterHasReply
\* says that it is never taken.

\* Everything is sent, the file included: InvokeWriteDoneHandler arms EPOLLIN, empties
\* the write buffer and is about to call the write handler
WriteAll(l, c) ==
  /\ At(l, c, "writer")
  /\ reply[c] # "none" /\ rx[c] # "reset"
  /\ ModifyConn(c, "in")
  /\ reply' = [reply EXCEPT ![c] = "none"]
  /\ chkFile' = [chkFile EXCEPT ![l] = reply[c] = "file"]
  /\ Goto(l, "written")
  /\ UNCHANGED <<life, fd, loopOf, owner, sockVars, conns, sessions, mtx, fired, historyVars>>

\* The socket takes a part of the buffer, or the whole buffer and a part of the file:
\* Writer returns without arming anything
WritePartial(l, c) ==
  /\ At(l, c, "writer")
  /\ reply[c] # "none" /\ rx[c] # "reset"
  /\ room' = [room EXCEPT ![c] = FALSE]
  /\ Goto(l, "loop")
  /\ UNCHANGED <<objVars, owner, epoll, rx, conns, serverVars, mtx, chkFile, fired,
                 historyVars>>

\* The first send() fails: the connection is closed without the close handler
WriteFails(l, c) ==
  /\ At(l, c, "writer")
  /\ reply[c] # "none" /\ rx[c] = "reset"
  /\ Goto(l, "guard")
  /\ UNCHANGED <<objVars, owner, epoll, sockVars, conns, serverVars, mtx, chkFile, fired,
                 historyVars>>

\* OnStreamWritten that keeps the connection (the only outcome of TCPServer's)
KeepAlive(l, c) ==
  /\ At(l, c, "written")
  /\ Goto(l, IF chkFile[l] THEN "filecheck" ELSE "loop")
  /\ UNCHANGED <<objVars, owner, epoll, sockVars, conns, serverVars, mtx, chkFile, fired,
                 historyVars>>

\* An OnStreamWritten that forgets to tell the reactor to close the connection
NotKeptUntold(l, c) ==
  /\ At(l, c, "written")
  /\ Server = "http"
  /\ sessions' = sessions \ {c}
  /\ Goto(l, IF chkFile[l] THEN "filecheck" ELSE "loop")
  /\ UNCHANGED <<objVars, owner, epoll, sockVars, conns, reply, mtx, chkFile, fired,
                 historyVars>>

\* HTTPServer::OnStreamWritten of a response that does not keep the connection: the
\* session is erased and the reactor told to close
NotKeptAlive(l, c) ==
  /\ At(l, c, "written")
  /\ Server = "http"
  /\ sessions' = sessions \ {c}
  /\ Goto(l, "guard")
  /\ UNCHANGED <<objVars, owner, epoll, sockVars, conns, reply, mtx, chkFile, fired,
                 historyVars>>

\* After InvokeWriteDoneHandler, Writer reads conn->file_state_.close_after_, whatever
\* the write handler did to conn
CheckFileState(l, c) ==
  /\ At(l, c, "filecheck")
  /\ chkFile' = [chkFile EXCEPT ![l] = FALSE]
  /\ Goto(l, "loop")
  /\ UNCHANGED <<objVars, owner, epoll, sockVars, conns, serverVars, mtx, fired, historyVars>>

Writer(l, c) == \/ WriteAll(l, c) \/ WritePartial(l, c) \/ WriteFails(l, c)
                \/ KeepAlive(l, c) \/ NotKeptAlive(l, c) \/ CheckFileState(l, c)

-----------------------------------------------------------------------------
(***************************************************************************)
(* Reactor::CloseConnGuarded and ~ReactorConn.                             *)
(***************************************************************************)

AfterClose(l) == IF chkFile[l] THEN "filecheck" ELSE "loop"

\* A CloseConnGuarded that leaves the connection in the map
CloseWithoutErase(l, c) ==
  /\ At(l, c, "guard")
  /\ mtx = None
  /\ gone' = gone \cup {c}
  /\ Goto(l, AfterClose(l))
  /\ UNCHANGED <<objVars, owner, epoll, sockVars, conns, serverVars, mtx, chkFile, fired,
                 early>>

\* conns_.erase(name) under mtx_.  If it drops the last reference, the destructor runs
\* here, with mtx_ held, and closes the descriptor; otherwise nothing else happens.
CloseConnGuarded(l, c) ==
  /\ At(l, c, "guard")
  /\ mtx = None
  /\ conns' = conns \ {c}
  /\ gone' = gone \cup {c}
  /\ IF c \in conns /\ ~AccHolds(c)
     THEN CloseFd(c) /\ mtx' = l /\ Goto(l, "detach")
     ELSE Goto(l, AfterClose(l)) /\ UNCHANGED <<life, owner, epoll, sockVars, mtx>>
  /\ UNCHANGED <<fd, loopOf, watched, serverVars, chkFile, fired, early>>

\* A destructor that closes the descriptor again after detaching
FinishClosingTwice(l, c) ==
  /\ At(l, c, "detach")
  /\ DetachConn(c)
  /\ owner' = [owner EXCEPT ![fd[c]] = None]
  /\ life' = [life EXCEPT ![c] = "freed"]
  /\ mtx' = IF mtx = l THEN None ELSE mtx
  /\ Goto(l, AfterClose(l))
  /\ UNCHANGED <<fd, loopOf, watched, sockVars, conns, serverVars, chkFile, fired,
                 historyVars>>

\* The rest of the destructor: DetachConn, and the memory goes.  A destructor that runs
\* in CloseConnGuarded is followed by the unlock of mtx_.
FinishDestructor(l, c) ==
  /\ At(l, c, "detach")
  /\ DetachConn(c)
  /\ life' = [life EXCEPT ![c] = "freed"]
  /\ mtx' = IF mtx = l THEN None ELSE mtx
  /\ Goto(l, AfterClose(l))
  /\ UNCHANGED <<fd, loopOf, watched, owner, sockVars, conns, serverVars, chkFile, fired,
                 historyVars>>

-----------------------------------------------------------------------------
(***************************************************************************)
(* The clients (external).  A client may send as soon as it is connected.  *)
(***************************************************************************)

PeerSends(c) ==
  /\ life[c] = "alive" /\ rx[c] = "quiet"
  /\ rx' = [rx EXCEPT ![c] = "data"]
  /\ UNCHANGED <<objVars, owner, epoll, room, conns, serverVars, mtx, threadVars, fired,
                 historyVars>>

PeerCloses(c) ==
  /\ life[c] = "alive" /\ rx[c] \in {"quiet", "data"}
  /\ rx' = [rx EXCEPT ![c] = IF @ = "quiet" THEN "fin" ELSE "datafin"]
  /\ UNCHANGED <<objVars, owner, epoll, room, conns, serverVars, mtx, threadVars, fired,
                 historyVars>>

PeerResets(c) ==
  /\ life[c] = "alive" /\ rx[c] # "reset"
  /\ rx' = [rx EXCEPT ![c] = "reset"]
  /\ UNCHANGED <<objVars, owner, epoll, room, conns, serverVars, mtx, threadVars, fired,
                 historyVars>>

PeerReads(c) ==
  /\ life[c] = "alive" /\ ~room[c]
  /\ room' = [room EXCEPT ![c] = TRUE]
  /\ UNCHANGED <<objVars, owner, epoll, rx, conns, serverVars, mtx, threadVars, fired,
                 historyVars>>

Peer(c) == PeerSends(c) \/ PeerCloses(c) \/ PeerResets(c) \/ PeerReads(c)

-----------------------------------------------------------------------------
Worker(l, c) == \/ Dispatch(l, c) \/ Reader(l, c) \/ Writer(l, c)
                \/ CloseConnGuarded(l, c) \/ FinishDestructor(l, c)

Next == \/ \E c \in Conns : Acceptor(c) \/ Peer(c)
        \/ \E l \in Loops : Wait(l)
        \/ \E l \in Loops, c \in Conns : Worker(l, c)

Spec == Init /\ [][Next]_vars

\* The operating system runs every thread: a loop that can take a step eventually does.
\* Nothing is assumed of the clients.
LoopStep(l) == \/ Wait(l)
               \/ \E c \in Conns : Worker(l, c) \/ (l = Loop0 /\ Acceptor(c))
Fairness == \A l \in Loops : WF_vars(LoopStep(l))
FairSpec == Spec /\ Fairness

-----------------------------------------------------------------------------
(***************************************************************************)
(* Properties.                                                             *)
(***************************************************************************)

\* A thread is between the dispatch of an event of c and the erase of c from conns_
HandlingPcs == HandlerPcs \cup {"guard"}

\* The descriptor of a live connection is its own: although numbers are reused while
\* destructors are half done, ~ReactorConn (reactor_conn.cc:14) never closes the
\* descriptor of another connection.
OwnFd == \A c \in Conns : life[c] = "alive" => fd[c] \in Fds /\ owner[fd[c]] = c

\* A ReactorConn lives exactly as long as conns_ or the Acceptor that created it refers
\* to it: none is forgotten with its descriptor open, and conns_ holds no destroyed one,
\* whichever thread drops the last reference (reactor.cc:68 and 133).
RefCounted == \A c \in Conns : life[c] = "alive" <=> (c \in conns \/ AccHolds(c))

\* A handler never works on a destroyed connection, nor with the buffers of a destroyed
\* session (reactor_conn.h:106, read_buf_ is not owned), if the event was taken after
\* Acceptor let go of the connection.
HandledConnIsWhole ==
  \A l \in Loops : pc[l] \in HandlingPcs /\ cur[l] \notin early =>
    /\ life[cur[l]] = "alive" /\ cur[l] \in conns
    /\ pc[l] # "guard" => cur[l] \in sessions

\* CloseConnGuarded destroys the connection (the comment at reactor.cc:70 relies on
\* that), if no event of it was taken before Acceptor let go of it.
CloseDestroys == \A c \in gone \ early : life[c] \in {"closing", "freed"}

\* Reader arms EPOLLOUT whenever a read handler left a first reply in the write buffer
\* (reactor.cc:236): a socket still registered when Acceptor let go is armed.
ReplyArms ==
  [][\A c \in Conns : /\ reply[c] = "none" /\ reply'[c] # "none"
                      /\ c \notin early /\ epoll[c] # "none"
                      => epoll'[c] = "inout"]_vars

\* Writer never finds an empty write buffer: whoever empties it (reactor.cc:258,
\* tcp_server.cc:133) has no EPOLLOUT armed or undelivered for the connection, whatever
\* Acceptor's thread is doing to it.
WriterHasReply == \A l \in Loops : pc[l] = "writer" => reply[cur[l]] # "none"

\* The handlers of TCPServer always find their session and its buffers, even for events
\* taken while Acceptor still runs: only the close handler erases a session
\* (tcp_server.cc:133), and the connection is never armed again after that.
HandlerHasSession ==
  \A l \in Loops : pc[l] \in HandlerPcs => cur[l] \in sessions

\* A watched connection (reactor_conn.h:111) is registered with its loop's epoll until
\* its destructor runs.
WatchedIsRegistered ==
  \A c \in Conns : life[c] = "alive" /\ watched[c] => epoll[c] # "none"

\* A peer that closes an idle connection that is armed gets it closed: conn and
\* descriptor go.
FinCloses ==
  \A c \in Conns : (Armed(c) /\ rx[c] = "fin") ~> (life[c] = "freed")

\* CloseConnGuarded, "Close given connection." (reactor.h:44): the connection survives
\* at most until the Acceptor that created it is done with it.
ClosedIsClosed == \A c \in gone : life[c] = "alive" => AccHolds(c)

\* "ev_read_handler_ is called every time EPOLLIN is reached" (reactor.h:111): data that
\* has arrived at an open connection does not stay unread for ever.
EpollinReachesHandler ==
  \A c \in Conns : (c \in conns /\ rx[c] = "data") ~> (rx[c] # "data")

-----------------------------------------------------------------------------
(***************************************************************************)
(* The inductive invariant behind OwnFd, RefCounted, HandledConnIsWhole,   *)
(* CloseDestroys and ReplyArms.                                            *)
(***************************************************************************)

WorkerPcs == HandlingPcs \cup {"filecheck"}

\* Descriptors and live connections correspond
FdInv == /\ OwnFd
         /\ \A f \in Fds : owner[f] # None => life[owner[f]] = "alive" /\ fd[owner[f]] = f

\* Where threads are: Acceptor in loop 0 only, events in the connection's own loop,
\* a destructor in one thread only
ThreadInv ==
  /\ \A l \in Loops : pc[l] \in AcceptorPcs => l = Loop0 /\ cur[l] \in Conns
  /\ \A l \in Loops : pc[l] \in WorkerPcs =>
       cur[l] \in Conns /\ loopOf[cur[l]] = l /\ life[cur[l]] # "unborn"
  /\ \A l \in Loops : pc[l] = "detach" => cur[l] \in Conns /\ life[cur[l]] = "closing"
  /\ \A l, k \in Loops : l # k /\ pc[l] = "detach" /\ pc[k] = "detach" => cur[l] # cur[k]

\* Only live connections are registered; events were returned for connections that have
\* been accepted, and are used up once their handling is past Reader
EventInv ==
  /\ \A c \in Conns : epoll[c] # "none" => life[c] = "alive"
  /\ \A c \in Conns : fired[c] # {} => life[c] # "unborn" /\ (c \in early \/ life[c] = "alive")
  /\ \A l \in Loops : pc[l] \in WorkerPcs \ {"reader"} => fired[cur[l]] = {}

\* Nothing happens to a connection before it is attached; it is watched before it is in
\* conns_; and Acceptor finds it missing there only if events were handled early
AcceptInv ==
  /\ \A c \in Conns : At(Loop0, c, "acc_open") \/ At(Loop0, c, "acc_attach") =>
       /\ epoll[c] = "none" /\ fired[c] = {} /\ c \notin conns
       /\ \A l \in Loops : pc[l] \in WorkerPcs => cur[l] # c
  /\ \A c \in Conns :
       c \in conns \/ At(Loop0, c, "acc_insert") \/ At(Loop0, c, "acc_return") => watched[c]
  /\ \A c \in Conns : At(Loop0, c, "acc_return") => c \in conns \/ c \in early

\* A live connection has its session from the accept handler on, until a handler that
\* erased it is about to close the connection
SessionInv ==
  \A c \in Conns \ early :
    life[c] = "alive" /\ ~At(Loop0, c, "acc_open") /\ ~At(loopOf[c], c, "guard")
    => c \in sessions

\* No event is handled while Acceptor holds the connection, by the choice of early
SettledInv ==
  \A l \in Loops : pc[l] \in HandlingPcs /\ cur[l] \notin early => ~AccHolds(cur[l])

\* A thread remembers to look at the file state from the end of a write until it does,
\* and only for a connection of its own loop
FileInv ==
  \A l \in Loops : chkFile[l] =>
    /\ pc[l] \in {"written", "guard", "detach", "filecheck"}
    /\ cur[l] \in Conns /\ loopOf[cur[l]] = l /\ fired[cur[l]] = {}

Inv == /\ TypeOK /\ FdInv /\ RefCounted /\ ThreadInv /\ EventInv /\ AcceptInv
       /\ FileInv /\ SessionInv /\ SettledInv /\ HandledConnIsWhole /\ CloseDestroys

\* The inductive invariant behind WriterHasReply: EPOLLOUT is armed and returned only
\* for connections with a reply, and nothing is armed for one that is being read
ReplyInv ==
  /\ WriterHasReply
  /\ \A c \in Conns : epoll[c] = "inout" => watched[c]
  /\ \A c \in Conns : epoll[c] = "inout" \/ "OUT" \in fired[c] => reply[c] # "none"
  /\ \A c \in Conns : fired[c] # {} => ~Armed(c)
  /\ \A l \in Loops : pc[l] \in {"reader", "closed"} => ~Armed(cur[l])
=============================================================================
