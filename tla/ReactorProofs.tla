--------------------------- MODULE ReactorProofs ---------------------------
(***************************************************************************)
(* Proofs about Reactor for any number of connections, descriptors and     *)
(* loops.  Inv is inductive: one lemma for each action shows that the      *)
(* action preserves it, and the conjuncts an action cannot disturb are     *)
(* taken together.  The theorems at the end follow from []Inv.             *)
(***************************************************************************)
EXTENDS Reactor, TLAPS

\* The vocabulary of control: where threads are, and the groups of variables
USE DEF At, Goto, AccHolds, HandlingPcs, WorkerPcs, HandlerPcs, AcceptorPcs, Pcs,
        objVars, sockVars, serverVars, threadVars, historyVars

-----------------------------------------------------------------------------
\* Accept: A new connection: unborn until now, so no thread, no event and no map knows
\* it.
LEMMA AcceptStep ==
  ASSUME Inv, NEW c \in Conns, Accept(c)
  PROVE  Inv'
<1>1. TypeOK'
  BY LoopsAssumption DEF Inv, TypeOK, Accept, Selectable
<1>2. FdInv'
  BY NoneAssumption DEF Inv, TypeOK, FdInv, OwnFd, Accept, Selectable
<1>3. RefCounted'
  BY LoopsAssumption DEF Inv, TypeOK, RefCounted, Accept, Selectable
<1>4. ThreadInv'
  BY DEF Inv, TypeOK, ThreadInv, Accept, Selectable
<1>5. EventInv' /\ HandledConnIsWhole' /\ CloseDestroys'
  BY SMTT(30) DEF Inv, EventInv, Accept, Selectable, HandledConnIsWhole, CloseDestroys
<1>6. AcceptInv'
  BY DEF Inv, TypeOK, RefCounted, ThreadInv, EventInv, AcceptInv, SessionInv, Accept,
     Selectable
<1>7. FileInv'
  BY DEF Inv, TypeOK, ThreadInv, FileInv, Accept, Selectable
<1>8. SessionInv'
  BY LoopsAssumption DEF Inv, TypeOK, SessionInv, Accept, Selectable
<1>9. SettledInv'
  BY DEF Inv, TypeOK, ThreadInv, SettledInv, Accept, Selectable
<1> QED BY <1>1, <1>2, <1>3, <1>4, <1>5, <1>6, <1>7, <1>8, <1>9 DEF Inv

\* OnStreamOpen: The session is there before the connection is attached.
LEMMA OnStreamOpenStep ==
  ASSUME Inv, NEW c \in Conns, OnStreamOpen(c)
  PROVE  Inv'
<1>1. TypeOK'
  BY DEF Inv, TypeOK, OnStreamOpen
<1>2. FdInv' /\ RefCounted' /\ ThreadInv' /\ EventInv' /\ AcceptInv' /\ FileInv' /\
      SessionInv' /\ SettledInv' /\ HandledConnIsWhole' /\ CloseDestroys'
  BY SMTT(30) DEF Inv, FdInv, OwnFd, OnStreamOpen, RefCounted, ThreadInv, EventInv,
     AcceptInv, FileInv, SessionInv, SettledInv, HandledConnIsWhole, CloseDestroys
<1> QED BY <1>1, <1>2 DEF Inv

\* AttachConn: From here on events of c can fire while Acceptor still holds it.
LEMMA AttachConnStep ==
  ASSUME Inv, NEW c \in Conns, AttachConn(c)
  PROVE  Inv'
<1>1. TypeOK'
  BY DEF Inv, TypeOK, AttachConn
<1>2. FdInv' /\ RefCounted' /\ ThreadInv' /\ FileInv' /\ SessionInv' /\ SettledInv'
      /\ HandledConnIsWhole' /\ CloseDestroys'
  BY DEF Inv, FdInv, OwnFd, AttachConn, RefCounted, ThreadInv, FileInv, SessionInv,
     SettledInv, HandledConnIsWhole, CloseDestroys
<1>3. EventInv'
  BY DEF Inv, TypeOK, RefCounted, EventInv, AttachConn
<1>4. AcceptInv'
  BY LoopsAssumption DEF Inv, TypeOK, AcceptInv, AttachConn
<1> QED BY <1>1, <1>2, <1>3, <1>4 DEF Inv

\* AttachFails: Only Acceptor refers to c, so its reference is the last one.
LEMMA AttachFailsStep ==
  ASSUME Inv, NEW c \in Conns, AttachFails(c)
  PROVE  Inv'
<1>1. TypeOK'
  BY DEF Inv, TypeOK, FdInv, RefCounted, OwnFd, AttachFails, CloseFd
<1>2. FdInv'
  BY DEF Inv, TypeOK, FdInv, RefCounted, OwnFd, AttachFails, CloseFd
<1>3. RefCounted'
  BY LoopsAssumption DEF Inv, TypeOK, RefCounted, AcceptInv, AttachFails, CloseFd
<1>4. ThreadInv'
  BY DEF Inv, TypeOK, RefCounted, ThreadInv, AttachFails, CloseFd
<1>5. EventInv'
  BY DEF Inv, TypeOK, EventInv, AcceptInv, AttachFails, CloseFd
<1>6. AcceptInv' /\ FileInv' /\ SessionInv' /\ SettledInv' /\ CloseDestroys'
  BY SMTT(30) DEF Inv, AcceptInv, AttachFails, CloseFd, FileInv, SessionInv, SettledInv,
     CloseDestroys
<1>7. HandledConnIsWhole'
  BY DEF Inv, TypeOK, AcceptInv, HandledConnIsWhole, AttachFails, CloseFd
<1> QED BY <1>1, <1>2, <1>3, <1>4, <1>5, <1>6, <1>7 DEF Inv

\* SetWatched: watched_ is set before c gets into conns_.
LEMMA SetWatchedStep ==
  ASSUME Inv, NEW c \in Conns, SetWatched(c)
  PROVE  Inv'
<1>1. TypeOK'
  BY DEF Inv, TypeOK, SetWatched
<1>2. FdInv' /\ RefCounted' /\ ThreadInv' /\ EventInv' /\ FileInv' /\ SessionInv' /\
      SettledInv' /\ HandledConnIsWhole' /\ CloseDestroys'
  BY SMTT(30) DEF Inv, FdInv, OwnFd, SetWatched, RefCounted, ThreadInv, EventInv, FileInv,
     SessionInv, SettledInv, HandledConnIsWhole, CloseDestroys
<1>3. AcceptInv'
  BY DEF Inv, TypeOK, AcceptInv, SetWatched
<1> QED BY <1>1, <1>2, <1>3 DEF Inv

\* Insert: The second reference; Acceptor keeps its own until it returns.
LEMMA InsertStep ==
  ASSUME Inv, NEW c \in Conns, Insert(c)
  PROVE  Inv'
<1>1. TypeOK'
  BY DEF Inv, TypeOK, Insert
<1>2. FdInv' /\ RefCounted' /\ ThreadInv' /\ EventInv' /\ AcceptInv' /\ FileInv' /\
      SessionInv' /\ SettledInv' /\ HandledConnIsWhole' /\ CloseDestroys'
  BY SMTT(30) DEF Inv, FdInv, OwnFd, Insert, RefCounted, ThreadInv, EventInv, AcceptInv,
     FileInv, SessionInv, SettledInv, HandledConnIsWhole, CloseDestroys
<1> QED BY <1>1, <1>2 DEF Inv

\* Return: The last reference or not: c is missing from conns_ only if it was handled
\* early.
LEMMA ReturnStep ==
  ASSUME Inv, NEW c \in Conns, Return(c)
  PROVE  Inv'
<1>1. TypeOK'
  <2>1. CASE c \in conns
    BY <2>1 DEF Inv, TypeOK, Return
  <2>2. CASE c \notin conns
    <3>1. life' \in [Conns -> {"unborn", "alive", "closing", "freed"}]
      BY <2>2 DEF Inv, TypeOK, Return, CloseFd
    <3>2. owner' \in [Fds -> Conns \cup {None}]
      BY <2>2 DEF Inv, TypeOK, Return, CloseFd
    <3>3. epoll' \in [Conns -> {"none", "disabled", "in", "inout"}]
      BY <2>2 DEF Inv, TypeOK, Return, CloseFd
    <3>4. /\ rx' \in [Conns -> {"quiet", "data", "fin", "datafin", "reset"}]
          /\ room' \in [Conns -> BOOLEAN]
      BY ZenonT(40), <2>2 DEF Inv, TypeOK, Return, CloseFd
    <3>5. pc' \in [Loops -> Pcs] /\ cur' \in [Loops -> Conns \cup {None}]
      BY <2>2 DEF Inv, TypeOK, Return
    <3> QED BY <2>2, <3>1, <3>2, <3>3, <3>4, <3>5 DEF Inv, TypeOK, Return
  <2> QED BY <2>1, <2>2
<1>2. FdInv'
  BY DEF Inv, TypeOK, FdInv, RefCounted, OwnFd, Return, CloseFd
<1>3. RefCounted'
  BY LoopsAssumption DEF Inv, TypeOK, RefCounted, Return, CloseFd
<1>4. ThreadInv'
  <2>1. CASE c \in conns
    BY SMTT(30), <2>1 DEF Inv, TypeOK, ThreadInv, Return
  <2>2. CASE c \notin conns
    <3>1. life[c] = "alive"
      BY DEF Inv, RefCounted, Return
    <3> QED BY SMTT(30), <2>2, <3>1 DEF Inv, TypeOK, ThreadInv, Return, CloseFd
  <2> QED BY <2>1, <2>2
<1>5. EventInv'
  BY DEF Inv, TypeOK, EventInv, AcceptInv, Return, CloseFd
<1>6. AcceptInv'
  BY DEF Inv, TypeOK, AcceptInv, Return, CloseFd
<1>7. FileInv'
  BY DEF Inv, TypeOK, FileInv, Return, CloseFd
<1>8. SessionInv'
  BY DEF Inv, TypeOK, SessionInv, Return, CloseFd
<1>9. SettledInv'
  BY DEF Inv, TypeOK, SettledInv, Return, CloseFd
<1>10. HandledConnIsWhole'
  BY DEF Inv, TypeOK, HandledConnIsWhole, Return, CloseFd
<1>11. CloseDestroys'
  BY DEF Inv, TypeOK, CloseDestroys, Return, CloseFd
<1> QED BY <1>1, <1>2, <1>3, <1>4, <1>5, <1>6, <1>7, <1>8, <1>9, <1>10, <1>11 DEF Inv

\* PeerSends: What clients do changes the sockets only.
LEMMA PeerSendsStep ==
  ASSUME Inv, NEW c \in Conns, PeerSends(c)
  PROVE  Inv'
<1>1. TypeOK'
  BY DEF Inv, TypeOK, PeerSends
<1>2. FdInv' /\ RefCounted' /\ ThreadInv' /\ EventInv' /\ AcceptInv' /\ FileInv' /\
      SessionInv' /\ SettledInv' /\ HandledConnIsWhole' /\ CloseDestroys'
  BY DEF Inv, FdInv, OwnFd, PeerSends, RefCounted, ThreadInv, EventInv, AcceptInv,
     FileInv, SessionInv, SettledInv, HandledConnIsWhole, CloseDestroys
<1> QED BY <1>1, <1>2 DEF Inv

\* PeerCloses: As PeerSends.
LEMMA PeerClosesStep ==
  ASSUME Inv, NEW c \in Conns, PeerCloses(c)
  PROVE  Inv'
<1>1. TypeOK'
  BY DEF Inv, TypeOK, PeerCloses
<1>2. FdInv' /\ RefCounted' /\ ThreadInv' /\ EventInv' /\ AcceptInv' /\ FileInv' /\
      SessionInv' /\ SettledInv' /\ HandledConnIsWhole' /\ CloseDestroys'
  BY DEF Inv, FdInv, OwnFd, PeerCloses, RefCounted, ThreadInv, EventInv, AcceptInv,
     FileInv, SessionInv, SettledInv, HandledConnIsWhole, CloseDestroys
<1> QED BY <1>1, <1>2 DEF Inv

\* PeerResets: As PeerSends.
LEMMA PeerResetsStep ==
  ASSUME Inv, NEW c \in Conns, PeerResets(c)
  PROVE  Inv'
<1>1. TypeOK'
  BY DEF Inv, TypeOK, PeerResets
<1>2. FdInv' /\ RefCounted' /\ ThreadInv' /\ EventInv' /\ AcceptInv' /\ FileInv' /\
      SessionInv' /\ SettledInv' /\ HandledConnIsWhole' /\ CloseDestroys'
  BY DEF Inv, FdInv, OwnFd, PeerResets, RefCounted, ThreadInv, EventInv, AcceptInv,
     FileInv, SessionInv, SettledInv, HandledConnIsWhole, CloseDestroys
<1> QED BY <1>1, <1>2 DEF Inv

\* PeerReads: As PeerSends.
LEMMA PeerReadsStep ==
  ASSUME Inv, NEW c \in Conns, PeerReads(c)
  PROVE  Inv'
<1>1. TypeOK'
  BY DEF Inv, TypeOK, PeerReads
<1>2. FdInv' /\ RefCounted' /\ ThreadInv' /\ EventInv' /\ AcceptInv' /\ FileInv' /\
      SessionInv' /\ SettledInv' /\ HandledConnIsWhole' /\ CloseDestroys'
  BY DEF Inv, FdInv, OwnFd, PeerReads, RefCounted, ThreadInv, EventInv, AcceptInv,
     FileInv, SessionInv, SettledInv, HandledConnIsWhole, CloseDestroys
<1> QED BY <1>1, <1>2 DEF Inv

\* Wait: Events are returned for registered sockets, and those belong to live
\* connections.
LEMMA WaitStep ==
  ASSUME Inv, NEW l \in Loops, Wait(l)
  PROVE  Inv'
<1>1. TypeOK'
  BY DEF Inv, TypeOK, Wait, Ready, ReadyEvents, Batch, Armed
<1>2. FdInv' /\ RefCounted' /\ ThreadInv' /\ AcceptInv' /\ FileInv' /\ SessionInv' /\
      SettledInv' /\ HandledConnIsWhole' /\ CloseDestroys'
  BY DEF Inv, FdInv, OwnFd, Wait, Ready, ReadyEvents, Batch, Armed, RefCounted,
     ThreadInv, AcceptInv, FileInv, SessionInv, SettledInv, HandledConnIsWhole,
     CloseDestroys
<1>3. EventInv'
  BY DEF Inv, TypeOK, ThreadInv, EventInv, Wait, Ready, ReadyEvents, Batch, Armed
<1> QED BY <1>1, <1>2, <1>3 DEF Inv

\* Dispatch: The step that makes SettledInv true: an event taken while Acceptor holds c
\* puts c in early; otherwise c is live, in conns_ and has its session.
LEMMA DispatchStep ==
  ASSUME Inv, NEW l \in Loops, NEW c \in Conns, Dispatch(l, c)
  PROVE  Inv'
<1>1. TypeOK'
  BY DEF Inv, TypeOK, Dispatch, Batch
<1>2. FdInv' /\ RefCounted' /\ FileInv' /\ SessionInv' /\ CloseDestroys'
  BY DEF Inv, FdInv, OwnFd, Dispatch, Batch, RefCounted, FileInv, SessionInv,
     CloseDestroys
<1>3. ThreadInv'
  BY DEF Inv, TypeOK, ThreadInv, EventInv, Dispatch, Batch
<1>4. EventInv'
  BY DEF Inv, TypeOK, EventInv, Dispatch, Batch
<1>5. AcceptInv'
  BY DEF Inv, TypeOK, AcceptInv, Dispatch, Batch
<1>6. SettledInv'
  BY DEF Inv, TypeOK, SettledInv, Dispatch, Batch
<1>7. HandledConnIsWhole'
  <2>1. ASSUME c \notin early'
        PROVE  life[c] = "alive" /\ c \in conns /\ c \in sessions
    <3>1. c \notin early /\ ~AccHolds(c)
      BY <2>1 DEF Dispatch
    <3>2. life[c] = "alive"
      BY <3>1 DEF Inv, EventInv, Dispatch, Batch
    <3>3. c \in conns
      BY <3>1, <3>2 DEF Inv, RefCounted
    <3>4. c \in sessions
      BY <3>1, <3>2 DEF Inv, SessionInv, Dispatch, Batch
    <3> QED BY <3>2, <3>3, <3>4
  <2>2. ASSUME NEW k \in Loops, k # l
        PROVE  pc'[k] = pc[k] /\ cur'[k] = cur[k]
    BY <2>2 DEF Inv, TypeOK, Dispatch
  <2>3. cur'[l] = c
    BY DEF Inv, TypeOK, Dispatch
  <2> QED BY <2>1, <2>2, <2>3 DEF Inv, HandledConnIsWhole, Dispatch
<1> QED BY <1>1, <1>2, <1>3, <1>4, <1>5, <1>6, <1>7 DEF Inv

\* ReadData: Arming touches c only, and c stays where it was.
LEMMA ReadDataStep ==
  ASSUME Inv, NEW l \in Loops, NEW c \in Conns, ReadData(l, c)
  PROVE  Inv'
<1>1. TypeOK'
  <2>1. rx' \in [Conns -> {"quiet", "data", "fin", "datafin", "reset"}]
    BY DEF Inv, TypeOK, ReadData, ReadOutcomes
  <2>2. reply' \in [Conns -> Replies]
    BY DEF Inv, TypeOK, ReadData, ReadOutcomes, HandlerReplies, AddReply, Replies
  <2>3. /\ epoll' \in [Conns -> {"none", "disabled", "in", "inout"}]
        /\ watched' \in [Conns -> BOOLEAN]
    <3>1. CASE ModifyConn(c, "inout")
      BY <3>1 DEF Inv, TypeOK, ModifyConn
    <3>2. CASE UNCHANGED <<epoll, watched>>
      BY <3>2 DEF Inv, TypeOK
    <3> QED BY <3>1, <3>2 DEF ReadData
  <2>4. /\ pc' \in [Loops -> Pcs] /\ cur' \in [Loops -> Conns \cup {None}]
        /\ fired' \in [Conns -> SUBSET {"IN", "OUT"}]
    BY DEF Inv, TypeOK, ReadData
  <2> QED BY <2>1, <2>2, <2>3, <2>4 DEF Inv, TypeOK, ReadData
<1>2. FdInv' /\ RefCounted' /\ FileInv' /\ SessionInv' /\ CloseDestroys'
  BY SMTT(30) DEF Inv, FdInv, OwnFd, ReadData, ModifyConn, RefCounted, FileInv, SessionInv,
     CloseDestroys
<1>3. ThreadInv'
  BY DEF Inv, TypeOK, ThreadInv, ReadData, ModifyConn
<1>4. EventInv'
  BY DEF Inv, TypeOK, EventInv, ReadData, ModifyConn
<1>5. AcceptInv'
  BY DEF Inv, TypeOK, AcceptInv, ReadData, ModifyConn
<1>6. SettledInv'
  BY DEF Inv, TypeOK, SettledInv, ReadData, ModifyConn
<1>7. HandledConnIsWhole'
  BY DEF Inv, TypeOK, HandledConnIsWhole, ReadData, ModifyConn
<1> QED BY <1>1, <1>2, <1>3, <1>4, <1>5, <1>6, <1>7 DEF Inv

\* ReadNoSession: Without a session the thread goes on to close c.
LEMMA ReadNoSessionStep ==
  ASSUME Inv, NEW l \in Loops, NEW c \in Conns, ReadNoSession(l, c)
  PROVE  Inv'
<1>1. TypeOK'
  BY DEF Inv, TypeOK, ReadNoSession, ReadOutcomes
<1>2. FdInv' /\ RefCounted' /\ ThreadInv' /\ AcceptInv' /\ FileInv' /\ SessionInv' /\
      SettledInv' /\ HandledConnIsWhole' /\ CloseDestroys'
  BY DEF Inv, FdInv, OwnFd, ReadNoSession, RefCounted, ThreadInv, AcceptInv, FileInv,
     SessionInv, SettledInv, HandledConnIsWhole, CloseDestroys
<1>3. EventInv'
  BY DEF Inv, TypeOK, EventInv, ReadNoSession
<1> QED BY <1>1, <1>2, <1>3 DEF Inv

\* ReadFin: The thread moves on to the close handler.
LEMMA ReadFinStep ==
  ASSUME Inv, NEW l \in Loops, NEW c \in Conns, ReadFin(l, c)
  PROVE  Inv'
<1>1. TypeOK'
  BY DEF Inv, TypeOK, ReadFin
<1>2. FdInv' /\ RefCounted' /\ ThreadInv' /\ AcceptInv' /\ FileInv' /\ SessionInv' /\
      SettledInv' /\ HandledConnIsWhole' /\ CloseDestroys'
  BY DEF Inv, FdInv, OwnFd, ReadFin, RefCounted, ThreadInv, AcceptInv, FileInv,
     SessionInv, SettledInv, HandledConnIsWhole, CloseDestroys
<1>3. EventInv'
  BY DEF Inv, TypeOK, EventInv, ReadFin
<1> QED BY <1>1, <1>2, <1>3 DEF Inv

\* OnStreamClosed: The session goes while the thread is on its way to CloseConnGuarded.
LEMMA OnStreamClosedStep ==
  ASSUME Inv, NEW l \in Loops, NEW c \in Conns, OnStreamClosed(l, c)
  PROVE  Inv'
<1>1. TypeOK'
  BY DEF Inv, TypeOK, OnStreamClosed, Replies
<1>2. FdInv'
  BY DEF Inv, FdInv, OwnFd, OnStreamClosed
<1>3. RefCounted'
  BY DEF Inv, RefCounted, OnStreamClosed
<1>4. ThreadInv'
  BY DEF Inv, ThreadInv, OnStreamClosed
<1>5. EventInv'
  BY DEF Inv, EventInv, OnStreamClosed
<1>6. AcceptInv'
  BY DEF Inv, AcceptInv, OnStreamClosed
<1>7. FileInv'
  BY DEF Inv, FileInv, OnStreamClosed
<1>8. SessionInv'
  BY DEF Inv, TypeOK, ThreadInv, SessionInv, OnStreamClosed
<1>9. SettledInv'
  BY DEF Inv, SettledInv, OnStreamClosed
<1>10. HandledConnIsWhole'
  BY DEF Inv, TypeOK, ThreadInv, HandledConnIsWhole, OnStreamClosed
<1>11. CloseDestroys'
  BY DEF Inv, CloseDestroys, OnStreamClosed
<1> QED BY <1>1, <1>2, <1>3, <1>4, <1>5, <1>6, <1>7, <1>8, <1>9, <1>10, <1>11 DEF Inv

\* ReadError: The thread moves on to CloseConnGuarded.
LEMMA ReadErrorStep ==
  ASSUME Inv, NEW l \in Loops, NEW c \in Conns, ReadError(l, c)
  PROVE  Inv'
<1>1. TypeOK'
  BY DEF Inv, TypeOK, ReadError
<1>2. FdInv' /\ RefCounted' /\ ThreadInv' /\ AcceptInv' /\ FileInv' /\ SessionInv' /\
      SettledInv' /\ HandledConnIsWhole' /\ CloseDestroys'
  BY DEF Inv, FdInv, OwnFd, ReadError, RefCounted, ThreadInv, AcceptInv, FileInv,
     SessionInv, SettledInv, HandledConnIsWhole, CloseDestroys
<1>3. EventInv'
  BY DEF Inv, TypeOK, EventInv, ReadError
<1> QED BY <1>1, <1>2, <1>3 DEF Inv

\* WriteAll: c is armed before the write handler decides whether to keep it.
LEMMA WriteAllStep ==
  ASSUME Inv, NEW l \in Loops, NEW c \in Conns, WriteAll(l, c)
  PROVE  Inv'
<1>1. TypeOK'
  BY DEF Inv, TypeOK, WriteAll, ModifyConn, Replies
<1>2. FdInv' /\ RefCounted' /\ ThreadInv' /\ EventInv' /\ SessionInv' /\ SettledInv'
      /\ HandledConnIsWhole' /\ CloseDestroys'
  BY SMTT(30) DEF Inv, FdInv, OwnFd, WriteAll, ModifyConn, RefCounted, ThreadInv, EventInv,
     SessionInv, SettledInv, HandledConnIsWhole, CloseDestroys
<1>3. AcceptInv'
  BY DEF Inv, TypeOK, AcceptInv, WriteAll, ModifyConn
<1>4. FileInv'
  BY DEF Inv, TypeOK, ThreadInv, EventInv, FileInv, WriteAll, ModifyConn
<1> QED BY <1>1, <1>2, <1>3, <1>4 DEF Inv

\* WritePartial: The thread leaves c as it is.
LEMMA WritePartialStep ==
  ASSUME Inv, NEW l \in Loops, NEW c \in Conns, WritePartial(l, c)
  PROVE  Inv'
<1>1. TypeOK'
  BY DEF Inv, TypeOK, WritePartial
<1>2. FdInv' /\ RefCounted' /\ FileInv' /\ SessionInv' /\ CloseDestroys'
  BY DEF Inv, FdInv, OwnFd, WritePartial, RefCounted, FileInv, SessionInv,
     CloseDestroys
<1>3. ThreadInv'
  BY DEF Inv, TypeOK, ThreadInv, WritePartial
<1>4. EventInv'
  BY DEF Inv, TypeOK, EventInv, WritePartial
<1>5. AcceptInv'
  BY NoneAssumption DEF Inv, AcceptInv, WritePartial
<1>6. SettledInv'
  BY DEF Inv, TypeOK, SettledInv, WritePartial
<1>7. HandledConnIsWhole'
  BY DEF Inv, TypeOK, HandledConnIsWhole, WritePartial
<1> QED BY <1>1, <1>2, <1>3, <1>4, <1>5, <1>6, <1>7 DEF Inv

\* WriteFails: The thread moves on to CloseConnGuarded.
LEMMA WriteFailsStep ==
  ASSUME Inv, NEW l \in Loops, NEW c \in Conns, WriteFails(l, c)
  PROVE  Inv'
<1>1. TypeOK'
  BY DEF Inv, TypeOK, WriteFails
<1>2. FdInv' /\ RefCounted' /\ ThreadInv' /\ EventInv' /\ AcceptInv' /\ FileInv' /\
      SessionInv' /\ SettledInv' /\ HandledConnIsWhole' /\ CloseDestroys'
  BY DEF Inv, FdInv, OwnFd, WriteFails, RefCounted, ThreadInv, EventInv, AcceptInv,
     FileInv, SessionInv, SettledInv, HandledConnIsWhole, CloseDestroys
<1> QED BY <1>1, <1>2 DEF Inv

\* KeepAlive: The thread leaves c, or looks at its file state first.
LEMMA KeepAliveStep ==
  ASSUME Inv, NEW l \in Loops, NEW c \in Conns, KeepAlive(l, c)
  PROVE  Inv'
<1>1. TypeOK'
  BY DEF Inv, TypeOK, KeepAlive
<1>2. FdInv' /\ RefCounted' /\ FileInv' /\ SessionInv' /\ CloseDestroys'
  BY DEF Inv, FdInv, OwnFd, KeepAlive, RefCounted, FileInv, SessionInv, CloseDestroys
<1>3. ThreadInv'
  BY DEF Inv, TypeOK, ThreadInv, KeepAlive
<1>4. EventInv'
  BY DEF Inv, TypeOK, EventInv, KeepAlive
<1>5. AcceptInv'
  BY NoneAssumption DEF Inv, AcceptInv, KeepAlive
<1>6. SettledInv'
  BY DEF Inv, TypeOK, SettledInv, KeepAlive
<1>7. HandledConnIsWhole'
  BY DEF Inv, TypeOK, HandledConnIsWhole, KeepAlive
<1> QED BY <1>1, <1>2, <1>3, <1>4, <1>5, <1>6, <1>7 DEF Inv

\* NotKeptAlive: The session goes while the thread is on its way to CloseConnGuarded.
LEMMA NotKeptAliveStep ==
  ASSUME Inv, NEW l \in Loops, NEW c \in Conns, NotKeptAlive(l, c)
  PROVE  Inv'
<1>1. TypeOK'
  BY DEF Inv, TypeOK, NotKeptAlive
<1>2. FdInv' /\ RefCounted' /\ ThreadInv' /\ EventInv' /\ AcceptInv' /\ FileInv' /\
      SettledInv' /\ CloseDestroys'
  BY SMTT(30) DEF Inv, FdInv, OwnFd, NotKeptAlive, RefCounted, ThreadInv, EventInv,
     AcceptInv, FileInv, SettledInv, CloseDestroys
<1>3. SessionInv'
  BY DEF Inv, TypeOK, ThreadInv, SessionInv, NotKeptAlive
<1>4. HandledConnIsWhole'
  BY DEF Inv, TypeOK, ThreadInv, HandledConnIsWhole, NotKeptAlive
<1> QED BY <1>1, <1>2, <1>3, <1>4 DEF Inv

\* CheckFileState: The thread leaves c.
LEMMA CheckFileStateStep ==
  ASSUME Inv, NEW l \in Loops, NEW c \in Conns, CheckFileState(l, c)
  PROVE  Inv'
<1>1. TypeOK'
  BY DEF Inv, TypeOK, CheckFileState
<1>2. FdInv' /\ RefCounted' /\ SessionInv' /\ SettledInv' /\ HandledConnIsWhole' /\
      CloseDestroys'
  BY DEF Inv, FdInv, OwnFd, CheckFileState, RefCounted, SessionInv, SettledInv,
     HandledConnIsWhole, CloseDestroys
<1>3. ThreadInv'
  BY DEF Inv, TypeOK, ThreadInv, CheckFileState
<1>4. EventInv'
  BY DEF Inv, TypeOK, EventInv, CheckFileState
<1>5. AcceptInv'
  BY NoneAssumption DEF Inv, AcceptInv, CheckFileState
<1>6. FileInv'
  BY DEF Inv, TypeOK, FileInv, CheckFileState
<1> QED BY <1>1, <1>2, <1>3, <1>4, <1>5, <1>6 DEF Inv

\* CloseConnGuarded: For a settled c the erased reference is the last one, so c is
\* destroyed here.
LEMMA CloseConnGuardedStep ==
  ASSUME Inv, NEW l \in Loops, NEW c \in Conns, CloseConnGuarded(l, c)
  PROVE  Inv'
<1>1. TypeOK'
  <2>1. CASE c \in conns /\ ~AccHolds(c)
    <3>1. life' \in [Conns -> {"unborn", "alive", "closing", "freed"}]
      BY <2>1 DEF Inv, TypeOK, CloseConnGuarded, CloseFd
    <3>2. owner' \in [Fds -> Conns \cup {None}]
      BY <2>1 DEF Inv, TypeOK, CloseConnGuarded, CloseFd
    <3>3. epoll' \in [Conns -> {"none", "disabled", "in", "inout"}]
      BY <2>1 DEF Inv, TypeOK, CloseConnGuarded, CloseFd
    <3>4. /\ rx' \in [Conns -> {"quiet", "data", "fin", "datafin", "reset"}]
          /\ room' \in [Conns -> BOOLEAN]
      BY ZenonT(40), <2>1 DEF Inv, TypeOK, CloseConnGuarded, CloseFd
    <3>5. pc' \in [Loops -> Pcs] /\ cur' \in [Loops -> Conns \cup {None}]
      BY <2>1 DEF Inv, TypeOK, CloseConnGuarded
    <3> QED BY <2>1, <3>1, <3>2, <3>3, <3>4, <3>5 DEF Inv, TypeOK, CloseConnGuarded
  <2>2. CASE ~(c \in conns /\ ~AccHolds(c))
    BY <2>2 DEF Inv, TypeOK, CloseConnGuarded, AfterClose
  <2> QED BY <2>1, <2>2
<1>2. FdInv'
  BY DEF Inv, TypeOK, FdInv, RefCounted, OwnFd, CloseConnGuarded, CloseFd, AfterClose
<1>3. RefCounted'
  BY LoopsAssumption DEF Inv, TypeOK, RefCounted, CloseConnGuarded, CloseFd, AfterClose
<1>4. ThreadInv'
  BY SMTT(30) DEF Inv, TypeOK, RefCounted, ThreadInv, CloseConnGuarded, CloseFd, AfterClose
<1>5. EventInv'
  BY DEF Inv, TypeOK, EventInv, CloseConnGuarded, CloseFd, AfterClose
<1>6. AcceptInv'
  BY LoopsAssumption DEF Inv, TypeOK, AcceptInv, SettledInv, CloseConnGuarded, CloseFd,
     AfterClose
<1>7. FileInv'
  BY DEF Inv, TypeOK, FileInv, CloseConnGuarded, CloseFd, AfterClose
<1>8. SessionInv'
  BY LoopsAssumption DEF Inv, TypeOK, RefCounted, SessionInv, SettledInv,
     CloseConnGuarded, CloseFd, AfterClose
<1>9. SettledInv'
  BY LoopsAssumption DEF Inv, TypeOK, SettledInv, CloseConnGuarded, CloseFd, AfterClose
<1>10. HandledConnIsWhole'
  BY DEF Inv, TypeOK, ThreadInv, HandledConnIsWhole, CloseConnGuarded, CloseFd,
     AfterClose
<1>11. CloseDestroys'
  BY DEF Inv, TypeOK, SettledInv, HandledConnIsWhole, CloseDestroys, CloseConnGuarded,
     CloseFd, AfterClose
<1> QED BY <1>1, <1>2, <1>3, <1>4, <1>5, <1>6, <1>7, <1>8, <1>9, <1>10, <1>11 DEF Inv

\* FinishDestructor: DetachConn can only remove registrations, and no other thread is
\* in the destructor of c.
LEMMA FinishDestructorStep ==
  ASSUME Inv, NEW l \in Loops, NEW c \in Conns, FinishDestructor(l, c)
  PROVE  Inv'
<1>1. TypeOK'
  <2>1. epoll' \in [Conns -> {"none", "disabled", "in", "inout"}]
    BY DEF Inv, TypeOK, FinishDestructor, DetachConn
  <2>2. pc' \in [Loops -> Pcs] /\ cur' \in [Loops -> Conns \cup {None}]
    BY DEF Inv, TypeOK, FinishDestructor, AfterClose
  <2>3. life' \in [Conns -> {"unborn", "alive", "closing", "freed"}]
    BY DEF Inv, TypeOK, FinishDestructor
  <2>4. mtx' \in Loops \cup {None}
    BY DEF Inv, TypeOK, FinishDestructor
  <2> QED BY <2>1, <2>2, <2>3, <2>4 DEF Inv, TypeOK, FinishDestructor
<1>2. FdInv'
  BY DEF Inv, TypeOK, FdInv, ThreadInv, OwnFd, FinishDestructor, DetachConn, AfterClose
<1>3. RefCounted'
  BY DEF Inv, TypeOK, RefCounted, ThreadInv, FinishDestructor, DetachConn, AfterClose
<1>4. ThreadInv'
  BY DEF Inv, TypeOK, ThreadInv, FileInv, FinishDestructor, DetachConn, AfterClose
<1>5. EventInv'
  BY DEF Inv, TypeOK, ThreadInv, EventInv, FileInv, FinishDestructor, DetachConn,
     AfterClose
<1>6. AcceptInv'
  BY DEF Inv, TypeOK, RefCounted, ThreadInv, AcceptInv, FinishDestructor, DetachConn,
     AfterClose
<1>7. FileInv' /\ SessionInv' /\ SettledInv' /\ CloseDestroys'
  BY DEF Inv, FileInv, FinishDestructor, DetachConn, AfterClose, SessionInv,
     SettledInv, CloseDestroys
<1>8. HandledConnIsWhole'
  BY DEF Inv, TypeOK, ThreadInv, HandledConnIsWhole, FinishDestructor, DetachConn,
     AfterClose
<1> QED BY <1>1, <1>2, <1>3, <1>4, <1>5, <1>6, <1>7, <1>8 DEF Inv

-----------------------------------------------------------------------------
\* No thread has done anything and no connection exists
LEMMA InitInv == Init => Inv
<1> SUFFICES ASSUME Init PROVE Inv
  OBVIOUS
<1>1. TypeOK
  BY LoopsAssumption, NoneAssumption DEF Init, TypeOK, Replies
<1>2. FdInv /\ RefCounted /\ ThreadInv /\ EventInv /\ AcceptInv /\ FileInv
  BY LoopsAssumption, NoneAssumption
     DEF Init, FdInv, OwnFd, RefCounted, ThreadInv, EventInv, AcceptInv, FileInv
<1>3. SessionInv /\ SettledInv /\ HandledConnIsWhole /\ CloseDestroys
  BY LoopsAssumption, NoneAssumption
     DEF Init, SessionInv, SettledInv, HandledConnIsWhole, CloseDestroys
<1> QED BY <1>1, <1>2, <1>3 DEF Inv

\* The invariant speaks of the variables only
LEMMA StutterStep == Inv /\ UNCHANGED vars => Inv'
<1> SUFFICES ASSUME Inv, UNCHANGED vars PROVE Inv'
  OBVIOUS
<1>1. TypeOK' /\ FdInv' /\ RefCounted' /\ ThreadInv'
  BY DEF Inv, vars, TypeOK, FdInv, OwnFd, RefCounted, ThreadInv
<1>2. EventInv' /\ AcceptInv' /\ FileInv' /\ SessionInv'
  BY DEF Inv, vars, EventInv, AcceptInv, FileInv, SessionInv
<1>3. SettledInv' /\ HandledConnIsWhole' /\ CloseDestroys'
  BY DEF Inv, vars, SettledInv, HandledConnIsWhole, CloseDestroys
<1> QED BY <1>1, <1>2, <1>3 DEF Inv

\* Every step preserves the invariant
LEMMA NextInv == Inv /\ [Next]_vars => Inv'
<1> SUFFICES ASSUME Inv, [Next]_vars PROVE Inv'
  OBVIOUS
<1>1. CASE \E c \in Conns : Acceptor(c)
  BY <1>1, AcceptStep, OnStreamOpenStep, AttachConnStep, AttachFailsStep, SetWatchedStep,
     InsertStep, ReturnStep DEF Acceptor
<1>2. CASE \E c \in Conns : Peer(c)
  BY <1>2, PeerSendsStep, PeerClosesStep, PeerResetsStep, PeerReadsStep DEF Peer
<1>3. CASE \E l \in Loops : Wait(l)
  BY <1>3, WaitStep
<1>4. CASE \E l \in Loops, c \in Conns : Worker(l, c)
  <2>1. PICK l \in Loops, c \in Conns : Worker(l, c)
    BY <1>4
  <2>2. CASE Reader(l, c)
    BY <2>2, ReadDataStep, ReadNoSessionStep, ReadFinStep, OnStreamClosedStep, ReadErrorStep
       DEF Reader
  <2>3. CASE Writer(l, c)
    BY <2>3, WriteAllStep, WritePartialStep, WriteFailsStep, KeepAliveStep,
       NotKeptAliveStep, CheckFileStateStep DEF Writer
  <2> QED BY <2>1, <2>2, <2>3, DispatchStep, CloseConnGuardedStep, FinishDestructorStep
             DEF Worker
<1>5. CASE UNCHANGED vars
  BY <1>5, StutterStep
<1> QED BY <1>1, <1>2, <1>3, <1>4, <1>5 DEF Next

\* Inv holds in every reachable state of the reactor, for any number of connections,
\* descriptors and loops and for both servers.
THEOREM Invariance == Spec => []Inv
<1> QED BY InitInv, NextInv, PTL DEF Spec

\* The state of the reactor (reactor.h, reactor_conn.h and eventloop.h) is well typed.
THEOREM TypeCorrect == Spec => []TypeOK
<1>1. Inv => TypeOK
  BY DEF Inv
<1> QED BY <1>1, Invariance, PTL

\* ~ReactorConn never closes the descriptor of another connection (reactor_conn.cc:18).
THEOREM DescriptorsOwned == Spec => []OwnFd
<1>1. Inv => OwnFd
  BY DEF Inv, FdInv
<1> QED BY <1>1, Invariance, PTL

\* A connection lives exactly as long as conns_ or Acceptor refers to it (reactor.cc:68,
\* 133), whichever thread gives up the last reference.
THEOREM ReferencesCounted == Spec => []RefCounted
<1>1. Inv => RefCounted
  BY DEF Inv
<1> QED BY <1>1, Invariance, PTL

\* Reader, Writer and the handlers they call (reactor.cc:195, 275) work on live
\* connections with live sessions, unless an event was taken while Acceptor still held
\* the connection.
THEOREM HandledConnsAreWhole == Spec => []HandledConnIsWhole
<1>1. Inv => HandledConnIsWhole
  BY DEF Inv
<1> QED BY <1>1, Invariance, PTL

\* CloseConnGuarded (reactor.cc:68) destroys the connection, with the same exception.
THEOREM ClosingDestroys == Spec => []CloseDestroys
<1>1. Inv => CloseDestroys
  BY DEF Inv
<1> QED BY <1>1, Invariance, PTL
-----------------------------------------------------------------------------
\* Only Reader puts a reply into an empty write buffer
LEMMA OnlyReaderReplies ==
  ASSUME Inv, Next, NEW d \in Conns, reply[d] = "none", reply'[d] # "none"
  PROVE  \E l \in Loops : ReadData(l, d)
<1>1. ~\E c \in Conns : Acceptor(c)
  BY DEF Acceptor, Accept, OnStreamOpen, AttachConn, AttachFails, SetWatched, Insert, Return
<1>2. ~\E c \in Conns : Peer(c)
  BY DEF Peer, PeerSends, PeerCloses, PeerResets, PeerReads
<1>3. ~\E l \in Loops : Wait(l)
  BY DEF Wait
<1>4. PICK l \in Loops, c \in Conns : Worker(l, c)
  BY <1>1, <1>2, <1>3 DEF Next
<1>5. ~Writer(l, c)
  BY DEF Inv, TypeOK, Writer, WriteAll, WritePartial, WriteFails, KeepAlive,
     NotKeptAlive, CheckFileState
<1>6. ~(Dispatch(l, c) \/ CloseConnGuarded(l, c) \/ FinishDestructor(l, c))
  BY DEF Dispatch, CloseConnGuarded, FinishDestructor
<1>7. ~(ReadNoSession(l, c) \/ ReadFin(l, c) \/ OnStreamClosed(l, c) \/ ReadError(l, c))
  BY DEF Inv, TypeOK, ReadNoSession, ReadFin, OnStreamClosed, ReadError
<1>8. ReadData(l, c)
  BY <1>4, <1>5, <1>6, <1>7 DEF Worker, Reader
<1>9. c = d
  BY <1>8 DEF Inv, TypeOK, ReadData
<1> QED BY <1>8, <1>9

\* Reader arms EPOLLOUT for a first reply (reactor.cc:236): a settled connection is in
\* conns_ and therefore watched, so that ModifyConn issues a MOD, which succeeds.
THEOREM RepliesArmed == Spec => ReplyArms
<1> DEFINE Arms == \A c \in Conns : /\ reply[c] = "none" /\ reply'[c] # "none"
                                    /\ c \notin early /\ epoll[c] # "none"
                                    => epoll'[c] = "inout"
<1>1. Inv /\ [Next]_vars => [Arms]_vars
  <2> SUFFICES ASSUME Inv, Next, NEW d \in Conns,
                      reply[d] = "none", reply'[d] # "none", d \notin early,
                      epoll[d] # "none"
               PROVE  epoll'[d] = "inout"
    OBVIOUS
  <2>1. PICK l \in Loops : ReadData(l, d)
    BY OnlyReaderReplies
  <2>2. life[d] = "alive" /\ d \in conns
    BY <2>1 DEF Inv, HandledConnIsWhole, ReadData
  <2>3. watched[d] = TRUE
    BY <2>2 DEF Inv, TypeOK, AcceptInv
  <2>4. ModifyConn(d, "inout")
    BY <2>1 DEF ReadData
  <2> QED BY <2>2, <2>3, <2>4 DEF Inv, TypeOK, ModifyConn
<1> QED BY <1>1, Invariance, PTL DEF Spec, ReplyArms

-----------------------------------------------------------------------------
(***************************************************************************)
(* A reactor with one loop: nothing is handled while Acceptor runs, nor    *)
(* accepted while a destructor runs.                                       *)
(***************************************************************************)

SingleInv ==
  /\ early = {}
  /\ pc[Loop0] = "detach" => owner[fd[cur[Loop0]]] = None
  /\ WatchedIsRegistered
  /\ \A c \in Conns : At(Loop0, c, "acc_watch") => epoll[c] # "none"
  /\ \A c \in Conns : life[c] = "unborn" => ~watched[c]

\* A step of a reactor with one loop preserves SingleInv
LEMMA SingleStep ==
  ASSUME Loops = {Loop0}, Inv, SingleInv, Next
  PROVE  SingleInv'
<1> USE DEF SingleInv, WatchedIsRegistered
<1>1. CASE \E c \in Conns : Acceptor(c)
  <2>1. PICK c \in Conns : Acceptor(c)
    BY <1>1
  <2>2. CASE Accept(c)
    BY <2>2 DEF Inv, TypeOK, AcceptInv, RefCounted, Accept
  <2>3. CASE OnStreamOpen(c) \/ AttachConn(c) \/ SetWatched(c) \/ Insert(c)
    BY <2>3 DEF Inv, TypeOK, RefCounted, OnStreamOpen, AttachConn, SetWatched, Insert
  <2>4. CASE AttachFails(c)
    BY <2>4 DEF Inv, TypeOK, FdInv, OwnFd, RefCounted, AttachFails, CloseFd
  <2>5. CASE Return(c)
    <3>1. CASE c \in conns
      BY <3>1, <2>5 DEF Inv, TypeOK, Return
    <3>2. CASE c \notin conns
      BY <3>2, <2>5 DEF Inv, TypeOK, FdInv, OwnFd, RefCounted, Return, CloseFd
    <3> QED BY <3>1, <3>2
  <2> QED BY <2>1, <2>2, <2>3, <2>4, <2>5 DEF Acceptor
<1>2. CASE \E c \in Conns : Peer(c)
  BY <1>2 DEF Peer, PeerSends, PeerCloses, PeerResets, PeerReads
<1>3. CASE \E l \in Loops : Wait(l)
  BY <1>3 DEF Inv, TypeOK, Wait
<1>4. CASE \E l \in Loops, c \in Conns : Worker(l, c)
  <2>1. PICK c \in Conns : Worker(Loop0, c)
    BY <1>4
  <2>2. CASE Dispatch(Loop0, c)
    BY <2>2 DEF Inv, TypeOK, Dispatch
  <2>3. CASE ReadData(Loop0, c)
    BY <2>3 DEF Inv, TypeOK, ReadData, ModifyConn
  <2>4. CASE \/ ReadNoSession(Loop0, c) \/ ReadFin(Loop0, c) \/ OnStreamClosed(Loop0, c)
             \/ ReadError(Loop0, c)
    BY <2>4 DEF Inv, TypeOK, ReadNoSession, ReadFin, OnStreamClosed, ReadError
  <2>5. CASE WriteAll(Loop0, c)
    BY <2>5 DEF Inv, TypeOK, WriteAll, ModifyConn
  <2>6. CASE \/ WritePartial(Loop0, c) \/ WriteFails(Loop0, c) \/ KeepAlive(Loop0, c)
             \/ NotKeptAlive(Loop0, c) \/ CheckFileState(Loop0, c)
    BY <2>6 DEF Inv, TypeOK, WritePartial, WriteFails, KeepAlive, NotKeptAlive,
                CheckFileState
  <2>7. CASE CloseConnGuarded(Loop0, c)
    <3>1. CASE c \in conns /\ ~AccHolds(c)
      BY <3>1, <2>7 DEF Inv, TypeOK, FdInv, OwnFd, RefCounted, CloseConnGuarded, CloseFd
    <3>2. CASE ~(c \in conns /\ ~AccHolds(c))
      BY <3>2, <2>7 DEF Inv, TypeOK, CloseConnGuarded, AfterClose
    <3> QED BY <3>1, <3>2
  <2>8. CASE FinishDestructor(Loop0, c)
    <3>1. UNCHANGED epoll
      BY <2>8 DEF FinishDestructor, DetachConn
    <3> QED BY <3>1, <2>8 DEF Inv, TypeOK, FinishDestructor, AfterClose
  <2> QED BY <2>1, <2>2, <2>3, <2>4, <2>5, <2>6, <2>7, <2>8 DEF Worker, Reader, Writer
<1> QED BY <1>1, <1>2, <1>3, <1>4 DEF Next

\* SingleInv holds of a reactor with one loop
LEMMA SingleInvariance ==
  ASSUME Loops = {Loop0}
  PROVE  Spec => [](Inv /\ SingleInv)
<1>1. Init => SingleInv
  BY DEF Init, SingleInv, WatchedIsRegistered
<1>2. Inv /\ SingleInv /\ [Next]_vars => SingleInv'
  <2>1. CASE UNCHANGED vars
    BY <2>1 DEF vars, SingleInv, WatchedIsRegistered
  <2> QED BY <2>1, SingleStep
<1> QED BY <1>1, <1>2, Invariance, PTL DEF Spec

\* With one loop, a watched connection stays registered with epoll until its destructor
\* runs: epoller.cc:70 never hits another connection.
THEOREM SingleLoop ==
  ASSUME Loops = {Loop0}
  PROVE  Spec => []WatchedIsRegistered
<1>1. Inv /\ SingleInv => WatchedIsRegistered
  BY DEF SingleInv
<1> QED BY <1>1, SingleInvariance, PTL

\* With one loop, CloseConnGuarded (reactor.cc:68) always destroys the connection: no
\* event of it can have been taken while Acceptor runs in another thread.
THEOREM SingleLoopCloses ==
  ASSUME Loops = {Loop0}
  PROVE  Spec => []ClosedIsClosed
<1>1. Inv /\ SingleInv => ClosedIsClosed
  BY DEF Inv, SingleInv, CloseDestroys, ClosedIsClosed
<1> QED BY <1>1, SingleInvariance, PTL

-----------------------------------------------------------------------------
(***************************************************************************)
(* Writer's reply.                                                         *)
(***************************************************************************)

\* A step that only removes registrations and moves one thread elsewhere
LEMMA ReplyUndisturbed ==
  ASSUME ReplyInv,
         UNCHANGED <<reply, fired, watched>>,
         \A c \in Conns : epoll'[c] \in {epoll[c], "none"},
         \A l \in Loops : \/ pc'[l] = pc[l] /\ cur'[l] = cur[l]
                        \/ pc'[l] \in {"loop", "detach", "filecheck"},
         \A l \in Loops : pc[l] \in {"reader", "closed"} => cur[l] \in Conns
  PROVE  ReplyInv'
BY DEF ReplyInv, WriterHasReply, Armed

\* A step of the acceptor preserves ReplyInv: nothing of c has happened before it is
\* attached.
LEMMA AcceptorReply ==
  ASSUME Inv, ReplyInv, NEW c \in Conns, Acceptor(c)
  PROVE  ReplyInv'
<1> USE DEF ReplyInv, WriterHasReply, Armed
<1>1. CASE Accept(c)
  BY <1>1, LoopsAssumption DEF Inv, TypeOK, Accept
<1>2. CASE OnStreamOpen(c) \/ SetWatched(c) \/ Insert(c)
  BY <1>2, LoopsAssumption DEF Inv, TypeOK, OnStreamOpen, SetWatched, Insert
<1>3. CASE AttachConn(c)
  BY <1>3, LoopsAssumption DEF Inv, TypeOK, AcceptInv, AttachConn
<1>4. CASE AttachFails(c) \/ Return(c)
  <2>1. \A d \in Conns : epoll'[d] \in {epoll[d], "none"}
    BY <1>4 DEF Inv, TypeOK, AttachFails, Return, CloseFd
  <2>2. \A l \in Loops : \/ pc'[l] = pc[l] /\ cur'[l] = cur[l]
                       \/ pc'[l] \in {"loop", "detach", "filecheck"}
    BY <1>4 DEF Inv, TypeOK, AttachFails, Return
  <2>3. UNCHANGED <<reply, fired, watched>>
    BY <1>4 DEF AttachFails, Return
  <2> QED BY <2>1, <2>2, <2>3, ReplyUndisturbed DEF Inv, ThreadInv
<1> QED BY <1>1, <1>2, <1>3, <1>4 DEF Acceptor

\* A step of a worker: EPOLLOUT is armed by Reader for a reply only, and given up with
\* the reply by Writer.
LEMMA WorkerReply ==
  ASSUME Inv, ReplyInv, NEW l \in Loops, NEW c \in Conns, Worker(l, c)
  PROVE  ReplyInv'
<1> USE DEF ReplyInv, WriterHasReply, Armed
<1>0. \A k \in Loops : k # l /\ pc[k] \in WorkerPcs /\ pc[l] \in WorkerPcs => cur[k] # cur[l]
  BY DEF Inv, ThreadInv
<1>1. CASE Dispatch(l, c)
  BY <1>1 DEF Inv, TypeOK, Batch, Dispatch
<1>2. CASE ReadData(l, c)
  <2>1. /\ \A d \in Conns \ {c} : /\ reply'[d] = reply[d] /\ fired'[d] = fired[d]
                                /\ epoll'[d] = epoll[d] /\ watched'[d] = watched[d]
        /\ \A k \in Loops \ {l} : pc'[k] = pc[k] /\ cur'[k] = cur[k]
        /\ fired'[c] = {}
    BY <1>2 DEF Inv, TypeOK, ReadData, ModifyConn
  <2>2. epoll'[c] = "inout" => watched'[c] /\ reply'[c] # "none"
    <3>1. epoll[c] # "inout"
      BY <1>2 DEF ReadData
    <3>2. CASE reply'[c] # "none"
      <4>1. ModifyConn(c, "inout")
        BY <1>2, <3>2 DEF ReadData
      <4>2. CASE watched[c] = (epoll[c] # "none") /\ life[c] = "alive"
        <5>1. watched'[c]
          BY ZenonT(40), <4>1, <4>2 DEF Inv, TypeOK, ModifyConn
        <5> QED BY <5>1, <3>2
      <4>3. CASE ~(watched[c] = (epoll[c] # "none") /\ life[c] = "alive")
        <5>1. epoll'[c] = epoll[c]
          BY <4>1, <4>3 DEF Inv, TypeOK, ModifyConn
        <5> QED BY <5>1, <3>1
      <4> QED BY <4>2, <4>3
    <3>3. CASE reply'[c] = "none"
      <4>1. UNCHANGED epoll
        BY <1>2, <3>3 DEF ReadData
      <4> QED BY <3>1, <4>1
    <3> QED BY <3>2, <3>3
  <2>3. pc'[l] \in {"writer", "loop"} /\ (pc'[l] = "writer" => cur'[l] = c /\ "OUT" \in fired[c])
    BY <1>2 DEF Inv, TypeOK, ReadData
  <2>4. reply[c] # "none" => reply'[c] # "none"
    BY <1>2 DEF Inv, TypeOK, ReadData, AddReply
  <2> QED BY <1>0, <1>2, <2>1, <2>2, <2>3, <2>4 DEF Inv, ThreadInv, ReadData
<1>3. CASE ReadNoSession(l, c) \/ ReadFin(l, c) \/ ReadError(l, c)
  BY <1>3 DEF Inv, TypeOK, ReadNoSession, ReadFin, ReadError
<1>4. CASE OnStreamClosed(l, c)
  BY <1>0, <1>4 DEF Inv, TypeOK, EventInv, OnStreamClosed
<1>5. CASE WriteAll(l, c)
  BY <1>0, <1>5 DEF Inv, TypeOK, EventInv, WriteAll, ModifyConn
<1>6. CASE \/ WritePartial(l, c) \/ WriteFails(l, c) \/ KeepAlive(l, c)
           \/ NotKeptAlive(l, c) \/ CheckFileState(l, c)
  BY <1>6 DEF Inv, TypeOK, WritePartial, WriteFails, KeepAlive, NotKeptAlive,
              CheckFileState
<1>7. CASE CloseConnGuarded(l, c)
  <2>1. \A d \in Conns : epoll'[d] \in {epoll[d], "none"}
    BY <1>7 DEF Inv, TypeOK, CloseConnGuarded, CloseFd
  <2>2. \A k \in Loops : \/ pc'[k] = pc[k] /\ cur'[k] = cur[k]
                       \/ pc'[k] \in {"loop", "detach", "filecheck"}
    BY <1>7 DEF Inv, TypeOK, CloseConnGuarded, AfterClose
  <2>3. UNCHANGED <<reply, fired, watched>>
    BY <1>7 DEF CloseConnGuarded
  <2> QED BY <2>1, <2>2, <2>3, ReplyUndisturbed DEF Inv, ThreadInv
<1>8. CASE FinishDestructor(l, c)
  BY <1>8 DEF Inv, TypeOK, FinishDestructor, DetachConn, AfterClose
<1> QED BY <1>1, <1>2, <1>3, <1>4, <1>5, <1>6, <1>7, <1>8 DEF Worker, Reader, Writer

\* ReplyInv holds in every reachable state
LEMMA ReplyInvariance == Spec => []ReplyInv
<1>1. Init => ReplyInv
  BY DEF Init, ReplyInv, WriterHasReply, Armed
<1>2. Inv /\ ReplyInv /\ [Next]_vars => ReplyInv'
  <2> SUFFICES ASSUME Inv, ReplyInv, [Next]_vars
               PROVE  ReplyInv'
    OBVIOUS
  <2>1. CASE \E c \in Conns : Peer(c)
    BY <2>1 DEF ReplyInv, WriterHasReply, Armed, Peer, PeerSends, PeerCloses, PeerResets,
                PeerReads
  <2>2. CASE \E l \in Loops : Wait(l)
    BY <2>2 DEF Inv, TypeOK, ThreadInv, EventInv, ReplyInv, WriterHasReply, Armed, Wait,
                Ready, ReadyEvents, Batch
  <2>3. CASE UNCHANGED vars
    BY <2>3 DEF vars, ReplyInv, WriterHasReply, Armed
  <2> QED BY <2>1, <2>2, <2>3, AcceptorReply, WorkerReply DEF Next
<1> QED BY <1>1, <1>2, Invariance, PTL DEF Spec

\* Writer never finds an empty write buffer (reactor.cc:284), for any number of loops.
THEOREM WritersHaveReply == Spec => []WriterHasReply
<1>1. ReplyInv => WriterHasReply
  BY DEF ReplyInv
<1> QED BY <1>1, ReplyInvariance, PTL
-----------------------------------------------------------------------------
(***************************************************************************)
(* The sessions of TCPServer.                                              *)
(***************************************************************************)

\* A connection without a session will not be handled: nothing is armed or undelivered
\* for it, no handler runs, and it gets its session before it is attached
TcpInv ==
  \A c \in Conns : c \notin sessions =>
    /\ ~Armed(c) /\ fired[c] = {} /\ ~At(Loop0, c, "acc_attach")
    /\ \A l \in Loops : pc[l] \in HandlerPcs => cur[l] # c

\* A step of a worker in a reactor with TCPServer's handlers preserves TcpInv
LEMMA WorkerTcp ==
  ASSUME Server = "tcp", Inv, ReplyInv, TcpInv,
         NEW l \in Loops, NEW c \in Conns, Worker(l, c)
  PROVE  TcpInv'
<1> USE DEF TcpInv, Armed
<1>1. CASE Dispatch(l, c)
  BY <1>1 DEF Inv, TypeOK, Batch, Dispatch
<1>2. CASE ReadData(l, c)
  BY <1>2 DEF Inv, TypeOK, ReadData, ModifyConn
<1>3. CASE ReadNoSession(l, c)
  BY <1>3 DEF Inv, TypeOK, ReadNoSession
<1>9. CASE ReadFin(l, c) \/ ReadError(l, c)
  <2>1. \A k \in Loops :
          \/ pc'[k] = pc[k] /\ cur'[k] = cur[k]
          \/ pc'[k] = "guard"
          \/ pc[k] \in HandlerPcs /\ cur'[k] = cur[k] /\ pc'[k] # "acc_attach"
    BY <1>9 DEF Inv, TypeOK, ReadFin, ReadError
  <2>2. \A d \in Conns : fired'[d] \in {fired[d], {}}
    BY <1>9 DEF Inv, TypeOK, ReadFin, ReadError
  <2>3. UNCHANGED <<sessions, epoll>>
    BY <1>9 DEF ReadFin, ReadError
  <2> QED BY <2>1, <2>2, <2>3, LoopsAssumption
<1>4. CASE OnStreamClosed(l, c)
  <2>1. ~Armed(c) /\ fired[c] = {}
    BY <1>4 DEF Inv, EventInv, ReplyInv, OnStreamClosed
  <2>2. \A k \in Loops : k # l /\ pc[k] \in HandlerPcs => cur[k] # c
    BY <1>4 DEF Inv, ThreadInv, OnStreamClosed
  <2>3. ~At(Loop0, c, "acc_attach")
    BY <1>4 DEF Inv, AcceptInv, OnStreamClosed
  <2> QED BY <1>4, <2>1, <2>2, <2>3 DEF Inv, TypeOK, OnStreamClosed
<1>5. CASE WriteAll(l, c)
  BY <1>5 DEF Inv, TypeOK, WriteAll, ModifyConn
<1>6. CASE \/ WritePartial(l, c) \/ WriteFails(l, c) \/ KeepAlive(l, c)
           \/ CheckFileState(l, c)
  <2>1. \A k \in Loops : \/ pc'[k] = pc[k] /\ cur'[k] = cur[k]
                       \/ pc'[k] \in {"loop", "guard", "filecheck"}
    BY <1>6 DEF Inv, TypeOK, WritePartial, WriteFails, KeepAlive, CheckFileState
  <2>2. UNCHANGED <<sessions, fired, epoll>>
    BY <1>6 DEF WritePartial, WriteFails, KeepAlive, CheckFileState
  <2> QED BY <2>1, <2>2, LoopsAssumption
<1>10. CASE NotKeptAlive(l, c)
  BY <1>10 DEF NotKeptAlive
<1>7. CASE CloseConnGuarded(l, c)
  <2>1. \A d \in Conns : epoll'[d] \in {epoll[d], "none"}
    BY <1>7 DEF Inv, TypeOK, CloseConnGuarded, CloseFd
  <2>2. \A k \in Loops : \/ pc'[k] = pc[k] /\ cur'[k] = cur[k]
                       \/ pc'[k] \in {"loop", "detach", "filecheck"}
    BY <1>7 DEF Inv, TypeOK, CloseConnGuarded, AfterClose
  <2>3. UNCHANGED <<sessions, fired>>
    BY <1>7 DEF CloseConnGuarded
  <2> QED BY <2>1, <2>2, <2>3, LoopsAssumption
<1>8. CASE FinishDestructor(l, c)
  BY <1>8 DEF Inv, TypeOK, FinishDestructor, DetachConn, AfterClose
<1> QED BY <1>1, <1>2, <1>3, <1>4, <1>5, <1>6, <1>7, <1>8, <1>9, <1>10
    DEF Worker, Reader, Writer

\* TCPServer's handlers always find their session (tcp_server.cc:131), for any number of
\* loops: the run checks it for one.
THEOREM TcpHandlersHaveSession ==
  ASSUME Server = "tcp"
  PROVE  Spec => []HandlerHasSession
<1>1. Init => TcpInv
  BY LoopsAssumption DEF Init, TcpInv, Armed
<1>2. Inv /\ ReplyInv /\ TcpInv /\ [Next]_vars => TcpInv'
  <2> SUFFICES ASSUME Inv, ReplyInv, TcpInv, [Next]_vars
               PROVE  TcpInv'
    OBVIOUS
  <2>1. CASE \E c \in Conns : Acceptor(c)
    <3>1. PICK c \in Conns : Acceptor(c)
      BY <2>1
    <3>2. CASE Accept(c) \/ OnStreamOpen(c) \/ SetWatched(c) \/ Insert(c)
      BY <3>2, LoopsAssumption
      DEF Inv, TypeOK, TcpInv, Armed, Accept, OnStreamOpen, SetWatched, Insert
    <3>3. CASE AttachConn(c)
      BY <3>3, LoopsAssumption DEF Inv, TypeOK, TcpInv, Armed, AttachConn
    <3>4. CASE AttachFails(c) \/ Return(c)
      BY <3>4, LoopsAssumption DEF Inv, TypeOK, TcpInv, Armed, AttachFails, Return, CloseFd
    <3> QED BY <3>1, <3>2, <3>3, <3>4 DEF Acceptor
  <2>2. CASE \E c \in Conns : Peer(c)
    BY <2>2 DEF TcpInv, Armed, Peer, PeerSends, PeerCloses, PeerResets, PeerReads
  <2>3. CASE \E l \in Loops : Wait(l)
    BY <2>3 DEF Inv, TypeOK, TcpInv, Armed, Wait, Ready, ReadyEvents, Batch
  <2>4. CASE UNCHANGED vars
    BY <2>4 DEF vars, TcpInv, Armed
  <2> QED BY <2>1, <2>2, <2>3, <2>4, WorkerTcp DEF Next
<1>3. Inv /\ TcpInv => HandlerHasSession
  BY DEF Inv, ThreadInv, TcpInv, HandlerHasSession
<1> QED BY <1>1, <1>2, <1>3, Invariance, ReplyInvariance, PTL DEF Spec
=============================================================================
