------------------------------- MODULE ConnIO -------------------------------
(***************************************************************************)
(* What goes out on one connection: Reactor::Reader and Writer             *)
(* (net/reactor.cc) with their byte counts, file_state_                    *)
(* (net/reactor_conn.cc), the one-shot registration, and the handlers as   *)
(* far as they fill and empty the buffers.  A connection of a TCP server   *)
(* belongs to an echo server, like examples/echo_server.cc; one of an HTTP *)
(* server gets the requests                                                *)
(*   "page"  answered from the write buffer, the connection is kept,       *)
(*   "last"  likewise, but the connection is not kept,                     *)
(*   "file", "empty"  answered with a file, which may be empty,            *)
(*   "bad"   refused by the parser, and                                    *)
(*   "half"  a piece that ends in the middle of a request line.            *)
(* HttpConn has the parser and the responses in detail; Reactor has the    *)
(* objects and the threads.  The client reads what is sent to it, sooner   *)
(* or later, and may send ahead of the responses.                          *)
(***************************************************************************)
EXTENDS Naturals, SequencesExt

CONSTANTS
  Scripts,   \* [server, tokens]: what a client may send, to which server
  FileSize,  \* size of the file of a "file" request
  Cap,       \* what one call of Reader can read: kNetReadBufSize
  None

ASSUME ScriptsAssumption == \A s \in Scripts : s.tokens \in Seq(Range(s.tokens))
ASSUME IOAssumption == FileSize \in Nat \ {0} /\ Cap \in Nat \ {0}
ASSUME NoneAssumption == None \notin Nat

VARIABLES
  script,    \* the client's choice
  todo,      \* what it has still to send
  fin,       \* it has closed its side
  reset,     \* it has reset the connection
  inbox,     \* what Reader has not read yet
  got,       \* what the socket has taken for the client
  mask,      \* mask_, without EPOLLONESHOT
  armed,     \* the events the registration waits for
  fired,     \* the events of the connection in ep_events_
  pc,        \* "wait", "dispatch", "write" or "closed"
  rbuf, wbuf,
  file,      \* file_state_: of the response number, offset_ and target_size_
  invalid,   \* current_parsing_state_ is Invalid
  kept,      \* first value of Connection in the response object
  due,       \* history: what the handlers answered, with the files
  eager,     \* history: the client has sent ahead of a response
  partial    \* history: the socket has taken less than it was given

socket  == <<todo, fin, reset, inbox>>
session == <<rbuf, wbuf, file, invalid, kept>>
vars == <<script, socket, got, mask, armed, fired, pc, session, due, eager, partial>>

Echo == script.server = "tcp"

\* Bytes: the head (and page) of the response j, and its file
HeadOf(j)        == [i \in 1..2 |-> <<j, "head", i>>]
Content(j, a, b) == [i \in 1..(b - a) |-> <<j, "file", a + i>>]

Size(request) == IF request = "file" THEN FileSize ELSE 0

\* The number of responses so far
Answered == IF due = <<>> THEN 0 ELSE Last(due)[1]

Requests(s) == Cardinality({i \in DOMAIN s : s[i] # "half"})
SentTokens  == SubSeq(script.tokens, 1, Len(script.tokens) - Len(todo))

Init ==
  /\ script \in Scripts /\ todo = script.tokens
  /\ fin = FALSE /\ reset = FALSE /\ inbox = <<>> /\ got = <<>>
  /\ mask = {"in"} /\ armed = {"in"} /\ fired = {} /\ pc = "wait"
  /\ rbuf = <<>> /\ wbuf = <<>>
  /\ file = [of |-> None, offset |-> 0, target |-> 0]
  /\ invalid = FALSE /\ kept = None
  /\ due = <<>> /\ eager = FALSE /\ partial = FALSE

-----------------------------------------------------------------------------
(***************************************************************************)
(* The client.                                                             *)
(***************************************************************************)

Sends ==
  /\ todo # <<>> /\ ~fin /\ ~reset /\ pc # "closed"
  /\ inbox' = Append(inbox, todo[1]) /\ todo' = Tail(todo)
  /\ eager' = (eager \/ Answered < Requests(SentTokens) \/ got # due)
  /\ UNCHANGED <<script, fin, reset, got, mask, armed, fired, pc, session, due, partial>>

Closes ==
  /\ ~fin /\ ~reset /\ pc # "closed"
  /\ fin' = TRUE
  /\ UNCHANGED <<script, todo, reset, inbox, got, mask, armed, fired, pc, session,
                 due, eager, partial>>

Resets ==
  /\ ~reset /\ pc # "closed"
  /\ reset' = TRUE /\ inbox' = <<>>
  /\ UNCHANGED <<script, todo, fin, got, mask, armed, fired, pc, session, due, eager, partial>>

Client == Sends \/ Closes \/ Resets

-----------------------------------------------------------------------------
(***************************************************************************)
(* EventLoop::Loop.  Events are delivered once for each ModifyConn.        *)
(***************************************************************************)

\* Input is ready if there is something to read; a client that reads makes output ready
Wait ==
  /\ pc = "wait"
  /\ fired' \in (SUBSET armed) \ {{}}
  /\ "in" \in fired' => inbox # <<>> \/ fin \/ reset
  /\ reset => fired' = armed
  /\ armed' = {}
  /\ pc' = IF "in" \in fired' THEN "dispatch" ELSE "write"
  /\ UNCHANGED <<script, socket, got, mask, session, due, eager, partial>>

\* Loop goes on to the write handler, if EPOLLOUT has fired
AfterReader == IF "out" \in fired THEN "write" ELSE "wait"

-----------------------------------------------------------------------------
(***************************************************************************)
(* Reader.                                                                 *)
(***************************************************************************)

\* FixedSizeReadToBuf: READ_EOF_REACHED
AllRead == Len(inbox) <= Cap /\ (fin => Len(inbox) = Cap)

CloseConnGuarded == /\ pc' = "closed"
                    /\ UNCHANGED <<script, socket, got, mask, armed, fired, session,
                                   due, eager, partial>>

ReadFails == /\ pc = "dispatch"
             /\ reset \/ (fin /\ inbox = <<>>)
             /\ CloseConnGuarded

\* TCPServer::OnStreamReached, with the callback of the echo server
OnMessage(data) ==
  /\ IF AllRead THEN wbuf' = wbuf \o data /\ rbuf' = <<>>
                ELSE rbuf' = data /\ UNCHANGED wbuf
  /\ UNCHANGED <<file, invalid, kept, due>>

\* A PutFile that leaves the offset
PutFileOffsetKept(request, j) == [file EXCEPT !.of = j, !.target = Size(request)]

PutFile(request, j) == [of |-> j, offset |-> 0, target |-> Size(request)]

\* HTTPServer::OnStreamReached with a complete request.  What was read behind it is dropped.
OnRequest(request) ==
  LET j == Answered + 1 IN
  /\ wbuf' = wbuf \o HeadOf(j)
  /\ file' = IF request \in {"file", "empty"} THEN PutFile(request, j) ELSE file
  /\ due' = due \o HeadOf(j) \o Content(j, 0, Size(request))
  /\ kept' = IF kept # None THEN kept ELSE IF request = "last" THEN "close" ELSE "keep-alive"
  /\ rbuf' = <<>>
  /\ UNCHANGED invalid

\* ... with one that is refused: ParseRequestDatagram empties both buffers
OnRefused ==
  LET j == Answered + 1 IN
  /\ wbuf' = HeadOf(j)
  /\ due' = due \o HeadOf(j)
  /\ kept' = IF kept # None THEN kept ELSE "close"
  /\ invalid' = TRUE
  /\ rbuf' = <<>>
  /\ UNCHANGED file

\* A request whose beginning was dropped: in front of what is in the read buffer, or comes
\* next, the client has sent a half.  ParseRequestLine finds no three parts in the rest, or
\* no method.
BeginningLost == LET before == Len(SentTokens) - Len(inbox) - Len(rbuf)
                 IN  before > 0 /\ SentTokens[before] = "half"

OnStreamReached(data) ==
  LET complete == {i \in DOMAIN data : data[i] # "half"}
      request  == data[Min(complete)]
      refused  == request = "bad" \/ BeginningLost
  IN  \/ Echo /\ OnMessage(data)
      \/ /\ ~Echo /\ ~invalid /\ complete = {}
         /\ rbuf' = data /\ UNCHANGED <<wbuf, file, invalid, kept, due>>
      \/ ~Echo /\ ~invalid /\ complete # {} /\ ~refused /\ OnRequest(request)
      \/ ~Echo /\ (invalid \/ (complete # {} /\ refused)) /\ OnRefused

Read(n) == /\ pc = "dispatch" /\ ~reset /\ inbox # <<>>
           /\ inbox' = SubSeq(inbox, n + 1, Len(inbox))
           /\ OnStreamReached(rbuf \o SubSeq(inbox, 1, n))
           /\ pc' = AfterReader
           /\ UNCHANGED <<script, todo, fin, reset, got, fired, eager, partial>>

\* A Reader that arms the write event for what was in the write buffer before
ReadDataArmsBefore ==
  /\ Read(Min({Cap, Len(inbox)}))
  /\ IF wbuf # <<>> THEN mask' = mask \cup {"out"} /\ armed' = mask'
                    ELSE UNCHANGED <<mask, armed>>

ReadData ==
  /\ Read(Min({Cap, Len(inbox)}))
  /\ IF wbuf' # <<>> THEN mask' = mask \cup {"out"} /\ armed' = mask'
                     ELSE UNCHANGED <<mask, armed>>

Reader == ReadFails \/ ReadData

-----------------------------------------------------------------------------
(***************************************************************************)
(* Writer.  The write buffer is never empty here (Reactor!WriterHasReply). *)
(***************************************************************************)

FileNeedSending == file.of # None /\ file.target > 0

\* An InvokeWriteDoneHandler that leaves the write buffer
WriteDoneUnreset ==
  /\ mask' = {"in"} /\ armed' = {"in"}
  /\ UNCHANGED wbuf
  /\ IF Echo THEN pc' = "wait" /\ UNCHANGED <<rbuf, kept>>
     ELSE IF kept = "keep-alive" THEN pc' = "wait" /\ rbuf' = <<>> /\ kept' = None
     ELSE pc' = "closed" /\ UNCHANGED <<rbuf, kept>>

\* ... that renews the registration before it sets the mask
WriteDoneArmsFirst ==
  /\ mask' = {"in"} /\ armed' = mask
  /\ wbuf' = <<>>
  /\ IF Echo THEN pc' = "wait" /\ UNCHANGED <<rbuf, kept>>
     ELSE IF kept = "keep-alive" THEN pc' = "wait" /\ rbuf' = <<>> /\ kept' = None
     ELSE pc' = "closed" /\ UNCHANGED <<rbuf, kept>>

\* InvokeWriteDoneHandler, with OnStreamWritten
WriteDone ==
  /\ mask' = {"in"} /\ armed' = {"in"}
  /\ wbuf' = <<>>
  /\ IF Echo THEN pc' = "wait" /\ UNCHANGED <<rbuf, kept>>
     ELSE IF kept = "keep-alive" THEN pc' = "wait" /\ rbuf' = <<>> /\ kept' = None
     ELSE pc' = "closed" /\ UNCHANGED <<rbuf, kept>>

WriteFails == /\ pc = "write" /\ reset
              /\ CloseConnGuarded

\* A Writer that leaves the bytes it has sent in the buffer
WritePartialUnconsumed ==
  /\ pc = "write" /\ ~reset
  /\ \E n \in 1..(Len(wbuf) - 1) : got' = got \o SubSeq(wbuf, 1, n)
  /\ pc' = "wait" /\ partial' = TRUE
  /\ UNCHANGED <<script, socket, mask, armed, fired, session, due, eager>>

\* The socket takes a part; nothing is armed
WritePartial ==
  /\ pc = "write" /\ ~reset
  /\ \E n \in 1..(Len(wbuf) - 1) : /\ got' = got \o SubSeq(wbuf, 1, n)
                                   /\ wbuf' = SubSeq(wbuf, n + 1, Len(wbuf))
  /\ pc' = "wait" /\ partial' = TRUE
  /\ UNCHANGED <<script, socket, mask, armed, fired, rbuf, file, invalid, kept, due, eager>>

WriteAll ==
  /\ pc = "write" /\ ~reset /\ ~FileNeedSending
  /\ got' = got \o wbuf
  /\ WriteDone
  /\ UNCHANGED <<script, socket, fired, file, invalid, due, eager, partial>>

\* SendFileAndUpdate: the length asked for.  target_size_ is what is left already, so that
\* the offset is taken off twice; the difference can wrap, and is then longer than any file.
TargetLength == IF file.target >= file.offset THEN file.target - file.offset
                                              ELSE FileSize

Sent(n) == [file EXCEPT !.offset = @ + n, !.target = @ - n]

\* The write buffer is sent, and n bytes of the file.  If the file is not sent to its end,
\* the write buffer stays, and is sent again.
WriteFile ==
  /\ pc = "write" /\ ~reset /\ FileNeedSending
  /\ LET most == Min({TargetLength, FileSize - file.offset}) IN
     \E n \in 0..most :
       /\ got' = got \o wbuf \o Content(file.of, file.offset, file.offset + n)
       /\ file' = Sent(n)
       /\ partial' = (partial \/ n < most)
  /\ IF file'.target = 0
     THEN WriteDone
     ELSE pc' = "wait" /\ UNCHANGED <<mask, armed, wbuf, rbuf, kept>>
  /\ UNCHANGED <<script, socket, fired, invalid, due, eager>>

Writer == WriteFails \/ WritePartial \/ WriteAll \/ WriteFile

Loop == Wait \/ Reader \/ Writer

Next == Client \/ Loop

Spec == Init /\ [][Next]_vars

\* The thread of the loop runs, and clients read what is sent to them
FairSpec == Spec /\ WF_vars(Loop)

TypeOK ==
  /\ script \in Scripts /\ IsSuffix(todo, script.tokens)
  /\ fin \in BOOLEAN /\ reset \in BOOLEAN /\ invalid \in BOOLEAN
  /\ armed \subseteq mask /\ mask \subseteq {"in", "out"} /\ fired \subseteq {"in", "out"}
  /\ pc \in {"wait", "dispatch", "write", "closed"}
  /\ kept \in {None, "keep-alive", "close"}
  /\ file.offset \in 0..FileSize /\ file.target \in 0..FileSize

-----------------------------------------------------------------------------
(***************************************************************************)
(* Properties.                                                             *)
(***************************************************************************)

\* Every byte an echo server's client has sent is in one place, and in order, whatever
\* the reads and writes are cut into: nothing is lost, sent twice or overtaken, however
\* much is sent ahead.
EchoIntact ==
  Echo /\ ~reset => got \o wbuf \o rbuf \o inbox \o todo = script.tokens

\* The client of an HTTP server gets the responses in order and whole, each with its file,
\* and the write buffer is empty when they are sent.  A client that sends ahead can count
\* on that only where no file is sent and as long as no request is refused: a file is sent
\* behind what is in the write buffer by then, or not at all (reactor_conn.cc:25), the head
\* is sent again with the rest of a file (reactor.cc:304), and a refusal cuts off the
\* response before it (http_parser.cc:215).  A request can be refused only because its
\* beginning was dropped with the one before (http_server.cc:183).
ResponsesIntact ==
  ~Echo /\ (~eager \/ ("file" \notin Range(script.tokens) /\ ~invalid)) =>
    /\ IsPrefix(got, due)
    /\ wbuf = <<>> => got = due

\* A client that waits for its responses gets them to the end, if the socket takes
\* whatever Writer gives it at once.
WaitingIsServed ==
  (~Echo /\ got # due) ~> (got = due \/ eager \/ partial \/ pc = "closed")
=============================================================================
