# AhriMQ in TLA+

This directory specifies the network library AhriMQ (`src/ahrimq`): a reactor with several
epoll loops, TCP and HTTP servers on top of it, and the data structures they use. Modules
are translated from the source; TLC checks them on small instances, TLAPS proves the main
properties for all instances.

Paths below are relative to `src/ahrimq`.

## The system

| Component | State | Operations | Interaction | What makes it correct |
|---|---|---|---|---|
| Reactor, connections (`net/reactor*`, `net/reactor_conn*`) | `conns_` under `mtx_`; per `ReactorConn` descriptor, loop, mask, `watched_`, buffers (borrowed), `file_state_` | Acceptor, Reader, Writer, CloseConnGuarded, destructor, React/Wait/Stop | called by the loops; calls the four server handlers and the epoll wrapper | handlers see live objects, descriptors are not confused, closing closes, data reaches handlers |
| Event loop, epoll wrapper (`net/eventloop*`, `net/epoller*`) | epoll registrations (one-shot), `stopped` | Loop, Stop; Attach/Modify/DetachConn, Wait | one thread per loop; the acceptor's thread registers connections with other loops | no event lost, none for a dead connection |
| Socket helpers (`net/utils*`) | none | FixedSizeReadToBuf, FixedSizeWriteFromBuf, SendFile | results steer Reader and Writer | |
| TCP server (`net/tcp`) | `tcpconns_` under its own mutex, per connection two buffers | OnStreamOpen/Reached/Closed/Written | reactor handlers; user callbacks | a session exists as long as its connection is handled |
| HTTP server (`net/http/http_server*`) | `httpconns_`, `file_mappings_`, `stopped_`, detached cleaner thread | the same handlers, DoRequest, OpenFile, Cleanup | reactor handlers; parser, router, response | as above; files are served from the right descriptor |
| HTTP parser, messages (`net/http/http_{parser,request,response,header}*`) | per connection parser state, one request and one response object reused | ParseRequestDatagram, Reset, Organize | on the connection's buffers | result independent of fragmentation; nothing leaks from one request to the next |
| Router (`net/http/http_router*`) | one pattern tree per method | Register*, Route | called for every request | a lookup finds the handler of a pattern that matches, whatever else was registered |
| Buffer (`buffer`) | byte array, reader and writer index | append, read, search, trim | used by one thread at a time | a byte stream |
| CircularQueue, InstancePool (`pool`) | ring of items; blocks of slots, free queue, mutex | push/pop/copy/move; Construct, deleter | pool shared by threads | FIFO with value semantics; no slot shared or lost |
| URL, cookie, strings (`net/http/{url,cookie}*`, `base/str_utils*`) | text and query of a URL object, reused with its request | Set, Reset, Escape, ParseString, StrSplit | the parser sets them, DoRouting and handlers read them | what a handler reads is what its own client sent |
| Start and stop (`Run`, `Stop`, destructors of all of the above) | threads, `stopped` of each loop, epoll descriptors | React, Wait, Stop, `~Reactor`, `~Epoller` | any thread or handler may call Stop | Run returns, nothing leaks, nobody closes what is not his |
| Mime, time, address, status tables | none or plain values | lookup, formatting | | |

Hard behaviour: several loop threads and the acceptor share `conns_` and each other's epoll
instances; descriptor numbers are reused at once; registrations are one-shot, so whoever
handles an event must renew it; objects are destroyed inside calls made through them; a
cleaner thread closes descriptors that others still use; the buffers are rearranged between
operations. `PROJECT.json` lists each hazard with its line and the properties that cover it.

## Modules

| Module | Models | Kind |
|---|---|---|
| `Reactor` | reactor, loops, epoll, connection objects, the state-changing part of the TCP and HTTP handlers | concurrent state machine |
| `ReactorProofs` | | theorems about `Reactor` |
| `FileCache` | `OpenFile`, `Cleanup`, and a file response from OpenFile to SendFile | concurrent state machine |
| `Buffer` | `buffer.{h,cc}` | sequential object |
| `BufferProofs` | | theorems about `Buffer` |
| `ByteStream` | what a buffer promises | abstract specification, implemented by `Buffer` |
| `HttpConn` | the HTTP parser and the life of requests and responses on one connection | sequential object driven by the reactor |
| `HttpSession` | what a connection promises a client | abstract specification, implemented by `HttpConn` |
| `HttpServerProofs` | | theorems about `HttpConn` and `FileCache` |
| `CircularQueueOps` | operations of `circular_queue.hpp` as operators | operators, used by the next two |
| `CircularQueue` | objects of the class used by a program | sequential objects |
| `BoundedFifo` | what the class promises | abstract specification, implemented by `CircularQueue` |
| `CircularQueueProofs` | | theorems about `CircularQueue` |
| `InstancePool` | `instance_pool.hpp` used by threads | concurrent state machine |
| `InstancePoolProofs` | | theorems about `InstancePool` |
| `ConnIO` | the bytes of one connection: Reader, Writer and SendFileAndUpdate with their counts, `file_state_`, requests sent ahead | state machine of a client and a loop |
| `ConnIOProofs` | | theorems about `ConnIO` |
| `ServerStop` | construction, Run, Stop and destruction of a server, with the descriptor table | concurrent state machine |
| `ServerStopProofs` | | theorems about `ServerStop` |
| `Strings`, `Url`, `Cookie` | string functions, URL objects, cookies | operators |
| `Router` | registration into and search of the pattern tree | sequential object, composed by `Routing` |
| `Routing` | a request object from ParseRequestLine to the handler and to Reset, while routes are registered | composes `Router`, `Url` and `Cookie` |
| `RouterProofs` | | theorems about `Router` as `Routing` uses it, and about the requests of `Routing` |
| `MCReactor`, `MCBuffer`, `MCInstancePool`, `MCHttpConn`, `MCConnIO`, `MCRouting` | symmetry sets and constant values for TLC | |

### Reactor

A connection `c` is a name that is accepted at most once, as in the code (`next_conn_id_`).
`life[c]` is its `ReactorConn` object: alive, closing (the destructor has closed the
descriptor but not detached it), freed. `conns` is `conns_`, `sessions` the non-null
entries of `tcpconns_` or `httpconns_`; `Server` selects the handlers. `owner` is the
process's descriptor table restricted to sockets. `epoll[c]` is the registration of the socket that
belongs to `c`: with its loop's epoll instance for input (`in`), for both directions
(`inout`), disarmed by one-shot delivery (`disabled`), or none. `pc[l]` is the place of loop
`l`'s thread and `cur[l]` the connection it works on. A step is a stretch of code between
two points where another thread or the kernel can matter:

| Code | Actions |
|---|---|
| `Reactor::Acceptor` | `Accept`, `OnStreamOpen`, `AttachConn` or `AttachFails`, `SetWatched`, `Insert`, `Return` |
| `EventLoop::Loop`, `Epoller::Wait` | `Wait` (fills `fired` and disarms), `Dispatch` |
| `Reactor::Reader` and the read and close handlers | `ReadData`, `ReadNoSession`, `ReadFin`, `OnStreamClosed`, `ReadError` |
| `Reactor::Writer`, `InvokeWriteDoneHandler` and the write handlers | `WriteAll`, `WritePartial`, `WriteFails`, `KeepAlive`, `NotKeptAlive`, `CheckFileState` |
| `CloseConnGuarded`, `~ReactorConn` | `CloseConnGuarded`, `FinishDestructor` |
| the clients | `PeerSends`, `PeerCloses`, `PeerResets`, `PeerReads` |

Abstractions. Data is reduced to what the control flow asks: whether a socket has data, a
FIN, both or an error to report; whether it takes more output; whether the write buffer
holds a reply and a file is attached. The first `send` of a Writer call takes at least one byte
unless the connection was reset (the socket was reported writable), and SIGPIPE is ignored, as `iserver.h` arranges. A failing
`accept` changes nothing and is not an action. Writer's
branch for an empty write buffer has no action because it is never taken
(`WriterHasReply`, proved). After a thread has used a freed object
(Loop reads `file_state_` behind a Writer that has freed the connection, `net/reactor.cc:322`) or the buffers of an erased session the behaviour of the program is undefined; the model does not follow it
any further than the next statement.

`early` is a history variable: the connections one of whose events a worker took while
Acceptor still held its reference. For them closing may fail (finding `reactor_unclosed`);
the invariants say what holds for all the others, and `reactor_single` that the exception
needs a second loop.

### FileCache

`table` is the descriptor table of the process, `mapping` is `file_mappings_`, `old` the
entries for which `NeedClose` is true. `OpenFile` and a sweep hold `mtx_` from start to end,
so each is a step; a response is `opened` after OpenFile, `attached` after PutFile and done
after its last SendFile. OpenFile does not look at the state of the server: requests come from
Run on, and loops that Stop has not reached yet still open files (`Serving`). `Idle60(f)` says that 60 seconds have passed since the last use of
`f`. Sockets take descriptors too. The server is constructed with `stopped_` true and the
cleaner already running. `CacheInit`, `CacheNext` and `CacheSpec` have these names because
`HttpServerProofs` extends `FileCache` and `HttpConn` together.

### Buffer

`buf` holds the four members; `data` holds `Junk` where malloc's memory was never written.
`out` is what the last operation returned. `CopyOrder` is what memcpy does to overlapping
areas, which the language leaves undefined: `Buffer` is a byte stream if it copies forward.

### HttpConn

The stream of the client is a sequence of tokens: what delimits lines is spelled out, what
a line says is one token, of a kind the parser tells apart. `Reader(n)` appends the next
`n` tokens to the read buffer, however the network cut them, and calls OnStreamReached;
each iteration of the loop in `ParseRequestDatagram` is a step; `ParseDone` and
`ParseInvalid` include the rest of OnStreamReached, down to the response in the write
buffer. `Routed` has an element for each way DoRouting and the code behind it can end.
`ReactorProofs` justifies that a connection is used by one thread at a time; that the
reactor may not call for the rest of a request is `reactor_epollin`'s subject, here it
may call for any piece. Clients wait for a response before they send on. Of several values of a field
the first counts (`HTTPHeader::Get`, `FirstIs`): the body is as long as the first Content-Length says, and its
form is that of the first Content-Type.

The model shows what the tests do not: a header line without a colon is dropped if it is
the last and refused if not, because of `==` in the place of `=`
(`net/http/http_parser.cc:108`, so that the "not reachable" of line 124 is reached); the
codes 501 and 505 of `ParseRequestLine` become 400; an invalid Content-Length counts as
none (line 170); an error keeps a connection whose request asked for keep-alive, because
`DoRequestError` adds "close" behind "keep-alive" (`net/http/http_server.cc:307`); and a
response without a body of its own carries the one before (`net/http/http_response.cc:39`).

### ConnIO

One connection and its client. Where `Reactor` says "a reply and a file", here are the bytes:
`inbox` is what Reader has not read, `got` what the socket has taken, `due` (a history
variable) what the handlers have answered, each byte with the number of its response. The
mask and the one-shot registration are as in `Reactor`; requests are one token each, of one
of six kinds, since `HttpConn` has the parser. A "half" is a piece that ends inside a request line; a client that
sends ahead and is cut elsewhere is outside the model, one that waits is cut anywhere in `HttpConn`.

| Code | Actions |
|---|---|
| `Reader`, `FixedSizeReadToBuf`, `OnStreamReached` of either server | `ReadFails`, `ReadData` (at most `Cap` tokens; `AllRead` is READ_EOF_REACHED) with `OnMessage`, `OnRequest`, `OnRefused` |
| `Writer`, `FixedSizeWriteFromBuf`, `SendFileAndUpdate`, `InvokeWriteDoneHandler`, `OnStreamWritten` | `WriteFails`, `WritePartial`, `WriteAll`, `WriteFile` with `WriteDone` |
| `Loop`, `Epoller::Wait` | `Wait` |
| the client | `Sends`, `Closes`, `Resets` |

What the model shows of a client that sends ahead of its responses: what was read behind a
complete request is dropped with it (`net/http/http_server.cc:183`), and if that was a half, its rest is
refused as a request line later on (`BeginningLost`; `net/http/http_parser.cc:47`); PutFile of a second request
overwrites the state of the file that is being sent (`net/reactor_conn.cc:25`); a refused request
empties the write buffer with the response before it (`net/http/http_parser.cc:215`). And of
any client: the head of a response is sent again with each further piece of its file
(`net/reactor.cc:304`), if a piece follows at all, since SendFileAndUpdate takes the offset off a
`target_size_` that is what is left already (`net/reactor.cc:247`), and no registration is renewed after a
partial write. `ResponsesIntact` and `WaitingIsServed` say what holds nevertheless.

### ServerStop

`table` is the descriptor table of the process; `epfd(l)` is the number of the epoll instance
of loop `l`, for ever: EventLoop keeps it after it is closed. New descriptors take the lowest free
number, so that a closed epoll number is taken soon, by a connection or by `OtherOpens`, the
rest of the program. `pc[l]` is the thread of a loop, `main` the thread that constructs,
runs and destroys the server, `stop` a call of Stop on its way through the loops.

| Code | Actions |
|---|---|
| `Run`, `React`, `Wait` | `Run`, `React`, `Wait` (one thread started or joined per step) |
| `EventLoop::Loop` | `Test`, `EpollWait`, `Event`, `Handle` (with `Accept` or `Close`) |
| `Reactor::Stop`, `EventLoop::Stop`, `Epoller::Stop` | `StopFromThread` or `StopFromHandler`, `CloseEpoll`, `SetStopped`, `StopReturns` |
| `~Reactor` with its members' destructors | `Destroy`, `CloseListener`, `StopLoops`, `ClearConns`, `CloseAgain` |

Stop closes an epoll descriptor and sets a flag; neither ends an `epoll_wait` without timeout
(`net/epoller.cc:81`). A loop that is blocked stays so until one of its connections has an event,
and Run with it, although `net/http/http_server.h:48` says "Stop the server."; `RunReturns` therefore
has the premise that no loop stays blocked. `ClosesOwn` names the second exception: `~Epoller`
(`net/epoller.cc:9`) and a second Stop close a number that may be somebody else's by then.

### Strings, Url, Cookie, Router and Routing

A string is a sequence of characters, and a pattern or URL for the router the sequence of
segments StrSplit makes of it. Siblings in the tree never have the same segment, so that a node is
its path. `tree` holds, for each node, the number of the call that created it: children are
searched in that order. `Register(pattern)` is one call, accepted or refused; what a refused
call has created before it is refused stays (`Passed`). `Found` is SearchHandler. The reference
definition of the pattern language is `Matches`, written without the tree.

"//", which has no segment either, is not in the model: InsertRoute refuses it
(`net/http/http_router.cc:166`).

`Routing` has one request object, used again and again: `SetURL` (ParseRequestLine),
`ParseCookies` (ParseRequestHeader), `ParseForm` (DoRequest) and `Reset`, which may come
before the request is complete. Clients write URLs, cookies and forms from keys and values
(`Text`, `Encoded`, `Joined`, all by `Join`), with a blank behind the colon of the Cookie line that
StrTrimLeft takes away; `RequestIsRead` says that the handler reads the same ones.

What the models show besides: wildcards with prefixes that overlap ("a{x}", "ab{y}", "a{y}") are
accepted side by side, because the refusal in `net/http/http_router.cc:271` is never reached, and
the older hides the younger one (`Hidden`); StringWithQuery returns the query too when no
parameter has a "=" (`net/http/url.cc:121` against `net/http/url.h:98`), so that such a
request is not routed; HasQuery (`net/http/url.h:116`) says the opposite of its name; letters behind
"f" are percent-encoded; ParseString ignores that UnEscape failed and keeps what it
has decoded so far. `StrTrimLeft` reads behind a string of blanks (`base/str_utils.cc:59`); strings of blanks only are not
in the instances.

### CircularQueue and InstancePool

The five members of a queue are a record; `Zero` is zeroed memory. All overloads of Push and
Emplace have the same effect on them. `InstancePool` uses the same operators for `que_`; the deleter is split where it takes `mtx_`
and between the Push and the memset. The free queue after the constructor or after the pool has grown
is given by what the pushes leave in it (`Filled`), so that proofs need no recursion; `MCInstancePool` lets
TLC compare that with pushing one slot after the other.

## Runs

| Run | Instance | Shows |
|---|---|---|
| `reactor_http` | 2 connections, 2 descriptors, loops 0..2, HTTP | `OwnFd`, `RefCounted`, `HandledConnIsWhole`, `CloseDestroys`, `WriterHasReply`, `ReplyArms` and the inductive invariant `Inv` |
| `reactor_single` | 2 connections, 2 descriptors, 1 loop, TCP, fair | `WatchedIsRegistered`, `ClosedIsClosed`, `HandlerHasSession`, `FinCloses` |
| `file_cache` | 2 connections, 2 files, 3 descriptors, fair | `CacheMatchesTable`, `RecentIsSentRight`, `CacheInv`, `IdleIsClosed` |
| `buffer` | 2 bytes, strings up to 2, array up to 6, lengths 0..2 | `RoomEnsured`, and `Buffer` implements `ByteStream` |
| `http_conn` | 85 scripts of one or two requests, conflicting header lines among them, all fragmentations, fair | `ResponseIsOwn`, `CompleteIsAnswered`, and `HttpConn` implements `HttpSession` |
| `conn_io` | 55 scripts of two to four requests and pieces, and one of three bytes for the echo server; `Cap` 2, `FileSize` 4, fair | `EchoIntact`, `ResponsesIntact`, `WaitingIsServed` |
| `server_stop` | 2 loops, 2 connections, 5 descriptors, 2 calls of Stop, fair | `NothingLeaks`, `ClosesOwn`, `RunReturns` |
| `router` | 12 patterns, 3 registrations, 10 URLs, 4 requests | `FoundMatches`, `FoundUnlessHidden`, `FoundStays`, `RequestIsRead` |
| `circular_queue` | 2 queues, 2 items, capacities 0..3 | `WindowHoldsItems`, and `CircularQueue` implements `BoundedFifo` |
| `instance_pool` | 3 threads, 1 to 4 slots | `SlotsAccounted`, `GiveBackHasRoom`, `ObjectsIntact` |

Runs that find the program to contradict what its sources say of it:

| Run | Contradiction |
|---|---|
| `reactor_unclosed` | a connection closed before Acceptor inserts it is inserted afterwards and stays (`net/reactor.cc:169`) |
| `reactor_epollin` | one-shot registrations that nobody renews (`net/reactor.cc:236`) |

Further disagreements are visible in the models without a run of their own, besides those
named in the sections above: the destructor's EPOLL_CTL_DEL, after its close, removes the registration of a
connection that was accepted in between and got the same number (`net/reactor_conn.cc:18`; check
`WatchedIsRegistered` with two loops); the cleaner closes a descriptor that a response
still uses (`net/http/http_server.cc:378`; `RecentIsSentRight` holds for 60 seconds only); error paths
close a connection without the close handler (`ReadError`, `WriteFails`; `net/reactor.cc:220` against
`net/reactor.h:113`), so that `TCPServer` keeps its session; the cleaner may end before the server starts
(`Test` before `Start`; `net/http/http_server.cc:105`); `MoveReadableToHead` uses memcpy on areas
that may overlap (`buffer/buffer.cc:86`; set `CopyOrder = "backward"` in `buffer.cfg` and
`StreamSpec` fails); assigning a shorter queue leaves items outside the window that are
never destructed (`pool/circular_queue.hpp:152`).

Why the bounds are enough. Two connections over two descriptors let a descriptor be reused
while its former owner is half destroyed; two workers and the acceptor cover every pair of
threads that can meet at a connection (its own loop and loop 0) and one that is unrelated. A buffer of
six bytes can move with and without overlap, and reallocate from every alignment. Queues
of capacity 3 wrap in every position, and capacities 0 to 3 make assignment keep and
replace the array. A pool from one to four slots grows twice. `MaxCapacity`, `MaxLimit` and `MaxSlots`
bound what is unbounded in the code.

Two requests on a connection are enough for everything that one leaves behind for the
next: state of the parser, request, response and buffers. There is a well-formed message for
each way through DoRequest, a malformed one for each way the parser has to fail or to
overlook it, and each message follows each well-formed one.

In `conn_io` every kind of request follows every other one, directly and behind a piece of a request,
so that one can be read with the next or after it; a file of four bytes is sent in up to three
pieces, which the twofold subtraction of the offset needs to wrap. In `server_stop` two loops are
enough for a handler of one to meet a Stop that has closed the other; five descriptors are two
epoll instances, the listener and two more, so that closed numbers are taken by connections and
by others; the second Stop is the first that finds a loop stopped. In `router` three registrations are an
older and a younger sibling of every pair of kinds (plain, "{x}", "a{x}", "ab{y}") and one below, including two patterns that
are refused half way, and URLs that several of them match.

Deadlock is checked except where the system really stops: in the reactor runs when all
connections are used up, in `http_conn` and `conn_io` when the client is done or the connection
closed, in `server_stop` when the server is gone or its loops wait for ever, and in `instance_pool` at the bound `MaxSlots`.

Fairness. `Reactor!Fairness` is weak fairness of each loop's thread: a thread that can go on
does. Nothing is assumed of clients. `CacheFairSpec` is weak fairness of the cleaner,
whose wait is bounded by a timer; `HttpConn!FairSpec` of the thread inside the parser; `ConnIO!FairSpec` of the thread of the
loop, where a client that reads what is sent to it makes output possible again;
`ServerStop!FairSpec` of the threads of the loops, of a Stop that was called, and of the thread
in Run. Events are not assumed to come.

## Proofs

| Module | Theorems | Argument |
|---|---|---|
| `ReactorProofs` | `Invariance`, `TypeCorrect`, `DescriptorsOwned`, `ReferencesCounted`, `HandledConnsAreWhole`, `ClosingDestroys`, `WritersHaveReply`, `RepliesArmed`, `TcpHandlersHaveSession`, `SingleLoop`, `SingleLoopCloses` | `Inv` is inductive, one lemma per action; `RepliesArmed` is an action property that follows from it; `WritersHaveReply` adds `ReplyInv`, `TcpHandlersHaveSession` adds `TcpInv`, `SingleLoop` and `SingleLoopCloses` add `SingleInv` when there is one loop |
| `HttpServerProofs` | `Invariance`, `TypeCorrect`, `OwnResponses`, `Refinement` | `Inv`: the read buffer is a piece of the message whose turn it is; lemmas on streams, on the lines at the beginning of a piece and on what `Routed` can return, one lemma per action; every step maps to a step of `HttpSession` or a stutter |
| | `CacheInvariance`, `CacheCorrect`, `RecentRight` | `CacheInv`: who asked in the last 60 seconds has the descriptor of an entry that is not old |
| `CircularQueueProofs` | `WellFormed`, `WindowsHoldItems`, `Refinement` | lemmas on each operation in terms of offsets from `front`; every step maps to the step of the same name of `BoundedFifo` |
| `InstancePoolProofs` | `Invariance`, `EverySlotAccounted`, `RoomToGiveBack`, `ObjectsStayIntact` | `PoolInv`; what operations do to the queue is cited from `CircularQueueProofs`, instantiated with slots |
| `BufferProofs` | `TypeCorrect`, `RoomIsEnsured`, `Refinement` | `GoodBuffer` is inductive; lemmas on each operation in terms of the readable bytes; every step maps to the step of the same name of `ByteStream` |
| `ConnIOProofs` | `EchoLosesNothing` | `EchoInv`: what the client of an echo server has sent is in five places, in order; lemmas on cutting and regrouping sequences, one lemma per action |
| | `TypeCorrect` | `TypeInv` |
| | `ResponsesArriveIntact` | `PlainInv` for a client without files until it is refused, `WaitInv` for one that waits, both on top of `TypeInv` and `HttpTypes` |
| `RouterProofs` | `TypeCorrect`, `HandlersMatch`, `PatternsFound`, `FoundKept` | `TreeInv`; lemmas on strings, on what a segment takes, and that a search ends at one node at most; the action property `FoundStays` from them |
| | `RequestsRead` | `ReadInv`: what has been read is what its client meant, the rest of the object is empty; lemmas on escaping, on StrSplit of what was joined, on the folds over its parts, and on the place of each cookie in the field |
| `ServerStopProofs` | `Invariance`, `NoLeaks`, `OwnersClose` | `IInv`, one lemma per action; the action property `ClosesOwn` from `IInv`, one lemma per group of actions |

Why `Reactor!Inv` has the parts it has: `HandledConnIsWhole` is not inductive, because it says
nothing of a connection with an undelivered event. `EventInv` adds that events exist for live
connections only, which needs `SettledInv` and `ThreadInv` (one thread handles a
connection), `AcceptInv` (nothing can happen before AttachConn, and Acceptor
finds its connection missing only if an event was early), and `SessionInv` (who erases a
session goes on to close). `FdInv` relates `owner` and `fd` both ways; without the second
half a destructor could take a descriptor from its new owner.

Why `ServerStop`'s `IInv` has the parts it has: `NothingLeaks` speaks of the end only. `TableInv`
says who can have which number, and that the number of a loop is its epoll instance exactly
until a Stop or the destructor has visited it (`Visited`); `ConnInv` that a connection
in `conns_` has its descriptor, unless a second Stop has closed it; `StopInv` that the first Stop
finds no loop stopped, which is why only a second one closes what is not its own; `MainInv` relates the
threads to what the destructor has done, so that no handler runs, and no Stop, while it does.

Why `TreeInv` has the parts it has: `FoundUnlessHidden` needs to know what Insert has refused,
long ago, of every pair of siblings. `TreeInv` says that of two siblings the older one
does not `Conflict` with the younger. It holds because a node is made only
behind siblings that allow it (`NewNode`), also by a registration that is refused further down. Two
siblings that both take a segment then overlap (`SiblingsApart`), so a node that is not hidden
is the first that takes it. Numbers are unique among nodes of one length, so that
"the first child" is one, and a search ends at one node (`FoundOnce`). A later registration has a
greater number: its nodes are behind all others and change no search that ended (`RegisterKeepsFound`).

Why `ConnIO` needs three invariants for `ResponsesIntact`: with a client that waits, the connection is in one of
three states. `Idle`: all is answered and sent, and only the last token that has arrived can
complete a request. `Sending`: a response is in the write buffer, its file behind it, and nothing
is to be read. `Stalled`: the socket took a part of a file, and nothing is armed for the
rest, so that Writer, which would send the head again, is not called any more. `Counted` excludes
that the client sends while its response is due. With a client that sends ahead
none of that holds, but without files nothing is overwritten until a request is refused (`PlainInv`): the refusal
resets the write buffer, and a half that was dropped is enough for one.
`TypeInv` says of a file that its offset and what is left add up, although the
subtraction in SendFileAndUpdate wraps.

Why `HttpConn` needs an invariant about its stream: that a request is handled as it was sent, however it
was cut, says nothing of a request that is half read. `ReadTo(m, pos, off)` does: of message m, `off` tokens
have arrived, the parser has used up `pos` of them, `rbuf` is exactly what is between, and the state and the
request say what was before `pos`. `pos` is always at the beginning of a line or of the body, because
the parser takes whole lines (`ReadLine`, `ReadBlank`, `ReadBody`). A response leaves nothing in the read
buffer only because nothing of the next message has been sent: `Allowed` is the end of the message
whose turn it is (`CurrentIs`). `Refused` adds what is special after an error: the state stays "invalid", and
the rest of the message is refused again, with one response in the write buffer all the time. `IsOwn` holds of a response object
that was used before because every way through DoRequest sets the parts that count (`ResponsesOwn`).
The stream is a fold over the messages; FlattenSeq is related to the sequence of its partial sums
(`Sums`, unique by `FlattenIsSum`), which needs a least counterexample and no induction rule.

Why `RequestIsRead` needs an invariant, and what it rests on: that a handler reads its own request needs
that the object was empty when the request began, because `Set`, ParseString and the parsing of cookies all
add to what there is. `ReadInv` says what each field holds at each stage, and that Reset, at any of them,
leaves nothing. What remains is about the functions. `Join` is given by the prefix of each part (`JoinIs`), StrSplit by
the starts of its parts in order (`SortedIs`); two increasing enumerations of one set are equal, so `SplitJoin` only
has to say that parts start behind separators. For that no part may hold the separator: escaping sees to it (`EscapeIs`, `PairIs`), and
undoes itself, with "%" as any other character. `ParsePairs` and `Meaning` are folds over sequences of one length,
equal step by step (`StepsOf`, `PartsFolded`, `PairsFolded`). The places ParseCookieString goes on from are
those at which `Join` puts the cookies (`CookiesAtAre`, `CookieGoesOn`), and a value reaches to the first separator because it holds none itself.
A flag is not escaped, and is left out because it has no "=" (`QueryIs`). These are statements about every length; each is
a least counterexample over a recursive function that is shown to exist first (`JoinsExist`, `FoldsExist`, `CookiesAtExist`).

`PoolInv` gives every slot its place: the queue (without repetition), the argument of a
thread, an object in use, or lost to a constructor that threw; and it says that the thread which holds
`mtx_` wipes a slot that is in the queue. `RoomToGiveBack` follows by counting: a full queue would hold all slots,
and with them the one the deleter has.

The theorems assume only the ASSUMEs of the modules: one loop owns the acceptor, `None`
and `Zero` differ from everything else, sizes are numbers, scripts, patterns and URLs are sequences (without empty
segments: StrSplit makes none), there are more descriptors than loops, the messages of a client have the body
that the first Content-Length of their header announces (`PlansAssumption`; their lines may be wrong, or conflict), and the parameters of a request are any text, its flag
is without "&" and "=", its cookies have names, without "=", and values without "; ", as these are not escaped, and the first
name does not begin with a blank, as StrTrimLeft would take it (`RequestsAssumption`). Four state a premise of
their own: `SingleLoop` and `SingleLoopCloses` that there is one loop (`reactor_unclosed` shows why),
`TcpHandlersHaveSession` that the handlers are those of `TCPServer`, and
`BufferProofs!Refinement` that memcpy copies forward.

Left to TLC: liveness under fairness. Every invariant and every action property that a passing run checks is
proved. Where these say what a recursive definition computes, there is no rule of induction to cite; it is
proved for the one definition, by a least counterexample (`LeastMember`).

## Not modelled

See the components in `PROJECT.json`. In short:

- tables, formatting, socket options, mime types, time and addresses have no behaviour of
  interest to a model; `base/mutexes` is used by nothing, like `ReadToBuffer`, `AddFd`, `DelFd`,
  `ModifyFd`, `FindParamBracket` and `FindWildcard`;
- the syntax inside a line of a request, attributes of cookies, ToFile and the conversion of
  digits in a Buffer: sequential text processing that concerns one call only;
- the cleaner of an HTTP server that outlives it (`net/http/http_server.cc:29` detaches the
  thread): after that it works on freed memory, and a model has nothing to say of it;
- a pool that is destroyed while its objects are in use: likewise;
- examples, and the vendored JSON library (`thirdparty/nlohmann/json.hpp`, three quarters
  of the repository's lines), of which the library uses the writing of a response's body only.

## Plan

1. Core (done): `Reactor` with proofs.
2. Pool (done): `CircularQueueOps`, `CircularQueue`, `BoundedFifo` with proofs, `InstancePool`.
3. File cache (done) with proofs; `Buffer` and `ByteStream` (done).
4. `HttpConn` and `HttpSession` (done).
5. `ConnIO` (done) with a proof.
6. `ServerStop` (done) with proofs.
7. `Strings`, `Url`, `Cookie`, `Router` and `Routing` (done).
8. Proofs (done) that `Buffer` stays in its array and implements `ByteStream`, that
   `InstancePool` accounts for its slots, that responses stay apart (`ResponsesIntact`),
   what the router finds, and that registrations never change it.
9. Proofs (done) that `HttpConn` implements `HttpSession`, and that there is never more than one
   response in the write buffer and it is its request's own.
