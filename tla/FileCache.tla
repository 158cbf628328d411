----------------------------- MODULE FileCache -----------------------------
(***************************************************************************)
(* HTTPServer's cache of opened files (net/http/http_server.{h,cc}): loop  *)
(* threads open files through OpenFile and send from the descriptor they   *)
(* get; the cleaner thread closes descriptors that were not asked for in   *)
(* the last 60 seconds.  OpenFile and the cleaner's sweep hold mtx_; what  *)
(* happens between OpenFile and the end of the sending does not.           *)
(*                                                                         *)
(* Descriptor numbers are those of the process: the kernel gives a closed  *)
(* one to the next open or accept.                                         *)
(*                                                                         *)
(* Names that all specifications have (Init, Next, ...) begin with Cache   *)
(* here: HttpServerProofs extends this module together with HttpConn.      *)
(***************************************************************************)
EXTENDS Naturals, FiniteSets

CONSTANTS
  Conns,   \* the connections that ask for files
  Files,   \* the files they ask for
  Fds,     \* the descriptors of the process
  Socket,  \* what a descriptor is open for when it is not a file
  Nothing

ASSUME SocketAssumption  == Socket \notin Files
ASSUME NothingAssumption == Nothing \notin Files \cup Fds \cup {Socket}

VARIABLES
  table,    \* table[d]: what descriptor d is open for, or Nothing
  mapping,  \* file_mappings_: the descriptor cached for each file, or Nothing
  old,      \* the cached files whose last use is 60 seconds ago
  stage,    \* stage[c]: how far the response of connection c is
  asked,    \* asked[c]: the file c has asked for
  handle,   \* handle[c]: the descriptor OpenFile returned, file_state_.fd_ready_
  late,     \* history: connections whose OpenFile is 60 seconds ago
  server,   \* the HTTPServer: "constructed" (up to the end of its constructor), "running" or
            \* "stopped"
  cleaner   \* the cleaner thread: at the test of stopped_, waiting, or ended

connVars == <<stage, asked, handle>>
cacheVars == <<table, mapping, old, connVars, late, server, cleaner>>

CacheTypeOK ==
  /\ table \in [Fds -> Files \cup {Socket, Nothing}]
  /\ mapping \in [Files -> Fds \cup {Nothing}]
  /\ old \in SUBSET Files
  /\ stage \in [Conns -> {"idle", "opened", "attached"}]
  /\ asked \in [Conns -> Files \cup {Nothing}]
  /\ handle \in [Conns -> Fds \cup {Nothing}]
  /\ late \in SUBSET Conns
  /\ server \in {"constructed", "running", "stopped"}
  /\ cleaner \in {"testing", "waiting", "ended"}

\* InitCleanup has started the cleaner; InitHTTPServer has not set stopped_ to false yet
CacheInit ==
  /\ table = [d \in Fds |-> Nothing]
  /\ mapping = [f \in Files |-> Nothing]
  /\ old = {}
  /\ stage = [c \in Conns |-> "idle"]
  /\ asked = [c \in Conns |-> Nothing]
  /\ handle = [c \in Conns |-> Nothing]
  /\ late = {}
  /\ server = "constructed"
  /\ cleaner = "testing"

\* stopped_: true from the start, false while the server runs
stopped == server # "running"

\* The end of InitHTTPServer
Start == /\ server = "constructed"
         /\ server' = "running"
         /\ UNCHANGED <<table, mapping, old, connVars, late, cleaner>>

Stop == /\ server = "running"
        /\ server' = "stopped"
        /\ UNCHANGED <<table, mapping, old, connVars, late, cleaner>>

-----------------------------------------------------------------------------
(***************************************************************************)
(* A response that is a file.                                              *)
(***************************************************************************)

\* OpenFile asks for nothing: requests come once the constructor has returned and Run is
\* called, and a loop that Stop has not reached yet goes on with those it has
Serving == server # "constructed"

Got(c, f, d) == /\ stage' = [stage EXCEPT ![c] = "opened"]
                /\ asked' = [asked EXCEPT ![c] = f]
                /\ handle' = [handle EXCEPT ![c] = d]
                /\ late' = late \ {c}

\* OpenFile of a file in the cache that does not note the use
OpenCachedUnnoted(c, f) ==
  /\ Serving /\ stage[c] = "idle"
  /\ mapping[f] # Nothing
  /\ Got(c, f, mapping[f])
  /\ UNCHANGED <<table, mapping, old, server, cleaner>>

\* OpenFile of a file in the cache: last is now
OpenCached(c, f) ==
  /\ Serving /\ stage[c] = "idle"
  /\ mapping[f] # Nothing
  /\ old' = old \ {f}
  /\ Got(c, f, mapping[f])
  /\ UNCHANGED <<table, mapping, server, cleaner>>

\* An OpenFile that never looks into the cache
OpenAgain(c, f) ==
  /\ Serving /\ stage[c] = "idle"
  /\ \E d \in Fds : /\ table[d] = Nothing
                    /\ table' = [table EXCEPT ![d] = f]
                    /\ mapping' = [mapping EXCEPT ![f] = d]
                    /\ Got(c, f, d)
  /\ UNCHANGED <<old, server, cleaner>>

\* An OpenFile that caches the -1 of an open that failed
OpenUnchecked(c, f) ==
  /\ Serving /\ stage[c] = "idle"
  /\ mapping[f] = Nothing
  /\ \E d \in Fds \cup {Socket} :
       /\ d = Socket \/ table[d] = Nothing
       /\ table' = IF d = Socket THEN table ELSE [table EXCEPT ![d] = f]
       /\ mapping' = [mapping EXCEPT ![f] = d]
       /\ Got(c, f, d)
  /\ UNCHANGED <<old, server, cleaner>>

\* OpenFile of another file.  (An open that fails changes nothing: the request is
\* answered with an error page.)
OpenNew(c, f) ==
  /\ Serving /\ stage[c] = "idle"
  /\ mapping[f] = Nothing
  /\ \E d \in Fds : /\ table[d] = Nothing
                    /\ table' = [table EXCEPT ![d] = f]
                    /\ mapping' = [mapping EXCEPT ![f] = d]
                    /\ Got(c, f, d)
  /\ UNCHANGED <<old, server, cleaner>>

\* ReactorConn::PutFile: fstat of a descriptor that is not open fails (the client gets
\* 404); otherwise the size goes into the Content-Length of the response
PutFile(c) ==
  /\ stage[c] = "opened"
  /\ stage' = [stage EXCEPT ![c] = IF table[handle[c]] = Nothing THEN "idle" ELSE "attached"]
  /\ UNCHANGED <<table, mapping, old, asked, handle, late, server, cleaner>>

\* The last SendFile of the response.  (Earlier ones change nothing here.)
SendFile(c) ==
  /\ stage[c] = "attached"
  /\ stage' = [stage EXCEPT ![c] = "idle"]
  /\ UNCHANGED <<table, mapping, old, asked, handle, late, server, cleaner>>

\* The client goes, before or during the sending
Disconnect(c) ==
  /\ stage[c] # "idle"
  /\ stage' = [stage EXCEPT ![c] = "idle"]
  /\ UNCHANGED <<table, mapping, old, asked, handle, late, server, cleaner>>

-----------------------------------------------------------------------------
(***************************************************************************)
(* The cleaner.                                                            *)
(***************************************************************************)

\* while (!stopped_)
Test == /\ cleaner = "testing"
        /\ cleaner' = IF stopped THEN "ended" ELSE "waiting"
        /\ UNCHANGED <<table, mapping, old, connVars, late, server>>

\* A wait that only ends when the server is stopped
SweepAtStop ==
  /\ cleaner = "waiting" /\ stopped
  /\ mapping' = [f \in Files |-> IF f \in old THEN Nothing ELSE mapping[f]]
  /\ table' = [d \in Fds |-> IF \E f \in old : mapping[f] = d THEN Nothing ELSE table[d]]
  /\ old' = {}
  /\ cleaner' = "testing"
  /\ UNCHANGED <<connVars, late, server>>

\* A sweep that forgets the file but leaves its descriptor open
SweepUnclosed ==
  /\ cleaner = "waiting"
  /\ mapping' = [f \in Files |-> IF f \in old THEN Nothing ELSE mapping[f]]
  /\ old' = {}
  /\ cleaner' = "testing"
  /\ UNCHANGED <<table, connVars, late, server>>

\* The 10 seconds are over.  Every entry that NeedClose is erased; its destructor closes
\* the descriptor.
Sweep ==
  /\ cleaner = "waiting"
  /\ mapping' = [f \in Files |-> IF f \in old THEN Nothing ELSE mapping[f]]
  /\ table' = [d \in Fds |-> IF \E f \in old : mapping[f] = d THEN Nothing ELSE table[d]]
  /\ old' = {}
  /\ cleaner' = "testing"
  /\ UNCHANGED <<connVars, late, server>>

-----------------------------------------------------------------------------
(***************************************************************************)
(* Time and the rest of the process (external).                            *)
(***************************************************************************)

\* 60 seconds without a use of f
Idle60(f) ==
  /\ mapping[f] # Nothing
  /\ f \notin old
  /\ old' = old \cup {f}
  /\ late' = late \cup {c \in Conns : asked[c] = f}
  /\ UNCHANGED <<table, mapping, connVars, server, cleaner>>

AcceptSocket(d) ==
  /\ table[d] = Nothing
  /\ table' = [table EXCEPT ![d] = Socket]
  /\ UNCHANGED <<mapping, old, connVars, late, server, cleaner>>

CloseSocket(d) ==
  /\ table[d] = Socket
  /\ table' = [table EXCEPT ![d] = Nothing]
  /\ UNCHANGED <<mapping, old, connVars, late, server, cleaner>>

RespondFile(c) == \/ \E f \in Files : OpenCached(c, f) \/ OpenNew(c, f)
                  \/ PutFile(c) \/ SendFile(c) \/ Disconnect(c)

Cleanup == Test \/ Sweep

CacheNext == \/ Start \/ Stop \/ Cleanup
             \/ \E c \in Conns : RespondFile(c)
             \/ \E f \in Files : Idle60(f)
             \/ \E d \in Fds : AcceptSocket(d) \/ CloseSocket(d)

CacheSpec == CacheInit /\ [][CacheNext]_cacheVars

\* The cleaner's wait is bounded by a timer of 10 seconds
CacheFairSpec == CacheSpec /\ WF_cacheVars(Cleanup)

-----------------------------------------------------------------------------
(***************************************************************************)
(* Properties.                                                             *)
(***************************************************************************)

\* The cache and the descriptors that are open for files correspond: a file has one
\* descriptor at most, none is open that the cache has forgotten, and the cache offers
\* none that was closed or means something else, however loops and cleaner interleave
\* (http_server.cc:349 and 377).
CacheMatchesTable ==
  /\ \A f \in Files : mapping[f] # Nothing => table[mapping[f]] = f
  /\ \A d \in Fds : table[d] \in Files => mapping[table[d]] = d

\* A response that is attached and sent within 60 seconds of its OpenFile is sent from the
\* file that was asked for: uses by other connections never shorten that time.
RecentIsSentRight ==
  \A c \in Conns \ late : stage[c] # "idle" => table[handle[c]] = asked[c]

\* The cleaner, as long as there is one, closes a file that stays unused
IdleIsClosed ==
  \A f \in Files : (f \in old /\ cleaner # "ended") ~> (f \notin old \/ stopped)

\* The inductive invariant behind CacheMatchesTable and RecentIsSentRight: whoever asked
\* for a file less than 60 seconds ago has the descriptor of an entry that is not old.
CacheInv == /\ CacheTypeOK
            /\ CacheMatchesTable
            /\ \A f \in old : mapping[f] # Nothing
            /\ \A c \in Conns : stage[c] # "idle" => asked[c] \in Files /\ handle[c] \in Fds
            /\ \A c \in Conns \ late : stage[c] # "idle" =>
                 asked[c] \notin old /\ mapping[asked[c]] = handle[c]
=============================================================================
