------------------------------ MODULE HttpConn ------------------------------
(***************************************************************************)
(* One HTTP connection: net/http/http_parser.cc, http_conn.h, the request  *)
(* and response objects it reuses (http_request.cc, http_response.cc), and *)
(* HTTPServer's OnStreamReached, DoRequest, DoRequestError and             *)
(* OnStreamWritten (http_server.cc).  The reactor appends what it read to  *)
(* the read buffer and calls OnStreamReached; when the write buffer has    *)
(* been sent it calls OnStreamWritten.                                     *)
(*                                                                         *)
(* The stream is a sequence of tokens: "cr", "lf" and "byte" are one byte, *)
(* all others are what else a line is made of: "get", "post" and "bad" are *)
(* request lines (a bad one has not three parts, an unknown method or an   *)
(* unknown version), the others are header lines (HttpSession).  The read  *)
(* buffer is the stream that Buffer implements.                            *)
(*                                                                         *)
(* Only one thread at a time works on a connection.  An iteration of the   *)
(* parser's loop is a step.  The client waits for each response before it  *)
(* sends the next request: requests that are sent ahead are lost, because  *)
(* HTTPRequest::Reset empties the read buffer (http_server.cc:182 has a    *)
(* TODO for that).                                                         *)
(***************************************************************************)
EXTENDS Naturals, SequencesExt

CONSTANTS
  Plans,  \* the sequences of messages that the client may send
  None

VARIABLES
  plan,      \* the messages the client sends
  sent,      \* how many tokens of them the reactor has read
  rbuf,      \* read_buf_
  pc,        \* "idle", or "parse" inside ParseRequestDatagram
  state,     \* current_parsing_state_
  req,       \* current_request_ (its body_ is the read buffer)
  res,       \* current_response_; body is user_buf_
  wbuf,      \* write_buf_: the responses in it
  closed,    \* OnStreamWritten asked the reactor to close the connection
  handled,   \* history: the requests DoRequest was called for
  refused,   \* history: ParseRequestDatagram failed
  answered   \* history: how many responses have been sent

parserVars == <<rbuf, pc, state, req>>
history    == <<handled, refused, answered>>
vars == <<plan, sent, parserVars, res, wbuf, closed, history>>

-----------------------------------------------------------------------------
(***************************************************************************)
(* The client's stream.                                                    *)
(***************************************************************************)

CRLF        == <<"cr", "lf">>
Methods     == {"get", "post"}
HeaderLines == {"keep", "form", "multi", "len2", "lenx"}

\* HTTPHeader::Get: the first line of a field counts.  Here it is h, and not the other.
FirstIs(headers, h, other) ==
  \E i \in DOMAIN headers : headers[i] = h /\ \A j \in 1..i : headers[j] # other

\* What the client may send: its lines may be wrong, but the body is as long as the first
\* Content-Length says
Messages ==
  {m \in [line : Methods \cup {"bad"}, headers : Seq(HeaderLines \cup {"text"}),
          body : Seq({"byte"})] :
     Len(m.body) = IF FirstIs(m.headers, "len2", "lenx") THEN 2 ELSE 0}

ASSUME PlansAssumption == Plans \subseteq Seq(Messages)

Encode(m) ==
  <<m.line>> \o CRLF \o FlattenSeq([i \in DOMAIN m.headers |-> <<m.headers[i]>> \o CRLF])
  \o CRLF \o m.body

Stream(messages) == FlattenSeq([i \in DOMAIN messages |-> Encode(messages[i])])

\* The client sends one message more than it has got responses
Allowed == Len(Stream(SubSeq(plan, 1, IF answered < Len(plan) THEN answered + 1
                                                              ELSE Len(plan))))

-----------------------------------------------------------------------------
(***************************************************************************)
(* Lines in the read buffer (ParseSingleLine, and what Buffer does for it).*)
(***************************************************************************)

LineEnds(b)   == {i \in 1..(Len(b) - 1) : b[i] = "cr" /\ b[i + 1] = "lf"}
HasLine(b)    == LineEnds(b) # {}
LineLength(b) == Min(LineEnds(b)) - 1
FirstLine(b)  == SubSeq(b, 1, LineLength(b))
AfterLine(b)  == SubSeq(b, LineLength(b) + 3, Len(b))

TrimLeft(b) == SubSeq(b, Min({i \in DOMAIN b : b[i] \notin {"cr", "lf"}} \cup {Len(b) + 1}),
                      Len(b))

\* Size() >= 2
HasTwoBytes(b) == Len(b) >= 2 \/ (Len(b) = 1 /\ b[1] \notin {"cr", "lf", "byte"})

-----------------------------------------------------------------------------
(***************************************************************************)
(* Requests and responses.                                                 *)
(***************************************************************************)

ClosingCodes == {400, 500}      \* IdentifyStatusCodeNeedCloseConnection
PageCodes    == {400, 404, 500} \* err_handlers_

\* HTTPRequest::Reset, apart from the read buffer
NewRequest == [method |-> "get", headers |-> <<>>]

\* HTTPResponse::Reset: neither user_buf_ nor cookies_
ResetResponse(r) == [r EXCEPT !.status = 400, !.connection = <<>>]

Has(h) == Contains(req.headers, h)

\* DoRequestError: the code, and a Connection field behind those there are
ErrorResponse(r, code) ==
  [r EXCEPT !.status = code,
            !.connection = IF code \in ClosingCodes THEN Append(@, "close") ELSE @]

\* CentrailzedStatusCodeHandling with the default handlers: an error page in the body
WithErrorPage(r, n) == IF r.status \in PageCodes THEN [r EXCEPT !.body = n] ELSE r

\* DoRouting and what follows: a handler that makes a page, one that only sets a status
\* (a redirection, say), one that does nothing, one that throws, no handler, a file, a
\* file that is not there, one that cannot be opened; n is the number of the request
Routed(r, n) ==
  {[r EXCEPT !.status = 200, !.body = n, !.kind = "page"],
   [r EXCEPT !.status = 302, !.kind = "status"],
   [r EXCEPT !.kind = "silent"],
   [r EXCEPT !.status = 500, !.kind = "throws"],
   [r EXCEPT !.status = 404, !.kind = "nohandler"],
   [r EXCEPT !.status = 200, !.body = None, !.kind = "file"],
   [ErrorResponse([r EXCEPT !.body = None], 404) EXCEPT !.kind = "nofile"],
   [ErrorResponse([r EXCEPT !.body = None], 500) EXCEPT !.kind = "noopen"]}

\* DoRequest: Connection first, then the form of a POST (ParseForm), then routing
Responses(n) ==
  LET r == [res EXCEPT !.connection = Append(@, IF Has("keep") THEN "keep" ELSE "close")]
  IN  CASE req.method = "get" \/ FirstIs(req.headers, "form", "multi") -> Routed(r, n)
        [] req.method = "post" /\ FirstIs(req.headers, "multi", "form") ->
             {[ErrorResponse(r, 501) EXCEPT !.kind = "multi"]}
        [] OTHER -> {[ErrorResponse(r, 500) EXCEPT !.kind = "noform"]}

\* The end of OnStreamReached: error page, Organize, Reset of the request
Respond(r) ==
  /\ res' = WithErrorPage(r, answered + 1)
  /\ wbuf' = Append(wbuf, res')
  /\ req' = NewRequest
  /\ rbuf' = <<>>
  /\ pc' = "idle"

TypeOK ==
  /\ plan \in Plans
  /\ sent \in 0..Len(Stream(plan))
  /\ pc \in {"idle", "parse"}
  /\ state \in {"line", "header", "emptyline", "body", "done", "invalid"}
  /\ req.method \in Methods
  /\ Range(req.headers) \subseteq HeaderLines
  /\ res.status \in PageCodes \cup {200, 302, 501}
  /\ res.body \in 1..Len(plan) \cup {None}
  /\ closed \in BOOLEAN /\ refused \in BOOLEAN
  /\ answered \in 0..Len(plan)

\* The HTTPConn constructor
Init ==
  /\ plan \in Plans
  /\ sent = 0
  /\ rbuf = <<>> /\ wbuf = <<>>
  /\ pc = "idle" /\ state = "line"
  /\ req = NewRequest
  /\ res = [status |-> 400, connection |-> <<>>, body |-> None, kind |-> None]
  /\ closed = FALSE
  /\ handled = <<>> /\ refused = FALSE /\ answered = 0

-----------------------------------------------------------------------------
(***************************************************************************)
(* ParseRequestDatagram.                                                   *)
(***************************************************************************)

\* A parser that has used up its input returns; the reactor will call again
Pending == pc' = "idle" /\ UNCHANGED <<state, req>>

\* ParseRequestLine without the tests of method and version
ParseLineUnchecked ==
  LET b == TrimLeft(rbuf) IN
  /\ pc = "parse" /\ state = "line"
  /\ IF ~HasLine(b)
     THEN Pending /\ rbuf' = b
     ELSE /\ rbuf' = AfterLine(b)
          /\ state' = "header"
          /\ req' = [req EXCEPT !.method = FirstLine(b)[1]]
          /\ UNCHANGED pc
  /\ UNCHANGED <<plan, sent, res, wbuf, closed, history>>

\* ParseRequestLine.  All failures end in the same state, and their codes are replaced
\* by 400 (http_parser.cc:219 and http_server.cc:172).
ParseRequestLine ==
  LET b == TrimLeft(rbuf) IN
  /\ pc = "parse" /\ state = "line"
  /\ IF ~HasLine(b)
     THEN Pending /\ rbuf' = b
     ELSE /\ rbuf' = AfterLine(b)
          /\ IF FirstLine(b) \in {<<m>> : m \in Methods}
             THEN state' = "header" /\ req' = [req EXCEPT !.method = FirstLine(b)[1]]
             ELSE /\ state' = "invalid"
                  /\ \E m \in Methods \cup {req.method} : req' = [req EXCEPT !.method = m]
          /\ UNCHANGED pc
  /\ UNCHANGED <<plan, sent, res, wbuf, closed, history>>

\* ParseRequestHeader, one line.  A line without a colon is dropped, and an empty line
\* expected next: the comparison in http_parser.cc:108 was meant to be an assignment.
ParseRequestHeader ==
  /\ pc = "parse" /\ state = "header"
  /\ IF ~HasLine(rbuf)
     THEN Pending /\ UNCHANGED rbuf
     ELSE /\ rbuf' = AfterLine(rbuf)
          /\ LET line == FirstLine(rbuf) IN
             \/ line = <<>> /\ state' = "body" /\ UNCHANGED req
             \/ /\ Range(line) \cap HeaderLines # {}
                /\ req' = [req EXCEPT !.headers = @ \o line]
                /\ UNCHANGED state
             \/ /\ line # <<>> /\ Range(line) \cap HeaderLines = {}
                /\ state' = "emptyline"
                /\ UNCHANGED req
          /\ UNCHANGED pc
  /\ UNCHANGED <<plan, sent, res, wbuf, closed, history>>

ParseRequestEmptyLine ==
  /\ pc = "parse" /\ state = "emptyline"
  /\ \/ ~HasTwoBytes(rbuf) /\ Pending /\ UNCHANGED rbuf
     \/ /\ HasTwoBytes(rbuf)
        /\ IF IsPrefix(CRLF, rbuf)
           THEN /\ rbuf' = SubSeq(rbuf, 3, Len(rbuf))
                /\ state' = IF Has("len2") \/ Has("lenx") THEN "body" ELSE "done"
           ELSE state' = "invalid" /\ UNCHANGED rbuf
        /\ UNCHANGED <<pc, req>>
  /\ UNCHANGED <<plan, sent, res, wbuf, closed, history>>

\* ParseRequestBody that does not wait for the body
ParseBodyUnchecked ==
  /\ pc = "parse" /\ state = "body"
  /\ state' = "done" /\ UNCHANGED <<rbuf, pc, req>>
  /\ UNCHANGED <<plan, sent, res, wbuf, closed, history>>

\* ParseRequestBody that wants more than Content-Length bytes
ParseBodyStrict ==
  /\ pc = "parse" /\ state = "body"
  /\ IF FirstIs(req.headers, "len2", "lenx") /\ Len(rbuf) <= 2
     THEN Pending /\ UNCHANGED rbuf
     ELSE state' = "done" /\ UNCHANGED <<rbuf, pc, req>>
  /\ UNCHANGED <<plan, sent, res, wbuf, closed, history>>

\* ParseRequestBody.  A length that is no number is an error, but the state is Done, and
\* the loop forgets the error.
ParseRequestBody ==
  /\ pc = "parse" /\ state = "body"
  /\ IF FirstIs(req.headers, "len2", "lenx") /\ ~HasTwoBytes(rbuf)
     THEN Pending /\ UNCHANGED rbuf
     ELSE state' = "done" /\ UNCHANGED <<rbuf, pc, req>>
  /\ UNCHANGED <<plan, sent, res, wbuf, closed, history>>

\* The case Invalid: both buffers are emptied, OnStreamReached answers 400.  The state
\* stays as it is.
ParseInvalid ==
  /\ pc = "parse" /\ state = "invalid"
  /\ LET r == ErrorResponse([res EXCEPT !.kind = "invalid"], 400)
     IN  /\ res' = WithErrorPage(r, answered + 1)
         /\ wbuf' = <<res'>>
  /\ req' = NewRequest /\ rbuf' = <<>> /\ pc' = "idle"
  /\ refused' = TRUE
  /\ UNCHANGED <<plan, sent, state, closed, handled, answered>>

\* The case Done: OnStreamReached handles the request and answers
ParseDone ==
  /\ pc = "parse" /\ state = "done"
  /\ state' = "line"
  /\ handled' = Append(handled, [method |-> req.method, headers |-> req.headers,
                                 body |-> rbuf])
  /\ \E r \in Responses(answered + 1) : Respond(r)
  /\ UNCHANGED <<plan, sent, closed, refused, answered>>

ParseRequestDatagram == \/ ParseRequestLine \/ ParseRequestHeader \/ ParseRequestEmptyLine
                        \/ ParseRequestBody \/ ParseInvalid \/ ParseDone

-----------------------------------------------------------------------------
(***************************************************************************)
(* The reactor.                                                            *)
(***************************************************************************)

\* Reader: some of what the client may have sent arrives, and OnStreamReached is called
Reader(n) ==
  /\ pc = "idle" /\ ~closed
  /\ sent + n <= Allowed
  /\ sent' = sent + n
  /\ rbuf' = rbuf \o SubSeq(Stream(plan), sent + 1, sent + n)
  /\ pc' = "parse"
  /\ UNCHANGED <<plan, state, req, res, wbuf, closed, history>>

\* An OnStreamWritten that keeps the response as it is
WrittenUnreset ==
  /\ pc = "idle" /\ ~closed
  /\ wbuf # <<>>
  /\ wbuf' = <<>>
  /\ answered' = answered + Len(wbuf)
  /\ closed' = (res.connection[1] # "keep")
  /\ UNCHANGED <<plan, sent, parserVars, res, handled, refused>>

\* The write buffer has been sent: OnStreamWritten
OnStreamWritten ==
  /\ pc = "idle" /\ ~closed
  /\ wbuf # <<>>
  /\ wbuf' = <<>>
  /\ answered' = answered + Len(wbuf)
  /\ IF res.connection[1] = "keep"
     THEN res' = ResetResponse(res) /\ req' = NewRequest /\ rbuf' = <<>> /\ UNCHANGED closed
     ELSE closed' = TRUE /\ UNCHANGED <<res, req, rbuf>>
  /\ UNCHANGED <<plan, sent, pc, state, handled, refused>>

Next == \/ \E n \in 1..Len(Stream(plan)) : Reader(n)
        \/ ParseRequestDatagram
        \/ OnStreamWritten

Spec == Init /\ [][Next]_vars

\* The thread that runs the parser goes on
FairSpec == Spec /\ WF_vars(ParseRequestDatagram)
-----------------------------------------------------------------------------
(***************************************************************************)
(* Properties.                                                             *)
(***************************************************************************)

\* Requests reach their handlers as they were sent, in order and once each, whatever the
\* pieces in which they arrive; the connection is kept exactly if that was asked for.
\* An error does not close it, although DoRequestError means to: it adds "close" behind
\* the "keep-alive" of DoRequest, and OnStreamWritten looks at the first.
Session == INSTANCE HttpSession
SessionSpec == Session!Spec

\* A response is made for its request, although the object served others before: only
\* where no body is written (a handler that does not, an error without a page) can an
\* older one be sent, because HTTPResponse::Reset leaves user_buf_ (http_response.cc:39).
\* There is only one to be sent, although a refused request can be refused again for what
\* arrives of it later (http_parser.cc:215).
ResponseIsOwn ==
  Len(wbuf) <= 1 /\ \A i \in DOMAIN wbuf :
    LET r == wbuf[i] IN
    /\ r.status = CASE r.kind \in {"page", "file"} -> 200
                    [] r.kind = "status" -> 302
                    [] r.kind \in {"silent", "invalid"} -> 400
                    [] r.kind \in {"nofile", "nohandler"} -> 404
                    [] r.kind = "multi" -> 501
                    [] OTHER -> 500
    /\ r.kind \notin {"status", "multi", "file"} => r.body = answered + 1
    /\ r.kind = "file" => r.body = None

\* The loop of ParseRequestDatagram ends, and a request that is there in full is
\* answered, whatever the piece was that came last.
CompleteIsAnswered ==
  \A k \in 1..2 :
    (k <= Len(plan) /\ sent = Len(Stream(SubSeq(plan, 1, k))))
      ~> (wbuf # <<>> \/ answered >= k \/ closed)
=============================================================================
