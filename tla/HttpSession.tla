----------------------------- MODULE HttpSession -----------------------------
(***************************************************************************)
(* What an HTTP connection promises a client that waits for each response  *)
(* before it sends the next request: requests are handled in order, once,  *)
(* and as they were sent, whatever the pieces in which they arrive; each   *)
(* is answered before the next is handled; and the connection stays open   *)
(* exactly if the last request asked for that.                             *)
(*                                                                         *)
(* A malformed request is refused, and the connection closed, or handled   *)
(* without its last line, if that alone is no header field.                *)
(***************************************************************************)
EXTENDS Naturals, Sequences, Functions

CONSTANT Plans  \* the sequences of messages that a client may send

(***************************************************************************)
(* A message has a request line, header lines and a body.  Header lines    *)
(* are "keep" (Connection: keep-alive), "form" and "multi" (Content-Type), *)
(* "len2" (Content-Length: 2), "lenx" (a Content-Length that is no number) *)
(* and "text" (a line without a colon).  Of several for one field the first counts.    *)
(***************************************************************************)
Fields(m) == Range(m.headers)

WellFormed(m) == /\ m.line \in {"get", "post"}
                 /\ Fields(m) \cap {"text", "lenx"} = {}
                 /\ Len(m.body) = IF "len2" \in Fields(m) THEN 2 ELSE 0

\* A last line that is no header field is left out
HeadersOf(m) == IF m.headers # <<>> /\ m.headers[Len(m.headers)] = "text"
                THEN SubSeq(m.headers, 1, Len(m.headers) - 1)
                ELSE m.headers

\* What a handler gets to see of m
RequestOf(m) == [method |-> m.line, headers |-> HeadersOf(m), body |-> m.body]

VARIABLES
  plan,      \* what the client sends
  handled,   \* the requests that have been handled
  refused,   \* the last request was refused
  answered,  \* the number of responses the client has received
  closed

vars == <<plan, handled, refused, answered, closed>>

Init == /\ plan \in Plans
        /\ handled = <<>>
        /\ refused = FALSE
        /\ answered = 0
        /\ closed = FALSE

\* The next message has its turn when the one before is answered
Turn == ~closed /\ ~refused /\ Len(handled) = answered /\ answered < Len(plan)

Handle == /\ Turn
          /\ "text" \notin Range(HeadersOf(plan[answered + 1]))
          /\ handled' = Append(handled, RequestOf(plan[answered + 1]))
          /\ UNCHANGED <<plan, refused, answered, closed>>

Refuse == /\ Turn
          /\ ~WellFormed(plan[answered + 1])
          /\ refused' = TRUE
          /\ UNCHANGED <<plan, handled, answered, closed>>

Deliver == /\ ~closed
           /\ refused \/ Len(handled) = answered + 1
           /\ answered' = answered + 1
           /\ closed' = (refused \/ "keep" \notin Fields(handled[Len(handled)]))
           /\ UNCHANGED <<plan, handled, refused>>

Next == Handle \/ Refuse \/ Deliver

Spec == Init /\ [][Next]_vars
=============================================================================
