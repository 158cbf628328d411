------------------------------ MODULE MCConnIO ------------------------------
(***************************************************************************)
(* ConnIO for TLC: scripts that send every kind of request behind every    *)
(* other, whole and in pieces, and three bytes for the echo server.        *)
(***************************************************************************)
EXTENDS ConnIO

Kinds == {"page", "last", "file", "empty", "bad"}

Http(tokens) == [server |-> "http", tokens |-> tokens]

MCScripts ==
  {Http(<<a, b>>) : a, b \in Kinds} \cup {Http(<<a, "half", b>>) : a, b \in Kinds}
    \cup {Http(<<a, b, "page">>) : a, b \in {"page", "file"}}
    \cup {Http(<<"page", "half", "half", "page">>)}
    \cup {[server |-> "tcp", tokens |-> <<"x", "y", "z">>]}
=============================================================================
