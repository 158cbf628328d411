----------------------------- MODULE MCHttpConn -----------------------------
(***************************************************************************)
(* HttpConn for TLC: a client that sends one well-formed message and then  *)
(* one that may be malformed in any of the ways the parser knows.          *)
(***************************************************************************)
EXTENDS HttpConn

Message(line, headers, body) == [line |-> line, headers |-> headers, body |-> body]

Good == {Message("get", <<"keep">>, <<>>),
         Message("get", <<"len2">>, <<"byte", "byte">>),
         Message("post", <<"form", "len2", "keep">>, <<"byte", "byte">>),
         Message("post", <<"keep">>, <<>>),
         Message("post", <<"multi", "keep", "form">>, <<>>),
         Message("post", <<"form", "multi">>, <<>>)}

Odd == {Message("bad", <<"keep">>, <<>>),
        Message("get", <<"text", "keep">>, <<>>),
        Message("get", <<"keep", "text">>, <<>>),
        Message("post", <<"form", "keep", "len2", "text">>, <<"byte", "byte">>),
        Message("get", <<"lenx">>, <<>>),
        Message("get", <<"lenx", "keep", "len2">>, <<>>),
        Message("get", <<"len2", "lenx">>, <<"byte", "byte">>)}

MCPlans == {<<m>> : m \in Odd} \cup {<<m, n>> : m \in Good, n \in Good \cup Odd}
=============================================================================
