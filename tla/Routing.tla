------------------------------ MODULE Routing ------------------------------
(***************************************************************************)
(* A request on its way to a handler: its URL is set by ParseRequestLine   *)
(* (http_parser.cc:65), its cookies by ParseRequestHeader, its form by     *)
(* HTTPServer::DoRequest; DoRouting takes the path to the router; and the  *)
(* request object is reset and used again for the next request of the      *)
(* connection, or when this one is refused before it is complete.          *)
(***************************************************************************)
EXTENDS Router, Url, Cookie

CONSTANTS
  Requests,  \* what clients ask for: [path, pairs, flag, cookies, form]
  None

\* What clients can put on the wire.  Keys and values are any text: a code of Escape is no
\* character of theirs, as it stands for three.  A flag is not escaped, and neither are
\* cookies: the first one's name does not begin with a blank, which is not told from the
\* blanks in front of the field.
ASSUME RequestsAssumption ==
  LET Plain   == Seq(STRING \ Range(PercentEncoded))
      Flags   == Seq(STRING \ {"&", "="})
      Names   == Seq(STRING \ {"="}) \ {<<>>}
      Given   == {v \in Seq(STRING) : \A i \in 1..(Len(v) - 1) :
                                       SubSeq(v, i, i + 1) # kCookieSeperator}
  IN  /\ None \notin Requests /\ Root # "?"
      /\ \A r \in Requests : /\ r.path # "?"
                             /\ r.pairs \in Seq(Plain \X Plain) /\ r.form \in Seq(Plain \X Plain)
                             /\ r.flag \in Flags /\ r.cookies \in Seq(Names \X Given)
                             /\ r.cookies # <<>> => r.cookies[1][1][1] \notin Blanks

VARIABLES
  asked,     \* the request that is read and handled, or None
  stage,     \* how far: "line", "header", "handled"
  url, cookies, form   \* url_, cookies_, form_

requestVars == <<asked, stage, url, cookies, form>>
vars == <<routerVars, requestVars>>

-----------------------------------------------------------------------------
(***************************************************************************)
(* Clients.                                                                *)
(***************************************************************************)

\* Keys and values are escaped
Encoded(pairs) ==
  LET Pair(p) == Escape(p[1]) \o <<"=">> \o Escape(p[2])
  IN  [i \in DOMAIN pairs |-> Pair(pairs[i])]

Parts(parts) == Join(parts, <<"&">>)

\* A flag is a parameter without value.  The path is one character.
Text(r) == LET query == Parts(Encoded(r.pairs) \o (IF r.flag = <<>> THEN <<>> ELSE <<r.flag>>))
           IN  <<r.path>> \o (IF query = <<>> THEN <<>> ELSE <<"?">> \o query)

\* What is behind the colon of the Cookie line
CookieField(r) == <<" ">> \o Joined(r.cookies)

\* What the pairs of a query or form mean
Meaning(pairs) == FoldLeft(LAMBDA q, p : Add(q, p[1], p[2]), NoQuery, pairs)

-----------------------------------------------------------------------------
(***************************************************************************)
(* The request object.                                                     *)
(***************************************************************************)

Init == /\ InitRouter
        /\ asked = None /\ stage = "line"
        /\ url = NewUrl(<<Root>>) /\ cookies = <<>> /\ form = NoQuery

TypeOK == /\ TypeOKRouter
          /\ asked \in Requests \cup {None}
          /\ stage \in {"line", "header", "handled"}
          /\ asked = None => stage = "line"

\* ParseRequestLine
SetURL(r) == /\ asked = None
             /\ asked' = r
             /\ url' = Set(url, Text(r))
             /\ UNCHANGED <<routerVars, stage, cookies, form>>

\* ParseRequestHeader, of the Cookie line
ParseCookies == /\ asked # None /\ stage = "line"
                /\ stage' = "header"
                /\ cookies' = IF asked.cookies = <<>> THEN cookies
                              ELSE cookies \o ParseCookieString(StrTrimLeft(CookieField(asked)))
                /\ UNCHANGED <<routerVars, asked, url, form>>

\* DoRequest: ParseForm if the request is a POST
ParseForm == /\ stage = "header"
             /\ stage' = "handled"
             /\ form' = ParsePairs(form, Parts(Encoded(asked.form)))
             /\ UNCHANGED <<routerVars, asked, url, cookies>>

\* A Reset that leaves the query
ResetText == /\ asked # None
             /\ asked' = None /\ stage' = "line"
             /\ url' = [url EXCEPT !.text = <<>>]
             /\ cookies' = <<>> /\ form' = NoQuery
             /\ UNCHANGED routerVars

\* HTTPRequest::Reset, after the request or when it is refused
Reset == /\ asked # None
         /\ asked' = None /\ stage' = "line"
         /\ url' = ResetUrl /\ cookies' = <<>> /\ form' = NoQuery
         /\ UNCHANGED routerVars

\* Whether a request is being handled makes no difference to the tree
RegisterRoute == /\ asked = None
                 /\ \E pattern \in Patterns : Register(pattern)
                 /\ UNCHANGED requestVars

Next == \/ RegisterRoute \/ ParseCookies \/ ParseForm \/ Reset
        \/ \E r \in Requests : SetURL(r)

Spec == Init /\ [][Next]_vars

\* The handler gets the parameters, the cookies and the form of its own request, with all
\* characters that were escaped, and the request is routed by its path.  With a flag and
\* no other parameter it is not: StringWithQuery then returns all of the URL (url.cc:121),
\* against what url.h:98 says.
RequestIsRead ==
  stage = "handled" =>
    /\ url.query = Meaning(asked.pairs)
    /\ cookies = asked.cookies
    /\ form = Meaning(asked.form)
    /\ (asked.pairs # <<>> \/ asked.flag = <<>>) => StringWithQuery(url) = <<asked.path>>
=============================================================================
