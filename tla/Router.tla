------------------------------- MODULE Router -------------------------------
(***************************************************************************)
(* net/http/http_router.cc: the tree of patterns of one method.  A pattern *)
(* or URL is the sequence of segments StrSplit makes of it, without the    *)
(* empty ones; <<>> is "/".  What has no segment either ("//", ""), is not *)
(* modelled: InsertRoute refuses it and SearchRoute finds nothing.  A      *)
(* segment of a pattern is plain text, "{name}", which takes any text, or  *)
(* "prefix{name}", which takes the text behind the prefix.                 *)
(*                                                                         *)
(* Siblings never have the same segment, so a node is the sequence of the  *)
(* segments that lead to it; the root is <<>>.  Children are looked at in  *)
(* the order of their creation, and a call of Register creates at most one *)
(* child of a node: its number orders them.                                *)
(***************************************************************************)
EXTENDS Strings

CONSTANTS
  Patterns,  \* what programs may register
  Urls,      \* what clients may ask for
  MaxCalls   \* bound on the calls of Register

ASSUME CallsAssumption == MaxCalls \in Nat

\* What StrSplit makes of patterns and URLs
ASSUME SegmentsAssumption ==
  \A s \in Patterns \cup Urls : s \in Seq(Seq(STRING)) /\ \A i \in DOMAIN s : s[i] # <<>>

VARIABLES
  tree,      \* tree[n]: the number of the call that created node n
  handler,   \* handler[n]: the call that set pattern_ and handler_ of n, 0 if none did
  log        \* history: the patterns Register was called with

routerVars == <<tree, handler, log>>

Root == <<>>

Nodes       == DOMAIN tree
Children(n) == {m \in Nodes : Len(m) = Len(n) + 1 /\ Front(m) = n}

-----------------------------------------------------------------------------
(***************************************************************************)
(* Segments.                                                               *)
(***************************************************************************)

\* What begins the wildcard of a segment
Open == "{"

\* CheckWildcard: whether there is one, where it starts, its name, and what is refused
IsWild(s)    == Contains(s, Open)
WildLoc(s)   == Len(Before(s, Open))
WildName(s)  == Before(Behind(s, Open), "}")
Malformed(s) == IsWild(s) /\ \/ Behind(s, Open) # WildName(s) \o <<"}">>
                             \/ WildName(s) = <<>>

Universal(s) == s[1] = Open

\* An Insert that does not compare a static child with the prefix of a wildcard
ConflictUnlessPrefixed(c, s) ==
  /\ c # s
  /\ \/ ~IsWild(c) /\ IsWild(s) /\ Universal(s)
     \/ IsWild(c) /\ Universal(c)
     \/ IsWild(c) /\ IsWild(s) /\ Universal(s)
     \/ IsWild(c) /\ ~IsWild(s) /\ StrEqual(s, c, WildLoc(c)) /\ Len(s) > WildLoc(c)

\* Insert: the child c does not allow a sibling s (and is not s).  The last case never
\* arises: of two segments with wildcards neither is a prefix of the other.
Conflict(c, s) ==
  /\ c # s
  /\ \/ ~IsWild(c) /\ IsWild(s) /\ (Universal(s) \/ StrEqual(c, s, WildLoc(s)))
     \/ IsWild(c) /\ Universal(c)
     \/ IsWild(c) /\ IsWild(s) /\ Universal(s)
     \/ IsWild(c) /\ ~IsWild(s) /\ StrEqual(s, c, WildLoc(c)) /\ Len(s) > WildLoc(c)
     \/ IsWild(c) /\ IsWild(s) /\ CommonLength(c, s) \in {Len(c), Len(s)}

\* A Search in which a wildcard may stand for nothing
TakesUnlessEmpty(c, s) ==
  IF IsWild(c) THEN Universal(c) \/ CommonLength(c, s) = WildLoc(c) ELSE c = s

\* Search: the child c takes the segment s of a URL
Takes(c, s) ==
  IF IsWild(c)
  THEN Universal(c) \/ (CommonLength(c, s) = WildLoc(c) /\ Len(s) > WildLoc(c))
  ELSE c = s

-----------------------------------------------------------------------------
(***************************************************************************)
(* Searching.                                                              *)
(***************************************************************************)

\* The first child of n that takes s.  There is no way back from it.
IsFirst(c, n, s) ==
  /\ c \in Children(n) /\ Takes(Last(c), s)
  /\ \A d \in Children(n) : Takes(Last(d), s) => tree[c] <= tree[d]

\* Search: the node that is reached with all segments of the URL, if there is one
Reached(url) ==
  {n \in Nodes : /\ Len(n) = Len(url)
                 /\ \A i \in DOMAIN n : IsFirst(SubSeq(n, 1, i), SubSeq(n, 1, i - 1), url[i])}

\* SearchHandler: the call whose handler is found for a URL, or 0
Found(url) == IF Reached(url) = {} THEN 0 ELSE handler[CHOOSE n \in Reached(url) : TRUE]

\* The Params of the search for url that ends at n: a name that occurs again gets the
\* later value
Params(n, url) ==
  LET Wild == {i \in DOMAIN n : IsWild(n[i])}
  IN  [name \in {WildName(n[i]) : i \in Wild} |->
         LET i == Max({j \in Wild : WildName(n[j]) = name})
         IN  SubSeq(url[i], WildLoc(n[i]) + 1, Len(url[i]))]

-----------------------------------------------------------------------------
(***************************************************************************)
(* Registering.                                                            *)
(***************************************************************************)

\* A child of n refuses s before s itself is met among the children
Refused(n, s) == \E c \in Children(n) :
                   /\ Conflict(Last(c), s)
                   /\ \A d \in Children(n) : Last(d) = s => tree[c] < tree[d]

\* The segments of a pattern where Insert returns false
Stops(pattern) == {i \in DOMAIN pattern : \/ Malformed(pattern[i])
                                          \/ Refused(SubSeq(pattern, 1, i - 1), pattern[i])}

\* The nodes Insert passes, until it returns
Passed(pattern) ==
  {SubSeq(pattern, 1, i) : i \in 0..(Min(Stops(pattern) \cup {Len(pattern) + 1}) - 1)}

\* An Insert that replaces the callback of a pattern
AcceptedAgain(pattern) == Stops(pattern) = {}

\* InsertRoute returns true
Accepted(pattern) == /\ Stops(pattern) = {}
                     /\ pattern \in Nodes => handler[pattern] = 0

\* A Register that hands its callback to the node where it is refused
RegisterHalf(pattern) ==
  LET call == Len(log) + 1
      all  == Nodes \cup Passed(pattern)
  IN  /\ call <= MaxCalls
      /\ tree' = [n \in all |-> IF n \in Nodes THEN tree[n] ELSE call]
      /\ handler' = [n \in all |-> IF n \in Nodes THEN handler[n]
                                   ELSE IF Len(n) = Cardinality(Passed(pattern)) - 1 THEN call
                                   ELSE 0]
      /\ log' = Append(log, pattern)

\* A refused registration leaves the nodes it has created before it is refused
Register(pattern) ==
  LET call == Len(log) + 1
      all  == Nodes \cup Passed(pattern)
  IN  /\ call <= MaxCalls
      /\ tree' = [n \in all |-> IF n \in Nodes THEN tree[n] ELSE call]
      /\ handler' = [n \in all |-> IF n = pattern /\ Accepted(pattern) THEN call
                                   ELSE IF n \in Nodes THEN handler[n] ELSE 0]
      /\ log' = Append(log, pattern)

InitRouter == /\ tree = [n \in {Root} |-> 0]
              /\ handler = [n \in {Root} |-> 0]
              /\ log = <<>>

\* Only accepted patterns have a handler, and each the one it was registered with
TypeOKRouter ==
  /\ log \in Seq(Patterns) /\ Len(log) <= MaxCalls
  /\ DOMAIN handler = Nodes /\ Root \in Nodes
  /\ \A n \in Nodes :
       /\ tree[n] \in 0..Len(log) /\ handler[n] \in 0..Len(log)
       /\ handler[n] # 0 => log[handler[n]] = n

-----------------------------------------------------------------------------
(***************************************************************************)
(* Properties.                                                             *)
(***************************************************************************)

\* What a pattern stands for.  A value does not begin with "{".
TextBefore(s) == Before(s, Open)
Stands(p, s) == IF IsWild(p)
                THEN /\ IsPrefix(TextBefore(p), s) /\ Len(s) > Len(TextBefore(p))
                     /\ TextBefore(p) # <<>> => s[Len(TextBefore(p)) + 1] # Open
                ELSE p = s
Matches(pattern, segments) == /\ Len(pattern) = Len(segments)
                              /\ \A i \in DOMAIN pattern : Stands(pattern[i], segments[i])

\* The handler that is found was registered with a pattern that matches the URL, and each
\* parameter is the text its wildcard stands for.
FoundMatches ==
  \A url \in Urls : Found(url) # 0 =>
    LET n      == log[Found(url)]
        params == Params(n, url)
    IN  /\ Matches(n, url)
        /\ \A i \in DOMAIN n : IsWild(n[i]) =>
             \/ TextBefore(n[i]) \o params[WildName(n[i])] = url[i]
             \/ \E j \in DOMAIN n : j > i /\ IsWild(n[j]) /\ WildName(n[j]) = WildName(n[i])

\* Two segments with wildcards whose prefixes overlap: Insert lets them stand side by side
Overlap(c, d) == /\ IsWild(c) /\ IsWild(d) /\ c # d
                 /\ \/ IsPrefix(TextBefore(c), TextBefore(d))
                    \/ IsPrefix(TextBefore(d), TextBefore(c))

\* On the way to n there is an older sibling that overlaps
Hidden(n) == \E i \in DOMAIN n : \E c \in Children(SubSeq(n, 1, i - 1)) :
               Overlap(Last(c), n[i]) /\ tree[c] < tree[SubSeq(n, 1, i)]

\* A registered pattern is found for every URL it matches.  There is one exception: at
\* each node the first child that takes the segment is entered and never left, so that an
\* older sibling whose prefix overlaps hides what is below the younger one.
FoundUnlessHidden ==
  \A n \in Nodes : handler[n] # 0 /\ ~Hidden(n) =>
    \A url \in Urls : Matches(n, url) => Found(url) = handler[n]

\* A step that gives a handler only to a URL that had none, by the accepted call itself
KeepsFound == \A url \in Urls :
                LET next == Found(url)' IN
                next # Found(url) => /\ Found(url) = 0
                                     /\ next = Len(log')
                                     /\ Accepted(log'[next])

\* What is found for a URL stays the same whatever is registered later, be it accepted or
\* refused half way; and a refused registration serves no URL.
FoundStays == [][KeepsFound]_routerVars
=============================================================================
