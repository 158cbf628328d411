------------------------------- MODULE Cookie -------------------------------
(***************************************************************************)
(* net/http/cookie.cc: cookies as pairs <<name, value>>.                   *)
(***************************************************************************)
EXTENDS Strings

kCookieSeperator == <<";", " ">>

\* Where the separator stands in s, from the place k on; behind the end if it does not
SeparatorFrom(s, k) ==
  Min({i \in k..(Len(s) - 1) : SubSeq(s, i, i + 1) = kCookieSeperator} \cup {Len(s) + 1})

\* The cookies of a Cookie field.  A value may have "=" in it; a cookie without a name ends
\* the parsing, and text without "=" becomes part of the next name.
ParseCookieString(s) ==
  LET from[k \in 1..(Len(s) + 3)] ==
        LET equals == {i \in Places(s, "=") : i >= k}
            eq     == Min(equals)
            end    == SeparatorFrom(s, eq + 1)
        IN  IF equals = {} \/ eq = k THEN <<>>
            ELSE << <<SubSeq(s, k, eq - 1), SubSeq(s, eq + 1, end - 1)>> >> \o from[end + 2]
  IN  from[1]

\* Cookie::Serialize, of a cookie without attributes, as a client gives it back
Serialize(c) == IF c[1] = <<>> THEN <<>> ELSE c[1] \o <<"=">> \o c[2]

\* The Cookie field of a client that has several
Joined(cs) == Join([i \in DOMAIN cs |-> Serialize(cs[i])], kCookieSeperator)
=============================================================================
