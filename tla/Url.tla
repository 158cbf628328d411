-------------------------------- MODULE Url --------------------------------
(***************************************************************************)
(* net/http/url.cc: the URL object of a request, with its query.  "%26"    *)
(* and its like are single characters here; "%" is one that two            *)
(* hexadecimal digits do not follow.                                       *)
(***************************************************************************)
EXTENDS Strings

\* Characters Escape does not leave as they are, and what it writes.  Of the letters, those
\* behind f are among them: RFC3986UnreservedChar knows the hexadecimal ones only.
PercentEncoded ==
  [c \in {"&", "=", "+", " ", "z", "/", "?", "%", "{", "}"} |->
     CASE c = "&" -> "%26" [] c = "=" -> "%3D" [] c = "+" -> "%2B" [] c = " " -> "%20"
       [] c = "z" -> "%7A" [] c = "/" -> "%2F" [] c = "?" -> "%3F" [] c = "%" -> "%25"
       [] c = "{" -> "%7B" [] c = "}" -> "%7D"]

Escape(s) == [i \in DOMAIN s |-> IF s[i] \in DOMAIN PercentEncoded THEN PercentEncoded[s[i]]
                                                                   ELSE s[i]]

\* UnEscape: false, and out as far as it got, at a character it does not know
Unknown == {"%", "{", "}"}

Decoded(c) == IF c = "+" THEN " "
              ELSE IF c \in Range(PercentEncoded) THEN AntiFunction(PercentEncoded)[c] ELSE c

UnEscape(s) ==
  LET known == {i \in 0..Len(s) : \A j \in 1..i : s[j] \notin Unknown}
  IN  [i \in 1..Max(known) |-> Decoded(s[i])]

\* URL::Query: the values of each key, in order
NoQuery == <<>>
Values(q, key)     == IF key \in DOMAIN q THEN q[key] ELSE <<>>
Add(q, key, value) == [k \in DOMAIN q \cup {key} |-> IF k = key THEN Append(Values(q, k), value)
                                                              ELSE q[k]]

\* Query::ParseString of a body: parts without "=" are left out; keys and values are
\* decoded last
AddPart(q, part) == IF Contains(part, "=")
                    THEN Add(q, UnEscape(Before(part, "=")), UnEscape(Behind(part, "=")))
                    ELSE q

ParsePairs(q, s) == FoldLeft(AddPart, q, StrSplit(s, "&"))

\* ... and of a URL
ParseQuery(q, s) == IF Contains(s, "?") THEN ParsePairs(q, Behind(s, "?")) ELSE q

\* The object: URL::URL, Set (which adds to the query there is), Reset
NewUrl(s) == [text |-> s, query |-> ParseQuery(NoQuery, s)]
Set(url, s) == [text |-> s, query |-> ParseQuery(url.query, s)]
ResetUrl == [text |-> <<>>, query |-> NoQuery]

\* StringWithQuery: without what follows "?", if a parameter follows
StringWithQuery(url) == IF url.query = NoQuery THEN url.text ELSE Before(url.text, "?")
=============================================================================
