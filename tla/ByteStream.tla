----------------------------- MODULE ByteStream -----------------------------
(***************************************************************************)
(* What buffer/buffer.h promises: a stream of bytes that is appended to at *)
(* the end and read from the front, and that can be put back to what was   *)
(* read as long as the buffer has not been rearranged.  Buffer.tla         *)
(* implements this.                                                        *)
(***************************************************************************)
EXTENDS Sequences, Naturals, FiniteSets

CONSTANTS
  Bytes,       \* the bytes that are written
  Blanks,      \* those the trim functions remove
  Junk,        \* a byte nobody wrote
  Chunks,      \* the strings that are appended
  Delims,      \* the delimiters that are read up to
  Lengths      \* the lengths and indices operations are called with

VARIABLES
  past,     \* the bytes read that can still be put back
  content,  \* the bytes to read
  out       \* what the last operation returned

vars == <<past, content, out>>

Least(a, b) == IF a <= b THEN a ELSE b

First(s, n) == SubSeq(s, 1, n)
Rest(s, n)  == SubSeq(s, n + 1, Len(s))

\* The numbers of bytes before an occurrence of d in s
Offsets(s, d) == {o \in 0..Len(s) : o + Len(d) <= Len(s) /\ SubSeq(s, o + 1, o + Len(d)) = d}

\* How many blanks s begins with, and ends with
Leading(s) ==
  CHOOSE k \in 0..Len(s) : /\ \A i \in 1..k : s[i] \in Blanks
                           /\ k < Len(s) => s[k + 1] \notin Blanks
Trailing(s) ==
  CHOOSE k \in 0..Len(s) : /\ \A i \in (Len(s) - k + 1)..Len(s) : s[i] \in Blanks
                           /\ k < Len(s) => s[Len(s) - k] \notin Blanks

Init == past = <<>> /\ content = <<>> /\ out = <<>>

\* n bytes are read and returned, or skipped
Consume(n, result) == /\ past' = past \o First(content, n)
                      /\ content' = Rest(content, n)
                      /\ out' = result

\* Making room may make what was read unavailable
MakeRoom == /\ past' \in {past, <<>>}
            /\ UNCHANGED content
            /\ out' = <<>>

AppendBytes(s) == /\ past' \in {past, <<>>}
                  /\ content' = content \o s
                  /\ out' = <<>>

Reset == past' = <<>> /\ content' = <<>> /\ out' = <<>>

Skip(n) == Consume(Least(n, Len(content)), <<>>)

PutBack(n) ==
  LET k == Least(n, Len(past))
  IN  /\ past' = First(past, Len(past) - k)
      /\ content' = Rest(past, Len(past) - k) \o content
      /\ out' = <<>>

\* At most n bytes of unknown value become readable
Expose(n) == /\ \E k \in 0..n : \E s \in [1..k -> Bytes \cup {Junk}] : content' = content \o s
             /\ UNCHANGED past
             /\ out' = <<>>

Drop(n) == /\ content' = First(content, Len(content) - Least(n, Len(content)))
           /\ UNCHANGED past
           /\ out' = <<>>

Peek(i, n) == /\ out' = IF i < Len(content)
                        THEN First(Rest(content, i), Least(n, Len(content) - i))
                        ELSE <<>>
              /\ UNCHANGED <<past, content>>

PeekAll(n) == /\ out' = IF n <= Len(content) THEN First(content, n) ELSE <<>>
              /\ UNCHANGED <<past, content>>

Read(n) == IF n <= Len(content) THEN Consume(n, First(content, n)) ELSE Consume(0, <<>>)

\* The bytes before the first occurrence of d; d itself is skipped
ReadTill(d) ==
  IF Offsets(content, d) = {}
  THEN Consume(0, <<>>)
  ELSE LET o == CHOOSE o \in Offsets(content, d) : \A p \in Offsets(content, d) : o <= p
       IN  Consume(o + Len(d), First(content, o))

ReadAll == Consume(Len(content), content)

TrimLeft  == Consume(Leading(content), <<>>)
TrimRight == Drop(Trailing(content))

Next == \/ \E s \in Chunks : AppendBytes(s)
        \/ \E d \in Delims : ReadTill(d)
        \/ \E n \in Lengths : \/ Skip(n) \/ PutBack(n) \/ Expose(n) \/ Drop(n)
                              \/ PeekAll(n) \/ Read(n) \/ \E i \in Lengths : Peek(i, n)
        \/ MakeRoom \/ Reset \/ ReadAll \/ TrimLeft \/ TrimRight

Spec == Init /\ [][Next]_vars
=============================================================================
