------------------------------- MODULE Buffer -------------------------------
(***************************************************************************)
(* buffer/buffer.{h,cc}: a growing byte array with a reader and a writer   *)
(* index, the read and the write buffer of every connection.  A Buffer     *)
(* belongs to one connection and is used by one thread at a time, so an    *)
(* operation is one step.  Memory that malloc returned and nobody wrote is *)
(* Junk.                                                                   *)
(***************************************************************************)
EXTENDS Sequences, Naturals, FiniteSets

CONSTANTS
  Bytes,        \* the bytes that are written
  Blanks,       \* those TrimLeft and TrimRight remove
  Junk,         \* what uninitialised memory holds
  Chunks,       \* the strings that are appended
  Delims,       \* the delimiters that are searched for
  Lengths,      \* the lengths and indices operations are called with
  InitSize,     \* init_bufsize
  MaxCapacity,  \* bound: the array does not grow beyond this
  CopyOrder     \* what memcpy does when the areas overlap: "forward" or "backward"

ASSUME JunkAssumption    == Junk \notin Bytes
ASSUME BlanksAssumption  == Blanks \subseteq Bytes
ASSUME StringsAssumption == Chunks \subseteq Seq(Bytes) /\ Delims \subseteq Seq(Bytes) \ {<<>>}
ASSUME SizesAssumption   == Lengths \subseteq Nat /\ InitSize \in Nat /\ MaxCapacity \in Nat
ASSUME CopyAssumption    == CopyOrder \in {"forward", "backward"}

VARIABLES
  buf,  \* the object: data_, p_reader_, p_writer_, capacity_
  out   \* what the last operation returned

vars == <<buf, out>>

Minimum(a, b) == IF a <= b THEN a ELSE b

WritableBytes(b) == b.capacity - b.writer
ReadableBytes(b) == b.writer - b.reader

\* n bytes of the array from index i on, as a string
Copied(b, i, n) == [k \in 1..n |-> b.data[i + k - 1]]
Content(b) == Copied(b, b.reader, ReadableBytes(b))

-----------------------------------------------------------------------------
(***************************************************************************)
(* Making room and appending.                                              *)
(***************************************************************************)

\* The index whose byte memcpy(data_, data_ + p_reader_, n) puts at i < n.  A memcpy that
\* starts at the end reads bytes it has already overwritten.
CopySource(b, i) ==
  LET p == b.reader
      n == ReadableBytes(b)
  IN  IF CopyOrder = "forward" \/ p = 0
      THEN i + p
      ELSE i + ((n - 1 - i) \div p + 1) * p

MoveReadableToHead(b) ==
  [data |-> [i \in 0..(b.capacity - 1) |->
               IF i < ReadableBytes(b) THEN b.data[CopySource(b, i)] ELSE b.data[i]],
   reader |-> 0, writer |-> ReadableBytes(b), capacity |-> b.capacity]

\* A reallocation that does not remember how much there was to read
ReallocatedStaleWriter(b, n) ==
  [data |-> [i \in 0..(b.writer + 2 * n - 1) |->
               IF i < ReadableBytes(b) THEN b.data[b.reader + i] ELSE Junk],
   reader |-> 0, writer |-> b.writer, capacity |-> b.writer + 2 * n]

\* Twice the room that is asked for, behind everything the old array held
Reallocated(b, n) ==
  [data |-> [i \in 0..(b.writer + 2 * n - 1) |->
               IF i < ReadableBytes(b) THEN b.data[b.reader + i] ELSE Junk],
   reader |-> 0, writer |-> ReadableBytes(b), capacity |-> b.writer + 2 * n]

\* A check for room that forgets that the readable bytes stay
EnsuredByCapacity(b, n) ==
  IF WritableBytes(b) > n THEN b
  ELSE IF b.capacity >= n THEN MoveReadableToHead(b) ELSE Reallocated(b, n)

\* EnsureBytesForWrite
Ensured(b, n) ==
  IF WritableBytes(b) > n THEN b
  ELSE IF b.reader + WritableBytes(b) >= n THEN MoveReadableToHead(b) ELSE Reallocated(b, n)

\* Append, of a string, of an array or of what another buffer has to read: memcpy to the
\* writer index
Appended(b, s) ==
  LET e == Ensured(b, Len(s))
  IN  [data |-> [i \in 0..(e.capacity - 1) |->
                   IF i >= e.writer /\ i < e.writer + Len(s)
                   THEN s[i - e.writer + 1] ELSE e.data[i]],
       reader |-> e.reader, writer |-> e.writer + Len(s), capacity |-> e.capacity]

-----------------------------------------------------------------------------
(***************************************************************************)
(* The operations.                                                         *)
(***************************************************************************)

Init == /\ buf = [data |-> [i \in 0..(InitSize - 1) |-> Junk],
                  reader |-> 0, writer |-> 0, capacity |-> InitSize]
        /\ out = <<>>

Set(r, w) == buf' = [buf EXCEPT !.reader = r, !.writer = w]

AppendBytes(s) == /\ Appended(buf, s).capacity <= MaxCapacity
                  /\ buf' = Appended(buf, s)
                  /\ out' = <<>>

EnsureBytesForWrite(n) == /\ Ensured(buf, n).capacity <= MaxCapacity
                          /\ buf' = Ensured(buf, n)
                          /\ out' = <<>>

Reset == Set(0, 0) /\ out' = <<>>

\* A ReaderIdxForward that trusts its argument
ForwardUnchecked(n) == Set(buf.reader + n, buf.writer) /\ out' = <<>>

ReaderIdxForward(n) ==
  Set(buf.reader + Minimum(n, ReadableBytes(buf)), buf.writer) /\ out' = <<>>

ReaderIdxBackward(n) ==
  Set(buf.reader - Minimum(n, buf.reader), buf.writer) /\ out' = <<>>

WriterIdxForward(n) ==
  Set(buf.reader, buf.writer + Minimum(n, WritableBytes(buf))) /\ out' = <<>>

WriterIdxBackward(n) ==
  Set(buf.reader, buf.writer - Minimum(n, ReadableBytes(buf))) /\ out' = <<>>

ReadString(n) ==
  /\ out' = IF n > ReadableBytes(buf) THEN <<>> ELSE Copied(buf, buf.reader, n)
  /\ UNCHANGED buf

ReadStringFrom(i, n) ==
  /\ out' = IF i >= ReadableBytes(buf) THEN <<>>
            ELSE Copied(buf, buf.reader + i, Minimum(n, ReadableBytes(buf) - i))
  /\ UNCHANGED buf

ReadStringAndForward(n) ==
  IF n > ReadableBytes(buf)
  THEN out' = <<>> /\ UNCHANGED buf
  ELSE out' = Copied(buf, buf.reader, n) /\ Set(buf.reader + n, buf.writer)

\* Where std::search finds d in the readable bytes
Found(d) == {i \in buf.reader..buf.writer :
               i + Len(d) <= buf.writer /\ Copied(buf, i, Len(d)) = d}

\* The string before the first d; the reader goes behind d.  (Both overloads; found is
\* whether Found is not empty.)
ReadStringAndForwardTill(d) ==
  IF Found(d) = {}
  THEN out' = <<>> /\ UNCHANGED buf
  ELSE LET at == CHOOSE i \in Found(d) : \A j \in Found(d) : i <= j
       IN  /\ out' = Copied(buf, buf.reader, at - buf.reader)
           /\ Set(at + Len(d), buf.writer)

\* ReadAll and ReadAllAsString
ReadAll == /\ out' = Content(buf)
           /\ Set(buf.writer, buf.writer)

\* The reader goes to the first readable byte that is not blank
TrimLeft ==
  /\ \E r \in buf.reader..buf.writer :
       /\ \A i \in buf.reader..(r - 1) : buf.data[i] \in Blanks
       /\ r < buf.writer => buf.data[r] \notin Blanks
       /\ Set(r, buf.writer)
  /\ out' = <<>>

\* The writer goes behind the last readable byte that is not blank
TrimRight ==
  /\ \E w \in buf.reader..buf.writer :
       /\ \A i \in w..(buf.writer - 1) : buf.data[i] \in Blanks
       /\ w > buf.reader => buf.data[w - 1] \notin Blanks
       /\ Set(buf.reader, w)
  /\ out' = <<>>

Next == \/ \E s \in Chunks : AppendBytes(s)
        \/ \E d \in Delims : ReadStringAndForwardTill(d)
        \/ \E n \in Lengths : \/ EnsureBytesForWrite(n)
                              \/ ReaderIdxForward(n) \/ ReaderIdxBackward(n)
                              \/ WriterIdxForward(n) \/ WriterIdxBackward(n)
                              \/ ReadString(n) \/ ReadStringAndForward(n)
                              \/ \E i \in Lengths : ReadStringFrom(i, n)
        \/ Reset \/ ReadAll \/ TrimLeft \/ TrimRight

Spec == Init /\ [][Next]_vars

-----------------------------------------------------------------------------
(***************************************************************************)
(* Properties.                                                             *)
(***************************************************************************)

\* Both indices are in the array, in order
TypeOK ==
  /\ buf.capacity \in Nat /\ buf.writer \in Nat /\ buf.reader \in Nat
  /\ buf.reader <= buf.writer /\ buf.writer <= buf.capacity
  /\ buf.data \in [0..(buf.capacity - 1) -> Bytes \cup {Junk}]

\* "Make sure there is enough room." (buffer.h:209): after EnsureBytesForWrite(n) there
\* are n bytes between the writer index and the end of the array, so no memcpy of Append
\* and no recv into the buffer leaves the array, however the indices have moved.
RoomEnsured == \A n \in Lengths : Ensured(buf, n).writer + n <= Ensured(buf, n).capacity

\* The class implements a byte stream: what is read is what was appended, in order, over
\* every rearrangement and reallocation of the array.
Stream == INSTANCE ByteStream WITH
            past <- Copied(buf, 0, buf.reader),
            content <- Content(buf)
StreamSpec == Stream!Spec
=============================================================================
