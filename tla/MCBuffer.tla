------------------------------ MODULE MCBuffer ------------------------------
(***************************************************************************)
(* Buffer for TLC: two bytes, one of them a blank, appended in strings of  *)
(* up to two; the delimiter is two bytes, like CRLF.                       *)
(***************************************************************************)
EXTENDS Buffer, SequencesExt

CONSTANTS a, sp

MCBytes  == {a, sp}
MCBlanks == {sp}
MCChunks == BoundedSeq({a, sp}, 2)
MCDelims == {<<a, sp>>}
=============================================================================
