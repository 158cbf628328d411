------------------------------ MODULE Strings ------------------------------
(***************************************************************************)
(* Functions of base/str_utils.cc, and the two of http_router.cc, that the *)
(* router, the URL class and the parser use.  A string is a sequence of    *)
(* characters.                                                             *)
(***************************************************************************)
EXTENDS Naturals, SequencesExt

Places(s, c) == {i \in DOMAIN s : s[i] = c}

\* The part of s before the first c, and behind it
Before(s, c) == SubSeq(s, 1, Min(Places(s, c) \cup {Len(s) + 1}) - 1)
Behind(s, c) == SubSeq(s, Min(Places(s, c) \cup {Len(s)}) + 1, Len(s))

\* The members of a set of numbers, in order.  (There is no proof rule for SetToSortSeq.)
Sorted(S) == CHOOSE f \in [1..Cardinality(S) -> S] : \A i, j \in DOMAIN f : i < j => f[i] < f[j]

Blanks == {" ", "\t", "\r", "\n"}

\* StrTrimLeft, of a string that has another character: without one find_first_not_of
\* returns npos, which the function adds to an iterator
StrTrimLeft(s) ==
  SubSeq(s, Min({i \in DOMAIN s : s[i] \notin Blanks} \cup {Len(s) + 1}), Len(s))

\* StrSplit: the longest non-empty parts of s without c
StrSplit(s, c) ==
  LET Starts == {i \in DOMAIN s : s[i] # c /\ (i = 1 \/ s[i - 1] = c)}
      starts == Sorted(Starts)
  IN  [k \in DOMAIN starts |-> Before(SubSeq(s, starts[k], Len(s)), c)]

\* The other way round, as clients do it: parts with a separator between them
Join(parts, separator) ==
  LET join[i \in DOMAIN parts] == IF i = 1 THEN parts[1] ELSE join[i - 1] \o separator \o parts[i]
  IN  IF parts = <<>> THEN <<>> ELSE join[Len(parts)]

\* StrEqual: the first n characters of s and t; never if n is 0
StrEqual(s, t, n) == /\ n # 0 /\ n <= Len(s) /\ n <= Len(t)
                     /\ SubSeq(s, 1, n) = SubSeq(t, 1, n)

\* LongestCommonPrefix, as a number of characters: the function returns one less
CommonLength(s, t) ==
  Max({n \in 0..Min({Len(s), Len(t)}) : SubSeq(s, 1, n) = SubSeq(t, 1, n)})
=============================================================================
