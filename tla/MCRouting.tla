----------------------------- MODULE MCRouting -----------------------------
(***************************************************************************)
(* Routing for TLC: patterns with every pair of kinds of siblings, two     *)
(* that are refused half way, and URLs that match several of them.         *)
(***************************************************************************)
EXTENDS Routing

A == <<"a">>
AB == <<"a", "b">>
AnyX == <<"{", "x", "}">>
PreA == A \o AnyX
PreAB == AB \o <<"{", "y", "}">>

MCPatterns == {<<>>, <<A>>, <<AB>>, <<AnyX>>, <<PreA>>, <<PreAB>>, <<A \o <<"{", "y", "}">> >>,
               <<PreA, AB>>, <<PreAB, A>>, <<AnyX, AnyX>>, <<AnyX, <<"{">> >>,
               <<PreAB, <<"{", "}">> >>}

MCUrls == {<<>>, <<A>>, <<AB>>, <<AB \o A>>, <<A \o <<"{">> >>, << <<"b">> >>,
           <<AB, AB>>, <<AB \o A, A>>, <<AB \o A, AB>>, <<A, A>>}

Request(path, pairs, flag, given, posted) ==
  [path |-> path, pairs |-> pairs, flag |-> flag, cookies |-> given, form |-> posted]

MCRequests ==
  {Request(<<A>>, <<>>, <<>>, <<>>, <<>>),
   Request(<<A>>, <<>>, A, << <<A, <<"=", "z">> >> >>, << <<A, <<>> >> >>),
   Request(<<A>>, << <<A, <<"=", "z">> >> >>, A, << <<A, <<>> >>, <<AB, <<";", "a">> >> >>, <<>>),
   Request(Root, << <<A, A>>, << <<"&">>, <<"+", " ">> >>, <<A, <<>> >> >>, <<>>, <<>>,
           << <<A, <<"?">> >>, <<A, <<"&", "z">> >>, << <<"%">>, <<"}">> >> >>)}
=============================================================================
