----------------------------- MODULE MCReactor -----------------------------
(***************************************************************************)
(* Reactor on small instances.  Connections, descriptors and the loops     *)
(* other than Loop0 are interchangeable: no definition names one.          *)
(***************************************************************************)
EXTENDS Reactor, TLC



Symmetry == Permutations(Conns) \cup Permutations(Fds)
            \cup Permutations(Loops \ {Loop0})
=============================================================================
