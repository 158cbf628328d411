--------------------------- MODULE MCInstancePool ---------------------------
(***************************************************************************)
(* InstancePool for TLC: three threads, and a pool that grows from one     *)
(* slot to four.  Filled is what pushing leaves (instance_pool.hpp:59-66). *)
(***************************************************************************)
EXTENDS InstancePool, SequencesExt

ASSUME FilledByPushing ==
  \A n \in 0..4 : \A s \in BoundedSeq({1, 2}, n) :
    Filled(n, s) = FoldLeft(Pushed, ConstructQueue(n), s)
=============================================================================
