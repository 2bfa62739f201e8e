------------------------ MODULE MCHomeConcurrency ------------------------
(* Instances of HomeConcurrency for TLC.                                   *)
EXTENDS HomeConcurrency, TLC

Symmetry == Permutations(Dispatches)
=============================================================================
