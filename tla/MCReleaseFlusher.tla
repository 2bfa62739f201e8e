-------------------------- MODULE MCReleaseFlusher --------------------------
(* Instances of ReleaseFlusher for TLC.                                    *)
EXTENDS ReleaseFlusher, TLC

(* The groups are interchangeable where no liveness is checked.            *)
Symmetry == Permutations(Groups)
=============================================================================
