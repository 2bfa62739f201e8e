------------------------ MODULE MCExecutionRegistry ------------------------
(* Instances of ExecutionRegistry for TLC.                                 *)
EXTENDS ExecutionRegistry, TLC

(* Dispatches, sinks and calls are interchangeable in the safety runs.     *)
Symmetry == Permutations(Dispatches) \union Permutations(Calls)
              \union Permutations(Sinks) \union Permutations(Groups)
=============================================================================
