-------------------------- MODULE MCRuntimeLimits --------------------------
(* Instances of RuntimeLimits for TLC: requests are interchangeable.       *)
EXTENDS RuntimeLimits, TLC

Symmetry == Permutations(Requests)

(* Slots and freezes: four requests, one freeze of each kind.              *)
SlotsConfig ==
  [maxConcurrency |-> 2, affinityMax |-> 1, burstMax |-> 3,
   rateMax |-> 0, window |-> 2,
   freezes |-> {1}, usages |-> {1}, preempts |-> {2}, retryAfters |-> {},
   requests |-> 4, maxTime |-> 5]

(* The rate window and the upstream backoff over a longer time.            *)
BackoffConfig ==
  [maxConcurrency |-> 0, affinityMax |-> 0, burstMax |-> 0,
   rateMax |-> 1, window |-> 3,
   freezes |-> {2}, usages |-> {}, preempts |-> {}, retryAfters |-> {0, 5},
   requests |-> 1, maxTime |-> 7]

LimitConfigs == {SlotsConfig, BackoffConfig}
=============================================================================
