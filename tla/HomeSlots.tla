------------------------------ MODULE HomeSlots ------------------------------
(***************************************************************************)
(* What Home's concurrency limit means: Home counts the slots of each      *)
(* group that are outstanding, and an execution runs only on a slot that   *)
(* Home counts.  A slot is given back, and a membership is forgotten, only *)
(* when no execution runs on it any more.                                  *)
(***************************************************************************)
EXTENDS Integers

CONSTANTS Groups, Capacity

VARIABLES outstanding,  \* slots Home counts as taken
          running       \* executions that use one

Init == /\ outstanding = [g \in Groups |-> 0]
        /\ running = [g \in Groups |-> 0]

Grant(g) ==
  /\ outstanding[g] < Capacity
  /\ outstanding' = [outstanding EXCEPT ![g] = @ + 1]
  /\ UNCHANGED running

Start(g) ==
  /\ running[g] < outstanding[g]
  /\ running' = [running EXCEPT ![g] = @ + 1]
  /\ UNCHANGED outstanding

Finish(g) ==
  /\ running[g] > 0
  /\ running' = [running EXCEPT ![g] = @ - 1]
  /\ UNCHANGED outstanding

Return(g) ==
  /\ outstanding'[g] \in running[g] .. outstanding[g] - 1
  /\ outstanding' = [outstanding EXCEPT ![g] = outstanding'[g]]
  /\ UNCHANGED running

Forget ==
  /\ \A g \in Groups : running[g] = 0
  /\ outstanding' = [g \in Groups |-> 0]
  /\ UNCHANGED running

Next == \/ \E g \in Groups : Grant(g) \/ Start(g) \/ Finish(g) \/ Return(g)
        \/ Forget

Spec == Init /\ [][Next]_<<outstanding, running>>
=============================================================================
