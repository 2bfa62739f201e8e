--------------------------- MODULE CumulativeLink ---------------------------
(***************************************************************************)
(* What the release flusher promises to the rest of the system: Home's     *)
(* record of a group follows the registry's cumulative sequence, never     *)
(* ahead of it and never backwards, however frames are lost, repeated or   *)
(* reordered.                                                              *)
(***************************************************************************)
EXTENDS Integers

CONSTANT Groups

VARIABLES latest,   \* the largest sequence released here
          recorded  \* the largest sequence Home knows

Init == /\ latest = [g \in Groups |-> 0]
        /\ recorded = [g \in Groups |-> 0]

Release(g) ==
  /\ latest'[g] > latest[g]
  /\ latest' = [latest EXCEPT ![g] = latest'[g]]
  /\ UNCHANGED recorded

Record(g) ==
  /\ recorded'[g] \in recorded[g] + 1 .. latest[g]
  /\ recorded' = [recorded EXCEPT ![g] = recorded'[g]]
  /\ UNCHANGED latest

Next == \E g \in Groups : Release(g) \/ Record(g)

Spec == Init /\ [][Next]_<<latest, recorded>>
=============================================================================
