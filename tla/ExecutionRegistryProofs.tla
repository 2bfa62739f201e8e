---------------------- MODULE ExecutionRegistryProofs ----------------------
(***************************************************************************)
(* Proofs about ExecutionRegistry for every number of dispatches, groups,  *)
(* sinks, calls and barriers.                                              *)
(***************************************************************************)
EXTENDS ExecutionRegistry, FiniteSetTheorems, TLAPS

-----------------------------------------------------------------------------
(* Type correctness                                                        *)

(* Whatever sink and group a release is recorded for, what the sinks have  *)
(* seen stays a table of sequence numbers.                                 *)
LEMMA RecordType ==
  ASSUME seen \in [Sinks -> [Groups -> Nat]], NEW s, NEW g, NEW n \in Nat,
         Record(s, g, n)
  PROVE  seen' \in [Sinks -> [Groups -> Nat]]
<1>1. CASE s \in Sinks /\ g \in Groups
  <2>1. Larger(seen[s][g], n) \in Nat
    BY <1>1 DEF Larger
  <2>2. [seen[s] EXCEPT ![g] = Larger(seen[s][g], n)] \in [Groups -> Nat]
    BY <1>1, <2>1
  <2>3. QED
    BY <1>1, <2>2 DEF Record
<1>2. CASE s \in Sinks /\ g \notin Groups
  BY <1>2 DEF Record
<1>3. CASE s \notin Sinks
  BY <1>3 DEF Record
<1>4. QED
  BY <1>1, <1>2, <1>3

(* Every action of a dispatch's owner keeps the types (registry.go         *)
(* BeginDispatch to EndWithRelease).                                       *)
LEMMA OwnerTypeOK ==
  ASSUME TypeOK, NEW d \in Dispatches, OwnerStep(d) \/ CloseResource(d)
  PROVE  TypeOK'
<1> USE DEF TypeOK, vars, dispatchVars, releaseVars, barrierVars, callVars,
            Phases, Resources, SignalLocked
<1>1. CASE BeginDispatch(d)
  BY <1>1 DEF BeginDispatch
<1>2. CASE DropPending(d)
  BY <1>2 DEF DropPending
<1>3. ASSUME NEW g \in Groups \union {NoGroup}, Install(d, g)
      PROVE  TypeOK'
  BY <1>3 DEF Install
<1>4. CASE Bind(d)
  BY <1>4 DEF Bind
<1>5. CASE EndBegin(d)
  BY <1>5 DEF EndBegin
<1>6. CASE EndStartClose(d)
  BY <1>6 DEF EndStartClose, StartBoundResourceClose
<1>7. CASE MarkReleased(d)
  <2>1. CASE group[d] = NoGroup
    BY <1>7, <2>1 DEF MarkReleased
  <2>2. CASE group[d] # NoGroup
    <3>1. group[d] \in Groups
      BY <2>2
    <3>2. releaseSequences' \in [Groups -> Nat]
      BY <1>7, <2>2, <3>1 DEF MarkReleased
    <3>3. delivery' \in [Dispatches -> [sink : Sinks \union {NoSink}, seq : Nat]]
      <4>1. [sink |-> releaseSink, seq |-> releaseSequences[group[d]] + 1]
              \in [sink : Sinks \union {NoSink}, seq : Nat]
        BY <3>1
      <4>2. QED
        BY <1>7, <2>2, <4>1 DEF MarkReleased
    <3>4. QED
      BY <1>7, <3>2, <3>3 DEF MarkReleased
  <2>3. QED
    BY <2>1, <2>2
<1>8. CASE Deliver(d)
  <2>1. CASE delivery[d].sink = NoSink
    BY <1>8, <2>1 DEF Deliver
  <2>2. CASE delivery[d].sink # NoSink
    <3>1. delivery[d].sink \in Sinks /\ delivery[d].seq \in Nat
      BY <2>2
    <3>2. seen' \in [Sinks -> [Groups -> Nat]]
      BY <1>8, <2>2, <3>1, RecordType DEF Deliver
    <3>3. QED
      BY <1>8, <3>2 DEF Deliver
  <2>3. QED
    BY <2>1, <2>2
<1>9. CASE RemoveScope(d)
  BY <1>9 DEF RemoveScope
<1>10. CASE CloseResource(d)
  BY <1>10 DEF CloseResource
<1>11. QED
  BY <1>1, <1>2, <1>3, <1>4, <1>5, <1>6, <1>7, <1>8, <1>9, <1>10
     DEF OwnerStep

(* So does every call of WaitPending, Drain and Close.                     *)
LEMMA CallTypeOK ==
  ASSUME TypeOK, NEW c \in Calls, CallStep(c)
  PROVE  TypeOK'
<1> USE DEF TypeOK, vars, dispatchVars, releaseVars, barrierVars, callVars,
            CallPcs, CloserPcs, States
<1>1. CASE WaitPending(c)
  BY <1>1 DEF WaitPending
<1>2. CASE WaitPendingStep(c)
  BY <1>2 DEF WaitPendingStep
<1>3. CASE Drain(c)
  BY <1>3 DEF Drain
<1>4. CASE DrainSnapshot(c)
  BY <1>4 DEF DrainSnapshot
<1>5. ASSUME NEW d \in Dispatches, DrainClose(c, d)
      PROVE  TypeOK'
  BY <1>5 DEF DrainClose, StartBoundResourceClose, Resources
<1>6. CASE DrainWait(c)
  BY <1>6 DEF DrainWait
<1>7. CASE Timeout(c)
  BY <1>7 DEF Timeout
<1>8. CASE Close(c)
  BY <1>8 DEF Close
<1>9. CASE CloseReturn(c)
  BY <1>9 DEF CloseReturn
<1>10. QED
  BY <1>1, <1>2, <1>3, <1>4, <1>5, <1>6, <1>7, <1>8, <1>9 DEF CallStep

(* And the body of Close, the supervisor, Home's barriers and the          *)
(* publisher.                                                              *)
LEMMA SharedTypeOK ==
  ASSUME TypeOK,
         \/ CloserStep
         \/ \E s \in Sinks \union {NoSink} : SetReleaseSink(s)
         \/ \E g \in Groups : ReplayRelease(g)
         \/ \E b \in Barriers : ObserveBarrier(b)
         \/ FreezeInFlight
  PROVE  TypeOK'
<1> USE DEF TypeOK, vars, dispatchVars, releaseVars, barrierVars, callVars,
            CloserPcs
<1>1. CASE CloseSnapshot
  BY <1>1 DEF CloseSnapshot
<1>2. ASSUME NEW d \in Dispatches, CloseScope(d)
      PROVE  TypeOK'
  BY <1>2 DEF CloseScope, StartBoundResourceClose, Resources
<1>3. ASSUME NEW d \in Dispatches, CloseScopeDone(d)
      PROVE  TypeOK'
  BY <1>3 DEF CloseScopeDone
<1>4. CASE CloseDone
  BY <1>4 DEF CloseDone
<1>5. ASSUME NEW s \in Sinks \union {NoSink}, SetReleaseSink(s)
      PROVE  TypeOK'
  BY <1>5 DEF SetReleaseSink
<1>6. ASSUME NEW g \in Groups, ReplayRelease(g)
      PROVE  TypeOK'
  BY <1>6, RecordType DEF ReplayRelease
<1>7. ASSUME NEW b \in Barriers, ObserveBarrier(b)
      PROVE  TypeOK'
  BY <1>7, BarrierAssumption DEF ObserveBarrier, Barriers
<1>8. CASE FreezeInFlight
  BY <1>8 DEF FreezeInFlight
<1>9. QED
  BY <1>1, <1>2, <1>3, <1>4, <1>5, <1>6, <1>7, <1>8 DEF CloserStep

(* Every step of the registry keeps the types.                             *)
LEMMA TypeStep ==
  ASSUME TypeOK, [Next]_vars
  PROVE  TypeOK'
<1>1. CASE Next
  BY <1>1, OwnerTypeOK, CallTypeOK, SharedTypeOK DEF Next
<1>2. CASE UNCHANGED vars
  BY <1>2 DEF TypeOK, vars, dispatchVars, releaseVars, barrierVars, callVars
<1>3. QED
  BY <1>1, <1>2

(* The types of registry.go are kept by every behaviour.                   *)
THEOREM TypeCorrect == Spec => []TypeOK
<1>1. Init => TypeOK
  BY BarrierAssumption
     DEF Init, TypeOK, States, Phases, Resources, CallPcs, CloserPcs, Barriers
<1>2. TypeOK /\ [Next]_vars => TypeOK'
  BY TypeStep
<1>3. QED
  BY <1>1, <1>2, PTL DEF Spec

-----------------------------------------------------------------------------
(* The sets of the registry and the phases of the owners agree.            *)

PhaseInv ==
  \A d \in Dispatches :
    /\ d \in pending <=> phase[d] = "pending"
    /\ d \in scopes <=> phase[d] \in {"installed", "ending", "releasing",
                                      "removing"}
    /\ resource[d] \in {"bound", "closing"} =>
         phase[d] \in {"installed", "ending"}

(* startBoundResourceClose makes a bound resource closing and does nothing *)
(* else, whoever calls it.                                                 *)
LEMMA StartCloseResult ==
  ASSUME TypeOK, NEW d \in Dispatches, NEW e \in Dispatches,
         resource' = StartBoundResourceClose(d)
  PROVE  /\ resource[e] = "bound" /\ e = d => resource'[e] = "closing"
         /\ ~(resource[e] = "bound" /\ e = d) => resource'[e] = resource[e]
BY DEF StartBoundResourceClose, TypeOK

(* Calls and the body of Close touch a dispatch only by starting to close  *)
(* its resource (Drain and Close in registry.go).                          *)
LEMMA CallFrame ==
  ASSUME NEW c \in Calls, CallStep(c)
  PROVE  /\ UNCHANGED <<next, pending, scopes, id, phase, group, releaseVars,
                        barrierVars>>
         /\ \/ UNCHANGED resource
            \/ \E d \in Dispatches : /\ DrainClose(c, d)
                                     /\ resource' = StartBoundResourceClose(d)
BY DEF CallStep, WaitPending, WaitPendingStep, Drain, DrainSnapshot,
       DrainClose, DrainWait, Timeout, Close, CloseReturn, dispatchVars

(* Nor does the body of Close, except when it closes a scope (Close).      *)
LEMMA CloserFrame ==
  ASSUME CloserStep
  PROVE  /\ UNCHANGED <<next, pending, scopes, id, phase, group, releaseVars,
                        barrierVars>>
         /\ \/ UNCHANGED resource
            \/ \E d \in Dispatches : /\ CloseScope(d)
                                     /\ resource' = StartBoundResourceClose(d)
BY DEF CloserStep, CloseSnapshot, CloseScope, CloseScopeDone, CloseDone,
       dispatchVars

(* The supervisor, Home's barriers and the publisher touch no dispatch.    *)
LEMMA SharedFrame ==
  ASSUME \/ \E s \in Sinks \union {NoSink} : SetReleaseSink(s)
         \/ \E g \in Groups : ReplayRelease(g)
         \/ \E b \in Barriers : ObserveBarrier(b)
         \/ FreezeInFlight
  PROVE  UNCHANGED <<state, dispatchVars, callVars>>
BY DEF SetReleaseSink, ReplayRelease, ObserveBarrier, FreezeInFlight

(* Every step keeps the sets of the registry and the phases in agreement.  *)
LEMMA PhaseStep ==
  ASSUME TypeOK, PhaseInv, [Next]_vars
  PROVE  PhaseInv'
<1>1. ASSUME UNCHANGED <<pending, scopes, phase, resource>>
      PROVE  PhaseInv'
  BY <1>1 DEF PhaseInv
<1>2. ASSUME NEW d \in Dispatches,
             UNCHANGED <<pending, scopes, phase>>,
             resource' = StartBoundResourceClose(d)
      PROVE  PhaseInv'
  BY <1>2, StartCloseResult DEF PhaseInv
<1>3. ASSUME NEW d \in Dispatches, OwnerStep(d) \/ CloseResource(d)
      PROVE  PhaseInv'
  <2> USE DEF PhaseInv, TypeOK
  <2>1. CASE BeginDispatch(d)
    BY <2>1 DEF BeginDispatch
  <2>2. CASE DropPending(d)
    BY <2>2 DEF DropPending
  <2>3. ASSUME NEW g \in Groups \union {NoGroup}, Install(d, g)
        PROVE  PhaseInv'
    BY <2>3 DEF Install
  <2>4. CASE Bind(d)
    BY <2>4 DEF Bind
  <2>5. CASE EndBegin(d)
    BY <2>5 DEF EndBegin
  <2>6. CASE EndStartClose(d)
    BY <2>6, <1>2 DEF EndStartClose
  <2>7. CASE MarkReleased(d)
    BY <2>7 DEF MarkReleased
  <2>8. CASE Deliver(d)
    BY <2>8 DEF Deliver
  <2>9. CASE RemoveScope(d)
    BY <2>9 DEF RemoveScope
  <2>10. CASE CloseResource(d)
    BY <2>10 DEF CloseResource
  <2>11. QED
    BY <1>3, <2>1, <2>2, <2>3, <2>4, <2>5, <2>6, <2>7, <2>8, <2>9, <2>10
       DEF OwnerStep
<1>4. ASSUME NEW c \in Calls, CallStep(c)
      PROVE  PhaseInv'
  BY <1>4, <1>1, <1>2, CallFrame
<1>5. CASE CloserStep
  BY <1>5, <1>1, <1>2, CloserFrame
<1>6. CASE UNCHANGED vars
  BY <1>6, <1>1 DEF vars, dispatchVars
<1>7. QED
  BY <1>1, <1>3, <1>4, <1>5, <1>6, SharedFrame DEF Next, dispatchVars

(* What the registry holds and where the owners are agree: it counts as    *)
(* pending exactly the dispatches that wait for their answer, has a scope  *)
(* for exactly the executions that are installed or on their way out, and a*)
(* resource in use belongs to one whose slot is not released yet           *)
(* (BeginDispatch, Install, EndWithRelease).                               *)
THEOREM PhaseCorrect == Spec => []PhaseInv
<1>1. Init => PhaseInv
  BY DEF Init, PhaseInv
<1>2. TypeOK /\ PhaseInv /\ [Next]_vars => PhaseInv'
  BY PhaseStep
<1>3. QED
  BY <1>1, <1>2, TypeCorrect, PTL DEF Spec

-----------------------------------------------------------------------------
(* Barriers.  What was pending at barrier b has a sequence number of at    *)
(* most barrierSequence as long as b is not above observedBarrier, so a    *)
(* snapshot that finds no pending number that low may publish it.          *)

BarrierInv ==
  /\ snapshot.barrier <= publishedBarrier
  /\ publishedBarrier <= observedBarrier
  /\ barrierSequence <= next
  /\ \A d \in pending : id[d] <= next
  /\ \A b \in Barriers :
       /\ b > observedBarrier => pendingAt[b] = {}
       /\ \A d \in pendingAt[b] : phase[d] # "new" /\ id[d] <= barrierSequence
       /\ b <= publishedBarrier => pendingAt[b] \intersect pending = {}
  /\ BarrierSound

(* Owners: the only new pending dispatch gets a number above every         *)
(* barrier, and only a pending dispatch becomes a scope.                   *)
LEMMA OwnerBarrierInv ==
  ASSUME TypeOK, PhaseInv, BarrierInv, NEW d \in Dispatches,
         OwnerStep(d) \/ CloseResource(d)
  PROVE  BarrierInv'
<1> USE DEF BarrierInv, BarrierSound, TypeOK, PhaseInv, barrierVars
<1>1. CASE BeginDispatch(d)
  BY <1>1 DEF BeginDispatch
<1>2. CASE DropPending(d)
  BY <1>2 DEF DropPending
<1>3. ASSUME NEW g \in Groups \union {NoGroup}, Install(d, g)
      PROVE  BarrierInv'
  BY <1>3 DEF Install
<1>4. CASE Bind(d)
  BY <1>4 DEF Bind
<1>5. CASE EndBegin(d)
  BY <1>5 DEF EndBegin
<1>6. CASE EndStartClose(d)
  BY <1>6 DEF EndStartClose
<1>7. CASE MarkReleased(d)
  BY <1>7 DEF MarkReleased
<1>8. CASE Deliver(d)
  BY <1>8 DEF Deliver
<1>9. CASE RemoveScope(d)
  BY <1>9 DEF RemoveScope
<1>10. CASE CloseResource(d)
  BY <1>10 DEF CloseResource
<1>11. QED
  BY <1>1, <1>2, <1>3, <1>4, <1>5, <1>6, <1>7, <1>8, <1>9, <1>10
     DEF OwnerStep

(* A snapshot that carries a barrier hides nothing that was dispatched     *)
(* before the barrier was observed, for any number of dispatches and       *)
(* barriers (ObserveBarrier and FreezeInFlight in observation.go).         *)
THEOREM BarriersSound == Spec => []BarrierSound
<1>1. Init => BarrierInv
  BY BarrierAssumption DEF Init, BarrierInv, BarrierSound, Barriers
<1>2. TypeOK /\ PhaseInv /\ BarrierInv /\ [Next]_vars => BarrierInv'
  <2> SUFFICES ASSUME TypeOK, PhaseInv, BarrierInv, [Next]_vars
               PROVE  BarrierInv'
    OBVIOUS
  <2>1. ASSUME UNCHANGED <<next, pending, scopes, id, phase, barrierVars>>
        PROVE  BarrierInv'
    BY <2>1 DEF BarrierInv, BarrierSound, barrierVars
  <2>2. ASSUME NEW b \in Barriers, ObserveBarrier(b)
        PROVE  BarrierInv'
    <3> USE DEF BarrierInv, TypeOK, PhaseInv, ObserveBarrier, dispatchVars,
                Barriers
    <3>1. \A e \in Barriers : e # b => pendingAt'[e] = pendingAt[e]
      BY <2>2
    <3>2. pendingAt'[b] = pending
      BY <2>2
    <3>3. BarrierSound'
      BY <2>2, <3>1, BarrierAssumption DEF BarrierSound
    <3>4. QED
      BY <2>2, <3>1, <3>2, <3>3, BarrierAssumption
  <2>3. CASE FreezeInFlight
    <3> USE DEF BarrierInv, TypeOK, FreezeInFlight, dispatchVars, Barriers
    <3>1. \A b \in Barriers :
            b <= publishedBarrier' => pendingAt[b] \intersect pending = {}
      <4>1. CASE publishedBarrier' = publishedBarrier
        BY <2>3, <4>1
      <4>2. CASE publishedBarrier' # publishedBarrier
        <5>1. ~BarrierBlocked /\ publishedBarrier' = observedBarrier
          BY <2>3, <4>2
        <5>2. \A d \in pending : id[d] > barrierSequence
          BY <5>1 DEF BarrierBlocked
        <5>3. QED
          BY <5>2
      <4>3. QED
        BY <4>1, <4>2
    <3>2. snapshot'.barrier = publishedBarrier' /\ snapshot'.executions = scopes
      BY <2>3
    <3>3. BarrierSound'
      BY <2>3, <3>1, <3>2 DEF BarrierSound
    <3>4. QED
      BY <2>3, <3>1, <3>2, <3>3
  <2>4. ASSUME NEW s \in Sinks \union {NoSink}, SetReleaseSink(s)
        PROVE  BarrierInv'
    BY <2>4, <2>1 DEF SetReleaseSink, dispatchVars
  <2>5. ASSUME NEW g \in Groups, ReplayRelease(g)
        PROVE  BarrierInv'
    BY <2>5, <2>1 DEF ReplayRelease, dispatchVars
  <2>6. CASE UNCHANGED vars
    BY <2>6, <2>1 DEF vars, dispatchVars
  <2>7. QED
    BY <2>1, <2>2, <2>3, <2>4, <2>5, <2>6, OwnerBarrierInv, CallFrame,
       CloserFrame DEF Next
<1>3. BarrierInv => BarrierSound
  BY DEF BarrierInv
<1>4. QED
  BY <1>1, <1>2, <1>3, TypeCorrect, PhaseCorrect, PTL DEF Spec

-----------------------------------------------------------------------------
(* Releases                                                                *)

(* Nothing on its way to a sink is ahead of the registry's own count.      *)
ReleaseInv ==
  /\ \A g \in Groups : replay[g] <= releaseSequences[g]
  /\ \A s \in Sinks, g \in Groups : seen[s][g] <= releaseSequences[g]
  /\ \A d \in Dispatches :
       phase[d] = "releasing" /\ group[d] \in Groups =>
         delivery[d].seq <= releaseSequences[group[d]]
  /\ NoLostRelease

(* The types these proofs rest on, entry by entry.                         *)
LEMMA ReleaseTypes ==
  ASSUME TypeOK
  PROVE  /\ seen \in [Sinks -> [Groups -> Nat]]
         /\ \A g \in Groups : releaseSequences[g] \in Nat /\ replay[g] \in Nat
         /\ \A s \in Sinks, g \in Groups : seen[s][g] \in Nat
         /\ \A d \in Dispatches :
              /\ group[d] \in Groups \union {NoGroup}
              /\ delivery[d].sink \in Sinks \union {NoSink}
              /\ delivery[d].seq \in Nat
BY DEF TypeOK

(* The release is counted and on its way in the same critical section.     *)
LEMMA MarkReleasedKeeps ==
  ASSUME TypeOK, ReleaseInv, NEW d \in Dispatches, MarkReleased(d)
  PROVE  ReleaseInv'
<1>1. /\ UNCHANGED <<releaseSink, replay, seen, group>>
      /\ phase[d] = "ending" /\ phase'[d] = "releasing"
      /\ \A e \in Dispatches : e # d => phase'[e] = phase[e]
  BY DEF MarkReleased, TypeOK
<1>2. CASE group[d] = NoGroup
  <2>1. UNCHANGED <<releaseSequences, delivery>>
    BY <1>2 DEF MarkReleased
  <2>2. NoLostRelease'
    BY <1>1, <2>1 DEF ReleaseInv, NoLostRelease
  <2>3. QED
    BY <1>1, <1>2, <2>1, <2>2, NullAssumption DEF ReleaseInv
<1>3. CASE group[d] \in Groups
  <2>1. /\ releaseSequences'[group[d]] = releaseSequences[group[d]] + 1
        /\ \A h \in Groups :
             h # group[d] => releaseSequences'[h] = releaseSequences[h]
    BY <1>3, NullAssumption DEF MarkReleased, TypeOK
  <2>2. /\ delivery'[d].sink = releaseSink
        /\ delivery'[d].seq = releaseSequences'[group[d]]
        /\ \A e \in Dispatches : e # d => delivery'[e] = delivery[e]
    BY <1>3, <2>1, NullAssumption DEF MarkReleased, TypeOK
  <2>3. \A h \in Groups : /\ releaseSequences'[h] \in Nat
                          /\ releaseSequences[h] <= releaseSequences'[h]
    BY <1>3, <2>1, ReleaseTypes
  <2>4. /\ \A h \in Groups : replay[h] <= releaseSequences'[h]
        /\ \A s \in Sinks, h \in Groups : seen[s][h] <= releaseSequences'[h]
    BY <2>3, ReleaseTypes DEF ReleaseInv
  <2>5. \A e \in Dispatches :
          phase'[e] = "releasing" /\ group[e] \in Groups =>
            delivery'[e].seq <= releaseSequences'[group[e]]
    BY <1>1, <1>3, <2>2, <2>3, ReleaseTypes DEF ReleaseInv
  <2>6. ASSUME NEW s \in Sinks, NEW h \in Groups, s = releaseSink
        PROVE  \/ seen[s][h] = releaseSequences'[h]
               \/ replay[h] = releaseSequences'[h]
               \/ \E e \in Dispatches : /\ phase'[e] = "releasing"
                                        /\ group[e] = h
                                        /\ delivery'[e].sink = s
                                        /\ delivery'[e].seq = releaseSequences'[h]
    <3>1. CASE h = group[d]
      BY <3>1, <2>6, <1>1, <2>2
    <3>2. CASE h # group[d]
      BY <3>2, <2>6, <1>1, <2>1, <2>2 DEF ReleaseInv, NoLostRelease
    <3>3. QED
      BY <3>1, <3>2
  <2>7. NoLostRelease'
    BY <1>1, <2>6 DEF NoLostRelease
  <2>8. QED
    BY <1>1, <2>4, <2>5, <2>7 DEF ReleaseInv
<1>4. QED
  BY <1>2, <1>3, ReleaseTypes

(* The captured release reaches the sink it was captured for.              *)
LEMMA DeliverKeeps ==
  ASSUME TypeOK, ReleaseInv, NEW d \in Dispatches, Deliver(d)
  PROVE  ReleaseInv'
<1>1. /\ UNCHANGED <<releaseSequences, releaseSink, delivery, replay, group>>
      /\ phase[d] = "releasing" /\ phase'[d] = "removing"
      /\ \A e \in Dispatches : e # d => phase'[e] = phase[e]
  BY DEF Deliver, TypeOK
<1>2. CASE UNCHANGED seen /\ (delivery[d].sink = NoSink \/ group[d] \notin Groups)
  <2>1. NoLostRelease'
    BY <1>1, <1>2, NullAssumption DEF ReleaseInv, NoLostRelease
  <2>2. QED
    BY <1>1, <1>2, <2>1 DEF ReleaseInv
<1>3. CASE /\ delivery[d].sink \in Sinks
           /\ group[d] \in Groups
           /\ Record(delivery[d].sink, group[d], delivery[d].seq)
  <2>1. \A s \in Sinks, g \in Groups :
          seen'[s][g] = IF s = delivery[d].sink /\ g = group[d]
                          THEN Larger(seen[s][g], delivery[d].seq)
                          ELSE seen[s][g]
    BY <1>3, ReleaseTypes DEF Record
  <2>2. delivery[d].seq <= releaseSequences[group[d]]
    BY <1>1, <1>3 DEF ReleaseInv
  <2>3. \A s \in Sinks, g \in Groups : seen[s][g] <= releaseSequences[g]
    BY DEF ReleaseInv
  <2>4. ASSUME NEW s \in Sinks, NEW g \in Groups
        PROVE  /\ seen'[s][g] <= releaseSequences[g]
               /\ seen[s][g] = releaseSequences[g] =>
                    seen'[s][g] = releaseSequences[g]
               /\ (/\ s = delivery[d].sink
                   /\ g = group[d]
                   /\ delivery[d].seq = releaseSequences[g])
                    => seen'[s][g] = releaseSequences[g]
    <3>1. /\ seen[s][g] \in Nat
          /\ delivery[d].seq \in Nat
          /\ releaseSequences[g] \in Nat
          /\ seen[s][g] <= releaseSequences[g]
      BY <2>3, ReleaseTypes
    <3>2. CASE s = delivery[d].sink /\ g = group[d]
      <4>1. seen'[s][g] = Larger(seen[s][g], delivery[d].seq)
        BY <3>2, <2>1
      <4>2. delivery[d].seq <= releaseSequences[g]
        BY <3>2, <2>2
      <4>3. QED
        BY <3>1, <4>1, <4>2 DEF Larger
    <3>3. CASE ~(s = delivery[d].sink /\ g = group[d])
      <4>1. seen'[s][g] = seen[s][g]
        BY <3>3, <2>1
      <4>2. QED
        BY <3>1, <3>3, <4>1
    <3>4. QED
      BY <3>2, <3>3
  <2>5. ASSUME NEW s \in Sinks, NEW g \in Groups, s = releaseSink
        PROVE  \/ seen'[s][g] = releaseSequences[g]
               \/ replay[g] = releaseSequences[g]
               \/ \E e \in Dispatches : /\ phase'[e] = "releasing"
                                        /\ group[e] = g
                                        /\ delivery[e].sink = s
                                        /\ delivery[e].seq = releaseSequences[g]
    <3>1. CASE seen[s][g] = releaseSequences[g] \/ replay[g] = releaseSequences[g]
      BY <3>1, <2>4
    <3>2. ASSUME NEW e \in Dispatches,
                 phase[e] = "releasing", group[e] = g, delivery[e].sink = s,
                 delivery[e].seq = releaseSequences[g], e = d
          PROVE  seen'[s][g] = releaseSequences[g]
      BY <3>2, <2>4
    <3>3. QED
      BY <1>1, <2>5, <3>1, <3>2 DEF ReleaseInv, NoLostRelease
  <2>6. NoLostRelease'
    BY <1>1, <2>5 DEF NoLostRelease
  <2>7. QED
    BY <1>1, <2>4, <2>6 DEF ReleaseInv
<1>4. QED
  <2>1. group[d] \notin Groups /\ delivery[d].sink # NoSink => UNCHANGED seen
    <3>1. ASSUME delivery[d].sink \in Sinks, group[d] \notin Groups
          PROVE  UNCHANGED seen
      BY <3>1, ReleaseTypes DEF Deliver, Record
    <3>2. QED
      BY <3>1, ReleaseTypes
  <2>2. QED
    BY <1>2, <1>3, <2>1, ReleaseTypes DEF Deliver

(* A replayed release reaches the sink that is installed.                  *)
LEMMA ReplayKeeps ==
  ASSUME TypeOK, ReleaseInv, NEW g \in Groups, ReplayRelease(g)
  PROVE  ReleaseInv'
<1>1. /\ UNCHANGED <<releaseSequences, releaseSink, delivery, phase, group>>
      /\ replay'[g] = 0
      /\ \A h \in Groups : h # g => replay'[h] = replay[h]
  BY DEF ReplayRelease, TypeOK, dispatchVars
<1>2. \A s \in Sinks, h \in Groups :
        seen'[s][h] = IF s = releaseSink /\ h = g
                        THEN Larger(seen[s][h], replay[g])
                        ELSE seen[s][h]
  BY ReleaseTypes DEF ReplayRelease, Record
<1>3. /\ \A h \in Groups : replay[h] <= releaseSequences[h]
      /\ \A s \in Sinks, h \in Groups : seen[s][h] <= releaseSequences[h]
  BY DEF ReleaseInv
<1>4. \A s \in Sinks, h \in Groups :
        /\ seen'[s][h] <= releaseSequences[h]
        /\ s = releaseSink /\ h = g /\ replay[g] = releaseSequences[g] =>
             seen'[s][h] = releaseSequences[h]
        /\ seen[s][h] = releaseSequences[h] =>
             seen'[s][h] = releaseSequences[h]
  BY <1>2, <1>3, ReleaseTypes, SMTT(30) DEF Larger
<1>5. \A h \in Groups : replay'[h] <= releaseSequences[h]
  BY <1>1, <1>3, ReleaseTypes
<1>6. NoLostRelease'
  BY <1>1, <1>4 DEF ReleaseInv, NoLostRelease
<1>7. QED
  BY <1>1, <1>4, <1>5, <1>6 DEF ReleaseInv

(* Every step keeps the account of the releases on their way to the sink.  *)
LEMMA ReleaseStep ==
  ASSUME TypeOK, PhaseInv, ReleaseInv, [Next]_vars
  PROVE  ReleaseInv'
<1>1. ASSUME UNCHANGED <<releaseVars, group>>,
             \A d \in Dispatches :
               phase'[d] = "releasing" <=> phase[d] = "releasing"
      PROVE  ReleaseInv'
  BY <1>1 DEF ReleaseInv, NoLostRelease, releaseVars
<1>2. ASSUME NEW d \in Dispatches, OwnerStep(d) \/ CloseResource(d)
      PROVE  ReleaseInv'
  <2> USE DEF TypeOK
  <2>1. CASE BeginDispatch(d)
    BY <2>1, <1>1 DEF BeginDispatch
  <2>2. CASE DropPending(d)
    BY <2>2, <1>1 DEF DropPending
  <2>3. ASSUME NEW g \in Groups \union {NoGroup}, Install(d, g)
        PROVE  ReleaseInv'
    <3>1. \A e \in Dispatches :
            /\ phase'[e] = "releasing" <=> phase[e] = "releasing"
            /\ phase[e] = "releasing" => group'[e] = group[e]
      BY <2>3 DEF Install
    <3>2. QED
      BY <2>3, <3>1 DEF Install, ReleaseInv, NoLostRelease, releaseVars
  <2>4. CASE Bind(d)
    BY <2>4, <1>1 DEF Bind
  <2>5. CASE EndBegin(d)
    BY <2>5, <1>1 DEF EndBegin
  <2>6. CASE EndStartClose(d)
    BY <2>6, <1>1 DEF EndStartClose
  <2>7. CASE RemoveScope(d)
    BY <2>7, <1>1 DEF RemoveScope
  <2>8. CASE CloseResource(d)
    BY <2>8, <1>1 DEF CloseResource
  <2>9. QED
    BY <1>2, <2>1, <2>2, <2>3, <2>4, <2>5, <2>6, <2>7, <2>8,
       MarkReleasedKeeps, DeliverKeeps DEF OwnerStep
<1>3. ASSUME NEW s \in Sinks \union {NoSink}, SetReleaseSink(s)
      PROVE  ReleaseInv'
  BY <1>3, NullAssumption
     DEF SetReleaseSink, ReleaseInv, NoLostRelease, TypeOK, dispatchVars
<1>4. CASE FreezeInFlight \/ \E b \in Barriers : ObserveBarrier(b)
  BY <1>4, <1>1 DEF FreezeInFlight, ObserveBarrier, dispatchVars
<1>5. CASE UNCHANGED vars
  BY <1>5, <1>1 DEF vars, dispatchVars
<1>6. QED
  BY <1>1, <1>2, <1>3, <1>4, <1>5, ReplayKeeps, CallFrame, CloserFrame
     DEF Next

(* The sink in force has the latest release of every group, or a call that *)
(* carries it is still to come (SetReleaseSink, EndWithRelease).           *)
THEOREM ReleasesReachSink == Spec => []NoLostRelease
<1>1. Init => ReleaseInv
  BY NullAssumption DEF Init, ReleaseInv, NoLostRelease
<1>2. TypeOK /\ PhaseInv /\ ReleaseInv /\ [Next]_vars => ReleaseInv'
  BY ReleaseStep
<1>3. ReleaseInv => NoLostRelease
  BY DEF ReleaseInv
<1>4. QED
  BY <1>1, <1>2, <1>3, TypeCorrect, PhaseCorrect, PTL DEF Spec

(* An unaccounted or unresolved dispatch is in no group.                   *)
CountInv ==
  /\ \A d \in Dispatches : phase[d] \in {"new", "pending"} => group[d] = NoGroup
  /\ \A g \in Groups : releaseSequences[g] = Cardinality(Released(g))

(* The one step that counts a release is the one that makes the execution  *)
(* a released one (markReleasedLocked).                                    *)
LEMMA MarkReleasedCounts ==
  ASSUME TypeOK, CountInv, NEW d \in Dispatches, MarkReleased(d)
  PROVE  CountInv'
<1>1. /\ UNCHANGED group
      /\ phase[d] = "ending" /\ phase'[d] = "releasing"
      /\ \A e \in Dispatches : e # d => phase'[e] = phase[e]
  BY DEF MarkReleased, TypeOK
<1>2. ASSUME NEW g \in Groups
      PROVE  releaseSequences'[g] = Cardinality(Released(g)')
  <2>1. CASE group[d] # g
    <3>1. Released(g)' = Released(g)
      BY <1>1, <2>1 DEF Released
    <3>2. releaseSequences'[g] = releaseSequences[g]
      BY <2>1 DEF MarkReleased, TypeOK
    <3>3. QED
      BY <3>1, <3>2 DEF CountInv
  <2>2. CASE group[d] = g
    <3>1. Released(g)' = Released(g) \union {d} /\ d \notin Released(g)
      BY <1>1, <2>2 DEF Released
    <3>2. IsFiniteSet(Released(g))
      BY FS_Subset, DispatchAssumption DEF Released
    <3>3. Cardinality(Released(g)') = Cardinality(Released(g)) + 1
      BY <3>1, <3>2, FS_AddElement
    <3>4. releaseSequences'[g] = releaseSequences[g] + 1
      BY <2>2, NullAssumption DEF MarkReleased, TypeOK
    <3>5. QED
      BY <3>3, <3>4 DEF CountInv
  <2>3. QED
    BY <2>1, <2>2
<1>3. QED
  BY <1>1, <1>2 DEF CountInv

(* The cumulative sequence of a group is the number of its released        *)
(* executions, and none of them has a resource left in use (EndWithRelease *)
(* against Drain, Close and the goroutine that closes the resource).       *)
THEOREM ReleasesAfterClose == Spec => []ReleaseAfterClose
<1>1. Init => CountInv
  <2> SUFFICES ASSUME Init PROVE CountInv
    OBVIOUS
  <2>1. \A g \in Groups : Released(g) = {}
    BY DEF Init, Released
  <2>2. QED
    BY <2>1, FS_EmptySet DEF Init, CountInv
<1>2. TypeOK /\ CountInv /\ [Next]_vars => CountInv'
  <2> SUFFICES ASSUME TypeOK, CountInv, [Next]_vars PROVE CountInv'
    OBVIOUS
  <2>1. ASSUME UNCHANGED releaseSequences,
               \A d \in Dispatches :
                 /\ phase'[d] \in {"new", "pending"} => group'[d] = NoGroup
                 /\ \A g \in Groups :
                      /\ group'[d] = g
                      /\ phase'[d] \in {"releasing", "removing", "ended"}
                    <=>
                      /\ group[d] = g
                      /\ phase[d] \in {"releasing", "removing", "ended"}
        PROVE  CountInv'
    <3>1. \A g \in Groups : Released(g)' = Released(g)
      BY <2>1 DEF Released
    <3>2. QED
      BY <2>1, <3>1 DEF CountInv
  <2>2. ASSUME UNCHANGED <<releaseSequences, phase, group>>
        PROVE  CountInv'
    BY <2>2, <2>1 DEF CountInv
  <2>3. ASSUME NEW d \in Dispatches, OwnerStep(d) \/ CloseResource(d)
        PROVE  CountInv'
    <3> USE DEF TypeOK, CountInv, releaseVars
    <3>1. CASE BeginDispatch(d)
      BY <3>1, <2>1 DEF BeginDispatch
    <3>2. CASE DropPending(d)
      BY <3>2, <2>1, NullAssumption DEF DropPending
    <3>3. ASSUME NEW g \in Groups \union {NoGroup}, Install(d, g)
          PROVE  CountInv'
      BY <3>3, <2>1, NullAssumption DEF Install
    <3>4. CASE EndBegin(d)
      BY <3>4, <2>1 DEF EndBegin
    <3>5. CASE Bind(d) \/ EndStartClose(d) \/ CloseResource(d)
      BY <3>5, <2>2 DEF Bind, EndStartClose, CloseResource
    <3>6. CASE Deliver(d)
      BY <3>6, <2>1 DEF Deliver
    <3>7. CASE RemoveScope(d)
      BY <3>7, <2>1 DEF RemoveScope
    <3>8. QED
      BY <2>3, <3>1, <3>2, <3>3, <3>4, <3>5, <3>6, <3>7, MarkReleasedCounts
         DEF OwnerStep
  <2>4. ASSUME \/ \E s \in Sinks \union {NoSink} : SetReleaseSink(s)
               \/ \E g \in Groups : ReplayRelease(g)
               \/ FreezeInFlight
               \/ \E b \in Barriers : ObserveBarrier(b)
        PROVE  CountInv'
    BY <2>4, <2>2 DEF SetReleaseSink, ReplayRelease, FreezeInFlight,
                      ObserveBarrier, dispatchVars, releaseVars
  <2>5. CASE UNCHANGED vars
    BY <2>5, <2>2 DEF vars, dispatchVars, releaseVars
  <2>6. QED
    BY <2>2, <2>3, <2>4, <2>5, CallFrame, CloserFrame DEF Next, releaseVars
<1>3. TypeOK /\ PhaseInv /\ CountInv => ReleaseAfterClose
  BY DEF TypeOK, PhaseInv, CountInv, ReleaseAfterClose, Released, Resources
<1>4. QED
  BY <1>1, <1>2, <1>3, TypeCorrect, PhaseCorrect, PTL DEF Spec

-----------------------------------------------------------------------------
(* Shutdown                                                                *)

(* No resource is bound or closing.                                        *)
Quiescent == \A d \in Dispatches : resource[d] \in {"none", "closed"}

(* What the two ways to the closed state leave: a Drain closes an empty    *)
(* registry; the body of Close works through every resource still in use.  *)
CloserInv ==
  /\ closer # "idle" => state = "closed"
  /\ state = "closed" /\ closer = "idle" => pending = {} /\ scopes = {}
  /\ closer = "scopes" =>
       \A d \in Dispatches :
         resource[d] \in {"bound", "closing"} => d \in closeTodo \union closeAt
  /\ closer = "done" => Quiescent
  /\ \A d, e \in closeAt : d = e

CallInv ==
  \A c \in Calls :
    /\ c \in parked => call[c] \in {"waitPending", "drainWait"}
    /\ call[c] = "drained" => state = "closed" /\ pending = {} /\ scopes = {}
    /\ call[c] = "closed" => state = "closed" /\ Quiescent

ShutdownInv == CloserInv /\ CallInv /\ NoOrphanResource

(* Owners: once the registry stopped accepting nothing new is dispatched,  *)
(* installed or bound, and a resource in use leaves only by being closed.  *)
LEMMA OwnerShutdownInv ==
  ASSUME TypeOK, PhaseInv, ShutdownInv, NEW d \in Dispatches,
         OwnerStep(d) \/ CloseResource(d)
  PROVE  ShutdownInv'
<1> USE DEF ShutdownInv, CloserInv, CallInv, NoOrphanResource, WillClose,
            Quiescent, TypeOK, PhaseInv, callVars
<1>1. CASE BeginDispatch(d)
  BY <1>1 DEF BeginDispatch
<1>2. CASE DropPending(d)
  BY <1>2 DEF DropPending, SignalLocked
<1>3. ASSUME NEW g \in Groups \union {NoGroup}, Install(d, g)
      PROVE  ShutdownInv'
  BY <1>3 DEF Install, SignalLocked
<1>4. CASE Bind(d)
  BY <1>4 DEF Bind
<1>5. CASE EndBegin(d)
  BY <1>5 DEF EndBegin
<1>6. CASE EndStartClose(d)
  BY <1>6 DEF EndStartClose, StartBoundResourceClose
<1>7. CASE MarkReleased(d)
  BY <1>7 DEF MarkReleased
<1>8. CASE Deliver(d)
  BY <1>8 DEF Deliver
<1>9. CASE RemoveScope(d)
  BY <1>9 DEF RemoveScope, SignalLocked
<1>10. CASE CloseResource(d)
  BY <1>10 DEF CloseResource
<1>11. QED
  BY <1>1, <1>2, <1>3, <1>4, <1>5, <1>6, <1>7, <1>8, <1>9, <1>10
     DEF OwnerStep

(* Calls: Drain keeps every bound resource on some list until it closes.   *)
LEMMA CallShutdownInv ==
  ASSUME TypeOK, PhaseInv, ShutdownInv, NEW c \in Calls, CallStep(c)
  PROVE  ShutdownInv'
<1> USE DEF ShutdownInv, CloserInv, CallInv, NoOrphanResource, WillClose,
            Quiescent, TypeOK, PhaseInv, dispatchVars
<1>1. CASE WaitPending(c)
  BY <1>1 DEF WaitPending
<1>2. CASE WaitPendingStep(c)
  BY <1>2 DEF WaitPendingStep
<1>3. CASE Drain(c)
  BY <1>3 DEF Drain
<1>4. CASE DrainSnapshot(c)
  BY <1>4 DEF DrainSnapshot
<1>5. ASSUME NEW d \in Dispatches, DrainClose(c, d)
      PROVE  ShutdownInv'
  BY <1>5 DEF DrainClose, StartBoundResourceClose
<1>6. CASE DrainWait(c)
  BY <1>6 DEF DrainWait
<1>7. CASE Timeout(c)
  BY <1>7 DEF Timeout
<1>8. CASE Close(c)
  <2>1. closer = "idle" /\ state = "closed" => Quiescent
    BY DEF Resources
  <2>2. call[c] = "new" /\ \A e \in Calls \ {c} : call'[e] = call[e]
    BY <1>8 DEF Close
  <2>3. CASE closer = "idle" /\ state = "closed"
    BY <1>8, <2>1, <2>2, <2>3 DEF Close
  <2>4. CASE closer = "idle" /\ state # "closed"
    BY <1>8, <2>2, <2>4 DEF Close
  <2>5. CASE closer # "idle"
    <3>1. CallInv'
      BY <1>8, <2>2, <2>5 DEF Close
    <3>2. CloserInv'
      BY <1>8, <2>5 DEF Close
    <3>3. NoOrphanResource'
      BY <1>8, <2>2, <2>5 DEF Close
    <3>4. QED
      BY <3>1, <3>2, <3>3
  <2>6. QED
    BY <2>3, <2>4, <2>5
<1>9. CASE CloseReturn(c)
  BY <1>9 DEF CloseReturn
<1>10. QED
  BY <1>1, <1>2, <1>3, <1>4, <1>5, <1>6, <1>7, <1>8, <1>9 DEF CallStep

(* The body of Close.                                                      *)
LEMMA CloserShutdownInv ==
  ASSUME TypeOK, PhaseInv, ShutdownInv, CloserStep
  PROVE  ShutdownInv'
<1> USE DEF ShutdownInv, CloserInv, CallInv, NoOrphanResource, WillClose,
            Quiescent, TypeOK, PhaseInv, dispatchVars
<1>1. CASE CloseSnapshot
  BY <1>1 DEF CloseSnapshot
<1>2. ASSUME NEW d \in Dispatches, CloseScope(d)
      PROVE  ShutdownInv'
  BY <1>2 DEF CloseScope, StartBoundResourceClose
<1>3. ASSUME NEW d \in Dispatches, CloseScopeDone(d)
      PROVE  ShutdownInv'
  BY <1>3 DEF CloseScopeDone
<1>4. CASE CloseDone
  BY <1>4 DEF CloseDone, Resources
<1>5. QED
  BY <1>1, <1>2, <1>3, <1>4 DEF CloserStep

(* Bound resources stay on a list that closes them (Bind, Drain, Close), as*)
(* the lemmas on owners, calls and the body of Close establish.            *)
LEMMA ShutdownCorrect == Spec => []ShutdownInv
<1>1. Init => ShutdownInv
  BY DEF Init, ShutdownInv, CloserInv, CallInv, NoOrphanResource
<1>2. TypeOK /\ PhaseInv /\ ShutdownInv /\ [Next]_vars => ShutdownInv'
  <2> SUFFICES ASSUME TypeOK, PhaseInv, ShutdownInv, [Next]_vars
               PROVE  ShutdownInv'
    OBVIOUS
  <2>1. ASSUME UNCHANGED <<state, dispatchVars, callVars>>
        PROVE  ShutdownInv'
    BY <2>1 DEF ShutdownInv, CloserInv, CallInv, NoOrphanResource, WillClose,
                Quiescent, dispatchVars, callVars
  <2>2. CASE UNCHANGED vars
    BY <2>2, <2>1 DEF vars
  <2>3. QED
    BY <2>1, <2>2, OwnerShutdownInv, CallShutdownInv, CloserShutdownInv,
       SharedFrame DEF Next
<1>3. QED
  BY <1>1, <1>2, TypeCorrect, PhaseCorrect, PTL DEF Spec

(* A resource in use is always on a list that Drain, Close or the end of   *)
(* its execution works through (Bind, Drain, Close in registry.go).        *)
THEOREM NoResourceOrphaned == Spec => []NoOrphanResource
<1>1. ShutdownInv => NoOrphanResource
  BY DEF ShutdownInv
<1>2. QED
  BY <1>1, ShutdownCorrect, PTL

(* After Drain returned nil no execution is left and none comes; after     *)
(* Close returned no resource is in use and none will be.                  *)
THEOREM ShutdownIsComplete == Spec => []ShutdownComplete
<1>1. ShutdownInv => ShutdownComplete
  BY DEF ShutdownInv, CallInv, Quiescent, ShutdownComplete
<1>2. QED
  BY <1>1, ShutdownCorrect, PTL

=============================================================================
