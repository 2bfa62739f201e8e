------------------------- MODULE ExecutionRegistry -------------------------
(***************************************************************************)
(* The execution registry of one Home subscriber lifetime                  *)
(* (sdk/cliproxy/executionregistry): it reserves a token before a          *)
(* credential is asked of Home, turns the token into a scope when Home     *)
(* answers, closes the scope's resource and counts a release when the      *)
(* execution ends, and lets a supervisor drain or close everything.        *)
(*                                                                         *)
(* One action is one critical section of Registry.mu or Scope.mu, or one   *)
(* call made outside the locks.  The lifecycle state is an atomic word     *)
(* written outside Registry.mu; every writer takes Registry.mu right after *)
(* the write, so a section that read the old state commutes to before the  *)
(* write and is one step here.                                             *)
(*                                                                         *)
(* A dispatch has one owner, the request's goroutine, so the state of      *)
(* PendingDispatch.once, Scope.active and Scope.ended is its phase.        *)
(***************************************************************************)
EXTENDS Integers, FiniteSets

CONSTANTS Dispatches,   \* calls of BeginDispatch that succeed in the lifetime
          Groups,       \* release groups: credential and model
          NoGroup,      \* the group of an execution that is not accounted
          Sinks,        \* release sinks that SetReleaseSink installs
          NoSink,       \* the nil sink
          Calls,        \* calls of WaitPending, Drain and Close
          MaxBarrier    \* Home's barrier revisions are 1..MaxBarrier

ASSUME NullAssumption == NoGroup \notin Groups /\ NoSink \notin Sinks
ASSUME BarrierAssumption == MaxBarrier \in Nat
ASSUME DispatchAssumption == IsFiniteSet(Dispatches)

VARIABLES
  state,            \* accepting, draining or closed
  next,             \* the last sequence number given to a dispatch
  pending,          \* dispatches whose Home answer is not resolved
  scopes,           \* installed executions
  id,               \* the sequence number of a dispatch, 0 before it has one
  phase,            \* where the owner of a dispatch is
  group,            \* the group a scope is accounted to, or NoGroup
  resource,         \* none, bound (closeFn), closing or closed (closeDone)
  releaseSequences, \* cumulative releases of a group
  releaseSink,      \* the sink a release is sent to
  delivery,         \* what an ending scope captured under the lock to send
  replay,           \* sequences SetReleaseSink has still to replay, 0 if none
  seen,             \* what the code of a sink has recorded (the maximum)
  observedBarrier,  \* Home's latest barrier
  barrierSequence,  \* value of next when that barrier was observed
  publishedBarrier, \* latest barrier a snapshot may carry
  snapshot,         \* the last snapshot: its barrier and its executions
  pendingAt,        \* history: what was pending when a barrier was observed
  call,             \* where a call of WaitPending, Drain or Close is
  todo,             \* scopes a Drain has still to start closing
  parked,           \* calls asleep on the current channel `changed`
  closer,           \* where the body of Close, run at most once, is
  closeTodo,        \* scopes the body of Close has still to close
  closeAt           \* the scope whose close it is waiting for, if any

dispatchVars == <<next, pending, scopes, id, phase, group, resource>>
releaseVars  == <<releaseSequences, releaseSink, delivery, replay, seen>>
barrierVars  == <<observedBarrier, barrierSequence, publishedBarrier,
                  snapshot, pendingAt>>
callVars     == <<call, todo, parked, closer, closeTodo,
                  closeAt>>
vars == <<state, dispatchVars, releaseVars, barrierVars, callVars>>

States    == {"accepting", "draining", "closed"}
Phases    == {"new", "pending", "installed", "ending", "releasing",
              "removing", "ended"}
Resources == {"none", "bound", "closing", "closed"}
CallPcs   == {"new", "waitPending", "drainSnapshot", "drainClose",
              "drainWait", "closeJoin",
              "clear", "drained", "closed", "timeout", "refused"}
CloserPcs == {"idle", "snapshot", "scopes", "done"}
Barriers  == 1 .. MaxBarrier

(* Sequence numbers only grow, so a sink that keeps the latest of a group  *)
(* keeps the largest.                                                      *)
Larger(m, n) == IF m < n THEN n ELSE m

Init ==
  /\ state = "accepting"
  /\ next = 0
  /\ pending = {}
  /\ scopes = {}
  /\ id = [d \in Dispatches |-> 0]
  /\ phase = [d \in Dispatches |-> "new"]
  /\ group = [d \in Dispatches |-> NoGroup]
  /\ resource = [d \in Dispatches |-> "none"]
  /\ releaseSequences = [g \in Groups |-> 0]
  /\ releaseSink = NoSink
  /\ delivery = [d \in Dispatches |-> [sink |-> NoSink, seq |-> 0]]
  /\ replay = [g \in Groups |-> 0]
  /\ seen = [s \in Sinks |-> [g \in Groups |-> 0]]
  /\ observedBarrier = 0
  /\ barrierSequence = 0
  /\ publishedBarrier = 0
  /\ snapshot = [barrier |-> 0, executions |-> {}]
  /\ pendingAt = [b \in Barriers |-> {}]
  /\ call = [c \in Calls |-> "new"]
  /\ todo = [c \in Calls |-> {}]
  /\ parked = {}
  /\ closer = "idle"
  /\ closeTodo = {}
  /\ closeAt = {}

(* close(r.changed) and a fresh channel: every sleeper is woken.           *)
SignalLocked == parked' = {}

-----------------------------------------------------------------------------
(* The owner of a dispatch                                                 *)

BeginDispatch(d) ==
  /\ phase[d] = "new"
  /\ state = "accepting"
  /\ next' = next + 1
  /\ id' = [id EXCEPT ![d] = next + 1]
  /\ pending' = pending \union {d}
  /\ phase' = [phase EXCEPT ![d] = "pending"]
  /\ UNCHANGED <<state, scopes, group, resource, releaseVars, barrierVars,
                 callVars>>

(* PendingDispatch.End, and Install when the registry stopped accepting:   *)
(* both spend the token and leave no scope.                                *)
DropPending(d) ==
  /\ phase[d] = "pending"
  /\ pending' = pending \ {d}
  /\ phase' = [phase EXCEPT ![d] = "ended"]
  /\ SignalLocked
  /\ UNCHANGED <<state, next, scopes, id, group, resource, releaseVars,
                 barrierVars, call, todo, closer, closeTodo, closeAt>>

Install(d, g) ==
  /\ phase[d] = "pending"
  /\ state = "accepting"
  /\ pending' = pending \ {d}
  /\ scopes' = scopes \union {d}
  /\ group' = [group EXCEPT ![d] = g]
  /\ phase' = [phase EXCEPT ![d] = "installed"]
  /\ SignalLocked
  /\ UNCHANGED <<state, next, id, resource, releaseVars, barrierVars,
                 call, todo, closer, closeTodo, closeAt>>

(* Mutant of Bind: the registry's state is not checked.                    *)
BindWhileClosing(d) ==
  /\ phase[d] = "installed"
  /\ resource[d] = "none"
  /\ resource' = [resource EXCEPT ![d] = "bound"]
  /\ UNCHANGED <<state, next, pending, scopes, id, phase, group, releaseVars,
                 barrierVars, callVars>>

(* Bind holds both locks.  A scope takes one resource, and none once it is *)
(* ending or the registry stopped accepting (the caller then closes the    *)
(* resource itself and ends the scope).                                    *)
Bind(d) ==
  /\ phase[d] = "installed"
  /\ state = "accepting"
  /\ resource[d] = "none"
  /\ resource' = [resource EXCEPT ![d] = "bound"]
  /\ UNCHANGED <<state, next, pending, scopes, id, phase, group, releaseVars,
                 barrierVars, callVars>>

(* The result of startBoundResourceClose on a scope: only a resource that  *)
(* is bound and not yet closing starts to close.                           *)
StartBoundResourceClose(d) ==
  IF resource[d] = "bound" THEN [resource EXCEPT ![d] = "closing"]
                           ELSE resource

(* The goroutine startBoundResourceClose leaves: closeFn, then closeDone.  *)
CloseResource(d) ==
  /\ resource[d] = "closing"
  /\ resource' = [resource EXCEPT ![d] = "closed"]
  /\ UNCHANGED <<state, next, pending, scopes, id, phase, group, releaseVars,
                 barrierVars, callVars>>

(* EndWithRelease, first critical section: the scope is inactive.          *)
EndBegin(d) ==
  /\ phase[d] = "installed"
  /\ phase' = [phase EXCEPT ![d] = "ending"]
  /\ UNCHANGED <<state, next, pending, scopes, id, group, resource,
                 releaseVars, barrierVars, callVars>>

(* EndWithRelease: waitForBoundResourceClose starts the close ...          *)
EndStartClose(d) ==
  /\ phase[d] = "ending"
  /\ resource[d] = "bound"
  /\ resource' = StartBoundResourceClose(d)
  /\ UNCHANGED <<state, next, pending, scopes, id, phase, group, releaseVars,
                 barrierVars, callVars>>

(* Mutant of MarkReleased: the close is started but not waited for.        *)
MarkReleasedEarly(d) ==
  /\ phase[d] = "ending"
  /\ resource[d] # "bound"
  /\ phase' = [phase EXCEPT ![d] = "releasing"]
  /\ IF group[d] = NoGroup
       THEN UNCHANGED <<releaseSequences, delivery>>
       ELSE /\ releaseSequences' =
                 [releaseSequences EXCEPT ![group[d]] = @ + 1]
            /\ delivery' =
                 [delivery EXCEPT ![d] =
                    [sink |-> releaseSink,
                     seq  |-> releaseSequences[group[d]] + 1]]
  /\ UNCHANGED <<state, next, pending, scopes, id, group, resource,
                 releaseSink, replay, seen, barrierVars, callVars>>

(* Mutant of MarkReleased: the scope leaves the registry with the count,   *)
(* before the sink is called.                                              *)
MarkReleasedAndRemoved(d) ==
  /\ phase[d] = "ending"
  /\ resource[d] \in {"none", "closed"}
  /\ phase' = [phase EXCEPT ![d] = "releasing"]
  /\ scopes' = scopes \ {d}
  /\ SignalLocked
  /\ IF group[d] = NoGroup
       THEN UNCHANGED <<releaseSequences, delivery>>
       ELSE /\ releaseSequences' =
                 [releaseSequences EXCEPT ![group[d]] = @ + 1]
            /\ delivery' =
                 [delivery EXCEPT ![d] =
                    [sink |-> releaseSink,
                     seq  |-> releaseSequences[group[d]] + 1]]
  /\ UNCHANGED <<state, next, pending, id, group, resource, releaseSink,
                 replay, seen, barrierVars, call, todo, closer, closeTodo,
                 closeAt>>

(* ... and returns when nothing was bound or the close is done, and then   *)
(* the release is counted and the sink captured under Registry.mu.         *)
MarkReleased(d) ==
  /\ phase[d] = "ending"
  /\ resource[d] \in {"none", "closed"}
  /\ phase' = [phase EXCEPT ![d] = "releasing"]
  /\ IF group[d] = NoGroup
       THEN UNCHANGED <<releaseSequences, delivery>>
       ELSE /\ releaseSequences' =
                 [releaseSequences EXCEPT ![group[d]] = @ + 1]
            /\ delivery' =
                 [delivery EXCEPT ![d] =
                    [sink |-> releaseSink,
                     seq  |-> releaseSequences[group[d]] + 1]]
  /\ UNCHANGED <<state, next, pending, scopes, id, group, resource,
                 releaseSink, replay, seen, barrierVars, callVars>>

Record(s, g, n) == seen' = [seen EXCEPT ![s][g] = Larger(@, n)]

(* The captured sink is called with no lock held: another release of the   *)
(* group, or a new sink, may have come in between.                         *)
Deliver(d) ==
  /\ phase[d] = "releasing"
  /\ phase' = [phase EXCEPT ![d] = "removing"]
  /\ IF delivery[d].sink = NoSink
       THEN UNCHANGED seen
       ELSE Record(delivery[d].sink, group[d], delivery[d].seq)
  /\ UNCHANGED <<state, next, pending, scopes, id, group, resource,
                 releaseSequences, releaseSink, delivery, replay,
                 barrierVars, callVars>>

(* Mutant of RemoveScope: the waiters are not signalled.                   *)
RemoveScopeSilently(d) ==
  /\ phase[d] = "removing"
  /\ scopes' = scopes \ {d}
  /\ phase' = [phase EXCEPT ![d] = "ended"]
  /\ UNCHANGED <<state, next, pending, id, group, resource, releaseVars,
                 barrierVars, callVars>>

RemoveScope(d) ==
  /\ phase[d] = "removing"
  /\ scopes' = scopes \ {d}
  /\ phase' = [phase EXCEPT ![d] = "ended"]
  /\ SignalLocked
  /\ UNCHANGED <<state, next, pending, id, group, resource, releaseVars,
                 barrierVars, call, todo, closer, closeTodo, closeAt>>

-----------------------------------------------------------------------------
(* The supervisor replaces the sink and replays every group to the new one *)
(* outside the lock; it is one goroutine, so it does not replace a sink    *)
(* while it replays.                                                       *)

(* Mutant of SetReleaseSink: nothing is replayed to the new sink.          *)
SetReleaseSinkWithoutReplay(s) ==
  /\ \A g \in Groups : replay[g] = 0
  /\ releaseSink' = s
  /\ UNCHANGED <<state, dispatchVars, releaseSequences, delivery, replay,
                 seen, barrierVars, callVars>>

SetReleaseSink(s) ==
  /\ \A g \in Groups : replay[g] = 0
  /\ releaseSink' = s
  /\ replay' = IF s = NoSink THEN replay ELSE releaseSequences
  /\ UNCHANGED <<state, dispatchVars, releaseSequences, delivery, seen,
                 barrierVars, callVars>>

ReplayRelease(g) ==
  /\ replay[g] > 0
  /\ Record(releaseSink, g, replay[g])
  /\ replay' = [replay EXCEPT ![g] = 0]
  /\ UNCHANGED <<state, dispatchVars, releaseSequences, releaseSink,
                 delivery, barrierVars, callVars>>

-----------------------------------------------------------------------------
(* Home's observation barrier and the in-flight snapshot                   *)

(* Mutant of ObserveBarrier: the sequence is taken one too low.            *)
ObserveBarrierLow(revision) ==
  /\ revision > observedBarrier
  /\ observedBarrier' = revision
  /\ barrierSequence' = next - 1
  /\ pendingAt' = [pendingAt EXCEPT ![revision] = pending]
  /\ UNCHANGED <<state, dispatchVars, releaseVars, publishedBarrier,
                 snapshot, callVars>>

ObserveBarrier(revision) ==
  /\ revision > observedBarrier
  /\ observedBarrier' = revision
  /\ barrierSequence' = next
  /\ pendingAt' = [pendingAt EXCEPT ![revision] = pending]
  /\ UNCHANGED <<state, dispatchVars, releaseVars, publishedBarrier,
                 snapshot, callVars>>

(* Mutants of BarrierBlocked: the last dispatch before the barrier is      *)
(* overlooked; every pending dispatch holds the barrier back.              *)
BarrierBlockedBelow == \E d \in pending : id[d] < barrierSequence
BarrierBlockedByAny == pending # {}

BarrierBlocked == \E d \in pending : id[d] <= barrierSequence

(* The counter of snapshots (Revision) numbers the calls and is left out.  *)
FreezeInFlight ==
  /\ publishedBarrier' =
       IF observedBarrier > publishedBarrier /\ ~BarrierBlocked
         THEN observedBarrier ELSE publishedBarrier
  /\ snapshot' = [barrier |-> publishedBarrier', executions |-> scopes]
  /\ UNCHANGED <<state, dispatchVars, releaseVars, observedBarrier,
                 barrierSequence, pendingAt, callVars>>

-----------------------------------------------------------------------------
(* WaitPending, Drain and Close.  A waiter tests its condition and takes   *)
(* the channel in one critical section: it is parked from then on until a  *)
(* signal or its context's end.                                            *)

WaitPending(c) ==
  /\ call[c] = "new"
  /\ call' = [call EXCEPT ![c] = "waitPending"]
  /\ UNCHANGED <<state, dispatchVars, releaseVars, barrierVars, todo, parked,
                 closer, closeTodo, closeAt>>

WaitPendingStep(c) ==
  /\ call[c] = "waitPending"
  /\ c \notin parked
  /\ IF pending = {}
       THEN call' = [call EXCEPT ![c] = "clear"] /\ UNCHANGED parked
       ELSE parked' = parked \union {c} /\ UNCHANGED call
  /\ UNCHANGED <<state, dispatchVars, releaseVars, barrierVars, todo,
                 closer, closeTodo, closeAt>>

Drain(c) ==
  /\ call[c] = "new"
  /\ IF state = "closed"
       THEN call' = [call EXCEPT ![c] = "refused"] /\ UNCHANGED state
       ELSE call' = [call EXCEPT ![c] = "drainSnapshot"] /\ state' = "draining"
  /\ UNCHANGED <<dispatchVars, releaseVars, barrierVars, todo, parked,
                 closer, closeTodo, closeAt>>

DrainSnapshot(c) ==
  /\ call[c] = "drainSnapshot"
  /\ call' = [call EXCEPT ![c] = "drainClose"]
  /\ todo' = [todo EXCEPT ![c] = scopes]
  /\ UNCHANGED <<state, dispatchVars, releaseVars, barrierVars, parked,
                 closer, closeTodo, closeAt>>

DrainClose(c, d) ==
  /\ call[c] = "drainClose"
  /\ d \in todo[c]
  /\ todo' = [todo EXCEPT ![c] = @ \ {d}]
  /\ resource' = StartBoundResourceClose(d)
  /\ UNCHANGED <<state, next, pending, scopes, id, phase, group, releaseVars,
                 barrierVars, call, parked, closer, closeTodo, closeAt>>

(* Mutant of DrainWait: unresolved dispatches are not waited for.          *)
DrainWaitScopesOnly(c) ==
  /\ \/ call[c] = "drainClose" /\ todo[c] = {}
     \/ call[c] = "drainWait" /\ c \notin parked
  /\ IF scopes = {}
       THEN /\ state' = "closed"
            /\ call' = [call EXCEPT ![c] = "drained"]
            /\ UNCHANGED parked
       ELSE /\ call' = [call EXCEPT ![c] = "drainWait"]
            /\ parked' = parked \union {c}
            /\ UNCHANGED state
  /\ UNCHANGED <<dispatchVars, releaseVars, barrierVars, todo, closer,
                 closeTodo, closeAt>>

DrainWait(c) ==
  /\ \/ call[c] = "drainClose" /\ todo[c] = {}
     \/ call[c] = "drainWait" /\ c \notin parked
  /\ IF pending = {} /\ scopes = {}
       THEN /\ state' = "closed"
            /\ call' = [call EXCEPT ![c] = "drained"]
            /\ UNCHANGED parked
       ELSE /\ call' = [call EXCEPT ![c] = "drainWait"]
            /\ parked' = parked \union {c}
            /\ UNCHANGED state
  /\ UNCHANGED <<dispatchVars, releaseVars, barrierVars, todo, closer,
                 closeTodo, closeAt>>

(* The context of a sleeping WaitPending or Drain ends.                    *)
Timeout(c) ==
  /\ c \in parked
  /\ call' = [call EXCEPT ![c] = "timeout"]
  /\ parked' = parked \ {c}
  /\ UNCHANGED <<state, dispatchVars, releaseVars, barrierVars, todo, closer,
                 closeTodo, closeAt>>

(* Close: the first call runs the body, the others join it, and none is    *)
(* needed when a Drain closed the registry.                                *)
Close(c) ==
  /\ call[c] = "new"
  /\ IF closer = "idle" /\ state = "closed"
       THEN call' = [call EXCEPT ![c] = "closed"] /\ UNCHANGED <<closer, state>>
       ELSE /\ call' = [call EXCEPT ![c] = "closeJoin"]
            /\ IF closer = "idle"
                 THEN closer' = "snapshot" /\ state' = "closed"
                 ELSE UNCHANGED <<closer, state>>
  /\ UNCHANGED <<dispatchVars, releaseVars, barrierVars, todo, parked,
                 closeTodo, closeAt>>

CloseSnapshot ==
  /\ closer = "snapshot"
  /\ closer' = "scopes"
  /\ closeTodo' = scopes
  /\ UNCHANGED <<state, dispatchVars, releaseVars, barrierVars, call, todo,
                 parked, closeAt>>

(* One scope after the other: the next close starts when this one is done. *)
CloseScope(d) ==
  /\ closer = "scopes"
  /\ closeAt = {}
  /\ d \in closeTodo
  /\ resource' = StartBoundResourceClose(d)
  /\ closeTodo' = closeTodo \ {d}
  /\ closeAt' = {d}
  /\ UNCHANGED <<state, next, pending, scopes, id, phase, group, releaseVars,
                 barrierVars, call, todo, parked, closer>>

CloseScopeDone(d) ==
  /\ d \in closeAt
  /\ resource[d] \in {"none", "closed"}
  /\ closeAt' = {}
  /\ UNCHANGED <<state, dispatchVars, releaseVars, barrierVars, call, todo,
                 parked, closer, closeTodo>>

CloseDone ==
  /\ closer = "scopes"
  /\ closeTodo = {}
  /\ closeAt = {}
  /\ closer' = "done"
  /\ UNCHANGED <<state, dispatchVars, releaseVars, barrierVars, call, todo,
                 parked, closeTodo, closeAt>>

CloseReturn(c) ==
  /\ call[c] = "closeJoin"
  /\ closer = "done"
  /\ call' = [call EXCEPT ![c] = "closed"]
  /\ UNCHANGED <<state, dispatchVars, releaseVars, barrierVars, todo, parked,
                 closer, closeTodo, closeAt>>

-----------------------------------------------------------------------------
OwnerStep(d) ==
  \/ BeginDispatch(d)
  \/ DropPending(d)
  \/ \E g \in Groups \union {NoGroup} : Install(d, g)
  \/ Bind(d)
  \/ EndBegin(d)
  \/ EndStartClose(d)
  \/ MarkReleased(d)
  \/ Deliver(d)
  \/ RemoveScope(d)

CallStep(c) ==
  \/ WaitPending(c)
  \/ WaitPendingStep(c)
  \/ Drain(c)
  \/ DrainSnapshot(c)
  \/ \E d \in Dispatches : DrainClose(c, d)
  \/ DrainWait(c)
  \/ Timeout(c)
  \/ Close(c)
  \/ CloseReturn(c)

CloserStep ==
  \/ CloseSnapshot
  \/ \E d \in Dispatches : CloseScope(d) \/ CloseScopeDone(d)
  \/ CloseDone

Next ==
  \/ \E d \in Dispatches : OwnerStep(d) \/ CloseResource(d)
  \/ \E s \in Sinks \union {NoSink} : SetReleaseSink(s)
  \/ \E g \in Groups : ReplayRelease(g)
  \/ \E b \in Barriers : ObserveBarrier(b)
  \/ FreezeInFlight
  \/ \E c \in Calls : CallStep(c)
  \/ CloserStep

Spec == Init /\ [][Next]_vars

(* An owner may run for as long as its upstream answers; it must only end  *)
(* once its resource is being closed, or once Bind was refused.            *)
MustEnd(d) ==
  /\ EndBegin(d)
  /\ \/ resource[d] \in {"closing", "closed"}
     \/ resource[d] = "none" /\ state # "accepting"

(* Goroutines that are not waiting run on.  Home answers every dispatch or *)
(* its deadline ends it; closeFn returns; the publisher's ticker keeps     *)
(* taking snapshots.  No context is ever assumed to end (Timeout).         *)
Fairness ==
  /\ \A d \in Dispatches :
       /\ WF_vars(DropPending(d) \/ \E g \in Groups \union {NoGroup} : Install(d, g))
       /\ WF_vars(MustEnd(d))
       /\ WF_vars(EndStartClose(d) \/ MarkReleased(d) \/ Deliver(d)
                    \/ RemoveScope(d))
       /\ WF_vars(CloseResource(d))
  /\ \A g \in Groups : WF_vars(ReplayRelease(g))
  /\ WF_vars(FreezeInFlight)
  /\ \A c \in Calls :
       WF_vars(WaitPendingStep(c) \/ DrainSnapshot(c) \/ DrainWait(c)
                \/ CloseReturn(c) \/ \E d \in Dispatches : DrainClose(c, d))
  /\ WF_vars(CloserStep)

FairSpec == Spec /\ Fairness

(* Nothing but the publisher's ticker is assumed to keep going.            *)
PublisherSpec == Spec /\ WF_vars(FreezeInFlight)

-----------------------------------------------------------------------------
(* Properties                                                              *)

(* Every variable keeps its type: the states and phases of registry.go.    *)
TypeOK ==
  /\ state \in States
  /\ next \in Nat
  /\ pending \subseteq Dispatches
  /\ scopes \subseteq Dispatches
  /\ id \in [Dispatches -> Nat]
  /\ phase \in [Dispatches -> Phases]
  /\ group \in [Dispatches -> Groups \union {NoGroup}]
  /\ resource \in [Dispatches -> Resources]
  /\ releaseSequences \in [Groups -> Nat]
  /\ releaseSink \in Sinks \union {NoSink}
  /\ delivery \in [Dispatches -> [sink : Sinks \union {NoSink}, seq : Nat]]
  /\ replay \in [Groups -> Nat]
  /\ seen \in [Sinks -> [Groups -> Nat]]
  /\ observedBarrier \in 0 .. MaxBarrier
  /\ barrierSequence \in Nat
  /\ publishedBarrier \in 0 .. MaxBarrier
  /\ snapshot \in [barrier : 0 .. MaxBarrier, executions : SUBSET Dispatches]
  /\ pendingAt \in [Barriers -> SUBSET Dispatches]
  /\ call \in [Calls -> CallPcs]
  /\ todo \in [Calls -> SUBSET Dispatches]
  /\ parked \subseteq Calls
  /\ closer \in CloserPcs
  /\ closeTodo \subseteq Dispatches
  /\ closeAt \subseteq Dispatches

(* A snapshot that carries barrier b hides nothing Home dispatched before  *)
(* it raised b: each such dispatch is resolved, and if it still executes   *)
(* the snapshot lists it (FreezeInFlight against ObserveBarrier, Install). *)
BarrierSound ==
  \A b \in Barriers : b <= snapshot.barrier =>
    \A d \in pendingAt[b] : d \notin pending
                             /\ (d \in scopes => d \in snapshot.executions)

(* A release is counted only for an execution whose resource is no longer  *)
(* in use: the cumulative sequence of a group is the number of its scopes  *)
(* that passed markReleasedLocked, all of them with nothing left open.     *)
Released(g) ==
  {d \in Dispatches : group[d] = g
                       /\ phase[d] \in {"releasing", "removing", "ended"}}

ReleaseAfterClose ==
  \A g \in Groups :
    /\ releaseSequences[g] = Cardinality(Released(g))
    /\ \A d \in Released(g) : resource[d] \in {"none", "closed"}

(* The current sink learns of every release, whichever way SetReleaseSink  *)
(* and EndWithRelease interleave: it has recorded the latest sequence, or  *)
(* a call that carries it is still to come.                                *)
NoLostRelease ==
  \A s \in Sinks, g \in Groups : s = releaseSink =>
    \/ seen[s][g] = releaseSequences[g]
    \/ replay[g] = releaseSequences[g]
    \/ \E d \in Dispatches : /\ phase[d] = "releasing"
                             /\ group[d] = g
                             /\ delivery[d].sink = s
                             /\ delivery[d].seq = releaseSequences[g]

(* A resource in use is always reachable: its execution is a scope, so the *)
(* snapshots report it, Drain waits for it and Close finds it; and once    *)
(* the registry stopped accepting, a scope that is neither closing nor     *)
(* about to be closed by a Drain or Close has no resource in use.          *)
WillClose(d) ==
  \/ phase[d] = "ending"
  \/ \E c \in Calls : \/ call[c] = "drainSnapshot"
                      \/ call[c] = "drainClose" /\ d \in todo[c]
  \/ closer = "snapshot"
  \/ d \in closeTodo

NoOrphanResource ==
  \A d \in Dispatches :
    /\ resource[d] \in {"bound", "closing"} => d \in scopes
    /\ resource[d] = "bound" /\ state # "accepting" => WillClose(d)

(* What a caller may rely on for ever after Drain or Close returned nil:   *)
(* after Drain no execution is left, after Close no resource is in use.    *)
ShutdownComplete ==
  \A c \in Calls :
    /\ call[c] = "drained" => pending = {} /\ scopes = {}
    /\ call[c] = "closed" =>
         \A d \in Dispatches : resource[d] \in {"none", "closed"}

(* No waiter sleeps through the signal that ends its wait: WaitPending,    *)
(* Drain and Close return without any help of a context.                   *)
CallsReturn ==
  \A c \in Calls :
    call[c] \in {"waitPending", "drainSnapshot", "drainClose", "drainWait",
                 "closeJoin"}
      ~> call[c] \in {"clear", "drained", "closed", "timeout"}

(* A barrier is published as soon as what was pending when it was observed *)
(* is resolved: it is enough that the publisher keeps taking snapshots,    *)
(* and no dispatch that began later can hold it back, however long Home    *)
(* takes to answer it (pendingBarrierSequence, FreezeInFlight).            *)
BarrierPublished ==
  \A b \in Barriers :
    observedBarrier = b /\ pendingAt[b] \intersect pending = {}
      ~> snapshot.barrier >= b \/ observedBarrier > b

=============================================================================
