------------------------- MODULE HomeConcurrencyProofs -------------------------
(***************************************************************************)
(* Proofs about HomeConcurrency for every number of dispatches, groups,    *)
(* calls and lifetimes and every capacity: no slot leaks into a later      *)
(* lifetime, a clean shutdown owes Home nothing, and the whole composition *)
(* implements Home's limit as HomeSlots states it.                         *)
(***************************************************************************)
EXTENDS HomeConcurrency, ExecutionRegistryProofs

-----------------------------------------------------------------------------
(* The steps of the composition                                            *)

CompositionTypes ==
  /\ supervisor \in Supervisors
  /\ recovery \in Recoveries
  /\ unsafe \in BOOLEAN
  /\ lifetime \in Nat \ {0}
  /\ epoch \in Nat \ {0}
  /\ bundle \in Nat
  /\ request \in [Dispatches -> Requests]
  /\ client \in [Dispatches -> Nat]
  /\ ofEpoch \in [Dispatches -> Nat]
  /\ grant \in [Dispatches -> Groups \union {NoGroup}]
  /\ recorded \in [Groups -> Nat]

(* A step of the owner of a dispatch is one of the registry.               *)
LEMMA OwnerSteps ==
  ASSUME NEW d \in Dispatches, OwnerStep(d)
  PROVE  Next
BY DEF Next

(* The part of a request that the registry sees is its owner's.            *)
LEMMA RequestSteps ==
  ASSUME CompositionTypes, NEW d \in Dispatches, RequestStep(d)
  PROVE  [Next]_vars
<1>1. CASE Begin(d)
  BY <1>1, OwnerSteps DEF Begin, OwnerStep
<1>2. CASE EndPending(d) \/ InstallRefused(d)
  BY <1>2, OwnerSteps DEF EndPending, InstallRefused, OwnerStep
<1>3. CASE InstallGranted(d) \/ InstallPlain(d)
  <2>1. \E g \in Groups \union {NoGroup} : Install(d, g)
    BY <1>3 DEF InstallGranted, InstallPlain, CompositionTypes
  <2>2. OwnerStep(d)
    BY <2>1 DEF OwnerStep
  <2>3. QED
    BY <2>2, OwnerSteps
<1>4. QED
  BY <1>1, <1>2, <1>3
     DEF RequestStep, TakeBundle, BeginRefused, IssueGranted, IssuePlain,
         Abort, AbortInvalid

(* So is the execution; the supervisor calls the registry or leaves it     *)
(* alone, except that a call that returned frees its name and that a       *)
(* registry is replaced by a new one.                                      *)
LEMMA RegistrySteps ==
  ASSUME CompositionTypes, [NextComposition]_allVars
  PROVE  \/ [Next]_vars
         \/ \E c \in Calls : Returned(c, "clear")
         \/ ReplaceRegistry
<1>1. ASSUME NEW d \in Dispatches, Execute(d)
      PROVE  Next
  BY <1>1, OwnerSteps DEF Execute, OwnerStep, Next
<1>2. ASSUME NEW c \in Calls, CallStep(c)
      PROVE  Next
  BY <1>2 DEF Next
<1>3. ASSUME NEW c \in Calls, RegistryCall(c)
      PROVE  Next
  BY <1>2, <1>3 DEF RegistryCall, CallStep
<1>4. CASE JoinFlusher \/ SilenceReleases
  BY <1>4, CompositionAssumption DEF JoinFlusher, SilenceReleases, Next
<1>5. ASSUME NEW c \in Calls,
             Settle(c) \/ DrainUnsafe(c) \/ Shutdown(c)
      PROVE  Next
  BY <1>2, <1>5 DEF Settle, DrainUnsafe, Shutdown, CallStep
<1>6. ASSUME NEW c \in Calls, ReplaceClient(c) \/ FreeCall(c)
      PROVE  Returned(c, "clear")
  BY <1>6 DEF ReplaceClient, FreeCall
<1>7. CASE Ready \/ ConnectFailed \/ Lose \/ CancelService \/ FinalFlush \/ Finish
  BY <1>7 DEF Ready, ConnectFailed, Lose, CancelService, FinalFlush, Finish
<1>8. CASE SupervisorStep
  BY <1>4, <1>5, <1>6, <1>7, <1>8 DEF SupervisorStep
<1>9. ASSUME NEW g \in Groups, FlusherRecords(g)
      PROVE  UNCHANGED vars
  BY <1>9 DEF FlusherRecords
<1>10. CASE NextComposition
  BY <1>1, <1>3, <1>8, <1>9, <1>10, RequestSteps DEF NextComposition
<1>11. QED
  BY <1>10 DEF allVars

(* The recovery states are closed under the supervisor's transitions.      *)
LEMMA RecoveryTypes ==
  ASSUME NEW r \in Recoveries
  PROVE  /\ MarkTakeoverEligible(r) \in Recoveries
         /\ SwitchNode(r) \in Recoveries
         /\ SuppressTakeover(r) \in Recoveries
BY DEF Recoveries, MarkTakeoverEligible, SwitchNode, SuppressTakeover

(* Every step of a request and of the flusher keeps the composition's      *)
(* types.                                                                  *)
LEMMA RequestTypesStep ==
  ASSUME CompositionTypes,
         \/ \E d \in Dispatches : RequestStep(d)
         \/ \E g \in Groups : TypeOK /\ FlusherRecords(g)
  PROVE  CompositionTypes'
<1>1. ASSUME NEW d \in Dispatches, RequestStep(d)
      PROVE  CompositionTypes'
  <2> USE DEF CompositionTypes, Become, Requests, lifeVars, requestVars,
              ledgerVars
  <2>1. CASE TakeBundle(d)
    BY <2>1 DEF TakeBundle
  <2>2. CASE Begin(d) \/ BeginRefused(d)
    BY <2>2 DEF Begin, BeginRefused
  <2>3. ASSUME NEW g \in Groups, IssueGranted(d, g)
        PROVE  CompositionTypes'
    BY <2>3 DEF IssueGranted
  <2>4. CASE IssuePlain(d) \/ Abort(d) \/ EndPending(d)
    BY <2>4 DEF IssuePlain, Abort, EndPending
  <2>5. CASE InstallGranted(d) \/ InstallRefused(d) \/ InstallPlain(d)
    BY <2>5 DEF InstallGranted, InstallRefused, InstallPlain
  <2>6. CASE AbortInvalid(d)
    BY <2>6 DEF AbortInvalid
  <2>7. QED
    BY <1>1, <2>1, <2>2, <2>3, <2>4, <2>5, <2>6 DEF RequestStep
<1>2. ASSUME NEW g \in Groups, TypeOK, FlusherRecords(g)
      PROVE  CompositionTypes'
  <2>1. seen[Flusher][g] \in Nat /\ recorded[g] \in Nat
    BY <1>2, CompositionAssumption DEF TypeOK, CompositionTypes
  <2>2. PICK n \in recorded[g] + 1 .. seen[Flusher][g] :
          recorded' = [recorded EXCEPT ![g] = n]
    BY <1>2 DEF FlusherRecords
  <2>3. recorded' \in [Groups -> Nat]
    BY <2>1, <2>2 DEF CompositionTypes
  <2>4. QED
    BY <1>2, <2>3 DEF FlusherRecords, CompositionTypes, lifeVars, requestVars
<1>3. QED
  BY <1>1, <1>2

(* And so does every step of the supervisor.                               *)
LEMMA SupervisorTypesStep ==
  ASSUME CompositionTypes, SupervisorStep
  PROVE  CompositionTypes'
<1> USE DEF CompositionTypes, Supervisors, requestVars, ledgerVars
<1>1. CASE JoinFlusher \/ SilenceReleases \/ CancelService \/ FinalFlush \/ Finish
  BY <1>1 DEF JoinFlusher, SilenceReleases, CancelService, FinalFlush, Finish
<1>2. HomeCommits => /\ grant' \in [Dispatches -> Groups \union {NoGroup}]
                     /\ recorded' \in [Groups -> Nat]
  BY DEF HomeCommits
<1>3. CASE Ready
  BY <1>2, <1>3 DEF Ready, Recoveries
<1>4. CASE ConnectFailed
  <2>1. unsafe' \in BOOLEAN
    <3>1. Takeover \in BOOLEAN
      BY DEF Takeover
    <3>2. unsafe' = unsafe \/ unsafe' = FALSE \/ unsafe' = Takeover
      BY <1>4 DEF ConnectFailed
    <3>3. QED
      BY <3>1, <3>2, Zenon
  <2>2. recovery' \in Recoveries
    BY <1>4, RecoveryTypes DEF ConnectFailed
  <2>3. QED
    BY <1>2, <1>4, <2>1, <2>2 DEF ConnectFailed
<1>5. CASE Lose
  BY <1>5, RecoveryTypes DEF Lose
<1>6. ASSUME NEW c \in Calls,
             \/ Settle(c) \/ ReplaceClient(c) \/ FreeCall(c) \/ DrainUnsafe(c)
             \/ Shutdown(c)
      PROVE  CompositionTypes'
  BY <1>6 DEF Settle, ReplaceClient, FreeCall, DrainUnsafe, Shutdown,
              compositionVars, lifeVars
<1>7. CASE ReplaceRegistry
  <2>1. recovery' \in Recoveries
    BY <1>7, RecoveryTypes DEF ReplaceRegistry
  <2>2. unsafe' = FALSE
    BY <1>7 DEF ReplaceRegistry
  <2>3. unsafe' \in BOOLEAN
    BY <2>2, Zenon
  <2>4. QED
    BY <1>7, <2>1, <2>3 DEF ReplaceRegistry
<1>8. QED
  BY <1>1, <1>3, <1>4, <1>5, <1>6, <1>7 DEF SupervisorStep

LEMMA CompositionTypesStep ==
  ASSUME TypeOK, CompositionTypes, [NextComposition]_allVars
  PROVE  CompositionTypes'
<1>1. CASE UNCHANGED compositionVars
  BY <1>1 DEF CompositionTypes, compositionVars, lifeVars, requestVars,
              ledgerVars
<1>2. CASE NextComposition
  BY <1>1, <1>2, RequestTypesStep, SupervisorTypesStep
     DEF NextComposition, Execute, RegistryCall
<1>3. QED
  BY <1>1, <1>2 DEF allVars

-----------------------------------------------------------------------------
(* The registry's own invariants survive the steps that its specification  *)
(* does not have.                                                          *)

(* What is left of the registry of a lifetime that ends unsafely.          *)
Emptied ==
  /\ pending = {}
  /\ scopes = {}
  /\ \A g \in Groups : replay[g] = 0

LEMMA ReturnedKeeps ==
  ASSUME TypeOK, PhaseInv, ReleaseInv, NEW c \in Calls, Returned(c, "clear")
  PROVE  TypeOK' /\ PhaseInv' /\ ReleaseInv'
<1>1. TypeOK'
  BY DEF Returned, TypeOK, CallPcs, dispatchVars, releaseVars, barrierVars
<1>2. PhaseInv' /\ ReleaseInv'
  BY DEF Returned, PhaseInv, ReleaseInv, NoLostRelease, dispatchVars,
         releaseVars
<1>3. QED
  BY <1>1, <1>2

LEMMA NewRegistryKeeps ==
  ASSUME TypeOK, PhaseInv, Emptied, NewRegistry
  PROVE  TypeOK' /\ PhaseInv' /\ ReleaseInv'
<1>1. TypeOK'
  BY DEF NewRegistry, TypeOK, CallPcs, States, barrierVars
<1>2. PhaseInv'
  BY DEF NewRegistry, PhaseInv
<1>3. ReleaseInv'
  <2>1. \A d \in Dispatches : phase[d] # "releasing"
    BY DEF Emptied, PhaseInv
  <2>2. QED
    BY <2>1 DEF NewRegistry, Emptied, ReleaseInv, NoLostRelease
<1>4. QED
  BY <1>1, <1>2, <1>3

-----------------------------------------------------------------------------
(* The lifetimes                                                           *)

Opening == {"new", "connecting", "running", "lost"}

(* A bundle and a heartbeat are the current client's, every earlier client *)
(* is fenced, and the registry accepts until its lifetime is given up.     *)
Lifetimes ==
  /\ bundle # 0 => bundle = lifetime /\ supervisor \in {"running", "lost"}
  /\ supervisor = "running" => bundle = lifetime
  /\ \A l \in heartbeat : l = lifetime /\ supervisor = "running"
  /\ supervisor = "running" /\ lifetime \notin heartbeat =>
       lifetime \in ambiguous
  /\ \A l \in 1 .. lifetime - 1 : l \in fenced
  /\ supervisor \in {"settling", "unsafe", "draining"} => lifetime \in fenced
  /\ supervisor \in Opening \union {"settling", "unsafe"} =>
       state = "accepting"
  /\ supervisor \in {"flushing", "finished"} =>
       state = "closed" /\ pending = {} /\ scopes = {}

(* The supervisor has at most one call under way, and it is the one its    *)
(* place asks for; a drained registry is empty for good.                   *)
Supervision ==
  /\ \A c \in Calls :
       /\ c \in parked => call[c] \in {"waitPending", "drainWait"}
       /\ call[c] = "drained" =>
            state = "closed" /\ pending = {} /\ scopes = {}
       /\ supervisor \in Opening => call[c] = "new"
       /\ supervisor = "settling" =>
            call[c] \in {"new", "waitPending", "clear", "timeout"}
       /\ supervisor = "unsafe" => call[c] \in {"new", "clear"}
  /\ \A c, e \in Calls :
       /\ supervisor = "settling" /\ call[c] # "new" /\ call[e] # "new" =>
            c = e
       /\ (/\ supervisor = "draining"
           /\ call[c] \notin {"new", "clear"}
           /\ call[e] \notin {"new", "clear"}) => c = e

(* Apart from the supervisor's own steps a lifetime changes only by a      *)
(* client being aborted.                                                   *)
LEMMA LifeFrame ==
  ASSUME NextComposition
  PROVE  \/ SupervisorStep
         \/ /\ UNCHANGED lifeVars
            /\ \/ UNCHANGED clientVars
               \/ \E d \in Dispatches : AbortAmbiguousDispatch(client[d])
BY DEF NextComposition, RequestStep, TakeBundle, Begin, BeginRefused,
       IssueGranted, IssuePlain, Abort, EndPending, InstallGranted,
       InstallRefused, InstallPlain, AbortInvalid, Execute, FlusherRecords,
       RegistryCall, compositionVars

(* The same for the registry: its state changes only when a Drain finds it *)
(* empty, its calls change one at a time, and an empty registry that does  *)
(* not accept stays empty.                                                 *)
LEMMA OwnersFrame ==
  ASSUME NEW d \in Dispatches, RequestStep(d) \/ Execute(d)
  PROVE  /\ UNCHANGED <<state, call>>
         /\ parked' \subseteq parked
         /\ state # "accepting" /\ pending = {} /\ scopes = {} =>
              pending' = {} /\ scopes' = {}
BY DEF RequestStep, TakeBundle, Begin, BeginDispatch, BeginRefused, Accepts,
       IssueGranted, IssuePlain, Abort, EndPending, DropPending,
       InstallGranted, InstallRefused, InstallPlain, Install, AbortInvalid,
       Execute, Bind, CloseResource, EndBegin, EndStartClose, MarkReleased,
       Deliver, RemoveScope, SignalLocked, vars, dispatchVars, callVars

(* The steps of the supervisor's own call inside the registry.             *)
LEMMA CallSteps ==
  ASSUME TypeOK, Supervision, NEW c \in Calls, RegistryCall(c)
  PROVE  /\ UNCHANGED <<pending, scopes, supervisor>>
         /\ \A e \in Calls : e # c => call'[e] = call[e]
         /\ parked' \subseteq parked \union {c}
         /\ c \in parked' => call'[c] \in {"waitPending", "drainWait"}
         /\ \/ state' = state /\ call'[c] # "drained"
            \/ /\ call[c] \in {"drainClose", "drainWait"}
               /\ state' = "closed" /\ pending = {} /\ scopes = {}
         /\ \/ call[c] = "waitPending" /\ call'[c] \in {"waitPending", "clear"}
            \/ /\ call[c] \in {"drainSnapshot", "drainClose", "drainWait"}
               /\ call'[c] \in {"drainClose", "drainWait", "drained"}
            \/ c \in parked /\ call'[c] = "timeout"
<1>0. c \in parked => call[c] \in {"waitPending", "drainWait"}
  BY DEF Supervision
<1> USE <1>0 DEF TypeOK, dispatchVars, compositionVars, lifeVars
<1>1. CASE WaitPendingStep(c)
  BY <1>1 DEF RegistryCall, WaitPendingStep
<1>2. CASE DrainSnapshot(c)
  BY <1>2 DEF RegistryCall, DrainSnapshot
<1>3. ASSUME NEW d \in Dispatches, DrainClose(c, d)
      PROVE  /\ UNCHANGED <<state, pending, scopes, call, parked>>
             /\ call[c] = "drainClose"
  BY <1>3 DEF DrainClose
<1>4. CASE DrainWait(c)
  BY <1>4 DEF RegistryCall, DrainWait
<1>5. CASE Timeout(c)
  BY <1>5 DEF RegistryCall, Timeout
<1>6. QED
  BY <1>1, <1>2, <1>3, <1>4, <1>5 DEF RegistryCall

(* Outside the supervisor's own steps nothing in the lifetimes moves but   *)
(* an aborted client and a registry that a Drain closes.                   *)
LEMMA LifetimesStepAside ==
  ASSUME TypeOK, CompositionTypes, Lifetimes, Supervision,
         NextComposition, ~SupervisorStep
  PROVE  Lifetimes'
<1>1. /\ UNCHANGED lifeVars
      /\ \/ UNCHANGED clientVars
         \/ \E d \in Dispatches : AbortAmbiguousDispatch(client[d])
  BY LifeFrame
<1>2. /\ fenced \subseteq fenced'
      /\ ambiguous \subseteq ambiguous'
      /\ heartbeat' \subseteq heartbeat
      /\ \A l \in heartbeat : l \notin heartbeat' => l \in ambiguous'
  BY <1>1 DEF AbortAmbiguousDispatch, clientVars
<1> DEFINE StateKept ==
      /\ supervisor \in Opening \union {"settling", "unsafe"} =>
           UNCHANGED state
      /\ supervisor \in {"flushing", "finished"} =>
           state' = "closed" /\ pending' = {} /\ scopes' = {}
<1>3. StateKept
  <2>1. ASSUME NEW d \in Dispatches, RequestStep(d) \/ Execute(d)
        PROVE  StateKept
    BY <2>1, OwnersFrame DEF Lifetimes
  <2>2. ASSUME NEW c \in Calls, RegistryCall(c)
        PROVE  StateKept
    BY <2>2, CallSteps DEF Lifetimes, Supervision, Opening
  <2>3. ASSUME NEW g \in Groups, FlusherRecords(g)
        PROVE  StateKept
    BY <2>3 DEF FlusherRecords, vars, dispatchVars, Lifetimes
  <2>4. QED
    BY <2>1, <2>2, <2>3 DEF NextComposition
<1>4. QED
  BY <1>1, <1>2, <1>3 DEF Lifetimes, lifeVars

(* Settling keeps the registry and fences the client; it is replaced once  *)
(* no answer is pending, the last one for ever when takeover is not safe.  *)
LEMMA LifetimesStepSupervisor ==
  ASSUME TypeOK, CompositionTypes, Lifetimes, Supervision, SupervisorStep
  PROVE  Lifetimes'
<1> USE DEF Lifetimes, CompositionTypes, Opening, vars, dispatchVars,
            clientVars
<1>1. CASE JoinFlusher \/ SilenceReleases
  BY <1>1 DEF JoinFlusher, SilenceReleases, SetReleaseSink
<1>2. CASE Ready
  BY <1>2 DEF Ready
<1>3. CASE ConnectFailed
  BY <1>3 DEF ConnectFailed
<1>4. CASE Lose
  BY <1>4 DEF Lose
<1>5. ASSUME NEW c \in Calls, Settle(c)
      PROVE  Lifetimes'
  BY <1>5 DEF Settle, WaitPending
<1>6. ASSUME NEW c \in Calls, ReplaceClient(c)
      PROVE  Lifetimes'
  <2>1. lifetime \notin heartbeat /\ heartbeat = {} /\ bundle = 0
    BY <1>6 DEF ReplaceClient
  <2>2. /\ UNCHANGED <<state, bundle, heartbeat, fenced>>
        /\ supervisor' = "connecting" /\ lifetime' = lifetime + 1
    BY <1>6 DEF ReplaceClient, Returned
  <2>3. \A l \in 1 .. lifetime' - 1 : l = lifetime \/ l \in 1 .. lifetime - 1
    BY <2>2
  <2>4. \A l \in 1 .. lifetime' - 1 : l \in fenced'
    BY <1>6, <2>2, <2>3 DEF ReplaceClient
  <2>5. QED
    BY <1>6, <2>1, <2>2, <2>4 DEF ReplaceClient
<1>7. ASSUME NEW c \in Calls, FreeCall(c)
      PROVE  Lifetimes'
  BY <1>7 DEF FreeCall, Returned, compositionVars, lifeVars
<1>8. ASSUME NEW c \in Calls, DrainUnsafe(c) \/ Shutdown(c)
      PROVE  Lifetimes'
  BY <1>8 DEF DrainUnsafe, Shutdown, Drain
<1>9. CASE ReplaceRegistry
  <2>1. heartbeat = {} /\ bundle = 0 /\ lifetime \in fenced
    BY <1>9 DEF ReplaceRegistry
  <2>2. /\ UNCHANGED <<bundle, heartbeat, fenced>> /\ state' = "accepting"
        /\ supervisor' = "new" /\ lifetime' = lifetime + 1
    BY <1>9 DEF ReplaceRegistry, NewRegistry
  <2>3. \A l \in 1 .. lifetime' - 1 : l = lifetime \/ l \in 1 .. lifetime - 1
    BY <2>2
  <2>4. \A l \in 1 .. lifetime' - 1 : l \in fenced'
    BY <2>1, <2>2, <2>3
  <2>5. QED
    BY <2>1, <2>2, <2>4
<1>10. CASE CancelService \/ Finish
  BY <1>10 DEF CancelService, Finish
<1>11. CASE FinalFlush
  BY <1>11 DEF FinalFlush, Supervision
<1>12. QED
  BY <1>1, <1>2, <1>3, <1>4, <1>5, <1>6, <1>7, <1>8, <1>9, <1>10, <1>11
     DEF SupervisorStep

(* The supervisor starts a call only where it has none under way.          *)
LEMMA SupervisionStep ==
  ASSUME TypeOK, CompositionTypes, Lifetimes, Supervision, NextComposition
  PROVE  Supervision'
<1>1. ASSUME NEW d \in Dispatches, RequestStep(d) \/ Execute(d)
      PROVE  Supervision'
  <2>1. /\ UNCHANGED <<state, call, supervisor>>
        /\ parked' \subseteq parked
        /\ state = "closed" /\ pending = {} /\ scopes = {} =>
             pending' = {} /\ scopes' = {}
    BY <1>1, OwnersFrame, LifeFrame
       DEF RequestStep, TakeBundle, Begin, BeginRefused,
           IssueGranted, IssuePlain, Abort, EndPending, InstallGranted,
           InstallRefused, InstallPlain, AbortInvalid, Execute,
           compositionVars, lifeVars
  <2>2. QED
    BY <2>1 DEF Supervision
<1>2. ASSUME NEW c \in Calls, RegistryCall(c)
      PROVE  Supervision'
  BY <1>2, CallSteps DEF Supervision, Lifetimes, Opening, CompositionTypes
<1>3. ASSUME NEW g \in Groups, FlusherRecords(g)
      PROVE  Supervision'
  BY <1>3 DEF FlusherRecords, Supervision, lifeVars, vars, dispatchVars,
              callVars
<1>4. CASE SupervisorStep
  <2> USE DEF Supervision, Opening, TypeOK, vars, dispatchVars, callVars
  <2>1. CASE JoinFlusher \/ SilenceReleases
    BY <2>1 DEF JoinFlusher, SilenceReleases, SetReleaseSink
  <2>2. CASE Ready \/ ConnectFailed \/ Lose
    BY <2>2 DEF Ready, ConnectFailed, Lose
  <2>3. ASSUME NEW c \in Calls, Settle(c)
        PROVE  Supervision'
    BY <2>3 DEF Settle, WaitPending
  <2>4. ASSUME NEW c \in Calls, ReplaceClient(c)
        PROVE  Supervision'
    BY <2>4 DEF ReplaceClient, Returned
  <2>5. ASSUME NEW c \in Calls, FreeCall(c)
        PROVE  Supervision'
    BY <2>5 DEF FreeCall, Returned, compositionVars, lifeVars
  <2>6. ASSUME NEW c \in Calls, DrainUnsafe(c)
        PROVE  Supervision'
    BY <2>6, ZenonT(40) DEF DrainUnsafe, Drain
  <2>7. ASSUME NEW c \in Calls, Shutdown(c)
        PROVE  Supervision'
    BY <2>7 DEF Shutdown, Drain
  <2>8. CASE ReplaceRegistry
    BY <2>8 DEF ReplaceRegistry, NewRegistry
  <2>9. CASE CancelService \/ FinalFlush \/ Finish
    BY <2>9 DEF CancelService, FinalFlush, Finish
  <2>10. QED
    BY <1>4, <2>1, <2>2, <2>3, <2>4, <2>5, <2>6, <2>7, <2>8, <2>9
       DEF SupervisorStep
<1>5. QED
  BY <1>1, <1>2, <1>3, <1>4 DEF NextComposition

-----------------------------------------------------------------------------
(* The requests                                                            *)

Issued(d) == request[d] \in {"granted", "plain", "lost", "aborted"}

(* An answer of Home is in the hands of a request only while its client is *)
(* the current one: the supervisor waits for it (WaitPending) before it    *)
(* replaces the client, and what waits is pending in the registry unless   *)
(* Install was refused.                                                    *)
IssuedPlace(d) ==
  /\ \/ phase[d] = "pending"
     \/ /\ request[d] \in {"granted", "plain"}
        /\ phase[d] = "ended"
        /\ state # "accepting"
  /\ client[d] = lifetime
  /\ ofEpoch[d] = epoch
  /\ supervisor \notin {"new", "connecting", "unsafe", "draining"}
  /\ supervisor = "settling" => \A c \in Calls : call[c] # "clear"

RequestPlace(d) ==
  /\ client[d] \in 0 .. lifetime
  /\ ofEpoch[d] \in 0 .. epoch
  /\ supervisor \in {"new", "connecting"} => client[d] < lifetime
  /\ request[d] # "idle" => client[d] > 0
  /\ request[d] \in {"idle", "bundled"} => phase[d] = "new"
  /\ request[d] = "begun" => phase[d] = "pending"
  /\ Issued(d) => IssuedPlace(d)
  /\ request[d] = "aborted" => client[d] \in ambiguous
  /\ request[d] \in {"idle", "bundled", "begun", "plain"} =>
       grant[d] = NoGroup
  /\ request[d] = "granted" => grant[d] # NoGroup
  /\ phase[d] \notin {"new", "ended"} => ofEpoch[d] = epoch
  /\ phase[d] \in {"new", "pending"} => group[d] = NoGroup

RequestPlaces == \A d \in Dispatches : RequestPlace(d)

(* A step of one request leaves every other request where it is.           *)
LEMMA RequestFrame ==
  ASSUME TypeOK, CompositionTypes, NEW d \in Dispatches, RequestStep(d)
  PROVE  /\ UNCHANGED <<lifeVars, state, call>>
         /\ ambiguous \subseteq ambiguous'
         /\ \A e \in Dispatches : e # d =>
              /\ request'[e] = request[e] /\ client'[e] = client[e]
              /\ ofEpoch'[e] = ofEpoch[e] /\ grant'[e] = grant[e]
              /\ phase'[e] = phase[e] /\ group'[e] = group[e]
<1> USE DEF TypeOK, CompositionTypes, Become, vars, dispatchVars, callVars,
            requestVars, ledgerVars, lifeVars, clientVars
<1>1. CASE TakeBundle(d)
  BY <1>1 DEF TakeBundle
<1>2. CASE Begin(d) \/ BeginRefused(d)
  BY <1>2 DEF Begin, BeginDispatch, BeginRefused
<1>3. ASSUME NEW g \in Groups, IssueGranted(d, g)
      PROVE  /\ UNCHANGED <<vars, lifeVars, clientVars, client, ofEpoch>>
             /\ \A e \in Dispatches : e # d =>
                  request'[e] = request[e] /\ grant'[e] = grant[e]
  BY <1>3 DEF IssueGranted
<1>4. CASE IssuePlain(d) \/ EndPending(d)
  BY <1>4 DEF IssuePlain, EndPending, DropPending
<1>5. CASE Abort(d) \/ AbortInvalid(d)
  BY <1>5 DEF Abort, AbortInvalid, AbortAmbiguousDispatch
<1>6. CASE InstallGranted(d) \/ InstallPlain(d)
  BY <1>6 DEF InstallGranted, InstallPlain, Install
<1>7. CASE InstallRefused(d)
  BY <1>7 DEF InstallRefused, DropPending, AbortAmbiguousDispatch
<1>8. QED
  BY <1>1, <1>2, <1>3, <1>4, <1>5, <1>6, <1>7 DEF RequestStep

(* Where the request itself goes.                                          *)
LEMMA RequestMoves ==
  ASSUME TypeOK, PhaseInv, CompositionTypes, Lifetimes, Supervision,
         RequestPlaces, NEW d \in Dispatches, RequestStep(d)
  PROVE  RequestPlace(d)'
<1> USE DEF TypeOK, CompositionTypes, Become, vars, dispatchVars, callVars,
            requestVars, ledgerVars, lifeVars, clientVars
<1>0. RequestPlace(d)
  BY DEF RequestPlaces
<1>1. CASE TakeBundle(d)
  BY <1>0, <1>1 DEF TakeBundle, RequestPlace, Issued, IssuedPlace, Lifetimes
<1>2. CASE Begin(d)
  BY <1>0, <1>2 DEF Begin, Accepts, BeginDispatch, RequestPlace, Issued,
                    IssuedPlace
<1>3. CASE BeginRefused(d)
  BY <1>0, <1>3 DEF BeginRefused, RequestPlace, Issued, IssuedPlace
<1>4. ASSUME client[d] \notin fenced, request[d] = "begun"
      PROVE  /\ client[d] = lifetime
             /\ supervisor \notin {"new", "connecting", "settling", "unsafe",
                                   "draining"}
  <2>1. client[d] \in 1 .. lifetime
    BY <1>0, <1>4 DEF RequestPlace
  <2>2. client[d] \notin 1 .. lifetime - 1
    BY <1>4 DEF Lifetimes
  <2>3. client[d] = lifetime
    <3>1. lifetime \in Nat
      OBVIOUS
    <3>2. QED
      BY ONLY <2>1, <2>2, <3>1
  <2>4. QED
    BY <1>0, <1>4, <2>3 DEF RequestPlace, Lifetimes
<1>5. ASSUME NEW g \in Groups, IssueGranted(d, g)
      PROVE  RequestPlace(d)'
  BY <1>0, <1>4, <1>5, NullAssumption
     DEF IssueGranted, RequestPlace, Issued, IssuedPlace
<1>6. CASE IssuePlain(d)
  BY <1>0, <1>4, <1>6 DEF IssuePlain, RequestPlace, Issued, IssuedPlace
<1>7. CASE Abort(d)
  BY <1>0, <1>7 DEF Abort, AbortAmbiguousDispatch, RequestPlace, Issued,
                    IssuedPlace
<1>8. CASE EndPending(d)
  BY <1>0, <1>8 DEF EndPending, DropPending, RequestPlace, Issued, IssuedPlace
<1>9. CASE InstallGranted(d) \/ InstallPlain(d)
  BY <1>0, <1>9 DEF InstallGranted, InstallPlain, Install, RequestPlace,
                    Issued, IssuedPlace
<1>10. CASE InstallRefused(d)
  BY <1>0, <1>10 DEF InstallRefused, DropPending, AbortAmbiguousDispatch,
                     RequestPlace, Issued, IssuedPlace
<1>11. CASE AbortInvalid(d)
  BY <1>0, <1>11 DEF AbortInvalid, AbortAmbiguousDispatch, RequestPlace,
                     Issued, IssuedPlace
<1>12. QED
  BY <1>1, <1>2, <1>3, <1>5, <1>6, <1>7, <1>8, <1>9, <1>10, <1>11
     DEF RequestStep

(* The execution of an answer concerns no request that still has to place  *)
(* its own: the phases it goes through are those of an installed scope.    *)
LEMMA ExecutionKeepsPlaces ==
  ASSUME TypeOK, CompositionTypes, RequestPlaces, NEW d \in Dispatches,
         Execute(d)
  PROVE  RequestPlaces'
<1>1. /\ UNCHANGED <<compositionVars, state, call, group>>
      /\ \A e \in Dispatches : e # d => phase'[e] = phase[e]
      /\ \/ UNCHANGED phase
         \/ /\ phase[d] \in {"installed", "ending", "releasing", "removing"}
            /\ phase'[d] \notin {"new", "pending"}
  BY DEF Execute, Bind, CloseResource, EndBegin, EndStartClose, MarkReleased,
         Deliver, RemoveScope, callVars, TypeOK
<1>2. /\ UNCHANGED <<lifetime, epoch, supervisor, ambiguous>>
      /\ UNCHANGED <<request, client, ofEpoch, grant>>
  BY <1>1 DEF compositionVars, lifeVars, clientVars, requestVars, ledgerVars
<1>3. ASSUME NEW e \in Dispatches
      PROVE  RequestPlace(e)'
  BY <1>1, <1>2
     DEF RequestPlaces, RequestPlace, Issued, IssuedPlace
<1>4. QED
  BY <1>3 DEF RequestPlaces

(* The supervisor's call returns only when no answer is pending.           *)
LEMMA CallKeepsPlaces ==
  ASSUME TypeOK, PhaseInv, CompositionTypes, Lifetimes, Supervision,
         RequestPlaces, NEW c \in Calls, RegistryCall(c)
  PROVE  RequestPlaces'
<1>1. /\ UNCHANGED <<lifetime, epoch, supervisor, ambiguous>>
      /\ UNCHANGED <<request, client, ofEpoch, grant, phase, group>>
      /\ state' # state => state' = "closed"
      /\ state' = "accepting" => state = "accepting"
  BY DEF RegistryCall, WaitPendingStep, DrainSnapshot, DrainWait, Timeout,
         DrainClose, dispatchVars,
         compositionVars, lifeVars, clientVars, requestVars, ledgerVars
<1>2. ASSUME NEW e \in Calls, call'[e] = "clear", call[e] # "clear"
      PROVE  pending = {}
  BY <1>2 DEF RegistryCall, WaitPendingStep, DrainSnapshot, DrainWait,
              Timeout, DrainClose, TypeOK
<1>3. ASSUME NEW d \in Dispatches
      PROVE  RequestPlace(d)'
  <2>1. RequestPlace(d)
    BY DEF RequestPlaces
  <2>2. ASSUME Issued(d)'
        PROVE  IssuedPlace(d)'
    <3>1. IssuedPlace(d)
      BY <1>1, <2>1, <2>2 DEF RequestPlace, Issued
    <3>2. supervisor = "settling" => phase[d] = "pending"
      BY <3>1 DEF IssuedPlace, Lifetimes
    <3>3. supervisor = "settling" => pending # {}
      BY <3>2 DEF PhaseInv
    <3>4. QED
      BY <1>1, <1>2, <3>1, <3>3 DEF IssuedPlace
  <2>3. QED
    BY <1>1, <2>1, <2>2 DEF RequestPlace
<1>4. QED
  BY <1>3 DEF RequestPlaces

(* The supervisor moves on to another lifetime or registry when no answer  *)
(* is in anybody's hands.                                                  *)
LEMMA SupervisorKeepsPlaces ==
  ASSUME TypeOK, PhaseInv, CompositionTypes, Lifetimes, Supervision,
         RequestPlaces, SupervisorStep
  PROVE  RequestPlaces'
<1> USE DEF RequestPlaces, RequestPlace, Issued, IssuedPlace, vars,
            dispatchVars, callVars, requestVars, ledgerVars, lifeVars,
            clientVars
<1>1. CASE JoinFlusher \/ SilenceReleases
  BY <1>1 DEF JoinFlusher, SilenceReleases, SetReleaseSink
<1>2. ASSUME HomeCommits, UNCHANGED <<vars, requestVars, lifetime, epoch, ambiguous>>,
             supervisor = "connecting", supervisor' \in {"running", "lost"}
      PROVE  RequestPlaces'
  <2>1. \A d \in Dispatches : ~Issued(d)
    BY <1>2
  <2>2. \A d \in Dispatches : grant'[d] \in {grant[d], NoGroup}
    BY <1>2 DEF HomeCommits
  <2>3. QED
    BY <1>2, <2>1, <2>2
<1>3. CASE Ready
  BY <1>2, <1>3 DEF Ready
<1>4. CASE ConnectFailed
  <2>1. CASE HomeCommits
    BY <1>2, <1>4, <2>1 DEF ConnectFailed
  <2>2. CASE UNCHANGED ledgerVars
    BY <1>4, <2>2 DEF ConnectFailed
  <2>3. QED
    BY <1>4, <2>1, <2>2 DEF ConnectFailed
<1>5. CASE Lose
  BY <1>5 DEF Lose
<1>6. ASSUME NEW c \in Calls, Settle(c)
      PROVE  RequestPlaces'
  <2>1. \A e \in Calls : call'[e] # "clear"
    BY <1>6 DEF Settle, WaitPending, TypeOK, Supervision, Opening
  <2>2. QED
    BY <1>6, <2>1 DEF Settle, WaitPending
<1>7. ASSUME NEW c \in Calls, ReplaceClient(c)
      PROVE  RequestPlaces'
  <2>1. \A d \in Dispatches : ~Issued(d)
    BY <1>7 DEF ReplaceClient, Returned
  <2>2. \A d \in Dispatches : client[d] \in 0 .. lifetime + 1
                               /\ client[d] < lifetime + 1
    BY DEF CompositionTypes
  <2>3. QED
    BY <1>7, <2>1, <2>2 DEF ReplaceClient, Returned
<1>8. ASSUME NEW c \in Calls, FreeCall(c)
      PROVE  RequestPlaces'
  BY <1>8 DEF FreeCall, Returned, compositionVars
<1>9. ASSUME NEW c \in Calls, DrainUnsafe(c) \/ Shutdown(c)
      PROVE  RequestPlaces'
  BY <1>9 DEF DrainUnsafe, Shutdown, Drain
<1>10. CASE ReplaceRegistry
  <2>1. \A d \in Dispatches : ~Issued(d) /\ phase[d] \in {"new", "ended"}
    BY <1>10 DEF ReplaceRegistry, Supervision, PhaseInv, TypeOK, Phases
  <2>2. \A d \in Dispatches : /\ client[d] \in 0 .. lifetime + 1
                               /\ client[d] < lifetime + 1
                               /\ ofEpoch[d] \in 0 .. epoch + 1
    BY DEF CompositionTypes
  <2>3. QED
    BY <1>10, <2>1, <2>2 DEF ReplaceRegistry, NewRegistry
<1>11. CASE CancelService \/ FinalFlush \/ Finish
  BY <1>11 DEF CancelService, FinalFlush, Finish
<1>12. QED
  BY <1>1, <1>3, <1>4, <1>5, <1>6, <1>7, <1>8, <1>9, <1>10, <1>11
     DEF SupervisorStep

LEMMA RequestPlacesStep ==
  ASSUME TypeOK, PhaseInv, CompositionTypes, Lifetimes, Supervision,
         RequestPlaces, NextComposition
  PROVE  RequestPlaces'
<1>1. ASSUME NEW d \in Dispatches, RequestStep(d)
      PROVE  RequestPlaces'
  <2>1. ASSUME NEW e \in Dispatches, e # d
        PROVE  RequestPlace(e)'
    <3>1. RequestPlace(e)
      BY DEF RequestPlaces
    <3>2. QED
      BY <1>1, <2>1, <3>1, RequestFrame
         DEF RequestPlace, Issued, IssuedPlace, lifeVars
  <2>2. RequestPlace(d)'
    BY <1>1, RequestMoves
  <2>3. QED
    BY <2>1, <2>2 DEF RequestPlaces
<1>2. ASSUME NEW g \in Groups, FlusherRecords(g)
      PROVE  RequestPlaces'
  BY <1>2 DEF FlusherRecords, RequestPlaces, RequestPlace, Issued,
              IssuedPlace, vars, dispatchVars, callVars, lifeVars,
              clientVars, requestVars
<1>3. QED
  BY <1>1, <1>2, ExecutionKeepsPlaces, CallKeepsPlaces,
     SupervisorKeepsPlaces DEF NextComposition

-----------------------------------------------------------------------------
(* Fresh registries: a membership is joined without takeover only on a     *)
(* registry that no dispatch has used.                                     *)

Fresh == \A d \in Dispatches : ofEpoch[d] # epoch

FreshJoins ==
  /\ supervisor = "new" => Fresh /\ ~Takeover
  /\ supervisor = "connecting" /\ ~Takeover => Fresh
  /\ supervisor \in {"lost", "settling"} /\ ~Takeover /\ ~Unsafe => Fresh

(* A dispatch takes a bundle only while the supervisor runs.               *)
LEMMA TakesWhileRunning ==
  ASSUME CompositionTypes, Lifetimes, NextComposition,
         UNCHANGED <<epoch, supervisor>>
  PROVE  \/ UNCHANGED ofEpoch
         \/ supervisor = "running"
BY DEF Lifetimes, NextComposition, RequestStep, TakeBundle, Begin,
       BeginRefused, IssueGranted, IssuePlain, Abort, EndPending,
       InstallGranted, InstallRefused, InstallPlain, AbortInvalid, Execute,
       FlusherRecords, RegistryCall, SupervisorStep, JoinFlusher,
       SilenceReleases, Ready, ConnectFailed, Lose, Settle, ReplaceClient,
       FreeCall, DrainUnsafe, Shutdown, ReplaceRegistry, CancelService,
       FinalFlush, Finish, compositionVars, requestVars

(* What the marks of takeover do.                                          *)
LEMMA TakeoverMarks ==
  ASSUME NEW r \in Recoveries
  PROVE  /\ MarkTakeoverEligible(r) \in {"eligible", "switchingTakeover"}
         /\ SwitchNode(MarkTakeoverEligible(r))
              \in {"eligible", "switchingTakeover"}
         /\ SwitchNode(r) \in {"eligible", "switchingTakeover"} <=>
              r \in {"eligible", "switchingTakeover"}
         /\ SuppressTakeover(r) \notin {"eligible", "switchingTakeover"}
BY DEF Recoveries, MarkTakeoverEligible, SwitchNode, SuppressTakeover

LEMMA FreshJoinsStep ==
  ASSUME TypeOK, CompositionTypes, Lifetimes, Supervision, RequestPlaces,
         FreshJoins, NextComposition
  PROVE  FreshJoins'
<1>1. ASSUME ~SupervisorStep
      PROVE  FreshJoins'
  <2>1. UNCHANGED lifeVars /\ ambiguous \subseteq ambiguous'
    BY <1>1, LifeFrame DEF AbortAmbiguousDispatch, clientVars
  <2>2. UNCHANGED ofEpoch \/ supervisor = "running"
    BY <2>1, TakesWhileRunning DEF lifeVars
  <2>3. QED
    BY <2>1, <2>2 DEF FreshJoins, Fresh, Takeover, Unsafe, lifeVars
<1>2. CASE SupervisorStep
  <2> USE DEF FreshJoins, Fresh, Takeover, Unsafe, requestVars, clientVars
  <2>1. CASE JoinFlusher \/ SilenceReleases
    BY <2>1 DEF JoinFlusher, SilenceReleases
  <2>2. CASE Ready
    BY <2>2 DEF Ready
  <2>3. CASE ConnectFailed
    <3>1. Takeover => Takeover'
      BY <2>3, TakeoverMarks DEF ConnectFailed, CompositionTypes
    <3>2. QED
      BY <2>3, <3>1 DEF ConnectFailed
  <2>4. CASE Lose
    <3>1. lifetime \in heartbeat => Takeover'
      BY <2>4, TakeoverMarks DEF Lose, CompositionTypes
    <3>2. lifetime \notin heartbeat => lifetime \in ambiguous
      BY <2>4 DEF Lose, Lifetimes
    <3>3. QED
      BY <2>4, <3>1, <3>2 DEF Lose
  <2>5. ASSUME NEW c \in Calls,
               Settle(c) \/ ReplaceClient(c) \/ FreeCall(c)
                 \/ DrainUnsafe(c) \/ Shutdown(c)
        PROVE  FreshJoins'
    BY <2>5 DEF Settle, ReplaceClient, FreeCall, DrainUnsafe, Shutdown,
                compositionVars, lifeVars
  <2>6. CASE ReplaceRegistry
    <3>1. ~Takeover'
      BY <2>6, TakeoverMarks DEF ReplaceRegistry, CompositionTypes
    <3>2. \A d \in Dispatches : ofEpoch[d] # epoch + 1
      BY DEF RequestPlaces, RequestPlace, CompositionTypes
    <3>3. QED
      BY <2>6, <3>1, <3>2 DEF ReplaceRegistry
  <2>7. CASE CancelService \/ FinalFlush \/ Finish
    BY <2>7 DEF CancelService, FinalFlush, Finish
  <2>8. QED
    BY <1>2, <2>1, <2>2, <2>3, <2>4, <2>5, <2>6, <2>7 DEF SupervisorStep
<1>3. QED
  BY <1>1, <1>2

-----------------------------------------------------------------------------
(* The grants of Home                                                      *)

Scoped == {"installed", "ending", "releasing", "removing"}

(* A grant without a scope to release it is the current client's, which    *)
(* was or will be aborted for it, or Home is about to forget it.           *)
Forgettable(d) ==
  \/ client[d] = lifetime /\ (lifetime \in ambiguous \/ request[d] = "granted")
  \/ bundle = 0 /\ ~Takeover

GrantHeld(d) ==
  /\ phase[d] \in Scoped => grant[d] = group[d]
  /\ ofEpoch[d] = epoch /\ group[d] # NoGroup => grant[d] = group[d]
  /\ grant[d] # NoGroup /\ phase[d] = "ended" /\ group[d] = NoGroup =>
       Forgettable(d)

GrantsHeld == \A d \in Dispatches : GrantHeld(d)

LEMMA RequestKeepsGrants ==
  ASSUME TypeOK, CompositionTypes, RequestPlaces, GrantsHeld,
         NEW d \in Dispatches, RequestStep(d)
  PROVE  GrantsHeld'
<1>1. ASSUME NEW e \in Dispatches, e # d
      PROVE  GrantHeld(e)'
  <2>1. GrantHeld(e)
    BY DEF GrantsHeld
  <2>2. QED
    BY <1>1, <2>1, RequestFrame DEF GrantHeld, Forgettable, Takeover, lifeVars
<1>2. GrantHeld(d)'
  <2> USE DEF TypeOK, CompositionTypes, GrantHeld, Forgettable, Takeover,
              Scoped, Become, vars, dispatchVars, requestVars, ledgerVars,
              lifeVars, clientVars
  <2>0. GrantHeld(d) /\ RequestPlace(d)
    BY DEF GrantsHeld, RequestPlaces
  <2>1. CASE TakeBundle(d)
    BY <2>0, <2>1 DEF TakeBundle, RequestPlace
  <2>2. CASE Begin(d) \/ BeginRefused(d)
    BY <2>0, <2>2 DEF Begin, BeginRefused, BeginDispatch
  <2>3. ASSUME NEW g \in Groups, IssueGranted(d, g)
        PROVE  GrantHeld(d)'
    BY <2>0, <2>3 DEF IssueGranted, RequestPlace
  <2>4. CASE IssuePlain(d)
    BY <2>0, <2>4 DEF IssuePlain, RequestPlace
  <2>5. CASE Abort(d) \/ AbortInvalid(d)
    BY <2>0, <2>5 DEF Abort, AbortInvalid, AbortAmbiguousDispatch,
                      RequestPlace, Issued, IssuedPlace
  <2>6. CASE EndPending(d)
    BY <2>0, <2>6 DEF EndPending, DropPending, RequestPlace, Issued,
                      IssuedPlace
  <2>7. CASE InstallGranted(d) \/ InstallPlain(d)
    BY <2>0, <2>7 DEF InstallGranted, InstallPlain, Install, RequestPlace
  <2>8. CASE InstallRefused(d)
    BY <2>0, <2>8 DEF InstallRefused, DropPending, AbortAmbiguousDispatch,
                      RequestPlace, Issued, IssuedPlace
  <2>9. QED
    BY <2>1, <2>2, <2>3, <2>4, <2>5, <2>6, <2>7, <2>8 DEF RequestStep
<1>3. QED
  BY <1>1, <1>2 DEF GrantsHeld

(* The execution keeps the group Home granted to the end of its scope.     *)
LEMMA ExecutionKeepsGrants ==
  ASSUME TypeOK, GrantsHeld, NEW d \in Dispatches, Execute(d)
  PROVE  GrantsHeld'
<1>1. /\ UNCHANGED <<compositionVars, group>>
      /\ \A e \in Dispatches : e # d => phase'[e] = phase[e]
      /\ UNCHANGED phase \/ phase[d] \in Scoped
  BY DEF Execute, Bind, CloseResource, EndBegin, EndStartClose, MarkReleased,
         Deliver, RemoveScope, TypeOK, Scoped
<1>2. ASSUME NEW e \in Dispatches
      PROVE  GrantHeld(e)'
  BY <1>1 DEF GrantsHeld, GrantHeld, Forgettable, Takeover, compositionVars,
              lifeVars, clientVars, requestVars, ledgerVars
<1>3. QED
  BY <1>2 DEF GrantsHeld

(* Home forgets grants only while no execution of the registry exists, and *)
(* a client that leaves a grant behind is not replaced under takeover.     *)
LEMMA SupervisorKeepsGrants ==
  ASSUME TypeOK, CompositionTypes, Lifetimes, RequestPlaces, FreshJoins,
         GrantsHeld, SupervisorStep
  PROVE  GrantsHeld'
<1> USE DEF GrantsHeld, GrantHeld, Forgettable, Takeover, vars, dispatchVars,
            requestVars, ledgerVars, lifeVars, clientVars
<1>1. CASE JoinFlusher \/ SilenceReleases
  BY <1>1 DEF JoinFlusher, SilenceReleases, SetReleaseSink
<1>2. ASSUME supervisor = "connecting", HomeCommits,
             UNCHANGED <<phase, group, ofEpoch, epoch>>
      PROVE  GrantsHeld'
  <2>1. CASE Takeover
    <3>1. \A d \in Dispatches : client[d] # lifetime
      BY <1>2 DEF RequestPlaces, RequestPlace, CompositionTypes
    <3>2. QED
      BY <1>2, <2>1, <3>1 DEF HomeCommits
  <2>2. CASE ~Takeover
    <3>1. \A d \in Dispatches : ofEpoch[d] # epoch /\ phase[d] \notin Scoped
      BY <1>2, <2>2 DEF FreshJoins, Fresh, RequestPlaces, RequestPlace, Scoped
    <3>2. \A d \in Dispatches : grant'[d] = NoGroup
      BY <2>2, <1>2 DEF HomeCommits
    <3>3. QED
      BY <1>2, <3>1, <3>2
  <2>3. QED
    BY <2>1, <2>2
<1>3. CASE Ready
  BY <1>2, <1>3 DEF Ready
<1>4. CASE ConnectFailed
  <2>1. CASE HomeCommits
    BY <1>2, <1>4, <2>1 DEF ConnectFailed
  <2>2. CASE UNCHANGED ledgerVars /\ ~HomeCommits
    <3>1. Takeover' <=> Takeover
      BY <1>4, <2>2, TakeoverMarks DEF ConnectFailed, CompositionTypes
    <3>2. QED
      BY <1>4, <2>2, <3>1 DEF ConnectFailed
  <2>3. QED
    BY <1>4, <2>1, <2>2 DEF ConnectFailed
<1>5. CASE Lose
  <2>1. bundle # 0
    BY <1>5 DEF Lose, Lifetimes, CompositionTypes
  <2>2. QED
    BY <1>5, <2>1 DEF Lose
<1>6. ASSUME NEW c \in Calls, Settle(c)
      PROVE  GrantsHeld'
  BY <1>6 DEF Settle, WaitPending
<1>7. ASSUME NEW c \in Calls, ReplaceClient(c)
      PROVE  GrantsHeld'
  <2>1. \A d \in Dispatches : request[d] # "granted"
    BY <1>7 DEF ReplaceClient, Returned, RequestPlaces, RequestPlace, Issued,
                IssuedPlace
  <2>2. lifetime \notin ambiguous
    BY <1>7 DEF ReplaceClient, Unsafe
  <2>3. QED
    BY <1>7, <2>1, <2>2 DEF ReplaceClient, Returned
<1>8. ASSUME NEW c \in Calls, FreeCall(c)
      PROVE  GrantsHeld'
  BY <1>8 DEF FreeCall, Returned, compositionVars
<1>9. ASSUME NEW c \in Calls, DrainUnsafe(c) \/ Shutdown(c)
      PROVE  GrantsHeld'
  BY <1>9 DEF DrainUnsafe, Shutdown, Drain
<1>10. CASE ReplaceRegistry
  <2>1. ~Takeover' /\ bundle' = 0
    BY <1>10, TakeoverMarks DEF ReplaceRegistry, CompositionTypes, Lifetimes
  <2>2. \A d \in Dispatches : ofEpoch[d] # epoch + 1
    BY DEF RequestPlaces, RequestPlace, CompositionTypes
  <2>3. QED
    BY <1>10, <2>1, <2>2 DEF ReplaceRegistry, NewRegistry
<1>11. CASE CancelService \/ FinalFlush \/ Finish
  BY <1>11 DEF CancelService, FinalFlush, Finish
<1>12. QED
  BY <1>1, <1>3, <1>4, <1>5, <1>6, <1>7, <1>8, <1>9, <1>10, <1>11
     DEF SupervisorStep

LEMMA GrantsHeldStep ==
  ASSUME TypeOK, CompositionTypes, Lifetimes, RequestPlaces, FreshJoins,
         GrantsHeld, NextComposition
  PROVE  GrantsHeld'
<1>1. ASSUME UNCHANGED <<group, phase, compositionVars>>
      PROVE  GrantsHeld'
  BY <1>1 DEF GrantsHeld, GrantHeld, Forgettable, Takeover, compositionVars,
              lifeVars, clientVars, requestVars, ledgerVars
<1>2. ASSUME NEW c \in Calls, RegistryCall(c)
      PROVE  GrantsHeld'
  BY <1>1, <1>2 DEF RegistryCall, WaitPendingStep, DrainSnapshot, DrainWait,
                    Timeout, DrainClose, dispatchVars
<1>3. ASSUME NEW g \in Groups, FlusherRecords(g)
      PROVE  GrantsHeld'
  BY <1>3 DEF FlusherRecords, vars, dispatchVars, GrantsHeld, GrantHeld,
              Forgettable, Takeover, lifeVars, clientVars, requestVars
<1>4. QED
  BY <1>2, <1>3, RequestKeepsGrants, ExecutionKeepsGrants,
     SupervisorKeepsGrants DEF NextComposition

-----------------------------------------------------------------------------
(* The registry's count of releases: those of its own executions           *)

Counting == {"releasing", "removing", "ended"}

ReleasedNow(g) == {d \in Released(g) : ofEpoch[d] = epoch}

Counts ==
  /\ \A g \in Groups : replay[g] = 0
  /\ \A g \in Groups : releaseSequences[g] = Cardinality(ReleasedNow(g))

(* The released executions of a registry are the same as long as the ones  *)
(* that count keep their group and registry.                               *)
LEMMA SameReleased ==
  ASSUME NEW g \in Groups, UNCHANGED epoch,
         \A d \in Dispatches :
           \/ /\ phase'[d] \in Counting <=> phase[d] \in Counting
              /\ group'[d] = group[d]
              /\ ofEpoch'[d] = ofEpoch[d]
           \/ /\ phase[d] \notin Counting \/ group[d] = NoGroup
              /\ phase'[d] \notin Counting \/ group'[d] = NoGroup
  PROVE  ReleasedNow(g)' = ReleasedNow(g)
BY NullAssumption DEF ReleasedNow, Released, Counting

LEMMA RequestKeepsCounts ==
  ASSUME TypeOK, CompositionTypes, RequestPlaces, Counts,
         NEW d \in Dispatches, RequestStep(d)
  PROVE  Counts'
<1>1. UNCHANGED <<releaseSequences, replay, epoch>>
  BY DEF RequestStep, TakeBundle, Begin, BeginDispatch, BeginRefused,
         IssueGranted, IssuePlain, Abort, EndPending, DropPending,
         InstallGranted, InstallRefused, InstallPlain, Install, AbortInvalid,
         vars, releaseVars, lifeVars
<1>2. \/ /\ phase'[d] \in Counting <=> phase[d] \in Counting
         /\ group'[d] = group[d]
         /\ ofEpoch'[d] = ofEpoch[d]
      \/ /\ phase[d] \notin Counting \/ group[d] = NoGroup
         /\ phase'[d] \notin Counting \/ group'[d] = NoGroup
  <2> USE DEF Counting, TypeOK, CompositionTypes, vars, dispatchVars,
              requestVars
  <2>0. RequestPlace(d)
    BY DEF RequestPlaces
  <2>1. CASE TakeBundle(d)
    BY <2>0, <2>1 DEF TakeBundle, RequestPlace
  <2>2. CASE Begin(d) \/ BeginRefused(d)
    BY <2>2 DEF Begin, BeginRefused, BeginDispatch
  <2>3. CASE Abort(d) \/ IssuePlain(d) \/ AbortInvalid(d)
              \/ \E g \in Groups : IssueGranted(d, g)
    BY <2>3 DEF Abort, IssuePlain, AbortInvalid, IssueGranted
  <2>4. CASE EndPending(d)
    BY <2>0, <2>4 DEF EndPending, DropPending, RequestPlace
  <2>5. CASE InstallGranted(d) \/ InstallPlain(d)
    BY <2>5 DEF InstallGranted, InstallPlain, Install
  <2>6. CASE InstallRefused(d)
    BY <2>0, <2>6 DEF InstallRefused, DropPending, RequestPlace
  <2>7. QED
    BY <2>1, <2>2, <2>3, <2>4, <2>5, <2>6 DEF RequestStep
<1>3. ASSUME NEW g \in Groups
      PROVE  ReleasedNow(g)' = ReleasedNow(g)
  BY <1>1, <1>2, RequestFrame, SameReleased DEF Counting
<1>4. QED
  BY <1>1, <1>3 DEF Counts

(* markReleasedLocked counts one more execution of the registry.           *)
LEMMA MarkReleasedKeepsCounts ==
  ASSUME TypeOK, CompositionTypes, RequestPlaces, Counts,
         NEW d \in Dispatches, MarkReleased(d), UNCHANGED compositionVars
  PROVE  Counts'
<1>1. /\ UNCHANGED <<group, replay, ofEpoch, epoch>>
      /\ phase[d] = "ending" /\ phase'[d] = "releasing"
      /\ \A e \in Dispatches : e # d => phase'[e] = phase[e]
      /\ ofEpoch[d] = epoch
  BY DEF MarkReleased, TypeOK, compositionVars, requestVars, lifeVars,
         RequestPlaces, RequestPlace
<1>2. ASSUME NEW g \in Groups
      PROVE  releaseSequences'[g] = Cardinality(ReleasedNow(g)')
  <2>1. CASE group[d] # g
    <3>1. ReleasedNow(g)' = ReleasedNow(g)
      BY <1>1, <2>1 DEF ReleasedNow, Released
    <3>2. releaseSequences'[g] = releaseSequences[g]
      BY <2>1 DEF MarkReleased, TypeOK
    <3>3. QED
      BY <3>1, <3>2 DEF Counts
  <2>2. CASE group[d] = g
    <3>1. ReleasedNow(g)' = ReleasedNow(g) \union {d} /\ d \notin ReleasedNow(g)
      BY <1>1, <2>2 DEF ReleasedNow, Released
    <3>2. IsFiniteSet(ReleasedNow(g))
      BY FS_Subset, DispatchAssumption DEF ReleasedNow, Released
    <3>3. Cardinality(ReleasedNow(g)') = Cardinality(ReleasedNow(g)) + 1
      BY <3>1, <3>2, FS_AddElement
    <3>4. releaseSequences'[g] = releaseSequences[g] + 1
      BY <2>2, NullAssumption DEF MarkReleased, TypeOK
    <3>5. QED
      BY <3>3, <3>4 DEF Counts
  <2>3. QED
    BY <2>1, <2>2
<1>3. QED
  BY <1>1, <1>2 DEF Counts

LEMMA ExecutionKeepsCounts ==
  ASSUME TypeOK, CompositionTypes, RequestPlaces, Counts,
         NEW d \in Dispatches, Execute(d)
  PROVE  Counts'
<1>1. ASSUME ~MarkReleased(d)
      PROVE  Counts'
  <2>1. /\ UNCHANGED <<releaseSequences, replay, group, compositionVars>>
        /\ \A e \in Dispatches :
             phase'[e] \in Counting <=> phase[e] \in Counting
    BY <1>1 DEF Execute, Bind, CloseResource, EndBegin, EndStartClose,
                Deliver, RemoveScope, releaseVars, TypeOK, Counting
  <2>2. UNCHANGED <<ofEpoch, epoch>>
    BY <2>1 DEF compositionVars, requestVars, lifeVars
  <2>3. \A g \in Groups : ReleasedNow(g)' = ReleasedNow(g)
    BY <2>1, <2>2, SameReleased
  <2>4. QED
    BY <2>1, <2>3 DEF Counts
<1>2. CASE MarkReleased(d)
  BY <1>2, MarkReleasedKeepsCounts DEF Execute
<1>3. QED
  BY <1>1, <1>2

(* On a registry that no dispatch has used nothing has been released.      *)
LEMMA FreshHasNoRelease ==
  ASSUME Fresh
  PROVE  \A g \in Groups : Cardinality(ReleasedNow(g)) = 0
<1>1. \A g \in Groups : ReleasedNow(g) = {}
  BY DEF Fresh, ReleasedNow, Released
<1>2. QED
  BY <1>1, FS_EmptySet

LEMMA SupervisorKeepsCounts ==
  ASSUME TypeOK, CompositionTypes, RequestPlaces, FreshJoins, Counts,
         SupervisorStep
  PROVE  Counts'
<1>1. ASSUME UNCHANGED <<releaseSequences, phase, group, ofEpoch, epoch>>,
             \A g \in Groups : replay'[g] = 0
      PROVE  Counts'
  BY <1>1, SameReleased DEF Counts
<1>2. CASE JoinFlusher
  <2>1. replay' = releaseSequences \/ UNCHANGED replay
    BY <1>2 DEF JoinFlusher, SetReleaseSink
  <2>2. \A g \in Groups : replay'[g] = 0
    BY <1>2, <2>1, FreshHasNoRelease DEF JoinFlusher, FreshJoins, Counts
  <2>3. QED
    BY <1>1, <1>2, <2>2 DEF JoinFlusher, SetReleaseSink, dispatchVars,
                            requestVars
<1>3. CASE SilenceReleases
  BY <1>1, <1>3 DEF SilenceReleases, SetReleaseSink, Counts, dispatchVars,
                    requestVars
<1>4. CASE Ready \/ ConnectFailed \/ Lose \/ CancelService \/ FinalFlush \/ Finish
  BY <1>1, <1>4 DEF Ready, ConnectFailed, Lose, CancelService, FinalFlush,
                    Finish, Counts, vars, dispatchVars, releaseVars,
                    requestVars
<1>5. ASSUME NEW c \in Calls,
             Settle(c) \/ ReplaceClient(c) \/ FreeCall(c)
               \/ DrainUnsafe(c) \/ Shutdown(c)
      PROVE  Counts'
  BY <1>1, <1>5 DEF Settle, WaitPending, ReplaceClient, FreeCall, Returned,
                    DrainUnsafe, Shutdown, Drain, Counts, dispatchVars,
                    releaseVars, compositionVars, lifeVars, requestVars
<1>6. CASE ReplaceRegistry
  <2>1. /\ UNCHANGED <<replay, ofEpoch>> /\ epoch' = epoch + 1
        /\ \A g \in Groups : releaseSequences'[g] = 0
    BY <1>6 DEF ReplaceRegistry, NewRegistry, requestVars
  <2>2. \A d \in Dispatches : ofEpoch'[d] # epoch'
    BY <2>1 DEF RequestPlaces, RequestPlace, CompositionTypes
  <2>3. \A g \in Groups : ReleasedNow(g)' = {}
    BY <2>2 DEF ReleasedNow, Released
  <2>4. QED
    BY <2>1, <2>3, FS_EmptySet DEF Counts
<1>7. QED
  BY <1>2, <1>3, <1>4, <1>5, <1>6 DEF SupervisorStep

LEMMA CountsStep ==
  ASSUME TypeOK, CompositionTypes, RequestPlaces, FreshJoins, Counts,
         NextComposition
  PROVE  Counts'
<1>1. ASSUME UNCHANGED <<releaseSequences, replay, phase, group, ofEpoch,
                         epoch>>
      PROVE  Counts'
  BY <1>1, SameReleased DEF Counts
<1>2. ASSUME NEW c \in Calls, RegistryCall(c)
      PROVE  Counts'
  BY <1>1, <1>2 DEF RegistryCall, WaitPendingStep, DrainSnapshot, DrainWait,
                    Timeout, DrainClose, dispatchVars, releaseVars,
                    compositionVars, lifeVars, requestVars
<1>3. ASSUME NEW g \in Groups, FlusherRecords(g)
      PROVE  Counts'
  BY <1>1, <1>3 DEF FlusherRecords, vars, dispatchVars, releaseVars,
                    lifeVars, requestVars
<1>4. QED
  BY <1>2, <1>3, RequestKeepsCounts, ExecutionKeepsCounts,
     SupervisorKeepsCounts DEF NextComposition

-----------------------------------------------------------------------------
(* Home's record                                                           *)

Ahead == \A g \in Groups : recorded[g] <= seen[Flusher][g]

(* Home has recorded no more than the flusher of the registry has seen,    *)
(* unless it is about to forget the membership in which it did.            *)
Recording ==
  /\ Ahead \/ (bundle = 0 /\ ~Takeover /\ Fresh)
  /\ supervisor \in {"connecting", "running", "lost", "settling",
                     "finalDrain", "flushing", "finished"} =>
       releaseSink = Flusher
  /\ supervisor = "finished" =>
       \A g \in Groups : seen[Flusher][g] <= recorded[g]

(* What a sink has seen only grows, and not at all once no execution is    *)
(* left.                                                                   *)
LEMMA SeenGrows ==
  ASSUME TypeOK, NEW d \in Dispatches, Execute(d)
  PROVE  /\ \A g \in Groups : seen[Flusher][g] <= seen'[Flusher][g]
         /\ seen' # seen => phase[d] = "releasing"
<1>1. CASE Deliver(d)
  <2>1. CASE UNCHANGED seen
    BY <1>1, <2>1, CompositionAssumption DEF Deliver, TypeOK
  <2>2. CASE Record(delivery[d].sink, group[d], delivery[d].seq)
    <3>1. delivery[d].seq \in Nat
      BY ReleaseTypes
    <3>2. ASSUME NEW g \in Groups
          PROVE  seen'[Flusher][g] \in {seen[Flusher][g],
                                        Larger(seen[Flusher][g], delivery[d].seq)}
      BY <2>2, ReleaseTypes, CompositionAssumption DEF Record
    <3>3. ASSUME NEW g \in Groups
          PROVE  seen[Flusher][g] <= Larger(seen[Flusher][g], delivery[d].seq)
      BY <3>1, ReleaseTypes, CompositionAssumption DEF Larger
    <3>4. QED
      BY <1>1, <3>2, <3>3, ReleaseTypes, CompositionAssumption DEF Deliver
  <2>3. QED
    BY <1>1, <2>1, <2>2 DEF Deliver
<1>2. CASE ~Deliver(d)
  <2>1. UNCHANGED seen
    BY <1>2 DEF Execute, Bind, CloseResource, EndBegin, EndStartClose,
                MarkReleased, RemoveScope, releaseVars
  <2>2. QED
    BY <2>1, ReleaseTypes, CompositionAssumption
<1>3. QED
  BY <1>1, <1>2

(* Outside the supervisor's steps the flusher sees, then Home records.     *)
LEMMA RecordingStepAside ==
  ASSUME TypeOK, PhaseInv, CompositionTypes, Lifetimes, Recording,
         NextComposition, ~SupervisorStep
  PROVE  Recording'
<1>1. UNCHANGED lifeVars
  BY LifeFrame
<1>2. UNCHANGED releaseSink
  BY DEF NextComposition, RequestStep, TakeBundle, Begin, BeginDispatch,
         BeginRefused, IssueGranted, IssuePlain, Abort, EndPending,
         DropPending, InstallGranted, InstallRefused, InstallPlain, Install,
         AbortInvalid, Execute, Bind, CloseResource, EndBegin, EndStartClose,
         MarkReleased, Deliver, RemoveScope, FlusherRecords, RegistryCall,
         WaitPendingStep, DrainSnapshot, DrainWait, Timeout, DrainClose,
         vars, releaseVars
<1>3. bundle = 0 => UNCHANGED ofEpoch
  BY <1>1, TakesWhileRunning DEF Lifetimes, CompositionTypes, lifeVars
<1> DEFINE Grows ==
      /\ \A g \in Groups : recorded[g] <= seen[Flusher][g] =>
                             recorded'[g] <= seen'[Flusher][g]
      /\ supervisor = "finished" =>
           \A g \in Groups : seen[Flusher][g] <= recorded[g] =>
                               seen'[Flusher][g] <= recorded'[g]
<1>4. Grows
  <2>1. ASSUME UNCHANGED <<seen, recorded>>
        PROVE  Grows
    BY <2>1
  <2>2. ASSUME NEW d \in Dispatches, RequestStep(d)
        PROVE  Grows
    BY <2>1, <2>2 DEF RequestStep, TakeBundle, Begin, BeginDispatch,
         BeginRefused, IssueGranted, IssuePlain, Abort, EndPending,
         DropPending, InstallGranted, InstallRefused, InstallPlain, Install,
         AbortInvalid, vars, releaseVars, ledgerVars
  <2>3. ASSUME NEW d \in Dispatches, Execute(d)
        PROVE  Grows
    <3>1. UNCHANGED recorded
      BY <2>3 DEF Execute, compositionVars, ledgerVars
    <3>2. \A g \in Groups : /\ recorded[g] \in Nat
                            /\ seen[Flusher][g] \in Nat
                            /\ seen'[Flusher][g] \in Nat
                            /\ seen[Flusher][g] <= seen'[Flusher][g]
      <4>1. TypeOK'
        BY <2>3, OwnerTypeOK DEF Execute, OwnerStep
      <4>2. QED
        BY <2>3, <4>1, SeenGrows, CompositionAssumption
           DEF TypeOK, CompositionTypes
    <3>3. supervisor = "finished" => UNCHANGED seen
      BY <2>3, SeenGrows DEF Lifetimes, PhaseInv
    <3>4. QED
      BY <3>1, <3>2, <3>3
  <2>4. ASSUME NEW c \in Calls, RegistryCall(c)
        PROVE  Grows
    BY <2>1, <2>4 DEF RegistryCall, WaitPendingStep, DrainSnapshot,
         DrainWait, Timeout, DrainClose, releaseVars, compositionVars,
         ledgerVars
  <2>5. ASSUME NEW g \in Groups, FlusherRecords(g)
        PROVE  Grows
    <3>1. PICK n \in recorded[g] + 1 .. seen[Flusher][g] :
            recorded' = [recorded EXCEPT ![g] = n]
      BY <2>5 DEF FlusherRecords
    <3>2. recorded[g] \in Nat /\ seen[Flusher][g] \in Nat
      BY CompositionAssumption DEF TypeOK, CompositionTypes
    <3>3. /\ recorded'[g] <= seen[Flusher][g]
          /\ recorded[g] < recorded'[g]
          /\ \A h \in Groups : h # g => recorded'[h] = recorded[h]
      BY <3>1, <3>2 DEF CompositionTypes
    <3>4. UNCHANGED seen
      BY <2>5 DEF FlusherRecords, vars, releaseVars
    <3>5. n \in Int /\ recorded'[g] = n
      BY <3>1, <3>2 DEF CompositionTypes
    <3>6. seen[Flusher][g] <= recorded[g] => seen[Flusher][g] <= recorded'[g]
      BY <3>2, <3>3, <3>5
    <3>7. QED
      BY <3>3, <3>4, <3>6
  <2>6. QED
    BY <2>2, <2>3, <2>4, <2>5 DEF NextComposition
<1>5. Ahead => Ahead'
  BY <1>4 DEF Ahead
<1>6. QED
  BY <1>1, <1>2, <1>3, <1>4, <1>5 DEF Recording, Fresh, Takeover, lifeVars

(* A commit without takeover forgets the record together with the grants;  *)
(* a new registry is only joined that way.                                 *)
LEMMA RecordingStepSupervisor ==
  ASSUME TypeOK, CompositionTypes, Lifetimes, RequestPlaces, FreshJoins,
         Recording, SupervisorStep
  PROVE  Recording'
<1> USE DEF Recording, Ahead, Takeover, Fresh, vars, releaseVars, requestVars,
            ledgerVars, lifeVars
<1>1. CASE JoinFlusher \/ SilenceReleases
  BY <1>1 DEF JoinFlusher, SilenceReleases, SetReleaseSink
<1>2. ASSUME HomeCommits, UNCHANGED seen
      PROVE  Ahead'
  <2>1. \A g \in Groups : seen[Flusher][g] \in Nat
    BY CompositionAssumption DEF TypeOK
  <2>2. CASE Takeover
    BY <1>2, <2>2 DEF HomeCommits
  <2>3. CASE ~Takeover
    BY <1>2, <2>1, <2>3 DEF HomeCommits
  <2>4. QED
    BY <2>2, <2>3
<1>3. CASE Ready
  BY <1>2, <1>3 DEF Ready
<1>4. CASE ConnectFailed
  <2>1. CASE HomeCommits
    BY <1>2, <1>4, <2>1 DEF ConnectFailed
  <2>2. CASE UNCHANGED ledgerVars /\ ~HomeCommits
    <3>1. Takeover' <=> Takeover
      BY <1>4, <2>2, TakeoverMarks DEF ConnectFailed, CompositionTypes
    <3>2. QED
      BY <1>4, <2>2, <3>1 DEF ConnectFailed
  <2>3. QED
    BY <1>4, <2>1, <2>2 DEF ConnectFailed
<1>5. CASE Lose
  <2>1. bundle # 0
    BY <1>5 DEF Lose, Lifetimes, CompositionTypes
  <2>2. QED
    BY <1>5, <2>1 DEF Lose
<1>6. ASSUME NEW c \in Calls,
             Settle(c) \/ ReplaceClient(c) \/ FreeCall(c)
               \/ DrainUnsafe(c) \/ Shutdown(c)
      PROVE  Recording'
  BY <1>6 DEF Settle, WaitPending, ReplaceClient, FreeCall, Returned,
              DrainUnsafe, Shutdown, Drain, compositionVars
<1>7. CASE ReplaceRegistry
  <2>1. ~Takeover' /\ bundle' = 0
    BY <1>7, TakeoverMarks DEF ReplaceRegistry, CompositionTypes, Lifetimes
  <2>2. \A d \in Dispatches : ofEpoch[d] # epoch + 1
    BY DEF RequestPlaces, RequestPlace, CompositionTypes
  <2>3. QED
    BY <1>7, <2>1, <2>2 DEF ReplaceRegistry
<1>8. CASE CancelService \/ FinalFlush \/ Finish
  BY <1>8 DEF CancelService, FinalFlush, Finish
<1>9. QED
  BY <1>1, <1>3, <1>4, <1>5, <1>6, <1>7, <1>8 DEF SupervisorStep

-----------------------------------------------------------------------------
(* The invariant of the composition                                        *)

HomeInv ==
  /\ TypeOK
  /\ PhaseInv
  /\ ReleaseInv
  /\ CompositionTypes
  /\ Lifetimes
  /\ Supervision
  /\ RequestPlaces
  /\ FreshJoins
  /\ GrantsHeld
  /\ Counts
  /\ Recording

LEMMA HomeInit ==
  ASSUME InitComposition
  PROVE  HomeInv
<1> USE DEF InitComposition, Init
<1>1. TypeOK
  BY BarrierAssumption
     DEF TypeOK, States, Phases, Resources, CallPcs, CloserPcs, Barriers
<1>2. PhaseInv /\ ReleaseInv
  BY NullAssumption DEF PhaseInv, ReleaseInv, NoLostRelease
<1>3. CompositionTypes
  <2>1. unsafe \in BOOLEAN
    BY Zenon
  <2>2. QED
    BY <2>1 DEF CompositionTypes, Supervisors, Recoveries, Requests
<1>4. Lifetimes /\ Supervision
  BY DEF Lifetimes, Supervision, Opening
<1>5. RequestPlaces
  BY DEF RequestPlaces, RequestPlace, Issued
<1>6. Fresh /\ FreshJoins
  BY DEF Fresh, FreshJoins, Takeover
<1>7. GrantsHeld
  BY DEF GrantsHeld, GrantHeld, Scoped
<1>8. Counts
  BY <1>6, FreshHasNoRelease DEF Counts
<1>9. Recording
  BY CompositionAssumption DEF Recording, Ahead
<1>10. QED
  BY <1>1, <1>2, <1>3, <1>4, <1>5, <1>6, <1>7, <1>8, <1>9 DEF HomeInv

(* The registry's own invariants hold in the composition too: a registry   *)
(* is replaced when a Drain has emptied it.                                *)
LEMMA RegistryStep ==
  ASSUME HomeInv, [NextComposition]_allVars
  PROVE  TypeOK' /\ PhaseInv' /\ ReleaseInv'
<1> USE DEF HomeInv
<1>1. CASE [Next]_vars
  BY <1>1, TypeStep, PhaseStep, ReleaseStep
<1>2. ASSUME NEW c \in Calls, Returned(c, "clear")
      PROVE  TypeOK' /\ PhaseInv' /\ ReleaseInv'
  BY <1>2, ReturnedKeeps
<1>3. CASE ReplaceRegistry
  <2>1. Emptied /\ NewRegistry
    BY <1>3 DEF ReplaceRegistry, Supervision, Emptied, Counts
  <2>2. QED
    BY <2>1, NewRegistryKeeps
<1>4. QED
  BY <1>1, <1>2, <1>3, RegistrySteps

LEMMA HomeStep ==
  ASSUME HomeInv, [NextComposition]_allVars
  PROVE  HomeInv'
<1> USE DEF HomeInv
<1>1. TypeOK' /\ PhaseInv' /\ ReleaseInv'
  BY RegistryStep
<1>2. CompositionTypes'
  BY CompositionTypesStep
<1>3. CASE NextComposition
  <2>1. Lifetimes'
    BY <1>3, LifetimesStepAside, LifetimesStepSupervisor
  <2>2. Supervision'
    BY <1>3, SupervisionStep
  <2>3. RequestPlaces'
    BY <1>3, RequestPlacesStep
  <2>4. FreshJoins'
    BY <1>3, FreshJoinsStep
  <2>5. GrantsHeld'
    BY <1>3, GrantsHeldStep
  <2>6. Counts'
    BY <1>3, CountsStep
  <2>7. Recording'
    BY <1>3, RecordingStepAside, RecordingStepSupervisor
  <2>8. QED
    BY <1>1, <1>2, <2>1, <2>2, <2>3, <2>4, <2>5, <2>6, <2>7
<1>4. CASE UNCHANGED allVars
  <2> USE <1>4 DEF allVars, vars, dispatchVars, releaseVars, callVars,
                   compositionVars, lifeVars, clientVars, requestVars,
                   ledgerVars
  <2>1. Lifetimes' /\ Supervision'
    BY DEF Lifetimes, Supervision
  <2>2. RequestPlaces'
    BY DEF RequestPlaces, RequestPlace, Issued, IssuedPlace
  <2>3. FreshJoins' /\ Fresh' = Fresh
    BY DEF FreshJoins, Fresh, Takeover, Unsafe
  <2>4. GrantsHeld'
    BY DEF GrantsHeld, GrantHeld, Forgettable, Takeover
  <2>5. Counts'
    BY DEF Counts, ReleasedNow, Released
  <2>6. Recording'
    BY DEF Recording, Ahead, Takeover, Fresh
  <2>7. QED
    BY <1>1, <1>2, <2>1, <2>2, <2>3, <2>4, <2>5, <2>6
<1>5. QED
  BY <1>3, <1>4

LEMMA HomeInvHolds == SpecComposition => []HomeInv
<1>1. InitComposition => HomeInv
  BY HomeInit
<1>2. HomeInv /\ [NextComposition]_allVars => HomeInv'
  BY HomeStep
<1>3. QED
  BY <1>1, <1>2, PTL DEF SpecComposition

(* No slot leaks into a later lifetime, whatever answers are lost and      *)
(* however lifetimes and registries follow each other                      *)
(* (AbortAmbiguousDispatch, WaitPending, the recovery state).              *)
THEOREM NoSlotLeaks == SpecComposition => []NoLeakedSlot
<1>1. HomeInv => NoLeakedSlot
  BY DEF HomeInv, GrantsHeld, GrantHeld, Forgettable, NoLeakedSlot
<1>2. QED
  BY <1>1, HomeInvHolds, PTL

(* A service that shut down in time owes Home nothing: every execution of  *)
(* its registry has ended and been counted, the flusher has seen the       *)
(* count, and Home has recorded what the flusher has seen (Drain, Flush).  *)
THEOREM ShutdownIsClean == SpecComposition => []CleanShutdown
<1>1. ASSUME HomeInv, supervisor = "finished", NEW g \in Groups
      PROVE  Cardinality({d \in Dispatches : group[d] = g /\ ofEpoch[d] = epoch})
               <= recorded[g]
  <2> USE <1>1 DEF HomeInv
  <2>1. scopes = {} /\ pending = {}
    BY DEF Lifetimes
  <2>2. \A d \in Dispatches : phase[d] \in {"new", "ended"}
    BY <2>1 DEF PhaseInv, TypeOK, Phases
  <2>3. \A d \in Dispatches : group[d] = g => phase[d] = "ended"
    BY <2>2, NullAssumption DEF RequestPlaces, RequestPlace
  <2>4. {d \in Dispatches : group[d] = g /\ ofEpoch[d] = epoch} = ReleasedNow(g)
    BY <2>3 DEF ReleasedNow, Released
  <2>5. releaseSequences[g] = Cardinality(ReleasedNow(g))
    BY DEF Counts
  <2>6. /\ replay[g] = 0 /\ seen[Flusher][g] <= releaseSequences[g]
        /\ seen[Flusher][g] \in Nat /\ releaseSequences[g] \in Nat
    BY CompositionAssumption DEF Counts, ReleaseInv, TypeOK
  <2>7. \/ seen[Flusher][g] = releaseSequences[g]
        \/ replay[g] = releaseSequences[g]
    BY <2>2, CompositionAssumption DEF Recording, ReleaseInv, NoLostRelease
  <2>8. seen[Flusher][g] = releaseSequences[g]
    BY <2>6, <2>7
  <2>9. seen[Flusher][g] <= recorded[g]
    BY DEF Recording
  <2>10. QED
    BY <2>4, <2>5, <2>8, <2>9
<1>2. HomeInv => CleanShutdown
  BY <1>1 DEF CleanShutdown
<1>3. QED
  BY <1>2, HomeInvHolds, PTL

-----------------------------------------------------------------------------
(* The refinement of HomeSlots                                             *)

(* Executions that use a slot and executions of the registry that released *)
(* theirs are different ones, all of them granted; with what Home recorded *)
(* bounded by the releases, Home counts every slot in use.                 *)
LEMMA SlotSets ==
  ASSUME HomeInv, NEW g \in Groups
  PROVE  /\ InUse(g) \subseteq Granted(g)
         /\ ReleasedNow(g) \subseteq Granted(g)
         /\ InUse(g) \intersect ReleasedNow(g) = {}
         /\ IsFiniteSet(Granted(g))
         /\ Fresh => InUse(g) = {}
<1> USE DEF HomeInv
<1>1. g # NoGroup
  BY NullAssumption
<1>2. \A d \in InUse(g) : phase[d] \in {"installed", "ending"} /\ group[d] = g
  BY DEF InUse, PhaseInv
<1>3. InUse(g) \subseteq Granted(g)
  BY <1>2 DEF InUse, Granted, GrantsHeld, GrantHeld, Scoped
<1>4. ReleasedNow(g) \subseteq Granted(g)
  BY <1>1 DEF ReleasedNow, Released, Granted, GrantsHeld, GrantHeld
<1>5. InUse(g) \intersect ReleasedNow(g) = {}
  BY <1>2 DEF ReleasedNow, Released
<1>6. IsFiniteSet(Granted(g))
  BY FS_Subset, DispatchAssumption DEF Granted
<1>7. Fresh => InUse(g) = {}
  BY <1>2 DEF Fresh, RequestPlaces, RequestPlace, InUse
<1>8. QED
  BY <1>3, <1>4, <1>5, <1>6, <1>7

(* Disjoint parts of a finite set have together at most its size.          *)
LEMMA DisjointParts ==
  ASSUME NEW S, NEW A, NEW B, IsFiniteSet(S), A \subseteq S, B \subseteq S,
         A \intersect B = {}
  PROVE  /\ IsFiniteSet(A) /\ IsFiniteSet(B)
         /\ Cardinality(A) \in Nat /\ Cardinality(B) \in Nat
         /\ Cardinality(S) \in Nat
         /\ Cardinality(A) + Cardinality(B) <= Cardinality(S)
<1>1. IsFiniteSet(A) /\ IsFiniteSet(B) /\ IsFiniteSet(A \union B)
  BY FS_Subset, FS_Union
<1>2. /\ Cardinality(A) \in Nat /\ Cardinality(B) \in Nat
      /\ Cardinality(S) \in Nat
  BY <1>1, FS_CardinalityType
<1>3. Cardinality(A \union B) = Cardinality(A) + Cardinality(B)
  <2>1. Cardinality(A \intersect B) = 0
    BY FS_EmptySet
  <2>2. Cardinality(A \union B) =
          Cardinality(A) + Cardinality(B) - Cardinality(A \intersect B)
    BY <1>1, FS_Union
  <2>3. QED
    BY <1>2, <2>1, <2>2
<1>4. Cardinality(A \union B) <= Cardinality(S)
  BY FS_Subset
<1>5. QED
  BY <1>1, <1>2, <1>3, <1>4

(* The types of Home's counts.                                             *)
LEMMA SlotNumbers ==
  ASSUME HomeInv, NEW g \in Groups
  PROVE  /\ Cardinality(InUse(g)) \in Nat
         /\ Cardinality(Granted(g)) \in Nat
         /\ Cardinality(ReleasedNow(g)) \in Nat
         /\ recorded[g] \in Nat
         /\ seen[Flusher][g] \in Nat
         /\ seen[Flusher][g] <= Cardinality(ReleasedNow(g))
         /\ Cardinality(InUse(g)) + Cardinality(ReleasedNow(g))
              <= Cardinality(Granted(g))
<1>1. /\ Cardinality(InUse(g)) \in Nat
      /\ Cardinality(Granted(g)) \in Nat
      /\ Cardinality(ReleasedNow(g)) \in Nat
      /\ Cardinality(InUse(g)) + Cardinality(ReleasedNow(g))
           <= Cardinality(Granted(g))
  BY SlotSets, DisjointParts
<1>2. /\ recorded[g] \in Nat
      /\ seen[Flusher][g] \in Nat
      /\ seen[Flusher][g] <= releaseSequences[g]
      /\ releaseSequences[g] = Cardinality(ReleasedNow(g))
  BY CompositionAssumption
     DEF HomeInv, TypeOK, CompositionTypes, ReleaseInv, Counts
<1>3. QED
  BY <1>1, <1>2

(* The steps of HomeSlots, stated of Home's count and the slots in use.    *)
Used(g) == Cardinality(InUse(g))

LEMMA SlotsStutter ==
  ASSUME \A g \in Groups : Outstanding(g)' = Outstanding(g),
         \A g \in Groups : Used(g)' = Used(g)
  PROVE  UNCHANGED <<[g \in Groups |-> Outstanding(g)],
                     [g \in Groups |-> Cardinality(InUse(g))]>>
BY DEF Used

LEMMA SlotsGrant ==
  ASSUME NEW g \in Groups,
         Outstanding(g) < Capacity,
         Outstanding(g)' = Outstanding(g) + 1,
         \A h \in Groups \ {g} : Outstanding(h)' = Outstanding(h),
         \A h \in Groups : Used(h)' = Used(h)
  PROVE  Slots!Next
<1>1. Slots!Grant(g)
  BY DEF Slots!Grant, Used
<1>2. QED
  BY <1>1 DEF Slots!Next

LEMMA SlotsStart ==
  ASSUME NEW g \in Groups,
         Used(g) < Outstanding(g),
         Used(g)' = Used(g) + 1,
         \A h \in Groups \ {g} : Used(h)' = Used(h),
         \A h \in Groups : Outstanding(h)' = Outstanding(h)
  PROVE  Slots!Next
<1>1. Slots!Start(g)
  BY DEF Slots!Start, Used
<1>2. QED
  BY <1>1 DEF Slots!Next

LEMMA SlotsFinish ==
  ASSUME NEW g \in Groups,
         Used(g) > 0,
         Used(g)' = Used(g) - 1,
         \A h \in Groups \ {g} : Used(h)' = Used(h),
         \A h \in Groups : Outstanding(h)' = Outstanding(h)
  PROVE  Slots!Next
<1>1. Slots!Finish(g)
  BY DEF Slots!Finish, Used
<1>2. QED
  BY <1>1 DEF Slots!Next

LEMMA SlotsReturn ==
  ASSUME NEW g \in Groups,
         Outstanding(g)' \in Used(g) .. Outstanding(g) - 1,
         \A h \in Groups \ {g} : Outstanding(h)' = Outstanding(h),
         \A h \in Groups : Used(h)' = Used(h)
  PROVE  Slots!Next
<1>1. Slots!Return(g)
  BY DEF Slots!Return, Used
<1>2. QED
  BY <1>1 DEF Slots!Next

LEMMA SlotsForget ==
  ASSUME \A g \in Groups : Used(g) = 0,
         \A g \in Groups : Outstanding(g)' = 0,
         \A g \in Groups : Used(g)' = Used(g)
  PROVE  Slots!Next
<1>1. Slots!Forget
  BY DEF Slots!Forget, Used
<1>2. QED
  BY <1>1 DEF Slots!Next

(* What HomeSlots sees of a step.                                          *)
SlotStep == [Slots!Next]_<<[g \in Groups |-> Outstanding(g)],
                           [g \in Groups |-> Cardinality(InUse(g))]>>

(* A step that touches neither the ledger nor the use of a slot.           *)
LEMMA NoSlotTouched ==
  ASSUME UNCHANGED ledgerVars,
         \A g \in Groups : InUse(g)' = InUse(g)
  PROVE  SlotStep
<1>1. \A g \in Groups : Used(g)' = Used(g)
  BY DEF Used
<1>2. \A g \in Groups : Outstanding(g)' = Outstanding(g)
  BY DEF Outstanding, Granted, ledgerVars
<1>3. QED
  BY <1>1, <1>2, SlotsStutter DEF SlotStep

(* A step that ends the use of a slot, if the execution had one.           *)
LEMMA SlotLeft ==
  ASSUME HomeInv, UNCHANGED ledgerVars, NEW d \in Dispatches,
         \A g \in Groups : InUse(g)' = InUse(g) \ {d}
  PROVE  SlotStep
<1>1. CASE group[d] \in Groups /\ d \in InUse(group[d])
  <2>1. PICK g \in Groups : g = group[d]
    BY <1>1
  <2>2. IsFiniteSet(InUse(g)) /\ Used(g) \in Nat
    BY SlotSets, FS_Subset, SlotNumbers DEF Used
  <2>3. Used(g)' = Used(g) - 1
    <3>1. InUse(g)' = InUse(g) \ {d} /\ d \in InUse(g)
      BY <1>1, <2>1
    <3>2. Cardinality(InUse(g) \ {d}) = Cardinality(InUse(g)) - 1
      BY <2>2, <3>1, FS_RemoveElement
    <3>3. QED
      BY <3>1, <3>2 DEF Used
  <2>4. Used(g) > 0
    <3>1. InUse(g) # {}
      BY <1>1, <2>1
    <3>2. Cardinality(InUse(g)) # 0
      BY <2>2, <3>1, FS_EmptySet
    <3>3. QED
      BY <2>2, <3>2 DEF Used
  <2>5. \A h \in Groups \ {g} : Used(h)' = Used(h)
    <3>1. \A h \in Groups \ {g} : InUse(h)' = InUse(h)
      BY <2>1 DEF InUse
    <3>2. QED
      BY <3>1 DEF Used
  <2>6. \A h \in Groups : Outstanding(h)' = Outstanding(h)
    BY DEF Outstanding, Granted, ledgerVars
  <2>7. QED
    BY <2>3, <2>4, <2>5, <2>6, SlotsFinish DEF SlotStep
<1>2. CASE ~(group[d] \in Groups /\ d \in InUse(group[d]))
  <2>1. \A g \in Groups : InUse(g)' = InUse(g)
    BY <1>2 DEF InUse
  <2>2. QED
    BY <2>1, NoSlotTouched
<1>3. QED
  BY <1>1, <1>2

(* Home grants a slot.                                                     *)
LEMMA IssueTakesSlot ==
  ASSUME HomeInv, NEW d \in Dispatches, NEW g \in Groups, IssueGranted(d, g)
  PROVE  SlotStep
<1>1. /\ \A h \in Groups : InUse(h)' = InUse(h)
      /\ UNCHANGED recorded
      /\ Outstanding(g) < Capacity
  BY DEF IssueGranted, InUse, vars, dispatchVars
<1>2. grant[d] = NoGroup /\ g # NoGroup
  BY NullAssumption DEF IssueGranted, HomeInv, RequestPlaces, RequestPlace
<1>3. /\ Granted(g)' = Granted(g) \union {d} /\ d \notin Granted(g)
      /\ \A h \in Groups \ {g} : Granted(h)' = Granted(h)
  BY <1>2, NullAssumption
     DEF IssueGranted, Granted, HomeInv, CompositionTypes
<1>4. Outstanding(g)' = Outstanding(g) + 1
  <2>1. IsFiniteSet(Granted(g)) /\ Cardinality(Granted(g)) \in Nat
        /\ recorded[g] \in Nat
    BY SlotSets, SlotNumbers
  <2>2. Cardinality(Granted(g))' = Cardinality(Granted(g)) + 1
    BY <1>3, <2>1, FS_AddElement
  <2>3. QED
    BY <1>1, <2>1, <2>2 DEF Outstanding
<1>5. \A h \in Groups \ {g} : Outstanding(h)' = Outstanding(h)
  BY <1>1, <1>3 DEF Outstanding
<1>6. \A h \in Groups : Used(h)' = Used(h)
  BY <1>1 DEF Used
<1>7. QED
  BY <1>1, <1>4, <1>5, <1>6, SlotsGrant DEF SlotStep

(* An execution starts on the slot that Home granted for it.               *)
LEMMA InstallUsesSlot ==
  ASSUME HomeInv, NEW d \in Dispatches, InstallGranted(d)
  PROVE  SlotStep
<1> USE DEF HomeInv
<1>0. PICK g : g = grant[d]
  OBVIOUS
<1>1. /\ g \in Groups /\ g # NoGroup
      /\ ofEpoch[d] = epoch
      /\ phase[d] = "pending"
      /\ resource[d] \notin {"bound", "closing"}
  BY <1>0, NullAssumption
     DEF InstallGranted, Install, RequestPlaces, RequestPlace, PhaseInv,
         CompositionTypes
<1>2. /\ UNCHANGED <<resource, ledgerVars>>
      /\ group' = [group EXCEPT ![d] = g]
      /\ phase' = [phase EXCEPT ![d] = "installed"]
  BY <1>0 DEF InstallGranted, Install
<1>3. /\ InUse(g)' = InUse(g) \union {d} /\ d \notin InUse(g)
      /\ \A h \in Groups \ {g} : InUse(h)' = InUse(h)
  BY <1>1, <1>2 DEF InUse, TypeOK
<1>4. /\ IsFiniteSet(InUse(g)) /\ IsFiniteSet(Granted(g))
      /\ Used(g) \in Nat /\ recorded[g] \in Nat
  BY <1>1, SlotSets, FS_Subset, SlotNumbers DEF Used
<1>5. Cardinality(InUse(g) \union {d}) = Cardinality(InUse(g)) + 1
  BY <1>3, <1>4, FS_AddElement
<1>6. Used(g)' = Used(g) + 1
  BY <1>3, <1>5 DEF Used
<1>7. Used(g) < Outstanding(g)
  <2>1. /\ InUse(g) \union {d} \subseteq Granted(g)
        /\ ReleasedNow(g) \subseteq Granted(g)
        /\ (InUse(g) \union {d}) \intersect ReleasedNow(g) = {}
    BY <1>0, <1>1, SlotSets DEF Granted, ReleasedNow, Released
  <2>2. /\ Cardinality(InUse(g) \union {d}) + Cardinality(ReleasedNow(g))
             <= Cardinality(Granted(g))
        /\ Cardinality(ReleasedNow(g)) \in Nat
        /\ Cardinality(Granted(g)) \in Nat
    BY <1>4, <2>1, DisjointParts
  <2>3. ~Fresh
    BY <1>1 DEF Fresh
  <2>4. recorded[g] <= seen[Flusher][g]
    BY <1>1, <2>3 DEF Recording, Ahead
  <2>5. recorded[g] <= Cardinality(ReleasedNow(g))
    BY <1>1, <1>4, <2>2, <2>4, SlotNumbers
  <2>6. QED
    BY <1>4, <1>5, <2>2, <2>5 DEF Used, Outstanding
<1>8. \A h \in Groups \ {g} : Used(h)' = Used(h)
  BY <1>3 DEF Used
<1>9. \A h \in Groups : Outstanding(h)' = Outstanding(h)
  BY <1>2 DEF Outstanding, Granted, ledgerVars
<1>10. QED
  BY <1>1, <1>6, <1>7, <1>8, <1>9, SlotsStart DEF SlotStep

(* The rest of a request uses no slot.                                     *)
LEMMA RequestMapsToSlots ==
  ASSUME HomeInv, NEW d \in Dispatches, RequestStep(d)
  PROVE  SlotStep
<1> USE DEF HomeInv
<1>1. CASE \E g \in Groups : IssueGranted(d, g)
  BY <1>1, IssueTakesSlot
<1>2. CASE InstallGranted(d)
  BY <1>2, InstallUsesSlot
<1>3. CASE ~InstallGranted(d) /\ ~(\E g \in Groups : IssueGranted(d, g))
  <2>1. UNCHANGED <<ledgerVars, resource>>
    BY <1>3 DEF RequestStep, TakeBundle, Begin, BeginDispatch, BeginRefused,
         IssuePlain, Abort, EndPending, DropPending, InstallRefused,
         InstallPlain, Install, AbortInvalid, vars, dispatchVars
  <2>2. \/ UNCHANGED <<phase, group>>
        \/ /\ phase[d] \in {"new", "pending"}
           /\ \/ phase'[d] \in {"pending", "ended"} /\ UNCHANGED group
              \/ group'[d] = NoGroup
           /\ \A e \in Dispatches : e # d =>
                phase'[e] = phase[e] /\ group'[e] = group[e]
    BY <1>3 DEF RequestStep, TakeBundle, Begin, BeginDispatch, BeginRefused,
         IssuePlain, Abort, EndPending, DropPending, InstallRefused,
         InstallPlain, Install, AbortInvalid, vars, dispatchVars, TypeOK
  <2>3. phase[d] \in {"new", "pending"} =>
          resource[d] \notin {"bound", "closing"}
    BY DEF PhaseInv
  <2>4. \A g \in Groups : InUse(g)' = InUse(g)
    BY <2>1, <2>2, <2>3, NullAssumption DEF InUse
  <2>5. QED
    BY <2>1, <2>4, NoSlotTouched
<1>4. QED
  BY <1>1, <1>2, <1>3

(* An execution leaves its slot when it ends without a resource, or when   *)
(* the resource of an execution that ended is closed.                      *)
LEMMA ExecutionMapsToSlots ==
  ASSUME HomeInv, NEW d \in Dispatches, Execute(d)
  PROVE  SlotStep
<1> USE DEF HomeInv, TypeOK, InUse
<1>1. UNCHANGED ledgerVars
  BY DEF Execute, compositionVars
<1>2. CASE Bind(d) \/ EndStartClose(d)
  <2>1. \A g \in Groups : InUse(g)' = InUse(g)
    BY <1>2 DEF Bind, EndStartClose, StartBoundResourceClose
  <2>2. QED
    BY <1>1, <2>1, NoSlotTouched
<1>3. CASE MarkReleased(d) \/ Deliver(d) \/ RemoveScope(d)
  <2>1. resource[d] \notin {"bound", "closing"}
    BY <1>3 DEF MarkReleased, Deliver, RemoveScope, PhaseInv
  <2>2. \A g \in Groups : InUse(g)' = InUse(g)
    BY <1>3, <2>1 DEF MarkReleased, Deliver, RemoveScope
  <2>3. QED
    BY <1>1, <2>2, NoSlotTouched
<1>4. CASE EndBegin(d) \/ CloseResource(d)
  <2>1. \/ \A g \in Groups : InUse(g)' = InUse(g)
        \/ \A g \in Groups : InUse(g)' = InUse(g) \ {d}
    <3>1. CASE EndBegin(d)
      <4>1. CASE resource[d] \in {"bound", "closing"}
        BY <3>1, <4>1 DEF EndBegin
      <4>2. CASE resource[d] \notin {"bound", "closing"}
        BY <3>1, <4>2 DEF EndBegin
      <4>3. QED
        BY <4>1, <4>2
    <3>2. CASE CloseResource(d)
      <4>1. CASE phase[d] = "installed"
        BY <3>2, <4>1 DEF CloseResource
      <4>2. CASE phase[d] # "installed"
        BY <3>2, <4>2 DEF CloseResource
      <4>3. QED
        BY <4>1, <4>2
    <3>3. QED
      BY <1>4, <3>1, <3>2
  <2>2. QED
    BY <1>1, <2>1, NoSlotTouched, SlotLeft
<1>5. QED
  BY <1>2, <1>3, <1>4 DEF Execute

(* A Drain only starts to close resources, which keeps their slots in use. *)
LEMMA CallMapsToSlots ==
  ASSUME HomeInv, NEW c \in Calls, RegistryCall(c)
  PROVE  SlotStep
<1>1. UNCHANGED <<ledgerVars, phase, group>>
  BY DEF RegistryCall, WaitPendingStep, DrainSnapshot, DrainWait, Timeout,
         DrainClose, dispatchVars, compositionVars
<1>2. \/ UNCHANGED resource
      \/ \E d \in Dispatches : resource' = StartBoundResourceClose(d)
  BY DEF RegistryCall, WaitPendingStep, DrainSnapshot, DrainWait, Timeout,
         DrainClose, dispatchVars
<1>3. \A e \in Dispatches : resource'[e] \in {"bound", "closing"} <=>
                              resource[e] \in {"bound", "closing"}
  BY <1>2 DEF StartBoundResourceClose, HomeInv, TypeOK
<1>4. \A g \in Groups : InUse(g)' = InUse(g)
  BY <1>1, <1>3 DEF InUse
<1>5. QED
  BY <1>1, <1>4, NoSlotTouched

(* Home takes back slots that the flusher saw released, none in use.       *)
LEMMA FlusherMapsToSlots ==
  ASSUME HomeInv, NEW g \in Groups, FlusherRecords(g)
  PROVE  SlotStep
<1>1. PICK n \in recorded[g] + 1 .. seen[Flusher][g] :
        recorded' = [recorded EXCEPT ![g] = n]
  BY DEF FlusherRecords
<1>2. /\ UNCHANGED grant
      /\ \A h \in Groups : InUse(h)' = InUse(h)
  BY DEF FlusherRecords, vars, dispatchVars, InUse
<1>3. /\ Cardinality(InUse(g)) \in Nat
      /\ Cardinality(Granted(g)) \in Nat
      /\ Cardinality(ReleasedNow(g)) \in Nat
      /\ recorded[g] \in Nat
      /\ seen[Flusher][g] \in Nat
      /\ seen[Flusher][g] <= Cardinality(ReleasedNow(g))
      /\ Cardinality(InUse(g)) + Cardinality(ReleasedNow(g))
           <= Cardinality(Granted(g))
  BY SlotNumbers
<1>4. Outstanding(g)' = Cardinality(Granted(g)) - n
  BY <1>1, <1>2 DEF Outstanding, Granted, HomeInv, CompositionTypes
<1>5. Cardinality(Granted(g)) - n
        \in Cardinality(InUse(g)) .. Cardinality(Granted(g)) - recorded[g] - 1
  BY ONLY <1>3, n \in recorded[g] + 1 .. seen[Flusher][g]
<1>6. Outstanding(g)' \in Used(g) .. Outstanding(g) - 1
  BY <1>4, <1>5 DEF Used, Outstanding
<1>7. \A h \in Groups \ {g} : Outstanding(h)' = Outstanding(h)
  BY <1>1, <1>2 DEF Outstanding, Granted, HomeInv, CompositionTypes
<1>8. \A h \in Groups : Used(h)' = Used(h)
  BY <1>2 DEF Used
<1>9. QED
  BY <1>6, <1>7, <1>8, SlotsReturn DEF SlotStep

(* Home forgets a membership only when no execution uses a slot of it.     *)
LEMMA CommitMapsToSlots ==
  ASSUME HomeInv, supervisor = "connecting", HomeCommits, UNCHANGED vars
  PROVE  SlotStep
<1>1. \A g \in Groups : InUse(g)' = InUse(g)
  BY DEF InUse, vars, dispatchVars
<1>2. CASE Takeover
  BY <1>1, <1>2, NoSlotTouched DEF HomeCommits
<1>3. CASE ~Takeover
  <2>1. Fresh
    BY <1>3 DEF HomeInv, FreshJoins
  <2>2. \A g \in Groups : InUse(g) = {}
    BY <2>1, SlotSets
  <2>3. \A g \in Groups : Used(g) = 0
    BY <2>2, FS_EmptySet DEF Used
  <2>4. \A g \in Groups : Granted(g)' = {} /\ recorded'[g] = 0
    BY <1>3, NullAssumption DEF HomeCommits, Granted
  <2>5. \A g \in Groups : Cardinality(Granted(g)') = 0
    BY <2>4, FS_EmptySet
  <2>6. \A g \in Groups : Outstanding(g)' = 0
    BY <2>4, <2>5 DEF Outstanding
  <2>7. \A g \in Groups : Used(g)' = Used(g)
    BY <1>1 DEF Used
  <2>8. QED
    BY <2>3, <2>6, <2>7, SlotsForget DEF SlotStep
<1>4. QED
  BY <1>2, <1>3

LEMMA SupervisorMapsToSlots ==
  ASSUME HomeInv, SupervisorStep
  PROVE  SlotStep
<1>1. ASSUME UNCHANGED <<ledgerVars, phase, group, resource>>
      PROVE  SlotStep
  <2>1. \A g \in Groups : InUse(g)' = InUse(g)
    BY <1>1 DEF InUse
  <2>2. QED
    BY <1>1, <2>1, NoSlotTouched
<1>2. CASE JoinFlusher \/ SilenceReleases
  BY <1>1, <1>2 DEF JoinFlusher, SilenceReleases, SetReleaseSink,
                    dispatchVars
<1>3. CASE Ready
  BY <1>3, CommitMapsToSlots DEF Ready
<1>4. CASE ConnectFailed
  <2>1. CASE HomeCommits
    BY <1>4, <2>1, CommitMapsToSlots DEF ConnectFailed
  <2>2. CASE ~HomeCommits
    BY <1>1, <1>4, <2>2 DEF ConnectFailed, vars, dispatchVars
  <2>3. QED
    BY <2>1, <2>2
<1>5. CASE Lose \/ CancelService \/ FinalFlush \/ Finish
  BY <1>1, <1>5 DEF Lose, CancelService, FinalFlush, Finish, vars,
                    dispatchVars
<1>6. ASSUME NEW c \in Calls,
             Settle(c) \/ ReplaceClient(c) \/ FreeCall(c)
               \/ DrainUnsafe(c) \/ Shutdown(c)
      PROVE  SlotStep
  BY <1>1, <1>6 DEF Settle, WaitPending, ReplaceClient, FreeCall, Returned,
                    DrainUnsafe, Shutdown, Drain, dispatchVars,
                    compositionVars
<1>7. CASE ReplaceRegistry
  BY <1>1, <1>7 DEF ReplaceRegistry, NewRegistry
<1>8. QED
  BY <1>2, <1>3, <1>4, <1>5, <1>6, <1>7 DEF SupervisorStep

(* Every step is a step of HomeSlots or changes nothing that it sees.      *)
LEMMA StepMapsToSlots ==
  ASSUME HomeInv, [NextComposition]_allVars
  PROVE  SlotStep
<1>1. CASE NextComposition
  BY <1>1, RequestMapsToSlots, ExecutionMapsToSlots, FlusherMapsToSlots,
     CallMapsToSlots, SupervisorMapsToSlots DEF NextComposition
<1>2. CASE UNCHANGED allVars
  <2>1. \A g \in Groups : InUse(g)' = InUse(g)
    BY <1>2 DEF allVars, vars, dispatchVars, InUse
  <2>2. QED
    BY <1>2, <2>1, NoSlotTouched DEF allVars, compositionVars
<1>3. QED
  BY <1>1, <1>2

(* Home's limit holds from end to end: the composition of requests,        *)
(* registry, flusher and supervisor implements HomeSlots, so the           *)
(* executions that use a slot are always among those Home counts, and      *)
(* Home counts at most Capacity of them when it grants the next.           *)
THEOREM HomeImplementsSlots == SpecComposition => SlotsSpec
<1>1. InitComposition => Slots!Init
  <2> SUFFICES ASSUME InitComposition PROVE Slots!Init
    OBVIOUS
  <2>1. \A g \in Groups : Granted(g) = {} /\ InUse(g) = {} /\ recorded[g] = 0
    BY NullAssumption DEF InitComposition, Init, Granted, InUse
  <2>2. \A g \in Groups : Outstanding(g) = 0 /\ Cardinality(InUse(g)) = 0
    BY <2>1, FS_EmptySet DEF Outstanding
  <2>3. QED
    BY <2>2 DEF Slots!Init
<1>2. HomeInv /\ [NextComposition]_allVars => SlotStep
  BY StepMapsToSlots
<1>3. QED
  BY <1>1, <1>2, HomeInvHolds, PTL
     DEF SpecComposition, SlotsSpec, Slots!Spec, SlotStep

(* What the refinement means for a group: the executions that use a slot   *)
(* are no more than Home counts, and Home counts no more than it allows.   *)
CapacityKept ==
  \A g \in Groups : /\ Cardinality(InUse(g)) <= Outstanding(g)
                    /\ Outstanding(g) <= Capacity

(* No step of HomeSlots exceeds the capacity.                              *)
LEMMA SlotStepKeepsCapacity ==
  ASSUME CapacityKept, SlotStep,
         \A g \in Groups : /\ Cardinality(InUse(g)) \in Nat
                           /\ Outstanding(g) \in Int
  PROVE  CapacityKept'
<1>1. ASSUME NEW g \in Groups, Slots!Grant(g)
      PROVE  CapacityKept'
  <2>1. /\ Outstanding(g) < Capacity
        /\ \A h \in Groups :
             /\ Outstanding(h)' = IF h = g THEN Outstanding(h) + 1
                                           ELSE Outstanding(h)
             /\ Cardinality(InUse(h))' = Cardinality(InUse(h))
    BY <1>1 DEF Slots!Grant
  <2>2. QED
    BY <2>1, CompositionAssumption DEF CapacityKept
<1>2. ASSUME NEW g \in Groups, Slots!Start(g)
      PROVE  CapacityKept'
  <2>1. /\ Cardinality(InUse(g)) < Outstanding(g)
        /\ \A h \in Groups :
             /\ Cardinality(InUse(h))' = IF h = g
                                           THEN Cardinality(InUse(h)) + 1
                                           ELSE Cardinality(InUse(h))
             /\ Outstanding(h)' = Outstanding(h)
    BY <1>2 DEF Slots!Start
  <2>2. QED
    BY <2>1 DEF CapacityKept
<1>3. ASSUME NEW g \in Groups, Slots!Finish(g)
      PROVE  CapacityKept'
  <2>1. \A h \in Groups :
          /\ Cardinality(InUse(h))' = IF h = g
                                        THEN Cardinality(InUse(h)) - 1
                                        ELSE Cardinality(InUse(h))
          /\ Outstanding(h)' = Outstanding(h)
    BY <1>3 DEF Slots!Finish
  <2>2. QED
    BY <2>1 DEF CapacityKept
<1>4. ASSUME NEW g \in Groups, Slots!Return(g)
      PROVE  CapacityKept'
  <2>1. /\ Outstanding(g)' \in Cardinality(InUse(g)) .. Outstanding(g) - 1
        /\ \A h \in Groups :
             /\ h # g => Outstanding(h)' = Outstanding(h)
             /\ Cardinality(InUse(h))' = Cardinality(InUse(h))
    BY <1>4 DEF Slots!Return
  <2>2. QED
    BY <2>1, CompositionAssumption DEF CapacityKept
<1>5. CASE Slots!Forget
  <2>1. \A h \in Groups : /\ Cardinality(InUse(h))' = 0
                          /\ Outstanding(h)' = 0
    BY <1>5 DEF Slots!Forget
  <2>2. QED
    BY <2>1, CompositionAssumption DEF CapacityKept
<1>6. CASE UNCHANGED <<[g \in Groups |-> Outstanding(g)],
                       [g \in Groups |-> Cardinality(InUse(g))]>>
  <2>1. \A h \in Groups :
          /\ Cardinality(InUse(h))' = Cardinality(InUse(h))
          /\ Outstanding(h)' = Outstanding(h)
    BY <1>6
  <2>2. QED
    BY <2>1 DEF CapacityKept
<1>7. QED
  BY <1>1, <1>2, <1>3, <1>4, <1>5, <1>6 DEF SlotStep, Slots!Next

(* No group ever has more executions on its slots than Home allows for it. *)
THEOREM CapacityIsKept == SpecComposition => []CapacityKept
<1>1. InitComposition => CapacityKept
  <2> SUFFICES ASSUME InitComposition PROVE CapacityKept
    OBVIOUS
  <2>1. \A g \in Groups : Granted(g) = {} /\ InUse(g) = {} /\ recorded[g] = 0
    BY NullAssumption DEF InitComposition, Init, Granted, InUse
  <2>2. \A g \in Groups : Outstanding(g) = 0 /\ Cardinality(InUse(g)) = 0
    BY <2>1, FS_EmptySet DEF Outstanding
  <2>3. QED
    BY <2>2, CompositionAssumption DEF CapacityKept
<1>2. HomeInv /\ CapacityKept /\ [NextComposition]_allVars => CapacityKept'
  <2> SUFFICES ASSUME HomeInv, CapacityKept, [NextComposition]_allVars
               PROVE  CapacityKept'
    OBVIOUS
  <2>1. SlotStep
    BY StepMapsToSlots
  <2>2. \A g \in Groups : /\ Cardinality(InUse(g)) \in Nat
                          /\ Outstanding(g) \in Int
    BY SlotNumbers DEF Outstanding
  <2>3. QED
    BY <2>1, <2>2, SlotStepKeepsCapacity
<1>3. QED
  BY <1>1, <1>2, HomeInvHolds, PTL DEF SpecComposition
=============================================================================
