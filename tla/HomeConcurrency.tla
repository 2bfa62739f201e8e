--------------------------- MODULE HomeConcurrency ---------------------------
(***************************************************************************)
(* Home's concurrency accounting from end to end: requests that ask Home   *)
(* for a credential (conductor_home.go), the execution registry, the       *)
(* release flusher, the clients of successive subscriber lifetimes         *)
(* (internal/home/client.go) and the supervisor that replaces one lifetime *)
(* by the next (service_home.go).                                          *)
(*                                                                         *)
(* The registry is the module ExecutionRegistry, action by action.  The    *)
(* flusher is its abstraction CumulativeLink: Home's record follows what   *)
(* the flusher has seen.  Home itself is external: it grants a slot while  *)
(* its count allows it, and it forgets a membership's slots when the       *)
(* subscriber joins again without takeover.                                *)
(***************************************************************************)
EXTENDS ExecutionRegistry

CONSTANTS Flusher,       \* the release sink MarkDirty of the current flusher
          Capacity,      \* slots Home allows for a group
          MaxLifetimes   \* bound on the subscriber lifetimes

ASSUME CompositionAssumption ==
  Sinks = {Flusher} /\ Capacity \in Nat \ {0} /\ MaxLifetimes \in Nat

VARIABLES
  supervisor,  \* where runHomeSubscriber is
  lifetime,    \* the number of the current client
  bundle,      \* the lifetime whose client is published for dispatch, or 0
  recovery,    \* recoveryState of the current client
  heartbeat,   \* lifetimes whose client has heartbeatOK
  fenced,      \* lifetimes whose client is dispatchFenced
  ambiguous,   \* lifetimes whose client saw an ambiguous dispatch
  unsafe,      \* the lifetime ended on an error that rules out takeover
  epoch,       \* registries made so far
  request,     \* where a dispatch is between the bundle and its scope
  client,      \* the lifetime whose bundle a dispatch took
  ofEpoch,     \* the registry of that bundle
  grant,       \* Home: the slot granted to a dispatch in this membership
  recorded     \* Home: the release sequence recorded in this membership

lifeVars    == <<supervisor, lifetime, bundle, recovery, unsafe, epoch>>
clientVars  == <<heartbeat, fenced, ambiguous>>
requestVars == <<request, client, ofEpoch>>
ledgerVars  == <<grant, recorded>>
compositionVars == <<lifeVars, clientVars, requestVars, ledgerVars>>
allVars == <<vars, compositionVars>>

Supervisors == {"new", "connecting", "running", "lost", "settling", "unsafe",
                "draining", "finalDrain", "flushing", "finished", "stopped"}
Requests    == {"idle", "bundled", "begun", "granted", "plain", "lost",
                "aborted", "over"}
Recoveries  == {"stable", "eligible", "switching", "switchingTakeover"}

InitComposition ==
  /\ Init
  /\ supervisor = "new"
  /\ lifetime = 1
  /\ bundle = 0
  /\ recovery = "stable"
  /\ heartbeat = {}
  /\ fenced = {}
  /\ ambiguous = {}
  /\ unsafe = FALSE
  /\ epoch = 1
  /\ request = [d \in Dispatches |-> "idle"]
  /\ client = [d \in Dispatches |-> 0]
  /\ ofEpoch = [d \in Dispatches |-> 0]
  /\ grant = [d \in Dispatches |-> NoGroup]
  /\ recorded = [g \in Groups |-> 0]

Granted(g) == {d \in Dispatches : grant[d] = g}

(* Home's count of the slots of a group it believes to be in use.          *)
Outstanding(g) == Cardinality(Granted(g)) - recorded[g]

(* Executions that may use a slot: installed, or closing their resource.   *)
InUse(g) == {d \in Dispatches :
               /\ group[d] = g
               /\ \/ phase[d] = "installed"
                  \/ resource[d] \in {"bound", "closing"}}

-----------------------------------------------------------------------------
(* A request                                                               *)

Become(d, r) == request' = [request EXCEPT ![d] = r]

(* HomeDispatchBundle and HeartbeatOK.                                     *)
TakeBundle(d) ==
  /\ request[d] = "idle"
  /\ bundle # 0
  /\ bundle \in heartbeat
  /\ Become(d, "bundled")
  /\ client' = [client EXCEPT ![d] = bundle]
  /\ ofEpoch' = [ofEpoch EXCEPT ![d] = epoch]
  /\ UNCHANGED <<vars, lifeVars, clientVars, ledgerVars>>

(* The registry of the bundle may have been drained and replaced since.    *)
Accepts(d) == ofEpoch[d] = epoch /\ state = "accepting"

Begin(d) ==
  /\ request[d] = "bundled"
  /\ Accepts(d)
  /\ BeginDispatch(d)
  /\ Become(d, "begun")
  /\ UNCHANGED <<lifeVars, clientVars, client, ofEpoch, ledgerVars>>

BeginRefused(d) ==
  /\ request[d] = "bundled"
  /\ ~Accepts(d)
  /\ Become(d, "over")
  /\ UNCHANGED <<vars, lifeVars, clientVars, client, ofEpoch, ledgerVars>>

(* rPopAuth on a client that is not fenced.  Home grants a slot, or gives  *)
(* an answer that takes none; the answer arrives, or is lost with the      *)
(* connection (which also stands for a malformed concurrency tuple).       *)
IssueGranted(d, g) ==
  /\ request[d] = "begun"
  /\ client[d] \notin fenced
  /\ Outstanding(g) < Capacity
  /\ grant' = [grant EXCEPT ![d] = g]
  /\ Become(d, "granted") \/ Become(d, "lost")
  /\ UNCHANGED <<vars, lifeVars, clientVars, client, ofEpoch, recorded>>

IssuePlain(d) ==
  /\ request[d] = "begun"
  /\ client[d] \notin fenced
  /\ Become(d, "plain") \/ Become(d, "lost")
  /\ UNCHANGED <<vars, lifeVars, clientVars, client, ofEpoch, ledgerVars>>

(* AbortAmbiguousDispatch *)
AbortAmbiguousDispatch(l) ==
  /\ ambiguous' = ambiguous \union {l}
  /\ fenced' = fenced \union {l}
  /\ heartbeat' = heartbeat \ {l}

(* Mutant of Abort: the token is returned first, the client aborted after. *)
AbortAfterEnd(d) ==
  \/ /\ request[d] = "lost"
     /\ DropPending(d)
     /\ Become(d, "aborted")
     /\ UNCHANGED <<lifeVars, clientVars, client, ofEpoch, ledgerVars>>
  \/ /\ request[d] = "aborted"
     /\ AbortAmbiguousDispatch(client[d])
     /\ Become(d, "over")
     /\ UNCHANGED <<vars, lifeVars, client, ofEpoch, ledgerVars>>

(* An answer that is lost aborts the client before the token is returned.  *)
Abort(d) ==
  /\ request[d] = "lost"
  /\ AbortAmbiguousDispatch(client[d])
  /\ Become(d, "aborted")
  /\ UNCHANGED <<vars, lifeVars, client, ofEpoch, ledgerVars>>

(* pending.End without a scope: nothing was issued, the answer takes no    *)
(* slot, or the client was aborted for it.                                 *)
EndPending(d) ==
  /\ \/ request[d] = "begun" /\ client[d] \in fenced
     \/ request[d] \in {"plain", "aborted"}
  /\ DropPending(d)
  /\ Become(d, "over")
  /\ UNCHANGED <<lifeVars, clientVars, client, ofEpoch, ledgerVars>>

(* An accounted answer is installed at once, before it is validated.       *)
InstallGranted(d) ==
  /\ request[d] = "granted"
  /\ Install(d, grant[d])
  /\ Become(d, "over")
  /\ UNCHANGED <<lifeVars, clientVars, client, ofEpoch, ledgerVars>>

(* Install was refused: it returned the token, and the client is aborted,  *)
(* whether or not the answer took a slot.                                  *)
InstallRefused(d) ==
  /\ request[d] \in {"granted", "plain"}
  /\ \/ /\ phase[d] = "pending"
        /\ state # "accepting"
        /\ DropPending(d)
        /\ UNCHANGED <<lifeVars, clientVars, requestVars, ledgerVars>>
     \/ /\ phase[d] = "ended"
        /\ AbortAmbiguousDispatch(client[d])
        /\ Become(d, "over")
        /\ UNCHANGED <<vars, lifeVars, client, ofEpoch, ledgerVars>>

InstallPlain(d) ==
  /\ request[d] = "plain"
  /\ Install(d, NoGroup)
  /\ Become(d, "over")
  /\ UNCHANGED <<lifeVars, clientVars, client, ofEpoch, ledgerVars>>

(* The installed answer fails its validation (the model is another one):   *)
(* the client is aborted; the owner then ends the scope.                   *)
AbortInvalid(d) ==
  /\ phase[d] = "installed"
  /\ group[d] # NoGroup
  /\ resource[d] = "none"
  /\ client[d] \notin ambiguous
  /\ AbortAmbiguousDispatch(client[d])
  /\ UNCHANGED <<vars, lifeVars, requestVars, ledgerVars>>

(* The execution and its end are the registry's.                           *)
Execute(d) ==
  /\ \/ Bind(d) \/ CloseResource(d) \/ EndBegin(d) \/ EndStartClose(d)
     \/ MarkReleased(d) \/ Deliver(d) \/ RemoveScope(d)
  /\ UNCHANGED compositionVars

(* The flusher brings Home's record up to some sequence it has seen.       *)
FlusherRecords(g) ==
  /\ recorded' \in {[recorded EXCEPT ![g] = n] :
                       n \in recorded[g] + 1 .. seen[Flusher][g]}
  /\ UNCHANGED <<vars, lifeVars, clientVars, requestVars, grant>>

-----------------------------------------------------------------------------
(* The supervisor and the client of the current lifetime                   *)

Takeover == recovery \in {"eligible", "switchingTakeover"}

MarkTakeoverEligible(r) ==
  CASE r = "stable" -> "eligible"
    [] r = "switching" -> "switchingTakeover"
    [] OTHER -> r

SwitchNode(r) ==
  CASE r = "stable" -> "switching"
    [] r = "eligible" -> "switchingTakeover"
    [] OTHER -> r

SuppressTakeover(r) ==
  CASE r = "eligible" -> "stable"
    [] r = "switchingTakeover" -> "switching"
    [] OTHER -> r

(* A new registry and a new flusher are joined.                            *)
JoinFlusher ==
  /\ supervisor = "new"
  /\ SetReleaseSink(Flusher)
  /\ supervisor' = "connecting"
  /\ UNCHANGED <<lifetime, bundle, recovery, unsafe, epoch, clientVars,
                 requestVars, ledgerVars>>

(* Home commits the subscription: with takeover the membership goes on,    *)
(* without it the slots of the last one are forgotten.                     *)
HomeCommits ==
  IF Takeover THEN UNCHANGED ledgerVars
              ELSE /\ grant' = [d \in Dispatches |-> NoGroup]
                   /\ recorded' = [g \in Groups |-> 0]

(* ACK and command probe succeed; the config worker publishes the bundle.  *)
Ready ==
  /\ supervisor = "connecting"
  /\ HomeCommits
  /\ supervisor' = "running"
  /\ recovery' = "stable"
  /\ heartbeat' = heartbeat \union {lifetime}
  /\ bundle' = lifetime
  /\ UNCHANGED <<vars, lifetime, unsafe, epoch, fenced, ambiguous,
                 requestVars>>

(* The lifetime fails before the ACK, perhaps because Home refuses the     *)
(* takeover, or after it, in the command probe; the node may be switched.  *)
ConnectFailed ==
  /\ supervisor = "connecting"
  /\ supervisor' = "lost"
  /\ \/ /\ recovery' \in {recovery, SwitchNode(recovery)}
        /\ unsafe' \in {FALSE, Takeover}
        /\ UNCHANGED ledgerVars
     \/ /\ HomeCommits
        /\ recovery' \in {MarkTakeoverEligible(recovery),
                          SwitchNode(MarkTakeoverEligible(recovery))}
        /\ UNCHANGED unsafe
  /\ UNCHANGED <<vars, lifetime, bundle, epoch, clientVars, requestVars>>

(* The subscription is lost: takeover is possible unless the client was    *)
(* aborted meanwhile (heartbeatOK).                                        *)
Lose ==
  /\ supervisor = "running"
  /\ supervisor' = "lost"
  /\ LET r == IF lifetime \in heartbeat THEN MarkTakeoverEligible(recovery)
                                        ELSE recovery
     IN  recovery' \in {r, SwitchNode(r)}
  /\ heartbeat' = heartbeat \ {lifetime}
  /\ UNCHANGED <<vars, lifetime, bundle, unsafe, epoch, fenced, ambiguous,
                 requestVars, ledgerVars>>

(* detachHomeSubscriberLifetime, client.Close, then WaitPending.           *)
Settle(c) ==
  /\ supervisor = "lost"
  /\ WaitPending(c)
  /\ supervisor' = "settling"
  /\ bundle' = 0
  /\ fenced' = fenced \union {lifetime}
  /\ UNCHANGED <<lifetime, recovery, unsafe, epoch, heartbeat, ambiguous,
                 requestVars, ledgerVars>>

(* The call of WaitPending or Drain returned; its name is free again.      *)
Returned(c, result) ==
  /\ call[c] = result
  /\ call' = [call EXCEPT ![c] = "new"]
  /\ UNCHANGED <<state, dispatchVars, releaseVars, barrierVars, todo, parked,
                 closer, closeTodo, closeAt>>

Unsafe == unsafe \/ lifetime \in ambiguous

(* The registry and the flusher live on in the next lifetime.              *)
ReplaceClient(c) ==
  /\ supervisor = "settling"
  /\ ~Unsafe
  /\ lifetime < MaxLifetimes
  /\ Returned(c, "clear")
  /\ supervisor' = "connecting"
  /\ lifetime' = lifetime + 1
  /\ UNCHANGED <<bundle, recovery, unsafe, epoch, clientVars, requestVars,
                 ledgerVars>>

(* Takeover is not safe: releases are no longer sent, everything ends.     *)
SilenceReleases ==
  /\ supervisor = "settling"
  /\ Unsafe
  /\ \E c \in Calls : call[c] = "clear"
  /\ SetReleaseSink(NoSink)
  /\ supervisor' = "unsafe"
  /\ UNCHANGED <<lifetime, bundle, recovery, unsafe, epoch, clientVars,
                 requestVars, ledgerVars>>

FreeCall(c) ==
  /\ supervisor = "unsafe"
  /\ Returned(c, "clear")
  /\ UNCHANGED compositionVars

DrainUnsafe(c) ==
  /\ supervisor = "unsafe"
  /\ Drain(c)
  /\ supervisor' = "draining"
  /\ UNCHANGED <<lifetime, bundle, recovery, unsafe, epoch, clientVars,
                 requestVars, ledgerVars>>

(* executionregistry.New and NewReleaseFlusher                             *)
NewRegistry ==
  /\ state' = "accepting"
  /\ next' = 0
  /\ releaseSequences' = [g \in Groups |-> 0]
  /\ seen' = [s \in Sinks |-> [g \in Groups |-> 0]]
  /\ call' = [c \in Calls |-> "new"]
  /\ UNCHANGED <<pending, scopes, id, phase, group, resource, releaseSink,
                 delivery, replay, barrierVars, todo, parked, closer,
                 closeTodo, closeAt>>

(* Mutant of ReplaceRegistry: takeover is not suppressed.                  *)
ReplaceRegistryWithTakeover ==
  /\ supervisor = "draining"
  /\ \E c \in Calls : call[c] = "drained"
  /\ lifetime < MaxLifetimes
  /\ NewRegistry
  /\ epoch' = epoch + 1
  /\ supervisor' = "new"
  /\ lifetime' = lifetime + 1
  /\ unsafe' = FALSE
  /\ UNCHANGED <<bundle, recovery, clientVars, requestVars, ledgerVars>>

ReplaceRegistry ==
  /\ supervisor = "draining"
  /\ \E c \in Calls : call[c] = "drained"
  /\ lifetime < MaxLifetimes
  /\ NewRegistry
  /\ recovery' = SuppressTakeover(recovery)
  /\ epoch' = epoch + 1
  /\ supervisor' = "new"
  /\ lifetime' = lifetime + 1
  /\ unsafe' = FALSE
  /\ UNCHANGED <<bundle, clientVars, requestVars, ledgerVars>>

(* cancelServiceRun: the pending answers or the executions did not end in  *)
(* time, or the service is ending anyway while a lifetime is replaced.     *)
(* Nothing is promised of a process that stops this way.                   *)
CancelService ==
  /\ \/ supervisor \in {"settling", "draining"}
        /\ \E c \in Calls : call[c] \in {"timeout", "clear", "drained"}
     \/ supervisor = "finalDrain" /\ \E c \in Calls : call[c] = "timeout"
  /\ supervisor' = "stopped"
  /\ UNCHANGED <<vars, lifetime, bundle, recovery, unsafe, epoch, clientVars,
                 requestVars, ledgerVars>>

(* The service shuts down: the bundle is withdrawn, the registry drained   *)
(* with its releases still sent, and the flusher flushed within a bound.   *)
Shutdown(c) ==
  /\ supervisor \in {"connecting", "running", "lost"}
  /\ Drain(c)
  /\ supervisor' = "finalDrain"
  /\ bundle' = 0
  /\ heartbeat' = heartbeat \ {lifetime}
  /\ UNCHANGED <<lifetime, recovery, unsafe, epoch, fenced, ambiguous,
                 requestVars, ledgerVars>>

FinalFlush ==
  /\ supervisor = "finalDrain"
  /\ \E c \in Calls : call[c] = "drained"
  /\ supervisor' = "flushing"
  /\ UNCHANGED <<vars, lifetime, bundle, recovery, unsafe, epoch, clientVars,
                 requestVars, ledgerVars>>

Finish ==
  /\ supervisor = "flushing"
  /\ \/ /\ \A g \in Groups : seen[Flusher][g] <= recorded[g]
        /\ supervisor' = "finished"
     \/ supervisor' = "stopped"
  /\ fenced' = fenced \union {lifetime}
  /\ UNCHANGED <<vars, lifetime, bundle, recovery, unsafe, epoch, heartbeat,
                 ambiguous, requestVars, ledgerVars>>

-----------------------------------------------------------------------------
RequestStep(d) ==
  \/ TakeBundle(d) \/ Begin(d) \/ BeginRefused(d)
  \/ \E g \in Groups : IssueGranted(d, g)
  \/ IssuePlain(d) \/ Abort(d) \/ EndPending(d)
  \/ InstallGranted(d) \/ InstallRefused(d) \/ InstallPlain(d)
  \/ AbortInvalid(d)

(* The steps of the supervisor's call inside the registry.                 *)
RegistryCall(c) ==
  /\ \/ WaitPendingStep(c) \/ DrainSnapshot(c) \/ DrainWait(c) \/ Timeout(c)
     \/ \E d \in Dispatches : DrainClose(c, d)
  /\ UNCHANGED compositionVars

SupervisorStep ==
  \/ JoinFlusher \/ Ready \/ ConnectFailed \/ Lose
  \/ \E c \in Calls :
       Settle(c) \/ ReplaceClient(c) \/ FreeCall(c) \/ DrainUnsafe(c)
         \/ Shutdown(c)
  \/ SilenceReleases \/ ReplaceRegistry \/ CancelService
  \/ FinalFlush \/ Finish

(* ReplayRelease is absent: the supervisor installs the flusher on a fresh *)
(* registry only, which has no release to replay.                          *)
NextComposition ==
  \/ \E d \in Dispatches : RequestStep(d) \/ Execute(d)
  \/ \E g \in Groups : FlusherRecords(g)
  \/ \E c \in Calls : RegistryCall(c)
  \/ SupervisorStep

SpecComposition == InitComposition /\ [][NextComposition]_allVars

(* Requests and the supervisor run on, a connection attempt ends one way   *)
(* or the other, a subscription whose client was aborted is lost, and the  *)
(* flusher brings its releases to Home (ReleaseFlusher!ReleaseAcked).  An  *)
(* execution only ends when it must; no context is assumed to expire.      *)
FairComposition ==
  /\ SpecComposition
  /\ \A d \in Dispatches :
       /\ WF_allVars(RequestStep(d) /\ request[d] # "idle" /\ ~AbortInvalid(d))
       /\ WF_allVars(MustEnd(d) /\ UNCHANGED compositionVars)
       /\ WF_allVars((EndStartClose(d) \/ MarkReleased(d) \/ Deliver(d)
                        \/ RemoveScope(d)) /\ UNCHANGED compositionVars)
       /\ WF_allVars(CloseResource(d) /\ UNCHANGED compositionVars)
  /\ \A g \in Groups : WF_allVars(FlusherRecords(g))
  /\ \A c \in Calls :
       WF_allVars((WaitPendingStep(c) \/ DrainSnapshot(c) \/ DrainWait(c)
                    \/ \E d \in Dispatches : DrainClose(c, d))
                  /\ UNCHANGED compositionVars)
  /\ WF_allVars(JoinFlusher)
  /\ WF_allVars(Ready \/ ConnectFailed)
  /\ WF_allVars(lifetime \notin heartbeat /\ Lose)
  /\ \A c \in Calls :
       WF_allVars(Settle(c) \/ ReplaceClient(c) \/ FreeCall(c) \/ DrainUnsafe(c))
  /\ WF_allVars(SilenceReleases \/ ReplaceRegistry \/ FinalFlush \/ Finish
                  \/ CancelService)

-----------------------------------------------------------------------------
(* Home's limit holds: at any time the executions that use a slot are      *)
(* among those Home counts, through aborted dispatches, takeovers,         *)
(* replaced registries and late releases; a slot comes back only after its *)
(* execution closed its resource.                                          *)
Slots == INSTANCE HomeSlots
           WITH outstanding <- [g \in Groups |-> Outstanding(g)],
                running <- [g \in Groups |-> Cardinality(InUse(g))]
SlotsSpec == Slots!Spec

(* No slot leaks into a later lifetime: a grant that no scope will release *)
(* belongs to the current client, or Home was made to forget it.  A grant  *)
(* whose answer was lost therefore never survives a takeover.              *)
NoLeakedSlot ==
  \A d \in Dispatches :
    grant[d] # NoGroup /\ phase[d] = "ended" /\ group[d] = NoGroup
      => client[d] = lifetime \/ (bundle = 0 /\ ~Takeover)

(* A service that shut down in time owes Home nothing for the executions   *)
(* of its registry: Drain waited for every release to reach the flusher,   *)
(* and Flush for Home to record it.                                        *)
CleanShutdown ==
  supervisor = "finished" =>
    \A g \in Groups :
      Cardinality({d \in Dispatches : group[d] = g /\ ofEpoch[d] = epoch})
        <= recorded[g]

(* Once nothing is running or asked for, Home's count of a group returns   *)
(* to zero: by releases, or because a lost answer led to a membership that *)
(* Home forgets.  (The bound on lifetimes ends the model's history.)       *)
Quiet == \A d \in Dispatches : phase[d] \in {"new", "ended"}

SlotsReturned ==
  \A g \in Groups :
    Quiet /\ Outstanding(g) > 0
      ~> \/ Outstanding(g) = 0
         \/ ~Quiet
         \/ supervisor \in {"finished", "stopped"}
         \/ lifetime = MaxLifetimes

=============================================================================
