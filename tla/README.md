# A TLA+ model of CLIProxyAPI

CLIProxyAPI is a Go server that lets clients of one AI protocol use accounts of
many providers. It keeps a pool of *credentials*, picks one for a request,
executes the request upstream, reacts to errors and limits, refreshes tokens in
the background, and may share its credentials with other nodes through a
control plane called *Home*. This directory holds TLA+ specifications of the
concurrent core of that program, the TLC configurations that check them, and
proofs checked by TLAPS.

All paths below are relative to `src/`. `PROJECT.json` maps every definition that
models code to its file and lines, and lists the hazards, each with the
properties that would catch it.

1. [The system](#1-the-system)
2. [Modules and the code they model](#2-modules-and-the-code-they-model)
3. [Runs, bounds and what they show](#3-runs-bounds-and-what-they-show)
4. [Fairness](#4-fairness)
5. [Proofs](#5-proofs)
6. [Where the code and its comments disagree](#6-where-the-code-and-its-comments-disagree)
7. [What is not modelled](#7-what-is-not-modelled)
8. [Plan](#8-plan)

To parse, check and prove: `tlasany M.tla`, `tlc -config R.cfg MCM.tla`,
`tlapm MProofs.tla`.

## 1. The system

### Home's concurrency accounting

Home grants a node a slot of a *release group* (credential and model) with each
credential it dispatches, and counts the slots that are outstanding. Five parts
of the node keep this count right.

**Execution registry** (`sdk/cliproxy/executionregistry/registry.go`,
`observation.go`). State: lifecycle `accepting → draining → closed`, the pending
dispatches, the installed scopes, cumulative release sequences of each group, the
release sink, and Home's barrier. Operations: `BeginDispatch` reserves a token
before Home is asked; `Install` turns it into a scope; `Scope.Bind` attaches the
function that closes the upstream; `Scope.End` closes it, counts a release and
tells the sink; `WaitPending`, `Drain` and `Close` end the lifetime;
`ObserveBarrier` and `FreezeInFlight` produce the snapshots Home reconciles
with. Hard: an owner, a drain and a close may all want to close one resource;
sinks are called outside the lock and may be replaced meanwhile; waiters sleep on
a channel that is closed and replaced on every change. Correct when: no bound
resource is forgotten; a release is counted only after its resource is closed;
the current sink learns of every release; a drain that succeeds left nothing
behind; a published barrier hides no earlier dispatch; every call returns.

**Release flusher** (`internal/home/concurrency_release.go`). State: for each group
the latest sequence and the one Home acknowledged, the waiting tickets, the
backoff of the goroutine `Run`, its `wake` and `force` channels. Operations:
`MarkDirty`, `Run`/`flush`, `SetSender`, `Flush`, `ReleaseTicket.Wait`. Hard:
frames are lost, repeated and late across lifetimes; releases arrive while a frame
is on its way; wake-ups must not cut a backoff short. Correct when: what is held
for acknowledged Home has recorded; tickets complete exactly then; `Flush` that
returns nil left nothing dirty; every release is acknowledged in the end.

**Dispatch of a request** (`sdk/cliproxy/auth/conductor_home.go`,
`home_concurrency.go`). A request takes the published *bundle* (client and
registry), begins a dispatch, asks Home, checks the answer, installs and
accounts. Hard: every early return must give the token back or abort the client,
and the bundle may be stale by any of these steps.

**Home client of a lifetime** (`internal/home/client.go`). State: `heartbeatOK`,
`dispatchFenced`, whether an ambiguous dispatch was aborted, `recoveryState`.
`AbortAmbiguousDispatch` fences a client whose answer was lost;
`markMembershipTakeoverEligible`, `subscriptionParameters` and `SuppressTakeover`
decide whether the next client asks Home to take the membership over.

**Home supervisor** (`sdk/cliproxy/service_home.go`, `runHomeSubscriber`). Connects,
publishes the bundle, waits for the subscription to be lost, settles the
pending dispatches, then either hands the membership to a new client *with takeover* (the
executions go on) or, when that is unsafe, drains everything, silences the
releases, replaces the registry and joins again without takeover. At
shutdown it drains and flushes within bounds. Correct when: executions only run on
slots Home counts; a lost answer never survives a takeover; every slot comes
back; a shutdown that reports success owes Home nothing.

### Limits of a credential

**Runtime limits** (`sdk/cliproxy/auth/runtime_limits.go`). State of one credential
under one mutex: concurrency count, rate window, four freezes (request
error, usage limit, preventive quota, upstream 429), the progressive backoff and
the counter of preventive-quota fallbacks. Operations:
`acquireRuntimeSlotForModel` and the release it returns, the freezes
(`maybeFreezeRuntimeResult`, `freezeUsageLimit`, `updateQuotaPreempt`,
`freezeUpstreamRateLimit`), `observeUpstreamRateLimitSuccess`,
`clearTransientRateLimitRecovery` and `resetQuotaRuntimeState`. Hard: callers read the clock before they wait for the lock;
streams release twice; quota resets happen with requests in flight. Correct
when: slots are exact; no freeze but the preventive one can be
bypassed, and that by one request at a time; the rate bound holds; backoff grows and
shrinks only when it should.

### Relay of websocket clients

**`internal/wsrelay`** (`manager.go`, `session.go`, `http.go`). State: the index of
sessions by provider, per session a `sync.Map` of pending requests with buffered
channels, the `closed` channel. A client may connect again under the same
name; the read loop, the heartbeat, the replacement and `Stop` compete to clean a
session up; requests begin and are cancelled meanwhile. Correct when: the index
names exactly the live sessions; every consumer learns that its session ended;
answers are complete or an error; stopping is graceful.

### Credentials, selection and execution

**Credential store** (`sdk/cliproxy/auth/conductor.go`, `conductor_lifecycle.go`,
`store.go`). The manager's map of credentials with `Register`, `Update`, `Remove`;
copies of each live in the scheduler, the refresh queue, the recovery queue and the
disk. Hard: these copies are written after the lock is released. Correct when:
they agree once nothing happens any more, and the last update wins.

**Auto-refresh loop** (`auto_refresh_loop.go`, `conductor_refresh.go`). A heap of due
times, a worker pool, a lock per credential (`Manager.refreshLocks`). Requests that
met a 401 and the recovery loop take the same lock. Hard: a refresh token is good for
one use, the work in between is done on clones, and `Remove` deletes the lock. Correct
when: no two refreshes spend one token, a credential is refreshed before it
expires, and a blocked one does not spin.

**Recovery loop** (`recovery.go`, `initialization.go`). A credential that was imported is
initialized (token, quota) and one that met a 429 is probed before it is selected
again. State: a channel of requests, an overflow map, the loop's maps of pending
and active requests; in each credential the state and generation of its
initialization and its recovery. Hard: requests are posted after the lock is
released, the channel may be full, imports and edits come in while an attempt waits
for the provider. Correct when: no request a credential depends on is lost, an attempt
changes nothing but its own generation, and every initialization and recovery ends.

**Selection and scheduling** (`scheduler.go`, `selector.go`,
`conductor_selection.go`). An index over the credentials by provider and model with
ready, cooling and blocked sets, priorities and cursors. Correct when: it is an
exact index of the store, and its rotation starves nobody.

**Cooldown and results** (`conductor_cooldown.go`, `cooldown_state.go`,
`failure_classification.go`). `MarkResult` turns an error into a state with a
deadline, for a credential or one of its models, and saves it. Correct
when: cooldowns survive a restart, aggregate correctly and end.

**Execution loop** (`conductor_execution.go`, `conductor_stream.go`,
`conductor_home_execution.go`). Retries over credentials and attempts; the stream
bridge decides whether a failure may still be retried. Correct when: no retry after
the first byte reached the client, bounded attempts, every slot released.

**In-flight publisher** (`home_in_flight_publisher.go`). Sends a registry snapshot in
frames. Correct when: a partial send is never taken for a snapshot.

**Session and cache affinity** (`session_cache.go`, `session_affinity_response.go`,
`conductor_cache_affinity.go`). Bounded maps with expiry. Correct when: the bound
holds and an expired binding is not used. Scoring of prefixes is heuristic.

**Usage manager** (`sdk/cliproxy/usage/manager.go`) and **usage queue**
(`internal/redisqueue`). Records of finished requests, one worker that hands them
to plugins; a queue with retention for pollers, a fan-out to subscribers, and with Home
a forwarder that pushes batches to it and puts back what could not be pushed. Hard: the
queue is switched off while records are on their way, subscribers are
dropped when they are full, pushes fail in the middle of a batch. Correct when: a
record accepted is delivered once or expired by rule, also around `Stop`; a stream
has no gap; a queue that was switched off keeps nothing.

### Around the core

| Component | State and operations | Interaction |
| --- | --- | --- |
| Watcher (`internal/watcher`) | file hashes, debounced reloads, batches of credential updates | queues updates to the service |
| Service assembly (`sdk/cliproxy/service*.go`) | owns all parts, start and shutdown order | wiring, callbacks of relay and watcher |
| Model registry (`internal/registry/model_registry.go`) | reference counts of models over clients, suspensions | read by selection and API |
| Licensing (`internal/licensing/manager.go`) | state of a signed license, grace periods | gates the API |
| Translators, thinking | none: rewriting of JSON | called by executors |
| Provider executors (`internal/runtime`) | connections, per-provider caches | called by the execution loop |
| HTTP API and management | handlers | entry of all requests |
| OAuth logins (`internal/auth`, `sdk/auth`) | one flow at a time | creates credentials |
| Plugins | dynamic libraries, installation | hooks of the execution loop |
| Stores, caches, logging | files, Postgres, git, object storage | persistence |
| Terminal interface, commands, deployment | user interface | starts the service |

## 2. Modules and the code they model

```
CumulativeLink  <== implemented by ==  ReleaseFlusher        internal/home/concurrency_release.go
HomeSlots       <== implemented by ==  HomeConcurrency       conductor_home.go, client.go, service_home.go
                                         EXTENDS ExecutionRegistry   executionregistry/*.go
RuntimeLimits                                                auth/runtime_limits.go
WsRelay                                                      internal/wsrelay/*.go
CredentialRefresh                                            auth/conductor_refresh.go, conductor_lifecycle.go, recovery.go
CredentialRecovery                                           auth/recovery.go, conductor_lifecycle.go
UsagePipeline                                                usage/manager.go, redisqueue/*.go, service_home.go
*Proofs  proofs about the module they extend (HomeConcurrencyProofs also extends ExecutionRegistryProofs);
           MC*  instances and symmetry sets for TLC
```

**ExecutionRegistry.** One action is one critical section of `Registry.mu` or
`Scope.mu`, or one call made outside the locks, so everything the lock does not
exclude may happen in between. The life of an execution is the `phase` of its
dispatch (the `sync.Once` and the flags of `PendingDispatch` and `Scope`), its
upstream the `resource` (`closeFn`, `closeDone`): `Bind` attaches it, `EndBegin`,
`EndStartClose`, `MarkReleased`, `Deliver` and `RemoveScope` are the stages of
`Scope.End`, and `CloseResource` is the goroutine that runs `closeFn`. `Deliver` is
separate from `MarkReleased` because the sink captured under the lock is called
outside it; `SetReleaseSink` and `ReplayRelease` are split for the same reason.
`WaitPending`, `Drain` and `Close` are small programs (`call`), and `parked`
holds those asleep on the channel `changed`. The lifecycle state is written by
compare-and-swap outside the lock; every writer then takes the lock, so a section
that read the old value commutes to before the write and is one step. Not in the
model: the counter `snapshotRevision`, error texts, nil receivers. In the code one
supervisor goroutine installs sinks, so two calls of `SetReleaseSink` never overlap.

**ReleaseFlusher.** `MarkDirty` runs in the goroutine that ends an execution; `Run` and
`flush` are `run`, `batch` and the timer; the supervisor acts by `Start`, `Cancel`,
`Stop` and `Flush`. Durations are ticks. The environment decides for each frame
whether Home records it and what the sender is told; a frame reported as failed
stays on the `wire` and may be recorded at any later time. `timings` is what `timings()`
makes of `client.LimiterConfig`; `Configure` changes it at any time, and the next delay obeys it,
while a timer that runs is left alone. An instance belongs to
one membership, so frames do not reach the record of another one. It implements
**CumulativeLink**: Home's record only grows and never overtakes what was released.

**HomeConcurrency** composes the registry (all of its actions), the flusher as
`CumulativeLink`, requests (`pickHomeDispatchSelectionOnce` in `request`), clients
(`heartbeat`, `fenced`, `ambiguous`, `recovery`) and `runHomeSubscriber`
(`supervisor`). Home is external: `IssueGranted` counts a slot whether or not its
answer arrives, `FlusherRecords` takes releases off, `HomeCommits` decides
on takeover. It implements **HomeSlots**, the meaning of the limit: executions run
only on counted slots, a slot returns only when its execution is over, and a
membership is forgotten only when nothing runs. Deliberate abstractions:
the config worker is part of `Ready`; the retry of a failed connection is
`ConnectFailed`; errors that rule takeover out (a legacy protocol, an unavailable
takeover, an expired membership) set `unsafe`; a fresh registry has no
release to replay; `stopped` means the process is ending and promises nothing;
replacing the Home configuration (`drainDetachedHomeLifetime`) is left out.

**RuntimeLimits.** One action is one critical section of `authRuntimeLimits.mu`.
`Nows` gives each caller a time up to `MaxLag` behind the clock, because every caller
reads the time before it waits for the lock. `Acquire` is
`acquireRuntimeSlotForModel` with the bypasses as *lanes* (cold, warm by cache
affinity, burst by tail-burst or drain); `Release`, `ReleaseEarly` and
`ReleaseDrained` are the two ways a stream gives its slot back. Left out because no
decision here reads them or because they belong to another part:
`rateLimitedUntil` and the last skip reason (reported only), the sets of sticky
bypass sessions, the Codex quota snapshots, a fallback admission on the warm or
cold lane at once, window and count without a configured limit, and the
sub-second drift of a usage-limit deadline. The history `admitted` names each admission
by its time, its window and its place in it. `config` is chosen once: an edit of the limits
while requests run is left out, and so is the lower limit of a credential that expires soon.

**WsRelay.** One action is one operation on the index, on the session's `sync.Map` or on
a channel. `Register` … `Serve` is `handleWebsocket`, `Receive`/`HandOver`/
`SettleTerminal` the read loop with `dispatch`, `RangeNext` …
`HandleSessionClosed` the body of `cleanup` (run once), `Send`, `Store`, `Load`,
`CheckClosed`, `Write` a request, `Take`, `ChannelEnds`, `GiveUp` its
consumer in `NonStream` or `Stream`, and `WatcherCancels` the goroutine
that waits for the request's context. `sync.Map.Range` may or may not see an entry
stored while it runs: `Store` chooses whether it joins `due`. `cleanup`
overwrites the map by assignment, a data race with `LoadOrStore`; it takes effect
at once here. A send on a closed channel and a double close panic in Go:
`Panics` marks these states and the goroutine stops there; a failed type
assertion after `Load` panics in the caller's goroutine, where the HTTP server recovers it
(`LoadFails`). Left out: encoding, pings, the callbacks
`onConnected`/`onDisconnected`, errors of the provider factory (they come before
registration). Sessions are numbered in the order of registration, and the first
heartbeat (30 seconds) is taken to come after registration.

**CredentialRefresh.** The tokens of the credential store. One step is one critical section
of `Manager.mu`, one operation on the map of locks, or one answer of the provider. A
refresh (`StartRefresh` … `CommitRefresh`, `refreshAuthForRequest`) waits for its lock,
clones the credential, asks the provider and stores its clone by `Update`; an attempt
of the recovery loop (`StartLifecycle` … `EndLifecycle`) shares the lock and compares
the generation each time it takes `Manager.mu`; edits (`StartEdit`, `CommitEdit`), imports
(`StartImport`, `RemoveLock`, `Register`, `ImportInPlace`) and removals go on meanwhile.
The provider is external: `Rotated` trades a token it still accepts (`live`) for a new one,
`Refused` is its answer to any other. The variable `spoiled` names the
credentials whose stored token may be used up for a reason the lock cannot help:
an answer was lost on the way, an edit stored a clone with an older token, an
attempt gave its new token up because the credential no longer matched, or `Remove`
took the lock away while a refresh held it. A fresh registration with no refresh under
way ends that. Everything else a credential says is left out: one that is disabled may
be refreshed in the code and here; `lifecycle` states are the flag `initializing`.
Two files with the same refresh token, or peers that a completed recovery gave its token, are
two credentials with two locks in the code; here credentials never share a token.

**CredentialRecovery.** The recovery loop and all who make a credential need it. One step is
one critical section of `Manager.mu`, one operation on the channel or the overflow map,
or one pass of the loop's `select`. `Import`, `Write`, `MarkRateLimited` store a credential;
`Queue` is the second look `queueLifecycleRecovery` takes under the lock and `Post` the
send after it, so a request may be older than what the credential asks for by then. `StartLoop`,
`List` and `PostListed` are `StartAutoRefresh` and `rebuild`; `Init` holds any credentials
a past process may have left in its files. `TakeRequest`, `DrainOverflow`, `Dispatch`
and `TakeResult` are the goroutine of the loop and `Begin` … `FailLifecycle` an attempt.
Generations are numbers given out in order. `missed` is a history variable: the
credentials whose very request the code has given up (`Drop`, `Supersede`, `Finish`;
section 6 lists how). Left out: due times (a request may be due at any time), the peers that
a completed recovery clears too, and a second `StartAutoRefresh`, which replaces the loop.

**UsagePipeline.** One step is one critical section of `Manager.mu` (usage) or `queue.mu`,
one load or store of the flag `enabled`, or one answer of Home. `Publish`, `Stop`,
`TakeRecord`, `EndWorker` are the manager and its worker. The worker sleeps on the condition variable
(`Sleep`; `Wait` enlists it before it gives the lock back), and who published or stopped
wakes it only after releasing the lock (`Signal`, of those that `owed` counts). `CheckEnabled`,
`PublishToSubscribers` and `AppendItem` are the three steps of `Enqueue`, used by the
worker and by a forwarder that puts a batch back; `SetDisabled` and `ClearDisabled` the two
of `SetEnabled(false)`. With Home only forwarders consume (`redis_queue_protocol.go:61`,
`server_management.go:236`), without it pollers and subscribers. `Places` of a record are its
positions in the channel, in the hands of senders and in the queue, or its end (`fate`). A push that fails may have
reached Home: the model keeps what this node does, and does not count what Home holds. Left
out: the errors channel, other plugins, a change of the retention.

## 3. Runs, bounds and what they show

| Run | States | Instance | Shows |
| --- | --- | --- | --- |
| RegistryShutdown | 424k | 2 dispatches, 2 calls, fair | `NoOrphanResource`, `ShutdownComplete`, `CallsReturn` |
| Registry | 1.18M | 2 dispatches, 1 sink, 2 barriers, publisher fair | `TypeOK`, `BarrierSound`, `ReleaseAfterClose`, `NoLostRelease`, `BarrierPublished` |
| Flusher | 368k | 1 group, 2 releases, 2 lifetimes, 3 configurations, fair | `AckSound`, `TicketSound`, `FlushComplete`, `BackoffHeld`, `LinkSpec`, `ReleaseAcked` |
| HomeSafety | 1.38M | 2 requests for 1 slot, 3 lifetimes | `SlotsSpec`, `NoLeakedSlot`, `CleanShutdown` |
| HomeLiveness | 24k | 1 request, 3 lifetimes, fair | `SlotsReturned` |
| Limits | 531k | 4 requests and all freezes in 5 ticks, or 1 request and backoff 1 to 4 in 7 ticks | `SlotsExact`, `FallbackExclusive`, `AbsoluteFreeze`, `RateBound`, `GuardsHeld`, `BackoffConverges` |
| RelaySessions | 567k | 2 connections of one provider, 1 request, fair | `NoStrandedRequest`, `SessionIndex`, `ResponsesEnd` |
| RelayGraceful | | 1 connection, 1 request | `GracefulStop` is violated (section 6) |
| RelayAnswers | | 1 connection, 1 request, buffer of 8 | `CompleteAnswers` is violated (section 6) |
| CredentialTokens | 457k | 1 credential, 1 worker, 1 manager, 1 attempt, 2 imports | `TypeOK`, `RotationSafe`, `ReimportKept` |
| CredentialRecovery | 212k | 1 credential, 1 caller, 1 attempt, channel of 1, 2 imports, 1 recovery, fair | `TypeOK`, `RequestKept`, `OwnGeneration`, `RecoveryEnds` |
| UsageRecords | 533k | 3 records with Home, 2 without, 2 forwarders, 1 poller, 1 subscriber, 2 switches, fair worker | `RecordsAccounted`, `ClearLeavesLittle`, `StreamsSound`, `RecordsHandled` |

Why these bounds are enough to meet the interesting cases:

- *Registry.* Two dispatches are the least for which one is in a snapshot and the
  other is not, and two calls the least for which a `Drain` meets a `Close`, two
  drains meet, or a body of `Close` already runs. Calls do not influence a
  release; they are checked apart, and the proofs cover their product, any number of
  groups and any number of sinks. Setting the one sink again lets it change between
  capture and call; two barriers let the second overtake a snapshot of the first.
- *Flusher.* Two sequences of a group are the least for which a newer release
  arrives while an older frame is on its way; two lifetimes let a frame arrive in the next.
  The three configurations have interval and ceiling (1, 1), (1, 2) and (3, 3): a change
  lowers the ceiling below a delay, or raises the floor above a doubled one. Groups meet only in the batch of
  one `flush`; the proofs cover any number of them.
- *Home.* Two requests for one slot (`Capacity = 1`) compete for it; three lifetimes
  contain a takeover and a reset, in either order, with a life after each.
  `HomeLiveness` has one request, since a slot comes back independently of others.
- *Limits.* Four requests fill one cold slot, the configured limit and the burst
  lane; the clock runs past every freeze. Two configurations are checked, one
  with slots and freezes and one with a rate window and a backoff. There the backoff doubles up
  to its ceiling and the stable interval can elapse. At the real ceiling of five
  minutes the stable interval ends during the cooldown, so the first success after it
  resets the backoff: a property that denied this would contradict the code.
- *Relay.* Two connections are the least that replace each other; `Stop` may come at
  any time, also twice. A buffer of one is full as soon as it is used.
- *Credentials.* One credential is enough for tokens and generations: credentials share
  nothing but the channel of requests, whose one place any request may fill. A
  worker, an attempt and an edit or import overlap; two imports are the least for which an
  attempt, a clone or a request belongs to an older one. Locks and tokens that
  nobody knows any more are used again, so that a few stand for all. A caller and
  `rebuild` fill the channel of one. Several attempts at once are left to the proofs.
- *Usage.* A batch of two is the least that fails in the middle and leaves a rest; a
  buffer of two is full after one record, since the channel starts with a message of
  its own; retention 0 lets a record expire with the next tick. Two records are the least that
  change their order, and with the refresh they are three messages to find a gap in. Two switches are off-on
  and on-off.

`CHECK_DEADLOCK FALSE` is set where the system really may come to rest: all
executions ended and no call open, a service that stopped, a clock at its bound, a relay
without clients.

## 4. Fairness

Only what the Go scheduler and the code justify is assumed: a goroutine that
is not blocked takes its next step (weak fairness of each actor's steps).
In particular no context is ever assumed to expire (`Timeout`, `Cancel` by a caller), an
execution may run for ever unless its resource was closed (`MustEnd`), clients and
Home owe no request, and a websocket client may be silent for ever.

- Registry: `closeFn` returns; a dispatch resolves, since the round trip to Home
  has a deadline; the publisher's ticker goes on. `PublisherSpec` assumes the ticker alone.
- Flusher: the timer fires, a send returns one way or the other, and, the one strong
  fairness, a group that is sent again and again is acknowledged at last (otherwise
  the network is down for good). No frame reported as failed is assumed to arrive.
- Composition: a connection attempt ends one way or the other; a subscription whose
  client was aborted is lost; releases reach Home, which is what `ReleaseAcked`
  shows of the flusher. `AbortInvalid` and new requests are never assumed.
- Relay: handler, read loop, cleanup, request, consumer and context goroutine each
  run on. `ResponsesEnd` excepts executions in which some session `Panics`.
- Recovery: callers, the starter, the loop and the attempts run on. Two steps are strongly
  fair: `dispatch` takes the request that is due the longest, so a request that is
  pending again and again gets its turn; and a call of the provider that is made again and
  again succeeds at last (otherwise the loop retries for ever, as it should).
  No import, edit, 429 or removal is ever assumed.
- Usage: the worker runs on, and whoever released the manager's lock goes on to signal it; nothing is assumed of Home, pollers or subscribers.

## 5. Proofs

The proofs hold for any finite sets of dispatches (`DispatchAssumption`) and of requests of
a credential (`RequestsAssumption`): both are counted, and a process has only finitely many.
Groups, sinks, calls, providers, forwarders and subscribers are any sets, and all bounds are
arbitrary; the other assumptions are that the null values are not members of these sets and
that durations are positive and ordered. All of them are named in the modules and TLC evaluates them on each
run.

**ExecutionRegistryProofs.** `TypeCorrect` comes first; one lemma for each kind
of actor (owners, calls, shared steps). *Frame* lemmas state what an actor
cannot touch, so each later proof treats only the steps that matter. `PhaseCorrect` says that the
sets of the registry agree with the phases of the dispatches (`PhaseInv`).

| Theorem | Argument |
| --- | --- |
| `BarriersSound` | `PhaseInv` ties the sets `pending` and `scopes` to the phase of an owner. `BarrierInv` adds that what was pending when a barrier was observed has a number of at most `barrierSequence`, so a snapshot that finds no pending number that low may publish. `BarrierSound` alone says nothing of numbers and is not inductive. |
| `ReleasesReachSink` | `ReleaseInv`: what a replay or a captured delivery carries is not ahead of the registry's count. Without it a late delivery could be thought to cover releases that have not happened. |
| `ReleasesAfterClose` | `CountInv`: a group's sequence is the cardinality of its released dispatches; with `PhaseInv` a released dispatch has a closed resource. Needs the set of dispatches to be finite. |
| `NoResourceOrphaned`, `ShutdownIsComplete` | `CloserInv` (the body of `Close` has every resource in use on its list or is waiting for it) and `CallInv` (what each return value promises), proved together: whether a call may report success depends on what the closer left, and the closer's list on owners binding nothing new. `ShutdownComplete` is about `Drain` and `Close`: `WaitPending` promises nothing that outlasts its return. |

**ReleaseFlusherProofs.** `FlusherTypes` includes the range of the backoff. `FlusherInv` adds
`WireInv` (batches, frames on the wire and Flush's snapshot are not ahead of
`latest`), without which a late frame could record a release that never was. It yields
`AcknowledgementsSound`, `TicketsSound` and `FlushIsComplete`.
`FlusherImplementsLink` maps every step to a step or a stutter of `CumulativeLink`;
it is the licence for using the abstraction in `HomeConcurrency`. `BackoffIsHeld` needs no
more than the types: only a tick moves the timer of a `Run` that backs off (`WaitKept`), and a
new delay is chosen by `FlushEnd` alone, from the timings of that moment (`DelayChosen`).

**HomeConcurrencyProofs.** The registry's lemmas about one step (`TypeStep`, `PhaseStep`,
`ReleaseStep`) are used again, since a step of the composition is a step of the registry, or frees
the name of a call, or replaces the registry (`RegistrySteps`). `HomeInv` adds to the registry's
invariants, in the order in which they rest on each other:

| Part | Why it is needed |
| --- | --- |
| `Lifetimes` | All clients but the current one are fenced, and a supervisor that is past `settling` has fenced that one too: without it an old client could still ask Home for a slot. |
| `Supervision` | The supervisor has one call of the registry under way, the one its place asks for; a `Drain` that succeeded found the registry closed and empty. |
| `RequestPlaces` | An answer of Home is in somebody's hands only for the current client, because what waits for it is pending and `WaitPending` comes before `ReplaceClient`. |
| `FreshJoins` | A membership is joined without takeover only on a registry no dispatch has used, so what Home then forgets was not running. |
| `GrantsHeld` | A grant belongs to the scope of its dispatch; one without a scope is that of the current client, which its request has aborted or is about to abort. `NoLeakedSlot` says nothing of the abort and is not inductive. |
| `Counts` | The registry's sequence of a group is the number of its own executions that were released. |
| `Recording` | Home has recorded no more than the flusher has seen, and a flush that succeeded left nothing. |

`NoSlotLeaks` and `ShutdownIsClean` follow. `HomeImplementsSlots` maps the composition to
`HomeSlots` with `outstanding` as Home's count (`Outstanding`) and `running` as the number of slots in
use (`InUse`): `IssueGranted` is a `Grant`, `InstallGranted` a `Start`, the step that ends the
use of a resource (`EndBegin` without one, `CloseResource`) a `Finish`, `FlusherRecords` a
`Return`, a membership joined without takeover a `Forget`, and everything else a stutter
(`StepMapsToSlots`). The crux is `Return`: Home takes off as many as it is told are
released, and by `Counts` and `Recording` these are granted and no longer in use, hence what
stays is at least what runs. `CapacityIsKept` spells out what the refinement means.

**RuntimeLimitsProofs.** `LimitsTypes` includes the ceiling of the upstream cooldown.
`SlotsAreExact` and `FallbackIsExclusive` follow how each step changes the set of requests that
hold a slot. `RateIsBounded` rests on `Windows`: each
admission has a place of its own (`nth` of `RateMax`) in its window, within `Window` and
the lag of its start, and windows start `Window` apart. `Window` less the lag therefore meets two
windows at most, and the places are counted by an injection; how many were admitted is not
inductive by itself. `FreezesAreAbsolute` and `GuardsAreHeld` compare the time a caller read with
the clock. `BackoffDoesConverge` needs `BackoffSeen`: while the level is raised, `lastSeen` is older
than the last 429 by no more than the lag.

**UsagePipelineProofs.** `RecordsAreAccounted` rests on `Inv`: `Accounted` (channel, hands and queue
are disjoint, and hold what was published and has no end), `Singly` (none of
them holds a record twice) and `Ordered` (without Home the queue comes before the worker's
record and that before the channel, all behind what was polled). The lemmas about sequences say what
appending, taking off either end and pruning a prefix do to the elements, their order and
their being distinct. `LittleIsLeft` counts the worker's record with those that are kept from
the moment it found the flag set. `StreamsAreSound` adds to the property that what a
subscriber was sent never runs ahead of the broadcasts and is compared element by element.

**WsRelayProofs.** `SessionsExact` rests on `ReaderInv` (only a serving session is read
from), `Registered` (an entry of the index has registered under its provider) and
`IndexInv`, which extends `SessionIndex` to sessions that do not serve yet: the
property itself is lost at `Serve`. `RequestsEndWithSession` rests on `EndingInv`,
which follows a request through the cleanup: in the map while the session is open, then
closed, on the list or being visited, then closed. The crux is the double check of
`session.request`: it stores its entry before it looks at `session.closed`, and
cleanup closes that channel before it ranges.

**CredentialRefreshProofs.** `RefreshTypes` comes first. `TokensAreSpentOnce` needs that whoever
refreshes an unspoiled credential holds or awaits the lock that is in the map (`SameLock`),
hence that one refresh at a time is past its wait (`OneRefresh`), and that the token it
took, or the new one it brings, is one the provider accepts, as is the token that is
stored, unless its successor is about to be (`RefreshLive`, `StoredLive`): mutual exclusion
alone does not say that a token was stored before the next refresh reads it. Imports
need `OneLogin` (a token belongs to one generation wherever it is known) and
`ImportsPrivate` (nobody else knows the token of an import until it is registered), because an
attempt compares generations and not tokens. `AttemptsKeepReimports` needs the types alone: it
holds because every step that stores compares the generation in the same critical section.

**CredentialRecoveryProofs.** `RequestsAreKept` is proved by one lemma for each kind of step
from `KeepInv`: `RequestKept` with `AgentsClean` (whoever is idle holds no request) and
`Merging` (an attempt that asks for a token works for an initialization, so what it stores
asks for nothing new). The crux is `Queue`: whoever changed a credential
looks again after the change, so a request that was posted from an older look is
always followed by a newer one. `AttemptsMindTheirGeneration` follows from the comparison that
each step of an attempt makes in the critical section in which it stores.

Every invariant and every action or refinement property of the passing runs is thus proved. Only
model-checked are the temporal ones (`CallsReturn`, `BarrierPublished`, `ReleaseAcked`,
`SlotsReturned`, `ResponsesEnd`, `RecoveryEnds`, `RecordsHandled`), since liveness under fairness and
`ENABLED` are out of the prover's reach.

## 6. Where the code and its comments disagree

**Stop may panic** (`RelayGraceful`). `internal/wsrelay/manager.go:95` promises that
`Stop` gracefully closes the sessions. `cleanup` looks a request up, sends an error to
its channel and closes it (`session.go:172-179`). Between the look-up and the send the
request itself may close the channel, when it finds its session closed
(`session.go:150-154`) or when its context ends (`session.go:157-162`). A send on a
closed channel panics, also inside a `select` with a default. `dispatch`
(`session.go:106-109`) is exposed to the same race, and no `recover` covers
the goroutine of `session.run`. The trace of the run has one session, one
request and one `Stop`.

**An answer may have gaps** (`RelayAnswers`). `manager.go:162-163` says `Send` returns
a channel yielding the response messages. `dispatch` drops a message when the channel's
buffer of eight is full (`session.go:108-111`) and tells nobody: a slow reader loses
chunks in the middle of a stream and is told that the answer is complete.

The following were met while modelling; no run is devoted to them, the modules follow the code.

- *The lock of a removed credential.* `conductor.go:193-194` says that `refreshLocks`
  "serializes credential refresh per auth ID". `Remove` deletes the lock
  (`conductor_lifecycle.go:233`) even while a refresh holds it; after a new import two
  refreshes of the credential may run, and the old one's `Update` stores its clone, of the
  login that was removed, over the new one. `RotationSafe` excepts this (`spoiled`).
- *Whole clones.* `Update` replaces all of a credential by a clone that may be older: a
  refresh that ends after a terminal 401 enables the credential again, one that ends after an
  initialization was finished brings `initializing` back, and one that ends after an import in place
  undoes the import. The recovery loop then works for whatever is stored, which is why
  `RequestKept` is about what a credential asks for now.
- *Shared tokens.* A recovery that completes copies its tokens to the other credentials of the same
  member (`recovery.go:536`, `copyRefreshedCredentialMetadata`). They then hold one refresh
  token under two locks, which `RotationSafe` does not cover: credentials share no token here.
- *Requests the recovery loop gives up* (`missed`). A request that arrives while its attempt is
  at its end is dropped as running (`recovery.go:155`) though nobody acts on it any more;
  a request posted from an older look displaces a newer one in the overflow map or in
  `pending` (`recovery.go:95`, `140`, `158`); and a 429 during an initialization posts the
  initialization, so that its probe is never posted when that is finished. The credential then stays
  blocked until something else is written to it or the process starts again.
- *An early recovery.* `conductor_cooldown.go:1060-1062` starts a recovery only after all
  suspensions are visible; another 429 or an edit in between posts it earlier.
- *Stop of the usage manager.* `usage/manager.go:260` says that it drains the queue; it returns at
  once and the worker drains afterwards (`RecordsHandled`), so a process that ends may lose records.
- *Forwarded records.* What could not be pushed goes back behind newer records, and a push
  whose answer was lost is repeated (`service_home.go:358-360`).

## 7. What is not modelled

Components with the status `not_modelled` in `PROJECT.json` are of three sorts.
*Planned*: the stateful parts of section 8. *Outside*: translators and thinking
(pure rewriting of JSON), executors (network calls), HTTP handlers, OAuth flows,
plugins (foreign functions, installation), stores and logging (adapters), the
terminal interface; they have little shared state of their own and appear, if
at all, as the environment. *Wiring*: the service assembly, whose
concurrency is that of its parts.

Of the parts that are modelled, section 2 names what each module leaves out.

## 8. Plan

In this order; each module lists the hazards in `PROJECT.json` it is for. Runs of finished
modules are merged to keep their number small.

1. **CredentialCopies**: the copies of the store in the scheduler and on the disk, written after
   the lock is released, with an abstract map that they should converge to; `Remove` against
   a late write; the callbacks of the relay.
2. **Scheduler** and **Cooldown**: the index as a refinement of a scan over the
   store; `MarkResult` for models and peers, with per-file saves and a restart.
3. **RefreshSchedule**: the due heap and its workers over `CredentialRefresh`. Properties: a due
   credential is refreshed in the end, no spinning.
4. **Execution**: the retry loop and the stream bridge over `RuntimeLimits`.
5. **InFlightPublisher**, **SessionCache**, then the model registry, licensing and the
   watcher's dispatcher; in the composition, the config worker and
   `drainDetachedHomeLifetime`.

Abstract specifications worth stating: a single credential map for the store and its
copies, a bounded exactly-once queue for usage records, "at most one holder" for refresh.

Proofs next: the safety part of what the temporal properties rest on (whoever is parked was
woken, a request under way has somebody who will end it), stated as invariants; then type
correctness and the main invariant of each module above.
