--------------------------- MODULE ReleaseFlusher ---------------------------
(***************************************************************************)
(* releaseFlusher (internal/home/concurrency_release.go): it sends Home    *)
(* the latest cumulative release sequence of every group until Home        *)
(* acknowledges it, and completes the tickets of the releases it covers.   *)
(*                                                                         *)
(* Three actors share its mutex: whoever ends an execution (MarkDirty),    *)
(* the goroutine Run of the current subscriber lifetime, and the           *)
(* supervisor, which stops Run, replaces the sender and flushes at         *)
(* shutdown.  Home may configure the delays anew at any time.  Home and the network are external: a frame that was sent may *)
(* be recorded or not whatever the sender is told, and may arrive late.    *)
(* Time is counted in ticks of the backoff timer.                          *)
(***************************************************************************)
EXTENDS Integers

CONSTANTS Groups,         \* release groups
          MaxSequence,    \* bound on a group's cumulative sequence
          FlushIntervals, \* ticks between two flushes that did not fail
          MaxBackoffs,    \* ticks of the longest backoff, as configured
          MaxLifetimes    \* bound on the subscriber lifetimes, runs of Run

ASSUME SequenceAssumption == MaxSequence \in Nat
ASSUME TimingAssumption == /\ FlushIntervals \subseteq Nat \ {0}
                           /\ MaxBackoffs \subseteq Nat
ASSUME LifetimeAssumption == MaxLifetimes \in Nat

VARIABLES
  latest,       \* Latest: the largest sequence marked dirty
  acked,        \* Acked: the largest sequence Home acknowledged
  ticket,       \* state of the ticket of each group and sequence
  sender,       \* is there a send function
  run,          \* stopped, select (waiting) or sending (inside flush)
  cancelled,    \* the context of Run has ended
  batch,        \* what flush has still to send, 0 for nothing
  failed,       \* a send of this flush failed
  delay,        \* Run's current delay
  timer,        \* ticks until the timer fires
  backingOff,   \* Run ignores the wake channel
  wake,         \* the wake channel is full
  force,        \* the force channel is full
  flush,        \* the supervisor's call of Flush
  dirtyAtFlush, \* history: what was dirty when Flush was called
  lifetimes,    \* runs of Run so far
  timings,      \* what timings() returns, of Home's limiter configuration
  homeSequence, \* Home: the largest sequence recorded
  wire          \* frames reported as failed that may still reach Home

markVars  == <<latest, acked, ticket>>
runVars   == <<run, cancelled, batch, failed, delay, timer, backingOff>>
flushVars == <<flush, dirtyAtFlush>>
homeVars  == <<timings, homeSequence, wire>>
vars == <<markVars, sender, runVars, wake, force, flushVars, lifetimes,
          homeVars>>

Sequences == 1 .. MaxSequence
Nothing   == [g \in Groups |-> 0]
Larger(m, n) == IF m < n THEN n ELSE m

(* timings(): a positive interval, and a backoff no shorter than it.       *)
Timings == {[flushInterval |-> interval, maxBackoff |-> Larger(interval, longest)] :
              interval \in FlushIntervals, longest \in MaxBackoffs}

Init ==
  /\ timings \in Timings
  /\ latest = Nothing
  /\ acked = Nothing
  /\ ticket = [g \in Groups |-> [n \in Sequences |-> "none"]]
  /\ sender = FALSE
  /\ run = "stopped"
  /\ cancelled = FALSE
  /\ batch = Nothing
  /\ failed = FALSE
  /\ delay = timings.flushInterval
  /\ timer = 0
  /\ backingOff = FALSE
  /\ wake = FALSE
  /\ force = FALSE
  /\ flush = "idle"
  /\ dirtyAtFlush = Nothing
  /\ lifetimes = 0
  /\ homeSequence = Nothing
  /\ wire = {}

-----------------------------------------------------------------------------
(* Whoever ends an execution.  Sequences may arrive out of order and more  *)
(* than once: the registry calls its sink outside its lock and replays.    *)

(* Mutant of MarkDirty: a late call brings Latest back.                    *)
MarkDirtyLast(g, n) ==
  /\ IF n <= acked[g]
       THEN /\ ticket' = [ticket EXCEPT ![g][n] = "done"]
            /\ UNCHANGED latest
       ELSE /\ ticket' = [ticket EXCEPT ![g][n] = "waiting"]
            /\ latest' = [latest EXCEPT ![g] = n]
  /\ wake' = TRUE
  /\ UNCHANGED <<acked, sender, runVars, force, flushVars, lifetimes,
                 homeVars>>

MarkDirty(g, n) ==
  /\ IF n <= acked[g]
       THEN /\ ticket' = [ticket EXCEPT ![g][n] = "done"]
            /\ UNCHANGED latest
       ELSE /\ ticket' = [ticket EXCEPT ![g][n] = "waiting"]
            /\ latest' = [latest EXCEPT ![g] = Larger(@, n)]
  /\ wake' = TRUE
  /\ UNCHANGED <<acked, sender, runVars, force, flushVars, lifetimes,
                 homeVars>>

-----------------------------------------------------------------------------
(* Run                                                                     *)

(* Mutant of NextDelay: the backoff is not limited.                        *)
NextDelayUnlimited(d, isFailed) ==
  IF isFailed THEN Larger(2 * d, timings.flushInterval) ELSE timings.flushInterval

(* The delay is the one of a configuration that may be gone.               *)
NextDelay(d, isFailed) ==
  LET doubled == Larger(2 * d, timings.flushInterval)
  IN  CASE ~isFailed -> timings.flushInterval
        [] isFailed /\ doubled > timings.maxBackoff -> timings.maxBackoff
        [] OTHER -> doubled

(* SetLifecycleConfig of the client, when Home sends a configuration.      *)
Configure(new) ==
  /\ new # timings
  /\ timings' = new
  /\ UNCHANGED <<markVars, sender, runVars, wake, force, flushVars, lifetimes,
                 homeSequence, wire>>

(* The start of a lifetime: SetConfigProvider and SetSender (which fill    *)
(* the wake channel), then Run with a timer that has already fired.        *)
Start ==
  /\ run = "stopped"
  /\ lifetimes < MaxLifetimes
  /\ lifetimes' = lifetimes + 1
  /\ sender' = TRUE
  /\ run' = "select"
  /\ cancelled' = FALSE
  /\ delay' = timings.flushInterval
  /\ timer' = 0
  /\ backingOff' = FALSE
  /\ wake' = TRUE
  /\ UNCHANGED <<markVars, batch, failed, force, flushVars, homeVars>>

(* releaseCancel() *)
Cancel ==
  /\ run # "stopped"
  /\ ~cancelled
  /\ cancelled' = TRUE
  /\ UNCHANGED <<markVars, sender, run, batch, failed, delay, timer,
                 backingOff, wake, force, flushVars, lifetimes, homeVars>>

Stop ==
  /\ run = "select"
  /\ cancelled
  /\ run' = "stopped"
  /\ UNCHANGED <<markVars, sender, cancelled, batch, failed, delay, timer,
                 backingOff, wake, force, flushVars, lifetimes, homeVars>>

(* Mutant of WakeUp: a wake-up cuts a backoff short.                       *)
WakeUpAlways ==
  /\ run = "select"
  /\ wake
  /\ wake' = FALSE
  /\ timer' = 0
  /\ UNCHANGED <<markVars, sender, run, cancelled, batch, failed, delay,
                 backingOff, force, flushVars, lifetimes, homeVars>>

WakeUp ==
  /\ run = "select"
  /\ wake
  /\ wake' = FALSE
  /\ timer' = IF backingOff THEN timer ELSE 0
  /\ UNCHANGED <<markVars, sender, run, cancelled, batch, failed, delay,
                 backingOff, force, flushVars, lifetimes, homeVars>>

Tick ==
  /\ run = "select"
  /\ timer > 0
  /\ timer' = timer - 1
  /\ UNCHANGED <<markVars, sender, run, cancelled, batch, failed, delay,
                 backingOff, wake, force, flushVars, lifetimes, homeVars>>

(* Mutant of Dirty: off by one, the last release is not sent.              *)
DirtyByMore(g) == latest[g] > acked[g] + 1

Dirty(g) == latest[g] > acked[g]

(* flush, first critical section: on the timer, or at once when forced.    *)
FlushStart ==
  /\ run = "select"
  /\ \/ timer = 0 /\ UNCHANGED force
     \/ force /\ force' = FALSE
  /\ run' = "sending"
  /\ failed' = FALSE
  /\ batch' = [g \in Groups |-> IF sender /\ Dirty(g) THEN latest[g] ELSE 0]
  /\ UNCHANGED <<markVars, sender, cancelled, delay, timer, backingOff, wake,
                 flushVars, lifetimes, homeVars>>

(* Mutant of Acknowledge: the latest sequence is acknowledged, not the     *)
(* one that was sent.                                                      *)
AcknowledgeLatest(g, n) ==
  /\ acked' = [acked EXCEPT ![g] = latest[g]]
  /\ ticket' = [ticket EXCEPT ![g] =
                  [m \in Sequences |->
                     IF m <= n /\ @[m] = "waiting" THEN "done" ELSE @[m]]]

(* Mutant of Acknowledge: only the ticket of the sequence sent completes.  *)
AcknowledgeOne(g, n) ==
  /\ acked' = [acked EXCEPT ![g] = Larger(@, n)]
  /\ ticket' = [ticket EXCEPT ![g][n] = "done"]

(* Home's reply comes back: it recorded the sequence, and flush records    *)
(* the one it sent (Latest may have grown meanwhile) and completes the     *)
(* tickets below it.                                                       *)
Acknowledge(g, n) ==
  IF n > acked[g]
    THEN /\ acked' = [acked EXCEPT ![g] = n]
         /\ ticket' = [ticket EXCEPT ![g] =
                         [m \in Sequences |->
                            IF m <= n /\ @[m] = "waiting" THEN "done" ELSE @[m]]]
    ELSE UNCHANGED <<acked, ticket>>

HomeRecord(g, n) == homeSequence' = [homeSequence EXCEPT ![g] = Larger(@, n)]

SendAcked(g) ==
  /\ run = "sending"
  /\ batch[g] > 0
  /\ HomeRecord(g, batch[g])
  /\ Acknowledge(g, batch[g])
  /\ batch' = [batch EXCEPT ![g] = 0]
  /\ UNCHANGED <<latest, sender, run, cancelled, failed, delay, timer,
                 backingOff, wake, force, flushVars, lifetimes, timings, wire>>

(* The send fails: the frame never left, or its fate is unknown.           *)
SendFailed(g) ==
  /\ run = "sending"
  /\ batch[g] > 0
  /\ failed' = TRUE
  /\ batch' = [batch EXCEPT ![g] = 0]
  /\ wire' \in {wire, wire \union {<<g, batch[g]>>}}
  /\ UNCHANGED <<markVars, sender, run, cancelled, delay, timer, backingOff,
                 wake, force, flushVars, lifetimes, timings, homeSequence>>

FlushEnd ==
  /\ run = "sending"
  /\ batch = Nothing
  /\ run' = "select"
  /\ delay' = NextDelay(delay, failed)
  /\ timer' = delay'
  /\ backingOff' = failed
  /\ UNCHANGED <<markVars, sender, cancelled, batch, failed, wake, force,
                 flushVars, lifetimes, homeVars>>

(* A late frame reaches Home.                                              *)
LateArrival(f) ==
  /\ f \in wire
  /\ wire' = wire \ {f}
  /\ HomeRecord(f[1], f[2])
  /\ UNCHANGED <<markVars, sender, runVars, wake, force, flushVars,
                 lifetimes, timings>>

-----------------------------------------------------------------------------
(* Flush, which the supervisor calls once before it stops the last Run.    *)

Flush ==
  /\ flush = "idle"
  /\ flush' = "polling"
  /\ dirtyAtFlush' = latest
  /\ force' = TRUE
  /\ UNCHANGED <<markVars, sender, runVars, wake, lifetimes, homeVars>>

(* Mutant of FlushPoll: it returns once Run took the forced flush.         *)
FlushPollTaken ==
  /\ flush = "polling"
  /\ ~force
  /\ flush' = "flushed"
  /\ UNCHANGED <<markVars, sender, runVars, wake, force, dirtyAtFlush,
                 lifetimes, homeVars>>

FlushPoll ==
  /\ flush = "polling"
  /\ \A g \in Groups : ~Dirty(g)
  /\ flush' = "flushed"
  /\ UNCHANGED <<markVars, sender, runVars, wake, force, dirtyAtFlush,
                 lifetimes, homeVars>>

FlushExpire ==
  /\ flush = "polling"
  /\ flush' = "expired"
  /\ UNCHANGED <<markVars, sender, runVars, wake, force, dirtyAtFlush,
                 lifetimes, homeVars>>

-----------------------------------------------------------------------------
RunStep ==
  \/ WakeUp
  \/ Tick
  \/ FlushStart
  \/ \E g \in Groups : SendAcked(g) \/ SendFailed(g)
  \/ FlushEnd
  \/ Stop

Next ==
  \/ \E g \in Groups, n \in Sequences : MarkDirty(g, n)
  \/ Start
  \/ Cancel
  \/ RunStep
  \/ \E new \in Timings : Configure(new)
  \/ \E f \in wire : LateArrival(f)
  \/ Flush
  \/ FlushPoll
  \/ FlushExpire

Spec == Init /\ [][Next]_vars

(* The goroutine runs on, its timer fires, lifetimes follow each other,    *)
(* and a group that is sent again and again is acknowledged at last.  No   *)
(* frame reported as lost is assumed to arrive.                            *)
Fairness ==
  /\ WF_vars(Tick)
  /\ WF_vars(FlushStart)
  /\ WF_vars(FlushEnd)
  /\ WF_vars(Stop)
  /\ WF_vars(Start)
  /\ \A g \in Groups : /\ WF_vars(SendAcked(g) \/ SendFailed(g))
                       /\ SF_vars(SendAcked(g))

FairSpec == Spec /\ Fairness

-----------------------------------------------------------------------------
(* Every variable keeps its type; the delay of Run is one that some        *)
(* configuration allows, and its timer is never set for longer (nextDelay).*)
TypeOK ==
  /\ latest \in [Groups -> 0 .. MaxSequence]
  /\ acked \in [Groups -> 0 .. MaxSequence]
  /\ ticket \in [Groups -> [Sequences -> {"none", "waiting", "done"}]]
  /\ sender \in BOOLEAN
  /\ run \in {"stopped", "select", "sending"}
  /\ cancelled \in BOOLEAN
  /\ batch \in [Groups -> 0 .. MaxSequence]
  /\ failed \in BOOLEAN
  /\ timings \in Timings
  /\ \E t \in Timings : delay \in t.flushInterval .. t.maxBackoff
  /\ timer \in 0 .. delay
  /\ backingOff \in BOOLEAN
  /\ wake \in BOOLEAN
  /\ force \in BOOLEAN
  /\ flush \in {"idle", "polling", "flushed", "expired"}
  /\ dirtyAtFlush \in [Groups -> 0 .. MaxSequence]
  /\ lifetimes \in 0 .. MaxLifetimes
  /\ homeSequence \in [Groups -> 0 .. MaxSequence]
  /\ wire \subseteq Groups \X Sequences

(* Nothing is believed acknowledged that Home does not know, whatever was  *)
(* marked, sent or lost meanwhile, and Home is told nothing that was not   *)
(* marked: a release is neither forgotten nor invented (flush).            *)
AckSound ==
  \A g \in Groups : acked[g] <= homeSequence[g] /\ homeSequence[g] <= latest[g]

(* A ticket completes only when Home has its sequence (ReleaseTicket.Wait  *)
(* returns nil), and none is left waiting once its sequence is             *)
(* acknowledged: nobody waits for an answer that has come.                 *)
TicketSound ==
  \A g \in Groups, n \in Sequences :
    /\ ticket[g][n] = "done" => n <= homeSequence[g]
    /\ ticket[g][n] = "waiting" => acked[g] < n /\ n <= latest[g]

(* When Flush returned nil, Home has all that was dirty when it was called.*)
FlushComplete ==
  flush = "flushed" => \A g \in Groups : dirtyAtFlush[g] <= homeSequence[g]

(* While Run backs off from a Home that fails, no release that ends and no *)
(* wake-up makes it send earlier: only its timer, a tick at a time, a      *)
(* forced flush or a new lifetime does.  And a delay that follows a failure*)
(* obeys the configuration of that moment, whichever the one before it was *)
(* chosen under, and is shorter than that one only where the configuration *)
(* was lowered (nextDelay).                                                *)
BackoffHeld ==
  [][/\ backingOff /\ run = "select" /\ run' = "select" /\ backingOff'
          => timer' >= timer - 1
     /\ run = "sending" /\ run' = "select" /\ backingOff' =>
          /\ timer' = delay'
          /\ delay' \in timings'.flushInterval .. timings'.maxBackoff
          /\ delay' >= delay \/ delay' = timings'.maxBackoff]_vars

(* What the composition relies on: Home's record follows the sequence of   *)
(* the registry (CumulativeLink), whatever the network does.               *)
Link == INSTANCE CumulativeLink WITH recorded <- homeSequence
LinkSpec == Link!Spec

(* Every release is acknowledged in the end, across lost replies, backoff  *)
(* and lifetimes that replace each other: one that is not belongs to the   *)
(* last lifetime, which was cancelled.  (Run, flush, SetSender)            *)
ReleaseAcked ==
  \A g \in Groups, n \in Sequences :
    latest[g] >= n
      ~> acked[g] >= n \/ (cancelled /\ lifetimes = MaxLifetimes)

=============================================================================
