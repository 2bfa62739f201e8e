---------------------------- MODULE UsagePipeline ----------------------------
(***************************************************************************)
(* The way of a usage record from the request that publishes it to whoever *)
(* asked for it: the queue and the worker of the usage manager             *)
(* (sdk/cliproxy/usage/manager.go), the plugin that hands each record on   *)
(* and the queue it is kept in (internal/redisqueue).                      *)
(*                                                                         *)
(* With Home, forwarders push the kept records to it and keep what could   *)
(* not be pushed again (startHomeUsageForwarder); without it, pollers take *)
(* them and subscribers are sent them (redis_queue_protocol.go).           *)
(*                                                                         *)
(* A step is one critical section of Manager.mu or queue.mu, one signal of *)
(* Manager.cond, one load or store of the flag "enabled", or one answer of *)
(* Home.  Records carry the order in which the manager queued them.  The queue of errors, which has *)
(* the same subscribers and keeps nothing, is left out, and so are the     *)
(* other plugins and a change of the retention.                            *)
(***************************************************************************)
EXTENDS Naturals, Sequences, FiniteSets

CONSTANTS
  Forwarders,   \* goroutines of startHomeUsageForwarder
  Pollers,      \* connections and requests that call PopOldest
  Subscribers,  \* subscriptions, each used once
  Worker,       \* the goroutine of Manager.run
  Batch,        \* how many records a forwarder pops
  Buffer,       \* of a subscriber's channel, usageSubscriberBuffer
  Retention,    \* retentionSeconds
  MaxRecords,   \* bound on the records
  MaxLocal,     \* bound on the records without Home
  MaxRefreshes, \* bound on the calls of NotifyUsageRefresh
  MaxSwitches,  \* bound on the calls of SetEnabled
  MaxLag,       \* bound: how far the time of a caller is behind
  MaxTime       \* bound on the clock

Senders == Forwarders \union {Worker}
Records == 1 .. MaxRecords

ASSUME PipelineAssumption ==
  /\ Worker \notin Forwarders
  /\ Batch \in Nat \ {0} /\ Buffer \in Nat \ {0} /\ Retention \in Nat
  /\ MaxRecords \in Nat /\ MaxLocal \in Nat
  /\ MaxRefreshes \in Nat /\ MaxSwitches \in Nat
  /\ MaxLag \in Nat /\ MaxTime \in Nat

VARIABLES
  home,        \* cfg.Home.Enabled
  clock,
  published,   \* how many records the manager accepted
  queue,       \* Manager.queue
  closed,      \* Manager.closed
  asleep,      \* run waits for Manager.cond
  owed,        \* calls that released Manager.mu and have still to signal
  enabled,     \* the flag of SetEnabled
  switches,    \* calls of SetEnabled so far
  switching,   \* a call SetEnabled(false) stored the flag and has to clear
  items,       \* queue.items from head on, with their enqueuedAt
  at,          \* where a sender is, in its loop and in Enqueue
  hand,        \* the records it has taken
  polling,     \* pollers that found the queue enabled
  subscribers, \* queue.subscribers
  closing,     \* subscribers taken out of it, whose channel is to be closed
  ended,       \* subscribers whose channel is closed
  sent,        \* history: what was sent to a subscriber
  unread,      \* how much of it its channel holds still
  joined,      \* history: the broadcasts before its subscription, or 0
  broadcasts,  \* history: what was sent to the subscribers
  fate         \* history: what became of a record in the end

managerVars == <<published, queue, closed, asleep, owed>>
queueVars   == <<enabled, switches, switching, items, polling>>
senderVars  == <<at, hand>>
streamVars  == <<subscribers, closing, ended, sent, unread, joined, broadcasts>>
vars == <<home, clock, managerVars, queueVars, senderVars, streamVars, fate>>

(* Messages that are no records.                                           *)
SupportRefresh == 0
Refresh == 0

Init ==
  /\ home \in BOOLEAN
  /\ clock = 0
  /\ published = 0 /\ queue = <<>> /\ closed = FALSE
  /\ asleep = FALSE /\ owed = 0
  /\ enabled = home
  /\ switches = 0 /\ switching = FALSE
  /\ items = <<>>
  /\ at = [s \in Senders |-> "idle"]
  /\ hand = [s \in Senders |-> <<>>]
  /\ polling = {}
  /\ subscribers = {} /\ closing = {} /\ ended = {}
  /\ sent = [u \in Subscribers |-> <<>>]
  /\ unread = [u \in Subscribers |-> 0]
  /\ joined = [u \in Subscribers |-> 0]
  /\ broadcasts = <<>>
  /\ fate = [r \in Records |-> "none"]

-----------------------------------------------------------------------------
(* The usage manager                                                       *)

(* Publish, of a manager that was not stopped.  Like Stop it signals the   *)
(* worker once it has released the lock.                                   *)
Publish ==
  /\ ~closed
  /\ published < MaxRecords /\ (home \/ published < MaxLocal)
  /\ published' = published + 1
  /\ queue' = Append(queue, published')
  /\ owed' = owed + 1
  /\ UNCHANGED <<home, clock, closed, asleep, queueVars, senderVars, streamVars,
                 fate>>

Stop ==
  /\ ~closed
  /\ closed' = TRUE
  /\ owed' = owed + 1
  /\ UNCHANGED <<home, clock, published, queue, asleep, queueVars, senderVars,
                 streamVars, fate>>

(* Only the worker waits, so Signal and Broadcast do the same.             *)
Signal ==
  /\ owed > 0
  /\ owed' = owed - 1
  /\ asleep' = FALSE
  /\ UNCHANGED <<home, clock, published, queue, closed, queueVars, senderVars,
                 streamVars, fate>>

(* Mutant of Sleep: run does not look at closed before it waits.           *)
SleepWhenEmpty ==
  /\ at[Worker] = "idle" /\ ~asleep
  /\ queue = <<>>
  /\ asleep' = TRUE
  /\ UNCHANGED <<home, clock, published, queue, closed, owed, queueVars,
                 senderVars, streamVars, fate>>

(* Wait enlists the worker before it gives the lock back.                  *)
Sleep ==
  /\ at[Worker] = "idle" /\ ~asleep
  /\ queue = <<>> /\ ~closed
  /\ asleep' = TRUE
  /\ UNCHANGED <<home, clock, published, queue, closed, owed, queueVars,
                 senderVars, streamVars, fate>>

Ends(records, what) ==
  fate' = [r \in Records |-> IF r \in records THEN what ELSE fate[r]]

(* run takes the oldest record, and usageQueuePlugin.HandleUsage looks at  *)
(* the flags: UsageStatisticsEnabled may say anything.                     *)
TakeRecord ==
  /\ at[Worker] = "idle" /\ ~asleep /\ queue # <<>>
  /\ queue' = Tail(queue)
  /\ \/ /\ enabled
        /\ at' = [at EXCEPT ![Worker] = "checking"]
        /\ hand' = [hand EXCEPT ![Worker] = <<Head(queue)>>]
        /\ UNCHANGED fate
     \/ Ends({Head(queue)}, "ignored") /\ UNCHANGED <<at, hand>>
  /\ UNCHANGED <<home, clock, published, closed, asleep, owed, queueVars,
                 streamVars>>

(* A stopped worker ends when the queue is empty.                          *)
EndWorker ==
  /\ at[Worker] = "idle" /\ ~asleep /\ closed /\ queue = <<>>
  /\ at' = [at EXCEPT ![Worker] = "done"]
  /\ UNCHANGED <<home, clock, managerVars, queueVars, hand, streamVars,
                 fate>>

-----------------------------------------------------------------------------
(* Enqueue, of the first record in the hand of a sender: a worker has one, *)
(* a forwarder enqueues all it has in turn.                                *)

Enqueued(s) ==
  /\ hand' = [hand EXCEPT ![s] = Tail(@)]
  /\ at' = [at EXCEPT ![s] = IF Len(hand[s]) > 1 THEN "checking" ELSE "idle"]

CheckEnabled(s) ==
  /\ at[s] = "checking"
  /\ IF enabled
       THEN at' = [at EXCEPT ![s] = "publishing"] /\ UNCHANGED <<hand, fate>>
       ELSE Enqueued(s) /\ Ends({Head(hand[s])}, "ignored")
  /\ UNCHANGED <<home, clock, managerVars, queueVars, streamVars>>

Full(u) == unread[u] = Buffer

(* Mutant of SendToSubscribers: a full subscriber misses the message.      *)
SendAndSkip(message) ==
  /\ sent' = [u \in Subscribers |-> IF u \in subscribers /\ ~Full(u)
                                      THEN Append(sent[u], message) ELSE sent[u]]
  /\ unread' = [u \in Subscribers |-> IF u \in subscribers /\ ~Full(u)
                                        THEN unread[u] + 1 ELSE unread[u]]
  /\ UNCHANGED <<subscribers, ended>>

(* A subscriber whose channel is full is taken out and closed.             *)
SendToSubscribers(message) ==
  LET reached == {u \in subscribers : ~Full(u)} IN
  /\ sent' = [u \in Subscribers |-> IF u \in reached
                                      THEN Append(sent[u], message) ELSE sent[u]]
  /\ unread' = [u \in Subscribers |-> IF u \in reached
                                        THEN unread[u] + 1 ELSE unread[u]]
  /\ subscribers' = reached
  /\ ended' = ended \union (subscribers \ reached)

Broadcast(message) ==
  /\ SendToSubscribers(message)
  /\ broadcasts' = Append(broadcasts, message)
  /\ UNCHANGED <<closing, joined>>

(* publishToSubscribers                                                    *)
PublishToSubscribers(s) ==
  /\ at[s] = "publishing"
  /\ IF subscribers # {}
       THEN /\ Broadcast(Head(hand[s]))
            /\ Enqueued(s)
            /\ Ends({Head(hand[s])}, "broadcast")
       ELSE /\ at' = [at EXCEPT ![s] = "appending"]
            /\ UNCHANGED <<hand, streamVars, fate>>
  /\ UNCHANGED <<home, clock, managerVars, queueVars>>

(* A caller reads the time before it waits for the lock.                   *)
Nows == {now \in 0 .. clock : now + MaxLag >= clock}

(* pruneLocked: the oldest items go until one is young enough.             *)
Expired(now) ==
  {i \in 1 .. Len(items) :
     \A j \in 1 .. i : items[j].enqueuedAt + Retention < now}

Pruned(now) == SubSeq(items, Cardinality(Expired(now)) + 1, Len(items))
RecordsOf(sequence) == {sequence[i].record : i \in 1 .. Len(sequence)}
PrunedRecords(now) == {items[i].record : i \in Expired(now)}

(* enqueue                                                                 *)
AppendItem(s) ==
  /\ at[s] = "appending"
  /\ \E now \in Nows :
       /\ items' = Append(Pruned(now),
                          [record |-> Head(hand[s]), enqueuedAt |-> now])
       /\ Ends(PrunedRecords(now), "expired")
  /\ Enqueued(s)
  /\ UNCHANGED <<home, clock, managerVars, enabled, switches, switching,
                 polling, streamVars>>

-----------------------------------------------------------------------------
(* PopOldest                                                               *)

(* A poller finds the queue enabled, ...                                   *)
StartPoll(p) ==
  /\ ~home /\ enabled /\ p \notin polling
  /\ polling' = polling \union {p}
  /\ UNCHANGED <<home, clock, managerVars, enabled, switches, switching, items,
                 senderVars, streamVars, fate>>

(* ... and takes the oldest records.                                       *)
Poll(p) ==
  /\ p \in polling
  /\ polling' = polling \ {p}
  /\ \E count \in 1 .. Batch, now \in Nows :
       LET kept == Pruned(now)
           most == IF count < Len(kept) THEN count ELSE Len(kept)
       IN  /\ items' = SubSeq(kept, most + 1, Len(kept))
           /\ fate' = [r \in Records |->
                IF r \in PrunedRecords(now) THEN "expired"
                ELSE IF r \in RecordsOf(SubSeq(kept, 1, most)) THEN "polled"
                ELSE fate[r]]
  /\ UNCHANGED <<home, clock, managerVars, enabled, switches, switching,
                 senderVars, streamVars>>

(* A forwarder whose Home answers heartbeats takes a batch.                *)
PopBatch(f) ==
  /\ home /\ enabled /\ at[f] = "idle" /\ items # <<>>
  /\ \E now \in Nows :
       LET kept == Pruned(now)
           most == IF Batch < Len(kept) THEN Batch ELSE Len(kept)
       IN  /\ items' = SubSeq(kept, most + 1, Len(kept))
           /\ Ends(PrunedRecords(now), "expired")
           /\ hand' = [hand EXCEPT ![f] = [i \in 1 .. most |-> kept[i].record]]
           /\ at' = [at EXCEPT ![f] = IF most > 0 THEN "pushing" ELSE "idle"]
  /\ UNCHANGED <<home, clock, managerVars, enabled, switches, switching,
                 polling, streamVars>>

(* LPushUsage worked.                                                      *)
Push(f) ==
  /\ at[f] = "pushing"
  /\ hand' = [hand EXCEPT ![f] = Tail(@)]
  /\ at' = [at EXCEPT ![f] = IF Len(hand[f]) > 1 THEN "pushing" ELSE "idle"]
  /\ Ends({Head(hand[f])}, "pushed")
  /\ UNCHANGED <<home, clock, managerVars, queueVars, streamVars>>

(* Mutant of PushFails: the record that failed is skipped.                 *)
PushFailsAndSkips(f) ==
  /\ at[f] = "pushing"
  /\ hand' = [hand EXCEPT ![f] = Tail(@)]
  /\ at' = [at EXCEPT ![f] = IF Len(hand[f]) > 1 THEN "checking" ELSE "idle"]
  /\ UNCHANGED <<home, clock, managerVars, queueVars, streamVars, fate>>

(* It did not, or its answer was lost: what is left is enqueued again.     *)
PushFails(f) ==
  /\ at[f] = "pushing"
  /\ at' = [at EXCEPT ![f] = "checking"]
  /\ UNCHANGED <<home, clock, managerVars, queueVars, hand, streamVars,
                 fate>>

-----------------------------------------------------------------------------
(* SetEnabled; its callers, NewServer and UpdateClients, call in turn.     *)

Switch ==
  /\ ~home /\ ~switching /\ switches < MaxSwitches
  /\ switches' = switches + 1

SetEnabled ==
  /\ Switch
  /\ enabled' = TRUE
  /\ UNCHANGED <<home, clock, managerVars, switching, items, polling,
                 senderVars, streamVars, fate>>

(* clear takes the items and the subscribers away under the lock.          *)
Clear ==
  /\ items' = <<>>
  /\ Ends(RecordsOf(items), "cleared")
  /\ closing' = closing \union subscribers
  /\ subscribers' = {}
  /\ UNCHANGED <<enabled, ended, sent, unread, joined, broadcasts>>

StoreDisabled == enabled' = FALSE /\ UNCHANGED <<items, streamVars, fate>>

(* Mutant of Disable: the queue is cleared first.                          *)
ClearFirst(first) == IF first THEN Clear ELSE StoreDisabled

(* The two steps of SetEnabled(false).                                     *)
Disable(first) == IF first THEN StoreDisabled ELSE Clear

SetDisabled ==
  /\ Switch
  /\ Disable(TRUE)
  /\ switching' = TRUE
  /\ UNCHANGED <<home, clock, managerVars, polling, senderVars>>

ClearDisabled ==
  /\ switching
  /\ Disable(FALSE)
  /\ switching' = FALSE
  /\ UNCHANGED <<home, clock, managerVars, switches, polling, senderVars>>

-----------------------------------------------------------------------------
(* Subscribers: the channel starts with a message of its own.              *)

Subscribe(u) ==
  /\ ~home /\ u \notin subscribers \union closing \union ended
  /\ subscribers' = subscribers \union {u}
  /\ sent' = [sent EXCEPT ![u] = <<SupportRefresh>>]
  /\ unread' = [unread EXCEPT ![u] = 1]
  /\ joined' = [joined EXCEPT ![u] = Len(broadcasts)]
  /\ UNCHANGED <<home, clock, managerVars, queueVars, senderVars, closing,
                 ended, broadcasts, fate>>

Receive(u) ==
  /\ unread[u] > 0
  /\ unread' = [unread EXCEPT ![u] = @ - 1]
  /\ UNCHANGED <<home, clock, managerVars, queueVars, senderVars, subscribers,
                 closing, ended, sent, joined, broadcasts, fate>>

(* unsubscribe, which its connection calls when it ends for any reason.    *)
Unsubscribe(u) ==
  /\ u \in subscribers
  /\ subscribers' = subscribers \ {u}
  /\ closing' = closing \union {u}
  /\ UNCHANGED <<home, clock, managerVars, queueVars, senderVars, ended, sent,
                 unread, joined, broadcasts, fate>>

(* ... close(subscriber) follows without the lock, in clear as well.       *)
CloseChannel(u) ==
  /\ u \in closing
  /\ closing' = closing \ {u}
  /\ ended' = ended \union {u}
  /\ UNCHANGED <<home, clock, managerVars, queueVars, senderVars, subscribers,
                 sent, unread, joined, broadcasts, fate>>

NotifyUsageRefresh ==
  /\ ~home /\ subscribers # {}
  /\ Cardinality({i \in 1 .. Len(broadcasts) : broadcasts[i] = Refresh})
       < MaxRefreshes
  /\ Broadcast(Refresh)
  /\ UNCHANGED <<home, clock, managerVars, queueVars, senderVars, fate>>

Tick ==
  /\ clock < MaxTime
  /\ clock' = clock + 1
  /\ UNCHANGED <<home, managerVars, queueVars, senderVars, streamVars, fate>>

-----------------------------------------------------------------------------
Enqueue(s) == CheckEnabled(s) \/ PublishToSubscribers(s) \/ AppendItem(s)

WorkerStep == Sleep \/ TakeRecord \/ Enqueue(Worker) \/ EndWorker

ForwarderStep(f) == PopBatch(f) \/ Push(f) \/ PushFails(f) \/ Enqueue(f)

SubscriberStep(u) ==
  Subscribe(u) \/ Receive(u) \/ Unsubscribe(u) \/ CloseChannel(u)

Next ==
  \/ Publish \/ Stop \/ Signal
  \/ WorkerStep
  \/ \E f \in Forwarders : ForwarderStep(f)
  \/ \E p \in Pollers : StartPoll(p) \/ Poll(p)
  \/ SetEnabled \/ SetDisabled \/ ClearDisabled
  \/ \E u \in Subscribers : SubscriberStep(u)
  \/ NotifyUsageRefresh
  \/ Tick

Spec == Init /\ [][Next]_vars

(* Every step of the worker takes a lock for a short time or none at all,  *)
(* and whoever released Manager.mu goes on to signal.                      *)
FairSpec == Spec /\ WF_vars(WorkerStep) /\ WF_vars(Signal)

-----------------------------------------------------------------------------
(* Properties                                                              *)

(* A record that was accepted is in exactly one place - queued, in a hand, *)
(* kept, or at its end - whichever pushes fail in the middle of a batch,   *)
(* so it is never lost or kept twice; and without Home those that are kept *)
(* stay in the order of their publication, behind all that were polled.    *)
At(r, sequence) == {i \in 1 .. Len(sequence) : sequence[i] = r}

Kept == [i \in 1 .. Len(items) |-> items[i].record]
Line == Kept \o hand[Worker] \o queue

InHands(r) == UNION {{<<"hand", s, i>> : i \in At(r, hand[s])} : s \in Senders}
AtEnd(r)   == {<<"end", what>> : what \in {fate[r]} \ {"none"}}

Places(r) ==
  {<<"queue", i>> : i \in At(r, queue)}
    \union {<<"kept", i>> : i \in At(r, Kept)} \union InHands(r) \union AtEnd(r)

RecordsAccounted ==
  /\ \A r \in 1 .. published : Cardinality(Places(r)) = 1
  /\ ~home =>
       /\ \A i, j \in 1 .. Len(Line) : i < j => Line[i] < Line[j]
       /\ \A r \in Records, i \in 1 .. Len(Line) :
            fate[r] = "polled" => r < Line[i]

(* Once SetEnabled(false) has returned the queue holds at most the record  *)
(* that was on its way then, which a later SetEnabled(true) may show: the  *)
(* flag is stored before the queue is cleared (queue.go:43-49, 65-76).     *)
ClearLeavesLittle ==
  ~enabled /\ ~switching =>
    Len(items) + Cardinality({s \in Senders : at[s] \in {"publishing", "appending"}})
      <= 1

(* A subscriber is sent everything that is broadcast from its subscription *)
(* on, without a gap, until it unsubscribes, overflows or is cleared away; *)
(* its channel is closed once, and nothing is sent to it from then on.     *)
StreamsSound ==
  /\ closing \intersect ended = {}
  /\ subscribers \intersect (closing \union ended) = {}
  /\ \A u \in subscribers \union closing \union ended :
       Tail(sent[u]) = SubSeq(broadcasts, joined[u] + 1,
                              joined[u] + Len(sent[u]) - 1)
  /\ \A u \in subscribers : joined[u] + Len(sent[u]) - 1 = Len(broadcasts)

(* The worker handles every record that was accepted, those of a stopped   *)
(* manager too, and ends when that is done: it does not sleep through the  *)
(* signals of Publish and Stop, which come after their changes.            *)
RecordsHandled ==
  /\ \A r \in Records :
       published >= r ~> At(r, hand[Worker] \o queue) = {}
  /\ closed ~> at[Worker] = "done"
=============================================================================
