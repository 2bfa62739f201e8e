------------------------------ MODULE WsRelay ------------------------------
(***************************************************************************)
(* The relay of internal/wsrelay: a client connects by websocket under the *)
(* name of a provider (Manager.handleWebsocket), requests are sent to it   *)
(* and matched with its answers by id (session.request, session.dispatch), *)
(* and Manager.NonStream and Manager.Stream read the answers from a        *)
(* buffered channel.  A session ends once, in session.cleanup, whichever   *)
(* of the read loop, the heartbeat, a new connection of the same provider  *)
(* or Manager.Stop comes first.                                            *)
(*                                                                         *)
(* A step is one operation on shared state: on Manager.sessions under its  *)
(* mutex, on the session's sync.Map, on a channel.  The network is at the  *)
(* mercy of the client: it may answer, stay silent or go away at any time. *)
(* The overwriting of the sync.Map in cleanup, a data race, takes effect   *)
(* at once here.  The first heartbeat comes 30 seconds after the upgrade,  *)
(* and the handler is taken to have registered the session by then.        *)
(***************************************************************************)
EXTENDS Naturals, Sequences

CONSTANTS
  MaxSessions, \* bound on the connections of the model's history
  Providers,   \* names clients connect under
  Requests,    \* message ids
  NoProvider, NoRequest,
  Buffer,      \* capacity of a request's channel; 8 in the code
  MaxChunks    \* bound on the chunks of one answer

ASSUME NullAssumption ==
  /\ NoProvider \notin Providers
  /\ NoRequest \notin Requests
ASSUME BoundAssumption ==
  Buffer \in Nat \ {0} /\ MaxChunks \in Nat /\ MaxSessions \in Nat

(* Connections are numbered in the order of their registration.            *)
Sessions  == 1 .. MaxSessions
NoSession == 0

VARIABLES
  sessions,   \* Manager.sessions
  provider,   \* session.provider
  handler,    \* where handleWebsocket is
  replaced,   \* the session it displaced
  stopping,   \* sessions a Stop took out and has yet to clean up
  reader,     \* where session.run is
  held,       \* the message and the request dispatch has looked up
  cause,      \* the cause its cleanup was called with
  cleanup,    \* where session.cleanup is; the rest of the code sees whether
              \* it is "open", that is whether session.closed is still open
  due,        \* requests its Range has yet to visit
  visiting,   \* the one it has looked up
  pending,    \* session.pending
  request,    \* where session.request, then the consumer, is
  at,         \* the session Send found
  channel,    \* pendingRequest.ch
  closed,     \* whether that channel is closed
  cancelled,  \* whether the request's context is done
  watcher,    \* the goroutine that waits for the context
  answer,     \* what the client has done about the request
  sent, got   \* chunks the client sent, the consumer received

registryVars == <<sessions, provider, handler, replaced, stopping>>
readerVars   == <<reader, held>>
cleanupVars  == <<cleanup, cause, due, visiting>>
channelVars  == <<channel, closed>>
requestVars  == <<request, at, cancelled, watcher>>
answerVars   == <<answer, sent>>
vars == <<registryVars, readerVars, cleanupVars, pending, channelVars,
          requestVars, answerVars, got>>

Handlers == {"none", "registered", "serving"}
Readers  == {"none", "reading", "holding", "settling", "ended"}
Cleanups == {"open", "ranging", "unregistering", "done"}
Causes   == {"none", "failed", "replaced", "stopped"}
Kinds    == {"chunk", "end", "error"}
NoMessage == [request |-> NoRequest, kind |-> "none"]
Phases   == {"idle", "found", "stored", "loaded", "writing", "reading",
             "complete", "failed"}

TypeOK ==
  /\ sessions \in [Providers -> Sessions \union {NoSession}]
  /\ provider \in [Sessions -> Providers \union {NoProvider}]
  /\ handler \in [Sessions -> Handlers]
  /\ replaced \in [Sessions -> Sessions \union {NoSession}]
  /\ stopping \in SUBSET Sessions
  /\ reader \in [Sessions -> Readers]
  /\ held \in [Sessions -> [request : Requests, kind : Kinds]
                            \union {NoMessage}]
  /\ cleanup \in [Sessions -> Cleanups]
  /\ cause \in [Sessions -> Causes]
  /\ due \in [Sessions -> SUBSET Requests]
  /\ visiting \in [Sessions -> Requests \union {NoRequest}]
  /\ pending \in [Sessions -> SUBSET Requests]
  /\ request \in [Requests -> Phases]
  /\ at \in [Requests -> Sessions \union {NoSession}]
  /\ \A r \in Requests : request[r] # "idle" => at[r] \in Sessions
  /\ channel \in [Requests -> Seq(Kinds)]
  /\ \A r \in Requests : Len(channel[r]) <= Buffer
  /\ closed \in [Requests -> BOOLEAN]
  /\ cancelled \in [Requests -> BOOLEAN]
  /\ watcher \in [Requests -> {"none", "waiting", "gone"}]
  /\ answer \in [Requests -> {"none", "answering", "answered"}]
  /\ sent \in [Requests -> 0 .. MaxChunks]
  /\ got \in [Requests -> 0 .. MaxChunks]

Init ==
  /\ sessions = [p \in Providers |-> NoSession]
  /\ provider = [s \in Sessions |-> NoProvider]
  /\ handler = [s \in Sessions |-> "none"]
  /\ replaced = [s \in Sessions |-> NoSession]
  /\ stopping = {}
  /\ reader = [s \in Sessions |-> "none"]
  /\ held = [s \in Sessions |-> NoMessage]
  /\ cleanup = [s \in Sessions |-> "open"]
  /\ cause = [s \in Sessions |-> "none"]
  /\ due = [s \in Sessions |-> {}]
  /\ visiting = [s \in Sessions |-> NoRequest]
  /\ pending = [s \in Sessions |-> {}]
  /\ request = [r \in Requests |-> "idle"]
  /\ at = [r \in Requests |-> NoSession]
  /\ channel = [r \in Requests |-> << >>]
  /\ closed = [r \in Requests |-> FALSE]
  /\ cancelled = [r \in Requests |-> FALSE]
  /\ watcher = [r \in Requests |-> "none"]
  /\ answer = [r \in Requests |-> "none"]
  /\ sent = [r \in Requests |-> 0]
  /\ got = [r \in Requests |-> 0]

-----------------------------------------------------------------------------
(* Channels and the pending map                                            *)

(* A send that does not wait: dropped when the buffer is full.  On a closed*)
(* channel it panics, which ends the process: see Panics.                  *)
Offer(r, kind) ==
  /\ ~closed[r]
  /\ channel' = IF Len(channel[r]) < Buffer
                  THEN [channel EXCEPT ![r] = Append(@, kind)]
                  ELSE channel

(* pending.LoadAndDelete followed by close.                                *)
CloseIfPending(s, r) ==
  /\ pending' = [pending EXCEPT ![s] = @ \ {r}]
  /\ closed' = [closed EXCEPT ![r] = @ \/ r \in pending[s]]

-----------------------------------------------------------------------------
(* session.cleanup                                                         *)

(* closeOnce lets the first caller in and close(s.closed) ends the         *)
(* requests that look; later callers wait for it to be done.               *)
StartCleanup(s, why) ==
  /\ cleanup[s] = "open"
  /\ cleanup' = [cleanup EXCEPT ![s] = "ranging"]
  /\ cause' = [cause EXCEPT ![s] = why]
  /\ due' = [due EXCEPT ![s] = pending[s]]

RangeNext(s, r) ==
  /\ cleanup[s] = "ranging" /\ visiting[s] = NoRequest
  /\ r \in due[s] \intersect pending[s]
  /\ visiting' = [visiting EXCEPT ![s] = r]
  /\ due' = [due EXCEPT ![s] = @ \ {r}]
  /\ UNCHANGED <<registryVars, readerVars, cleanup, cause, pending,
                 channelVars, requestVars, answerVars, got>>

RangeVisit(s) ==
  /\ visiting[s] # NoRequest
  /\ Offer(visiting[s], "error")
  /\ closed' = [closed EXCEPT ![visiting[s]] = TRUE]
  /\ visiting' = [visiting EXCEPT ![s] = NoRequest]
  /\ UNCHANGED <<registryVars, readerVars, cleanup, cause, due, pending,
                 requestVars, answerVars, got>>

(* Mutant of ResetPending: the range is not run to its end.                *)
ResetPendingEarly(s) ==
  /\ cleanup[s] = "ranging" /\ visiting[s] = NoRequest
  /\ pending' = [pending EXCEPT ![s] = {}]
  /\ due' = [due EXCEPT ![s] = {}]
  /\ cleanup' = [cleanup EXCEPT ![s] = "unregistering"]
  /\ UNCHANGED <<registryVars, readerVars, cause, visiting, channelVars,
                 requestVars, answerVars, got>>

(* The map is replaced by an empty one and the connection closed.          *)
ResetPending(s) ==
  /\ cleanup[s] = "ranging" /\ visiting[s] = NoRequest
  /\ due[s] \intersect pending[s] = {}
  /\ pending' = [pending EXCEPT ![s] = {}]
  /\ due' = [due EXCEPT ![s] = {}]
  /\ cleanup' = [cleanup EXCEPT ![s] = "unregistering"]
  /\ UNCHANGED <<registryVars, readerVars, cause, visiting, channelVars,
                 requestVars, answerVars, got>>

(* Mutant of HandleSessionClosed: another session of the provider goes too.*)
HandleSessionClosedByName(s) ==
  /\ cleanup[s] = "unregistering"
  /\ sessions' = [sessions EXCEPT ![provider[s]] = NoSession]
  /\ cleanup' = [cleanup EXCEPT ![s] = "done"]
  /\ UNCHANGED <<provider, handler, replaced, stopping, readerVars, cause, due,
                 visiting, pending, channelVars, requestVars, answerVars,
                 got>>

(* Manager.handleSessionClosed.                                            *)
HandleSessionClosed(s) ==
  /\ cleanup[s] = "unregistering"
  /\ sessions' = [sessions EXCEPT ![provider[s]] =
                    IF @ = s THEN NoSession ELSE @]
  /\ cleanup' = [cleanup EXCEPT ![s] = "done"]
  /\ UNCHANGED <<provider, handler, replaced, stopping, readerVars, cause, due,
                 visiting, pending, channelVars, requestVars, answerVars,
                 got>>

-----------------------------------------------------------------------------
(* Manager.handleWebsocket and Manager.Stop                                *)

(* An upgrade that succeeded, up to the registration.  (A provider factory *)
(* that fails cleans up a session nobody knows.)                           *)
Register(s, p) ==
  /\ handler[s] = "none"
  /\ \A t \in 1 .. s - 1 : handler[t] # "none"
  /\ provider' = [provider EXCEPT ![s] = p]
  /\ replaced' = [replaced EXCEPT ![s] = sessions[p]]
  /\ sessions' = [sessions EXCEPT ![p] = s]
  /\ handler' = [handler EXCEPT ![s] = "registered"]
  /\ UNCHANGED <<stopping, readerVars, cleanupVars, pending, channelVars,
                 requestVars, answerVars, got>>

CleanUpReplaced(s) ==
  /\ handler[s] = "registered" /\ replaced[s] # NoSession
  /\ StartCleanup(replaced[s], "replaced")
  /\ UNCHANGED <<registryVars, readerVars, visiting, pending, channelVars,
                 requestVars, answerVars, got>>

Serve(s) ==
  /\ handler[s] = "registered"
  /\ replaced[s] # NoSession => cleanup[replaced[s]] = "done"
  /\ handler' = [handler EXCEPT ![s] = "serving"]
  /\ replaced' = [replaced EXCEPT ![s] = NoSession]
  /\ reader' = [reader EXCEPT ![s] = "reading"]
  /\ UNCHANGED <<sessions, provider, stopping, held, cleanupVars,
                 pending, channelVars, requestVars, answerVars, got>>

Stop ==
  /\ \E p \in Providers : sessions[p] # NoSession
  /\ stopping' = stopping \union {s \in Sessions : \E p \in Providers :
                                                     sessions[p] = s}
  /\ sessions' = [p \in Providers |-> NoSession]
  /\ UNCHANGED <<provider, handler, replaced, readerVars, cleanupVars,
                 pending, channelVars, requestVars, answerVars, got>>

(* Two Stops may run at once (a change of ws-auth and the shutdown), each  *)
(* through its own list.                                                   *)
CleanUpStopped(s) ==
  /\ s \in stopping
  /\ \/ StartCleanup(s, "stopped")
     \/ cleanup[s] # "open" /\ UNCHANGED <<cleanup, cause, due>>
  /\ stopping' = stopping \ {s}
  /\ UNCHANGED <<sessions, provider, handler, replaced, readerVars, visiting,
                 pending, channelVars, requestVars, answerVars, got>>

-----------------------------------------------------------------------------
(* session.startHeartbeat, session.run, session.dispatch                   *)

HeartbeatFails(s) ==
  /\ handler[s] # "none"
  /\ StartCleanup(s, "failed")
  /\ UNCHANGED <<registryVars, readerVars, visiting, pending, channelVars,
                 requestVars, answerVars, got>>

(* ReadJSON fails, and cleanup is called unless it was before.             *)
ReadFails(s) ==
  /\ reader[s] = "reading"
  /\ reader' = [reader EXCEPT ![s] = "ended"]
  /\ \/ StartCleanup(s, "failed")
     \/ cleanup[s] # "open" /\ UNCHANGED <<cleanup, cause, due>>
  /\ UNCHANGED <<registryVars, held, visiting, pending, channelVars,
                 requestVars, answerVars, got>>

(* The client answers, and dispatch looks the request up.  What the client *)
(* sent before the connection closed may still be read afterwards.         *)
Receive(s, r, kind) ==
  /\ reader[s] = "reading"
  /\ at[r] = s /\ answer[r] = "answering"
  /\ IF kind = "chunk"
       THEN /\ sent[r] < MaxChunks
            /\ sent' = [sent EXCEPT ![r] = @ + 1]
            /\ UNCHANGED answer
       ELSE answer' = [answer EXCEPT ![r] = "answered"] /\ UNCHANGED sent
  /\ IF r \in pending[s]
       THEN /\ held' = [held EXCEPT ![s] = [request |-> r, kind |-> kind]]
            /\ reader' = [reader EXCEPT ![s] = "holding"]
       ELSE UNCHANGED readerVars
  /\ UNCHANGED <<registryVars, cleanupVars, pending, channelVars,
                 requestVars, got>>

HandOver(s) ==
  /\ reader[s] = "holding"
  /\ Offer(held[s].request, held[s].kind)
  /\ IF held[s].kind = "chunk"
       THEN /\ reader' = [reader EXCEPT ![s] = "reading"]
            /\ held' = [held EXCEPT ![s] = NoMessage]
       ELSE reader' = [reader EXCEPT ![s] = "settling"] /\ UNCHANGED held
  /\ UNCHANGED <<registryVars, cleanupVars, pending, closed,
                 requestVars, answerVars, got>>

SettleTerminal(s) ==
  /\ reader[s] = "settling"
  /\ CloseIfPending(s, held[s].request)
  /\ reader' = [reader EXCEPT ![s] = "reading"]
  /\ held' = [held EXCEPT ![s] = NoMessage]
  /\ UNCHANGED <<registryVars, cleanupVars, channel, requestVars,
                 answerVars, got>>

-----------------------------------------------------------------------------
(* Manager.Send and session.request                                        *)

(* Send under another name, or to a provider that is not connected, changes*)
(* nothing.                                                                *)
Send(r, p) ==
  /\ request[r] = "idle"
  /\ sessions[p] # NoSession
  /\ request' = [request EXCEPT ![r] = "found"]
  /\ at' = [at EXCEPT ![r] = sessions[p]]
  /\ UNCHANGED <<registryVars, readerVars, cleanupVars, pending, channelVars,
                 cancelled, watcher, answerVars, got>>

(* LoadOrStore.  A Range under way may or may not come across the entry.   *)
Store(r) ==
  /\ request[r] = "found"
  /\ pending' = [pending EXCEPT ![at[r]] = @ \union {r}]
  /\ \/ UNCHANGED due
     \/ /\ cleanup[at[r]] = "ranging"
        /\ due' = [due EXCEPT ![at[r]] = @ \union {r}]
  /\ request' = [request EXCEPT ![r] = "stored"]
  /\ UNCHANGED <<registryVars, readerVars, cleanup, cause, visiting,
                 channelVars, at, cancelled, watcher, answerVars, got>>

(* Load, and the assertion on its value.                                   *)
Load(r) ==
  /\ request[r] = "stored"
  /\ r \in pending[at[r]]
  /\ request' = [request EXCEPT ![r] = "loaded"]
  /\ UNCHANGED <<registryVars, readerVars, cleanupVars, pending, channelVars,
                 at, cancelled, watcher, answerVars, got>>

(* Cleanup replaced the map in between: the assertion panics, in the       *)
(* goroutine of the caller, which the HTTP server recovers.                *)
LoadFails(r) ==
  /\ request[r] = "stored"
  /\ r \notin pending[at[r]]
  /\ request' = [request EXCEPT ![r] = "failed"]
  /\ UNCHANGED <<registryVars, readerVars, cleanupVars, pending, channelVars,
                 at, cancelled, watcher, answerVars, got>>

(* Mutant of CheckClosed: session.closed is not looked at.                 *)
CheckNothing(r) ==
  /\ request[r] = "loaded"
  /\ request' = [request EXCEPT ![r] = "writing"]
  /\ UNCHANGED <<registryVars, readerVars, cleanupVars, pending, channelVars,
                 at, cancelled, watcher, answerVars, got>>

(* session.send looks whether the session is closed, then waits for its    *)
(* turn to write.                                                          *)
CheckClosed(r) ==
  /\ request[r] = "loaded"
  /\ cleanup[at[r]] = "open"
  /\ request' = [request EXCEPT ![r] = "writing"]
  /\ UNCHANGED <<registryVars, readerVars, cleanupVars, pending, channelVars,
                 at, cancelled, watcher, answerVars, got>>

(* The request reached the connection while it was still open, and its     *)
(* context is watched from now on.                                         *)
Write(r) ==
  /\ request[r] = "writing"
  /\ cleanup[at[r]] \in {"open", "ranging"}
  /\ request' = [request EXCEPT ![r] = "reading"]
  /\ answer' = [answer EXCEPT ![r] = "answering"]
  /\ watcher' = [watcher EXCEPT ![r] = "waiting"]
  /\ UNCHANGED <<registryVars, readerVars, cleanupVars, pending, channelVars,
                 at, cancelled, sent, got>>

(* session.send fails: the session is closed, or the write did not succeed.*)
SendFails(r) ==
  /\ \/ request[r] = "loaded" /\ cleanup[at[r]] # "open"
     \/ request[r] = "writing"
  /\ CloseIfPending(at[r], r)
  /\ request' = [request EXCEPT ![r] = "failed"]
  /\ UNCHANGED <<registryVars, readerVars, cleanupVars, channel, at,
                 cancelled, watcher, answerVars, got>>

(* The caller goes away, or is done with the request.  Nobody looks at the *)
(* context before the watcher does.                                        *)
Cancel(r) ==
  /\ watcher[r] = "waiting" /\ ~cancelled[r]
  /\ cancelled' = [cancelled EXCEPT ![r] = TRUE]
  /\ UNCHANGED <<registryVars, readerVars, cleanupVars, pending, channelVars,
                 request, at, watcher, answerVars, got>>

WatcherCancels(r) ==
  /\ watcher[r] = "waiting" /\ cancelled[r]
  /\ CloseIfPending(at[r], r)
  /\ watcher' = [watcher EXCEPT ![r] = "gone"]
  /\ UNCHANGED <<registryVars, readerVars, cleanupVars, channel, request, at,
                 cancelled, answerVars, got>>

WatcherEnds(r) ==
  /\ watcher[r] = "waiting" /\ cleanup[at[r]] # "open"
  /\ watcher' = [watcher EXCEPT ![r] = "gone"]
  /\ UNCHANGED <<registryVars, readerVars, cleanupVars, pending, channelVars,
                 request, at, cancelled, answerVars, got>>

-----------------------------------------------------------------------------
(* Manager.NonStream and Manager.Stream                                    *)

Take(r) ==
  /\ request[r] = "reading" /\ channel[r] # << >>
  /\ channel' = [channel EXCEPT ![r] = Tail(@)]
  /\ IF Head(channel[r]) = "chunk"
       THEN got' = [got EXCEPT ![r] = @ + 1] /\ UNCHANGED request
       ELSE /\ request' = [request EXCEPT ![r] =
                             IF Head(channel[r]) = "end" THEN "complete"
                                                         ELSE "failed"]
            /\ UNCHANGED got
  /\ UNCHANGED <<registryVars, readerVars, cleanupVars, pending, closed, at,
                 cancelled, watcher, answerVars>>

(* The channel ended without a terminal message: Stream reports an error,  *)
(* NonStream takes the chunks it has, if any, for the whole answer.        *)
ChannelEnds(r) ==
  /\ request[r] = "reading" /\ channel[r] = << >> /\ closed[r]
  /\ \/ request' = [request EXCEPT ![r] = "failed"]
     \/ got[r] > 0 /\ request' = [request EXCEPT ![r] = "complete"]
  /\ UNCHANGED <<registryVars, readerVars, cleanupVars, pending, channelVars,
                 at, cancelled, watcher, answerVars, got>>

GiveUp(r) ==
  /\ request[r] = "reading" /\ cancelled[r]
  /\ request' = [request EXCEPT ![r] = "failed"]
  /\ UNCHANGED <<registryVars, readerVars, cleanupVars, pending, channelVars,
                 at, cancelled, watcher, answerVars, got>>

-----------------------------------------------------------------------------
CleanupStep(s) ==
  \/ \E r \in Requests : RangeNext(s, r)
  \/ RangeVisit(s) \/ ResetPending(s) \/ HandleSessionClosed(s)

HandlerStep(s) == CleanUpReplaced(s) \/ Serve(s)

ReaderStep(s) ==
  \/ HandOver(s) \/ SettleTerminal(s)
  \/ cleanup[s] # "open" /\ ReadFails(s)

RequestStep(r) ==
  \/ Store(r) \/ Load(r) \/ LoadFails(r)
  \/ CheckClosed(r) \/ Write(r) \/ SendFails(r)

ConsumerStep(r) == Take(r) \/ ChannelEnds(r) \/ GiveUp(r)

Next ==
  \/ Stop
  \/ \E s \in Sessions :
       \/ \E p \in Providers : Register(s, p)
       \/ HandlerStep(s) \/ CleanUpStopped(s) \/ CleanupStep(s)
       \/ HeartbeatFails(s) \/ ReadFails(s)
       \/ \E r \in Requests, kind \in Kinds : Receive(s, r, kind)
       \/ HandOver(s) \/ SettleTerminal(s)
  \/ \E r \in Requests :
       \/ \E p \in Providers : Send(r, p)
       \/ RequestStep(r) \/ ConsumerStep(r)
       \/ Cancel(r) \/ WatcherCancels(r) \/ WatcherEnds(r)

Spec == Init /\ [][Next]_vars

(* Every goroutine runs on; the client owes nothing.                       *)
FairSpec ==
  /\ Spec
  /\ \A s \in Sessions :
       /\ WF_vars(CleanupStep(s))
       /\ WF_vars(HandlerStep(s))
       /\ WF_vars(ReaderStep(s))
  /\ \A r \in Requests :
       /\ WF_vars(RequestStep(r))
       /\ WF_vars(ConsumerStep(r))
       /\ WF_vars((WatcherCancels(r) \/ WatcherEnds(r)))

-----------------------------------------------------------------------------
(* No request outlives its session unnoticed: once cleanup is past its     *)
(* range (session.go, cleanup), every consumer that still reads finds its  *)
(* channel closed, and the new map only ever holds requests that session.  *)
(* request is about to take out again.                                     *)
NoStrandedRequest ==
  \A s \in Sessions :
    cleanup[s] \in {"unregistering", "done"} =>
      \A r \in Requests :
        /\ at[r] = s /\ request[r] = "reading" => closed[r]
        /\ r \in pending[s] => request[r] \in {"stored", "loaded"}

(* Manager.sessions is exact: a session that serves can be found by its    *)
(* provider, unless a newer connection or Stop is about to clean it up; and*)
(* one that was cleaned up cannot.                                         *)
SessionIndex ==
  \A s \in Sessions :
    /\ handler[s] = "serving" /\ cleanup[s] = "open" =>
         \/ sessions[provider[s]] = s
         \/ s \in stopping
         \/ \E t \in Sessions : handler[t] = "registered" /\ replaced[t] = s
    /\ cleanup[s] = "done" => \A p \in Providers : sessions[p] # s

(* dispatch, or cleanup itself, is about to send on a closed channel, which*)
(* panics and, where nobody recovers, ends the process.                    *)
Panics(s) ==
  \/ reader[s] = "holding" /\ closed[held[s].request]
  \/ visiting[s] # NoRequest /\ closed[visiting[s]]

(* A consumer does not wait for ever for a request whose client gave its   *)
(* last answer, whose session ended or whose context is done (session.go,  *)
(* dispatch, cleanup and the goroutine of request).                        *)
Ending == {r \in Requests :
             /\ request[r] = "reading"
             /\ \/ answer[r] = "answered"
                \/ cancelled[r]
                \/ cleanup[at[r]] # "open"}

ResponsesEnd ==
  \A r \in Requests :
    r \in Ending ~> request[r] # "reading" \/ \E s \in Sessions : Panics(s)

(* Stop closes sessions gracefully (manager.go, the comment on Stop): it   *)
(* does not end in a panic.                                                *)
GracefulStop ==
  \A s \in Sessions : cause[s] = "stopped" => ~Panics(s)

(* Send's channel yields the response messages (manager.go, the comment on *)
(* Send): on a session that stays open, an answer handed to a caller that  *)
(* waits for it has every chunk the client sent.                           *)
CompleteAnswers ==
  \A r \in Requests :
    request[r] = "complete" /\ ~cancelled[r] /\ cleanup[at[r]] = "open"
      => got[r] = sent[r]

=============================================================================
