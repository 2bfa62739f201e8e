--------------------------- MODULE WsRelayProofs ---------------------------
(***************************************************************************)
(* Proofs about WsRelay: the index of sessions is exact and no request     *)
(* outlives its session unnoticed, for every number of connections,        *)
(* providers and requests and for every capacity of the channels.          *)
(***************************************************************************)
EXTENDS WsRelay, TLAPS

-----------------------------------------------------------------------------
(* Only a session that serves is read from.                                *)
ReaderInv ==
  /\ handler \in [Sessions -> Handlers]
  /\ reader \in [Sessions -> Readers]
  /\ \A s \in Sessions : reader[s] # "none" => handler[s] = "serving"

(* Only the handler starts the read loop.                                  *)
LEMMA ReadersServe == Spec => []ReaderInv
<1> USE DEF ReaderInv, Handlers, Readers
<1>1. Init => ReaderInv
  BY DEF Init
<1>2. ReaderInv /\ [Next]_vars => ReaderInv'
  <2> SUFFICES ASSUME ReaderInv, [Next]_vars
               PROVE  ReaderInv'
    OBVIOUS
  <2>1. ASSUME UNCHANGED <<handler, reader>>
        PROVE  ReaderInv'
    BY <2>1
  <2>2. ASSUME NEW s \in Sessions, NEW p \in Providers, Register(s, p)
        PROVE  ReaderInv'
    BY <2>2 DEF Register, readerVars
  <2>3. ASSUME NEW s \in Sessions, Serve(s)
        PROVE  ReaderInv'
    BY <2>3 DEF Serve
  <2>4. ASSUME NEW s \in Sessions, ReadFails(s)
        PROVE  ReaderInv'
    BY <2>4 DEF ReadFails, registryVars
  <2>5. ASSUME NEW s \in Sessions, NEW r \in Requests, NEW kind \in Kinds,
               Receive(s, r, kind)
        PROVE  ReaderInv'
    BY <2>5 DEF Receive, registryVars, readerVars
  <2>6. ASSUME NEW s \in Sessions, HandOver(s) \/ SettleTerminal(s)
        PROVE  ReaderInv'
    BY <2>6 DEF HandOver, SettleTerminal, registryVars
  <2>7. QED
    BY <2>1, <2>2, <2>3, <2>4, <2>5, <2>6
       DEF Next, vars, registryVars, readerVars, HandlerStep, CleanupStep,
           RangeNext, RangeVisit, ResetPending, HandleSessionClosed,
           CleanUpReplaced, Stop, CleanUpStopped, HeartbeatFails, Send,
           RequestStep, Store, Load, LoadFails, CheckClosed, Write, SendFails,
           ConsumerStep, Take, ChannelEnds, GiveUp, Cancel, WatcherCancels,
           WatcherEnds
<1>3. QED
  BY <1>1, <1>2, PTL DEF Spec

-----------------------------------------------------------------------------
(* The index of sessions                                                   *)

IndexTypes ==
  /\ sessions \in [Providers -> Sessions \union {NoSession}]
  /\ provider \in [Sessions -> Providers \union {NoProvider}]
  /\ handler \in [Sessions -> Handlers]
  /\ replaced \in [Sessions -> Sessions \union {NoSession}]
  /\ stopping \in SUBSET Sessions
  /\ cleanup \in [Sessions -> Cleanups]

(* A session is in the index, on Stop's list or displaced only after it    *)
(* registered, and in the index under its own provider only.               *)
Registered ==
  /\ \A p \in Providers :
       sessions[p] \in Sessions =>
         handler[sessions[p]] # "none" /\ provider[sessions[p]] = p
  /\ \A s \in Sessions :
       /\ s \in stopping => handler[s] # "none"
       /\ replaced[s] \in Sessions => handler[replaced[s]] # "none"
       /\ handler[s] = "none" => cleanup[s] = "open"
       /\ handler[s] # "none" => provider[s] \in Providers

(* SessionIndex, with the sessions that registered and do not serve yet.   *)
IndexInv ==
  \A s \in Sessions :
    /\ handler[s] # "none" /\ cleanup[s] = "open" =>
         \/ sessions[provider[s]] = s
         \/ s \in stopping
         \/ \E t \in Sessions : handler[t] = "registered" /\ replaced[t] = s
    /\ cleanup[s] = "done" => \A p \in Providers : sessions[p] # s

indexVars == <<registryVars, cleanup>>

RegistrySteps ==
  \/ Stop
  \/ \E s \in Sessions :
       \/ \E p \in Providers : Register(s, p)
       \/ HandlerStep(s) \/ CleanUpStopped(s)
       \/ ResetPending(s) \/ HandleSessionClosed(s)
       \/ HeartbeatFails(s) \/ ReadFails(s)

(* Every other step leaves the index alone.                                *)
LEMMA IndexFrame ==
  ASSUME [Next]_vars
  PROVE  RegistrySteps \/ UNCHANGED indexVars
BY DEF Next, vars, indexVars, cleanupVars, RegistrySteps, CleanupStep,
       RangeNext, RangeVisit, Receive, HandOver, SettleTerminal, Send,
       RequestStep, Store, Load, LoadFails, CheckClosed, Write, SendFails, ConsumerStep,
       Take, ChannelEnds, GiveUp, Cancel, WatcherCancels, WatcherEnds

(* Of two connections one registered first.                                *)
LEMMA SessionFacts ==
  /\ NoSession \notin Sessions
  /\ \A s, t \in Sessions : s = t \/ s \in 1 .. t - 1 \/ t \in 1 .. s - 1
BY BoundAssumption DEF Sessions, NoSession

(* Every step on the index keeps it exact.                                 *)
LEMMA IndexStep ==
  ASSUME IndexTypes, Registered, IndexInv, ReaderInv, RegistrySteps
  PROVE  IndexTypes' /\ Registered' /\ IndexInv'
<1> USE SessionFacts, NullAssumption
    DEF IndexTypes, Registered, IndexInv, Handlers, Cleanups, registryVars
<1>1. CASE Stop
  BY <1>1 DEF Stop, cleanupVars
<1>2. ASSUME NEW s \in Sessions, NEW p \in Providers, Register(s, p)
      PROVE  IndexTypes' /\ Registered' /\ IndexInv'
  <2>1. IndexTypes'
    BY <1>2 DEF Register, cleanupVars
  <2>2. Registered'
    BY <1>2 DEF Register, cleanupVars
  <2>3. IndexInv'
    BY <1>2, <2>1 DEF Register, cleanupVars
  <2>4. QED
    BY <2>1, <2>2, <2>3
<1>3. ASSUME NEW s \in Sessions, CleanUpReplaced(s)
      PROVE  IndexTypes' /\ Registered' /\ IndexInv'
  BY <1>3 DEF CleanUpReplaced, StartCleanup
<1>4. ASSUME NEW s \in Sessions, Serve(s)
      PROVE  IndexTypes' /\ Registered' /\ IndexInv'
  <2>1. IndexTypes' /\ Registered'
    BY <1>4 DEF Serve, cleanupVars
  <2>2. IndexInv'
    BY <1>4, <2>1 DEF Serve, cleanupVars
  <2>3. QED
    BY <2>1, <2>2
<1>5. ASSUME NEW s \in Sessions, CleanUpStopped(s)
      PROVE  IndexTypes' /\ Registered' /\ IndexInv'
  BY <1>5 DEF CleanUpStopped, StartCleanup
<1>6. ASSUME NEW s \in Sessions, ResetPending(s)
      PROVE  IndexTypes' /\ Registered' /\ IndexInv'
  BY <1>6 DEF ResetPending
<1>7. ASSUME NEW s \in Sessions, HandleSessionClosed(s)
      PROVE  IndexTypes' /\ Registered' /\ IndexInv'
  <2>1. /\ handler[s] # "none" /\ provider[s] \in Providers
        /\ \A p \in Providers : sessions[p] = s => p = provider[s]
    BY <1>7 DEF HandleSessionClosed
  <2>2. IndexTypes' /\ Registered'
    BY <1>7, <2>1 DEF HandleSessionClosed
  <2>3. \A t \in Sessions : cleanup'[t] = IF t = s THEN "done" ELSE cleanup[t]
    BY <1>7 DEF HandleSessionClosed
  <2>4. \A p \in Providers :
          sessions'[p] = IF p = provider[s] /\ sessions[p] = s
                           THEN NoSession ELSE sessions[p]
    BY <1>7, <2>1 DEF HandleSessionClosed
  <2>5. \A t \in Sessions, p \in Providers :
          /\ sessions'[p] = t => sessions[p] = t /\ t # s
          /\ sessions[p] = t /\ t # s => sessions'[p] = t
    BY <2>1, <2>4
  <2>6. IndexInv'
    BY <1>7, <2>1, <2>3, <2>5 DEF HandleSessionClosed
  <2>7. QED
    BY <2>2, <2>6
<1>8. ASSUME NEW s \in Sessions, HeartbeatFails(s) \/ ReadFails(s)
      PROVE  IndexTypes' /\ Registered' /\ IndexInv'
  <2>1. ASSUME StartCleanup(s, "failed"), handler[s] # "none",
               UNCHANGED registryVars
        PROVE  IndexTypes' /\ Registered' /\ IndexInv'
    BY <2>1 DEF StartCleanup
  <2>2. CASE HeartbeatFails(s)
    BY <2>1, <2>2 DEF HeartbeatFails
  <2>3. CASE ReadFails(s)
    <3>1. handler[s] # "none"
      BY <2>3 DEF ReadFails, ReaderInv
    <3>2. UNCHANGED registryVars
      BY <2>3 DEF ReadFails
    <3>3. CASE UNCHANGED cleanup
      BY <3>2, <3>3
    <3>4. QED
      BY <2>1, <2>3, <3>1, <3>2, <3>3 DEF ReadFails
  <2>4. QED
    BY <1>8, <2>2, <2>3
<1>9. QED
  BY <1>1, <1>2, <1>3, <1>4, <1>5, <1>6, <1>7, <1>8
     DEF RegistrySteps, HandlerStep

(* The invariant of the index: SessionIndex itself is not inductive.       *)
LEMMA IndexCorrect == Spec => [](IndexTypes /\ Registered /\ IndexInv)
<1>1. Init => IndexTypes /\ Registered /\ IndexInv
  BY SessionFacts DEF Init, IndexTypes, Registered, IndexInv, Handlers, Cleanups
<1>2. IndexTypes /\ Registered /\ IndexInv /\ ReaderInv /\ [Next]_vars
        => (IndexTypes /\ Registered /\ IndexInv)'
  <2>1. IndexTypes /\ Registered /\ IndexInv /\ UNCHANGED indexVars
          => (IndexTypes /\ Registered /\ IndexInv)'
    BY DEF IndexTypes, Registered, IndexInv, indexVars, registryVars
  <2>2. QED
    BY <2>1, IndexFrame, IndexStep
<1>3. QED
  BY <1>1, <1>2, ReadersServe, PTL DEF Spec

(* Manager.sessions is exact: handleWebsocket, handleSessionClosed and Stop*)
(* neither lose a session that serves nor keep one that ended.             *)
THEOREM SessionsExact == Spec => []SessionIndex
<1>1. IndexTypes /\ IndexInv => SessionIndex
  BY DEF IndexTypes, IndexInv, SessionIndex, Handlers
<1>2. QED
  BY <1>1, IndexCorrect, PTL

-----------------------------------------------------------------------------
(* Requests of a session that ends                                         *)

Sent == {"writing", "reading"}

RequestTypes ==
  /\ cleanup \in [Sessions -> Cleanups]
  /\ due \in [Sessions -> SUBSET Requests]
  /\ visiting \in [Sessions -> Requests \union {NoRequest}]
  /\ pending \in [Sessions -> SUBSET Requests]
  /\ request \in [Requests -> Phases]
  /\ at \in [Requests -> Sessions \union {NoSession}]
  /\ \A r \in Requests : request[r] # "idle" => at[r] \in Sessions
  /\ closed \in [Requests -> BOOLEAN]
  /\ watcher \in [Requests -> {"none", "waiting", "gone"}]

(* While the session is open a request past LoadOrStore is in the map or   *)
(* was ended.  Once cleanup ranges over the map, the requests whose check  *)
(* of session.closed came before are ended, on the list, or being visited; *)
(* after it they are ended.                                                *)
EndingInv ==
  /\ \A r \in Requests :
       LET s == at[r] IN
       /\ request[r] \in Sent \union {"stored", "loaded"} /\ cleanup[s] = "open"
            => r \in pending[s] \/ closed[r]
       /\ request[r] \in Sent /\ cleanup[s] = "ranging"
            => closed[r] \/ r \in due[s] \intersect pending[s] \/ visiting[s] = r
       /\ request[r] \in Sent /\ cleanup[s] \in {"unregistering", "done"}
            => closed[r]
       /\ watcher[r] # "none" => request[r] # "idle"
  /\ \A s \in Sessions :
       \A r \in pending[s] :
         /\ at[r] = s /\ request[r] \notin {"idle", "found"}
         /\ cleanup[s] \in {"unregistering", "done"}
              => request[r] \in {"stored", "loaded"}

RequestInv == RequestTypes /\ EndingInv

endingVars == <<cleanup, due, visiting, pending, request, at, closed, watcher>>

(* Taking a request out of the map ends it.                                *)
LEMMA CloseEnding ==
  ASSUME RequestInv, NEW s \in Sessions, NEW x, CloseIfPending(s, x),
         UNCHANGED <<cleanup, due, visiting, request, at>>
  PROVE  /\ \A r \in Requests :
              LET t == at[r] IN
              /\ request[r] \in Sent \union {"stored", "loaded"}
                   /\ cleanup[t] = "open"
                   => r \in pending'[t] \/ closed'[r]
              /\ request[r] \in Sent /\ cleanup[t] = "ranging"
                   => \/ closed'[r] \/ visiting[t] = r
                      \/ r \in due[t] \intersect pending'[t]
              /\ request[r] \in Sent /\ cleanup[t] \in {"unregistering", "done"}
                   => closed'[r]
         /\ \A t \in Sessions : pending'[t] \subseteq pending[t]
<1>1. \A r \in Requests :
        /\ closed[r] => closed'[r]
        /\ r = x /\ r \in pending[s] => closed'[r]
  BY DEF RequestInv, RequestTypes, CloseIfPending
<1>2. \A t \in Sessions :
        pending'[t] = IF t = s THEN pending[s] \ {x} ELSE pending[t]
  BY DEF RequestInv, RequestTypes, CloseIfPending
<1>3. \A r \in Requests : at[r] \in Sessions /\ r \in pending[at[r]]
        => r \in pending'[at[r]] \/ closed'[r]
  BY <1>1, <1>2
<1>4. \A r \in Requests :
        request[r] \in Sent \union {"stored", "loaded"} => at[r] \in Sessions
  BY DEF RequestInv, RequestTypes, Sent
<1>5. \A r \in Requests :
        LET t == at[r] IN
        /\ request[r] \in Sent \union {"stored", "loaded"} /\ cleanup[t] = "open"
             => r \in pending[t] \/ closed[r]
        /\ request[r] \in Sent /\ cleanup[t] = "ranging"
             => closed[r] \/ r \in due[t] \intersect pending[t] \/ visiting[t] = r
        /\ request[r] \in Sent /\ cleanup[t] \in {"unregistering", "done"}
             => closed[r]
  BY DEF RequestInv, EndingInv
<1>6. QED
  BY <1>1, <1>2, <1>3, <1>4, <1>5

(* The steps of the session: only a cleanup ends requests wholesale.       *)
LEMMA SessionEnding ==
  ASSUME RequestInv, NEW s \in Sessions,
         \/ CleanupStep(s) \/ SettleTerminal(s)
         \/ CleanUpReplaced(s) /\ replaced[s] \in Sessions
         \/ CleanUpStopped(s) \/ HeartbeatFails(s) \/ ReadFails(s)
  PROVE  EndingInv'
<1> USE NullAssumption
    DEF RequestInv, RequestTypes, EndingInv, Sent, Cleanups, requestVars
<1>1. ASSUME NEW t \in Sessions, NEW why, StartCleanup(t, why),
             UNCHANGED <<visiting, pending, closed, request, at, watcher>>
      PROVE  EndingInv'
  BY <1>1 DEF StartCleanup
<1>2. ASSUME UNCHANGED endingVars
      PROVE  EndingInv'
  BY <1>2 DEF endingVars
<1>3. ASSUME NEW r \in Requests, RangeNext(s, r)
      PROVE  EndingInv'
  BY <1>3 DEF RangeNext, channelVars
<1>4. CASE RangeVisit(s)
  BY <1>4 DEF RangeVisit
<1>5. CASE ResetPending(s)
  BY <1>5 DEF ResetPending, channelVars
<1>6. CASE HandleSessionClosed(s)
  BY <1>6 DEF HandleSessionClosed, channelVars
<1>7. CASE SettleTerminal(s)
  BY <1>7, CloseEnding DEF SettleTerminal, cleanupVars
<1>8. CASE CleanUpReplaced(s) /\ replaced[s] \in Sessions
  BY <1>1, <1>8 DEF CleanUpReplaced, channelVars
<1>9. CASE CleanUpStopped(s)
  BY <1>1, <1>2, <1>9 DEF CleanUpStopped, channelVars, endingVars
<1>10. CASE HeartbeatFails(s)
  BY <1>1, <1>10 DEF HeartbeatFails, channelVars
<1>11. CASE ReadFails(s)
  BY <1>1, <1>2, <1>11 DEF ReadFails, channelVars, endingVars
<1>12. QED
  BY <1>3, <1>4, <1>5, <1>6, <1>7, <1>8, <1>9, <1>10, <1>11 DEF CleanupStep

(* The steps of a request: the entry is stored before the check of         *)
(* session.closed, so a cleanup either finds it or is found by it.         *)
LEMMA RequestEnding ==
  ASSUME RequestInv, NEW r \in Requests,
         \/ \E p \in Providers : Send(r, p)
         \/ RequestStep(r) \/ ConsumerStep(r)
         \/ Cancel(r) \/ WatcherCancels(r) \/ WatcherEnds(r)
  PROVE  EndingInv'
<1> USE DEF RequestInv, RequestTypes, EndingInv, Sent, Cleanups, cleanupVars,
            channelVars
<1>1. ASSUME NEW p \in Providers, Send(r, p)
      PROVE  EndingInv'
  BY <1>1 DEF Send
<1>2. CASE Store(r)
  BY <1>2 DEF Store
<1>3. CASE Load(r) \/ LoadFails(r)
  BY <1>3 DEF Load, LoadFails
<1>4. CASE CheckClosed(r)
  BY <1>4 DEF CheckClosed
<1>5. CASE Write(r)
  BY <1>5 DEF Write
<1>6. CASE SendFails(r)
  BY <1>6 DEF SendFails, CloseIfPending
<1>7. CASE Take(r)
  BY <1>7 DEF Take
<1>8. CASE ChannelEnds(r)
  BY <1>8 DEF ChannelEnds
<1>9. CASE GiveUp(r)
  BY <1>9 DEF GiveUp
<1>10. CASE Cancel(r)
  BY <1>10 DEF Cancel
<1>11. CASE WatcherCancels(r)
  <2>1. at[r] \in Sessions /\ CloseIfPending(at[r], r)
    BY <1>11 DEF WatcherCancels
  <2>2. UNCHANGED <<cleanup, due, visiting, request, at>>
    BY <1>11 DEF WatcherCancels
  <2>3. \A q \in Requests : watcher'[q] # "none" => watcher[q] # "none"
    BY <1>11 DEF WatcherCancels
  <2>4. QED
    BY <2>1, <2>2, <2>3, CloseEnding
<1>12. CASE WatcherEnds(r)
  BY <1>12 DEF WatcherEnds
<1>13. QED
  BY <1>1, <1>2, <1>3, <1>4, <1>5, <1>6, <1>7, <1>8, <1>9, <1>10, <1>11, <1>12
     DEF RequestStep, ConsumerStep

(* CloseIfPending keeps the types, for whatever request it is called with. *)
LEMMA CloseTypes ==
  ASSUME RequestTypes, NEW s, NEW x, CloseIfPending(s, x)
  PROVE  /\ pending' \in [Sessions -> SUBSET Requests]
         /\ closed' \in [Requests -> BOOLEAN]
<1>1. pending \in [Sessions -> SUBSET Requests] /\ closed \in [Requests -> BOOLEAN]
  BY DEF RequestTypes
<1>2. (closed[x] \/ x \in pending[s]) \in BOOLEAN
  OBVIOUS
<1>3. QED
  BY <1>1, <1>2 DEF CloseIfPending

(* What these steps assign has the type the invariant needs.               *)
LEMMA RequestTypesStep ==
  ASSUME IndexTypes, RequestInv, [Next]_vars
  PROVE  RequestTypes'
<1> USE DEF IndexTypes, RequestInv, RequestTypes, Cleanups, Phases
<1>1. ASSUME UNCHANGED endingVars
      PROVE  RequestTypes'
  BY <1>1 DEF endingVars
<1>2. ASSUME NEW t \in Sessions, NEW why, StartCleanup(t, why),
             UNCHANGED <<visiting, pending, closed, request, at, watcher>>
      PROVE  RequestTypes'
  BY <1>2 DEF StartCleanup
<1>3. ASSUME NEW s \in Sessions, CleanupStep(s)
      PROVE  RequestTypes'
  <2> USE DEF requestVars, channelVars
  <2>1. ASSUME NEW r \in Requests, RangeNext(s, r)
        PROVE  RequestTypes'
    BY <2>1 DEF RangeNext
  <2>2. CASE RangeVisit(s)
    BY <2>2 DEF RangeVisit
  <2>3. CASE ResetPending(s) \/ HandleSessionClosed(s)
    BY <2>3 DEF ResetPending, HandleSessionClosed
  <2>4. QED
    BY <1>3, <2>1, <2>2, <2>3 DEF CleanupStep
<1>4. ASSUME NEW s \in Sessions,
             \/ CleanUpReplaced(s) \/ CleanUpStopped(s)
             \/ HeartbeatFails(s) \/ ReadFails(s)
      PROVE  RequestTypes'
  <2>1. CASE CleanUpReplaced(s)
    BY <1>2, <2>1 DEF CleanUpReplaced, requestVars, channelVars
  <2>2. CASE CleanUpStopped(s)
    BY <1>1, <1>2, <2>2 DEF CleanUpStopped, endingVars, requestVars, channelVars
  <2>3. CASE HeartbeatFails(s)
    BY <1>2, <2>3 DEF HeartbeatFails, requestVars, channelVars
  <2>4. CASE ReadFails(s)
    BY <1>1, <1>2, <2>4 DEF ReadFails, endingVars, requestVars, channelVars
  <2>5. QED
    BY <1>4, <2>1, <2>2, <2>3, <2>4
<1>5. ASSUME NEW s \in Sessions, SettleTerminal(s)
      PROVE  RequestTypes'
  BY <1>5, CloseTypes DEF SettleTerminal, cleanupVars, requestVars
<1>6. ASSUME NEW r \in Requests,
             \/ \E p \in Providers : Send(r, p)
             \/ RequestStep(r) \/ ConsumerStep(r)
             \/ Cancel(r) \/ WatcherCancels(r) \/ WatcherEnds(r)
      PROVE  RequestTypes'
  <2> USE DEF cleanupVars, channelVars
  <2>1. ASSUME NEW p \in Providers, Send(r, p)
        PROVE  RequestTypes'
    BY <2>1 DEF Send
  <2>2. CASE Store(r)
    BY <2>2 DEF Store
  <2>3. CASE SendFails(r) \/ WatcherCancels(r)
    <3>1. CloseIfPending(at[r], r)
      BY <2>3 DEF SendFails, WatcherCancels
    <3>2. QED
      BY <2>3, <3>1, CloseTypes DEF SendFails, WatcherCancels
  <2>4. CASE Load(r) \/ LoadFails(r) \/ CheckClosed(r) \/ Write(r)
    BY <2>4 DEF Load, LoadFails, CheckClosed, Write
  <2>5. CASE ConsumerStep(r)
    BY <2>5 DEF ConsumerStep, Take, ChannelEnds, GiveUp
  <2>6. CASE Cancel(r) \/ WatcherEnds(r)
    BY <2>6 DEF Cancel, WatcherEnds
  <2>7. QED
    BY <1>6, <2>1, <2>2, <2>3, <2>4, <2>5, <2>6 DEF RequestStep
<1>7. QED
  BY <1>1, <1>3, <1>4, <1>5, <1>6
     DEF Next, vars, endingVars, cleanupVars, channelVars, requestVars,
         HandlerStep, Stop, Register, Serve, Receive, HandOver

(* The invariant of the requests of a session that ends.                   *)
LEMMA RequestsCorrect == Spec => []RequestInv
<1>1. Init => RequestInv
  BY DEF Init, RequestInv, RequestTypes, EndingInv, Sent, Cleanups, Phases
<1>2. IndexTypes /\ RequestInv /\ [Next]_vars => RequestInv'
  <2> SUFFICES ASSUME IndexTypes, RequestInv, [Next]_vars
               PROVE  EndingInv'
    BY RequestTypesStep DEF RequestInv
  <2>1. ASSUME UNCHANGED endingVars
        PROVE  EndingInv'
    BY <2>1 DEF endingVars, RequestInv, EndingInv
  <2>2. ASSUME NEW s \in Sessions, CleanUpReplaced(s)
        PROVE  EndingInv'
    BY <2>2, SessionEnding DEF CleanUpReplaced, IndexTypes
  <2>3. QED
    BY <2>1, <2>2, SessionEnding, RequestEnding
       DEF Next, vars, endingVars, cleanupVars, channelVars, requestVars,
           HandlerStep, Stop, Register, Serve, Receive, HandOver
<1>3. QED
  BY <1>1, <1>2, IndexCorrect, PTL DEF Spec

(* No consumer is left on an open channel by a session that ended: request *)
(* stores its entry before it looks whether the session is closed, cleanup *)
(* closes the session before it ranges over the entries.                   *)
THEOREM RequestsEndWithSession == Spec => []NoStrandedRequest
<1>1. RequestInv => NoStrandedRequest
  BY DEF RequestInv, EndingInv, NoStrandedRequest, Sent
<1>2. QED
  BY <1>1, RequestsCorrect, PTL

=============================================================================
