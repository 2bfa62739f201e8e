------------------------- MODULE CredentialRecovery -------------------------
(***************************************************************************)
(* The recovery loop of the auth manager (sdk/cliproxy/auth/recovery.go).  *)
(* A credential that was just imported is initialized (its token is        *)
(* refreshed, its quota read) and one that met a 429 is probed, and until  *)
(* then neither is selected.  Whoever makes a credential need it looks at  *)
(* it once more and posts a request; one goroutine collects the requests   *)
(* and starts an attempt for each; an attempt works for one generation and *)
(* gives up as soon as the credential no longer asks for that.  What a     *)
(* process finds in its files when it starts is posted by rebuild.         *)
(*                                                                         *)
(* Nothing but these requests wakes the loop: one that gets lost leaves    *)
(* its credential blocked.  "missed" is the history of those.              *)
(*                                                                         *)
(* Deadlines are left out, a request may be due at any time; tokens and    *)
(* their lock are in CredentialRefresh.  The loop's select, its drain and  *)
(* its dispatch are steps of their own, as requests come in between them.  *)
(***************************************************************************)
EXTENDS Naturals, Sequences, FiniteSets

CONSTANTS
  Ids,            \* credentials, by auth id
  Callers,        \* goroutines of requests, refreshes, the management API ...
  Attempts,       \* goroutines of attempts, as many as ever run at a time
  Buffer,         \* capacity of the channel of requests; 256 in the code
  Concurrency,    \* attempts the loop wants running at a time; 4 in the code
  MaxLogins,      \* bound on the imports of the model's history
  MaxRecoveries,  \* bound on its generations of recovery
  NoId

Agents == Callers \union Attempts

ASSUME LoopAssumption == Buffer \in Nat /\ Concurrency \in Nat \ {0}
ASSUME BoundAssumption == MaxLogins \in Nat \ {0} /\ MaxRecoveries \in Nat \ {0}
ASSUME AgentAssumption == Callers \intersect Attempts = {} /\ NoId \notin Ids

VARIABLES
  auth,        \* Manager.auths
  logins,      \* initialization generations given out so far
  recoveries,  \* recovery generations given out so far
  at,          \* where an agent is
  on,          \* the credential it works on
  copy,        \* its clone of it
  req,         \* the request it posts or works for
  requests,    \* authRecoveryLoop.requests
  overflow,    \* authRecoveryLoop.overflow
  pending,     \* the loop's map of requests to start
  active,      \* the loop's map of requests that run
  startup,     \* how far StartAutoRefresh is
  listed,      \* the requests its rebuild has yet to post
  missed       \* credentials whose request got lost: see Drop

storeVars   == <<auth, logins, recoveries>>
agentVars   == <<at, on, copy, req>>
loopVars    == <<requests, overflow, pending, active>>
startupVars == <<startup, listed>>
vars == <<storeVars, agentVars, loopVars, startupVars, missed>>

(* A stored credential; "login" and "rec" are its generations, 0 for none, *)
(* and "rec" is 0 again when the recovery is over.                         *)
Auths ==
  {record \in [present : BOOLEAN, login : 0 .. MaxLogins, initializing : BOOLEAN,
               rec : 0 .. MaxRecoveries, disabled : BOOLEAN] :
     record.initializing => record.login # 0}

Absent == [present |-> FALSE, login |-> 0, initializing |-> FALSE, rec |-> 0,
           disabled |-> FALSE]

Initialization(g) == [kind |-> "initialization", generation |-> g]
Recovery(g)       == [kind |-> "recovery", generation |-> g]
NoRequest         == [kind |-> "none", generation |-> 0]

Requests == {Initialization(g) : g \in 1 .. MaxLogins}
            \union {Recovery(g) : g \in 1 .. MaxRecoveries}

CallerPhases  == {"writing", "queueing", "posting"}
AttemptPhases == {"begun", "asking", "calling", "ended", "again"}
Phases        == {"idle"} \union CallerPhases \union AttemptPhases

TypeOK ==
  /\ auth \in [Ids -> Auths]
  /\ logins \in 0 .. MaxLogins /\ recoveries \in 0 .. MaxRecoveries
  /\ at \in [Agents -> Phases]
  /\ \A c \in Callers : at[c] \notin AttemptPhases
  /\ \A a \in Attempts : at[a] \notin CallerPhases
  /\ on \in [Agents -> Ids \union {NoId}]
  /\ \A a \in Agents : at[a] # "idle" => on[a] \in Ids
  /\ copy \in [Agents -> Auths]
  /\ req \in [Agents -> Requests \union {NoRequest}]
  /\ \A a \in Agents : at[a] \in {"posting"} \union AttemptPhases => req[a] # NoRequest
  /\ requests \in Seq([id : Ids, request : Requests]) /\ Len(requests) <= Buffer
  /\ overflow \in [Ids -> Requests \union {NoRequest}]
  /\ pending \in [Ids -> Requests \union {NoRequest}]
  /\ active \in [Ids -> Requests \union {NoRequest}]
  /\ startup \in {"loading", "starting", "started"}
  /\ listed \in [Ids -> Requests \union {NoRequest}]
  /\ missed \subseteq Ids

(* Credentials loaded from files, in whatever state the last process left. *)
Loaded ==
  {Absent} \union
  {record \in [present : {TRUE}, login : {0, 1}, initializing : BOOLEAN,
               rec : {0, 1}, disabled : BOOLEAN] :
     record.initializing <=> record.login = 1}

Init ==
  /\ auth \in [Ids -> Loaded]
  /\ logins = IF \E i \in Ids : auth[i].login = 1 THEN 1 ELSE 0
  /\ recoveries = IF \E i \in Ids : auth[i].rec = 1 THEN 1 ELSE 0
  /\ at = [a \in Agents |-> "idle"]
  /\ on = [a \in Agents |-> NoId]
  /\ copy = [a \in Agents |-> Absent]
  /\ req = [a \in Agents |-> NoRequest]
  /\ requests = << >>
  /\ overflow = [i \in Ids |-> NoRequest]
  /\ pending = [i \in Ids |-> NoRequest]
  /\ active = [i \in Ids |-> NoRequest]
  /\ startup = "loading"
  /\ listed = [i \in Ids |-> NoRequest]
  /\ missed = {}

-----------------------------------------------------------------------------
(* What a credential asks for                                              *)

Enabled(record) == record.present /\ ~record.disabled

(* lifecycleRecoveryRequest: an initialization before a recovery.          *)
RequestOf(record) ==
  CASE Enabled(record) /\ record.initializing -> Initialization(record.login)
    [] Enabled(record) /\ ~record.initializing /\ record.rec # 0 -> Recovery(record.rec)
    [] OTHER -> NoRequest

(* lifecycleGenerationMatches: a recovery need not wait its turn.          *)
Matches(record, r) ==
  /\ Enabled(record)
  /\ \/ record.initializing /\ r = Initialization(record.login)
     \/ record.rec # 0 /\ r = Recovery(record.rec)

(* A credential that comes to ask for something else has missed nothing.   *)
Store(i, record) ==
  /\ auth' = [auth EXCEPT ![i] = record]
  /\ missed' = IF RequestOf(record) = RequestOf(auth[i]) THEN missed ELSE missed \ {i}

Become(a, phase) == at' = [at EXCEPT ![a] = phase]

Return(a) ==
  /\ Become(a, "idle")
  /\ on' = [on EXCEPT ![a] = NoId]
  /\ copy' = [copy EXCEPT ![a] = Absent]
  /\ req' = [req EXCEPT ![a] = NoRequest]

(* The loop, or enqueue, gives up request r of i (NoRequest: nothing), and *)
(* the credential asks for just that.                                      *)
Drop(i, r) ==
  missed' = IF r # NoRequest /\ r = RequestOf(auth[i]) THEN missed \union {i} ELSE missed

(* A map of the loop takes r in the place of whatever it has for i.        *)
Supersede(old, i, r) == Drop(i, IF old[i] = r THEN NoRequest ELSE old[i])

-----------------------------------------------------------------------------
(* Those who change credentials                                            *)

Begins(c, i, phase) ==
  /\ at[c] = "idle"
  /\ Become(c, phase)
  /\ on' = [on EXCEPT ![c] = i]

(* An edit, a refresh, a reload of the watcher: a clone is taken ...       *)
StartWrite(c, i) ==
  /\ auth[i].present
  /\ Begins(c, i, "writing")
  /\ \E disabled \in BOOLEAN :
       copy' = [copy EXCEPT ![c] = [auth[i] EXCEPT !.disabled = disabled]]
  /\ UNCHANGED <<storeVars, req, loopVars, startupVars, missed>>

(* ... and Update stores all of it, if the credential is still there.      *)
Write(c) ==
  LET i == on[c] IN
  /\ at[c] = "writing"
  /\ IF auth[i].present
       THEN /\ Store(i, copy[c])
            /\ Become(c, "queueing")
            /\ copy' = [copy EXCEPT ![c] = Absent]
            /\ UNCHANGED <<on, req>>
       ELSE Return(c) /\ UNCHANGED <<auth, missed>>
  /\ UNCHANGED <<logins, recoveries, loopVars, startupVars>>

FreshLogin(login) == [present |-> TRUE, login |-> login, initializing |-> TRUE,
                      rec |-> 0, disabled |-> FALSE]

(* Register, or Update in place, of the fresh login of a team account; that*)
(* of another asks for nothing, and is a Remove here.                      *)
Import(c, i) ==
  /\ logins < MaxLogins
  /\ Begins(c, i, "queueing")
  /\ logins' = logins + 1
  /\ Store(i, FreshLogin(logins + 1))
  /\ UNCHANGED <<recoveries, copy, req, loopVars, startupVars>>

(* MarkResult of a 429: markRateLimitRecoveryQueuedLocked keeps the        *)
(* generation of a recovery that is under way.                             *)
MarkRateLimited(c, i) ==
  LET anew == auth[i].rec = 0 IN
  /\ Enabled(auth[i]) /\ (anew => recoveries < MaxRecoveries)
  /\ Begins(c, i, "queueing")
  /\ recoveries' = IF anew THEN recoveries + 1 ELSE recoveries
  /\ Store(i, [auth[i] EXCEPT !.rec = IF anew THEN recoveries + 1 ELSE @])
  /\ UNCHANGED <<logins, copy, req, loopVars, startupVars>>

(* Remove, and a terminal error of a request, ask for nothing.             *)
Remove(i) ==
  /\ auth[i].present
  /\ Store(i, Absent)
  /\ UNCHANGED <<logins, recoveries, agentVars, loopVars, startupVars>>

Invalidate(i) ==
  /\ Enabled(auth[i])
  /\ Store(i, [auth[i] EXCEPT !.disabled = TRUE])
  /\ UNCHANGED <<logins, recoveries, agentVars, loopVars, startupVars>>

-----------------------------------------------------------------------------
(* Posting a request                                                       *)

(* Mutant of Queue: nobody asks whether there is a request at all.         *)
QueueUnasked(c) ==
  /\ at[c] = "queueing"
  /\ IF startup = "loading"
       THEN Return(c)
       ELSE /\ req' = [req EXCEPT ![c] = RequestOf(auth[on[c]])]
            /\ Become(c, "posting")
            /\ UNCHANGED <<on, copy>>
  /\ UNCHANGED <<storeVars, loopVars, startupVars, missed>>

(* queueLifecycleRecovery: a look at the credential under Manager.mu.      *)
Queue(c) ==
  LET i == on[c]
      r == RequestOf(auth[i])
  IN
  /\ at[c] = "queueing"
  /\ IF startup = "loading" \/ r = NoRequest
       THEN Return(c) /\ UNCHANGED missed
       ELSE /\ req' = [req EXCEPT ![c] = r]
            /\ Become(c, "posting")
            /\ missed' = missed \ {i}
            /\ UNCHANGED <<on, copy>>
  /\ UNCHANGED <<storeVars, loopVars, startupVars>>

(* enqueue, with Manager.mu released: the channel, or else the overflow.   *)
Enqueue(i, r) ==
  IF Len(requests) < Buffer
    THEN /\ requests' = Append(requests, [id |-> i, request |-> r])
         /\ UNCHANGED <<overflow, missed>>
    ELSE /\ overflow' = [overflow EXCEPT ![i] = r]
         /\ Supersede(overflow, i, r)
         /\ UNCHANGED requests

Post(c) ==
  /\ at[c] = "posting"
  /\ Enqueue(on[c], req[c])
  /\ Return(c)
  /\ UNCHANGED <<storeVars, pending, active, startupVars>>

(* StartAutoRefresh: from here on there is a loop to post to ...           *)
StartLoop ==
  /\ startup = "loading"
  /\ startup' = "starting"
  /\ UNCHANGED <<storeVars, agentVars, loopVars, listed, missed>>

(* ... rebuild lists the credentials ...                                   *)
List ==
  /\ startup = "starting"
  /\ startup' = "started"
  /\ listed' = [i \in Ids |-> RequestOf(auth[i])]
  /\ UNCHANGED <<storeVars, agentVars, loopVars, missed>>

(* ... and posts what they ask for, one by one.                            *)
PostListed(i) ==
  /\ listed[i] # NoRequest
  /\ listed' = [listed EXCEPT ![i] = NoRequest]
  /\ Enqueue(i, listed[i])
  /\ UNCHANGED <<storeVars, agentVars, pending, active, startup>>

-----------------------------------------------------------------------------
(* The loop                                                                *)

(* Somebody runs for request r of i and will yet do something about it.    *)
Working(i, r) ==
  \E a \in Attempts : on[a] = i /\ req[a] = r /\ at[a] # "ended"

(* One request of the channel: dropped if an attempt runs for it, though   *)
(* that may be at its end; else it supersedes what is pending.             *)
TakeRequest ==
  /\ startup # "loading" /\ requests # << >>
  /\ requests' = Tail(requests)
  /\ LET i == Head(requests).id
         r == Head(requests).request
     IN  IF active[i] = r
           THEN /\ Drop(i, IF Working(i, r) THEN NoRequest ELSE r)
                /\ UNCHANGED pending
           ELSE /\ pending' = [pending EXCEPT ![i] = r]
                /\ Supersede(pending, i, r)
  /\ UNCHANGED <<storeVars, agentVars, overflow, active, startupVars>>

(* Mutant of DrainOverflow: what overflowed does not supersede.            *)
DrainOverflowLate(i) ==
  /\ overflow[i] # NoRequest
  /\ overflow' = [overflow EXCEPT ![i] = NoRequest]
  /\ pending' = [pending EXCEPT ![i] = IF @ = NoRequest THEN overflow[i] ELSE @]
  /\ UNCHANGED <<storeVars, agentVars, requests, active, startupVars, missed>>

(* drainOverflow, for one credential: no test of what runs.                *)
DrainOverflow(i) ==
  /\ overflow[i] # NoRequest
  /\ overflow' = [overflow EXCEPT ![i] = NoRequest]
  /\ pending' = [pending EXCEPT ![i] = overflow[i]]
  /\ Supersede(pending, i, overflow[i])
  /\ UNCHANGED <<storeVars, agentVars, requests, active, startupVars>>

Running == {i \in Ids : active[i] # NoRequest}

(* dispatch: a second attempt takes the place of the first in active.      *)
Dispatch(i, a) ==
  /\ pending[i] # NoRequest /\ Cardinality(Running) < Concurrency
  /\ Begins(a, i, "begun")
  /\ req' = [req EXCEPT ![a] = pending[i]]
  /\ pending' = [pending EXCEPT ![i] = NoRequest]
  /\ active' = [active EXCEPT ![i] = pending[i]]
  /\ UNCHANGED <<storeVars, copy, requests, overflow, startupVars, missed>>

(* Mutant of TakeResult: no attempt after one that failed.                 *)
TakeResultOnly(a) ==
  /\ at[a] \in {"ended", "again"}
  /\ active' = [active EXCEPT ![on[a]] = NoRequest]
  /\ Return(a)
  /\ UNCHANGED <<storeVars, requests, overflow, pending, startupVars, missed>>

(* A result: active forgets i, whoever else runs for it, and a request     *)
(* that failed is pending again unless another one is.                     *)
TakeResult(a) ==
  LET i == on[a]
      retry == at[a] = "again"
      free == pending[i] \in {NoRequest, req[a]}
  IN
  /\ at[a] \in {"ended", "again"}
  /\ active' = [active EXCEPT ![i] = NoRequest]
  /\ pending' = IF retry /\ free THEN [pending EXCEPT ![i] = req[a]] ELSE pending
  /\ Drop(i, IF retry /\ ~free THEN req[a] ELSE NoRequest)
  /\ Return(a)
  /\ UNCHANGED <<storeVars, requests, overflow, startupVars>>

-----------------------------------------------------------------------------
(* An attempt: runLifecycleRecovery                                        *)

Current(a) == Matches(auth[on[a]], req[a])

End(a, phase) ==
  /\ Become(a, phase)
  /\ copy' = [copy EXCEPT ![a] = Absent]

(* transitionLifecycle or transitionLifecycleUsageProbe, and the second    *)
(* look at the credential that follows either: forceRefreshLifecycleToken  *)
(* takes its clone then.                                                   *)
Begin(a) ==
  LET token == req[a].kind = "initialization" IN
  /\ at[a] = "begun"
  /\ Become(a, IF ~Current(a) THEN "ended" ELSE IF token THEN "asking" ELSE "calling")
  /\ copy' = IF Current(a) /\ token THEN [copy EXCEPT ![a] = auth[on[a]]] ELSE copy
  /\ UNCHANGED <<storeVars, on, req, loopVars, startupVars, missed>>

(* It is stored with its new token, and what it says of lifecycles, if the *)
(* initialization is still asked for.                                      *)
MergeToken(a) ==
  LET i == on[a] IN
  /\ at[a] = "asking"
  /\ IF Current(a)
       THEN Store(i, [copy[a] EXCEPT !.disabled = auth[i].disabled]) /\ End(a, "calling")
       ELSE UNCHANGED <<auth, missed>> /\ End(a, "ended")
  /\ UNCHANGED <<logins, recoveries, on, req, loopVars, startupVars>>

(* What is left of a credential when its request was met.                  *)
Met(record, r) ==
  IF r.kind = "initialization" THEN [record EXCEPT !.initializing = FALSE]
                               ELSE [record EXCEPT !.rec = 0]

(* Nobody posts the recovery that a credential met during its              *)
(* initialization: what the 429 posted then was the initialization.        *)
Finish(i, record) ==
  /\ auth' = [auth EXCEPT ![i] = record]
  /\ missed' = IF RequestOf(record) = RequestOf(auth[i]) THEN missed
               ELSE IF RequestOf(record) = NoRequest THEN missed \ {i}
               ELSE missed \union {i}

(* Mutant of Complete: the generation is not looked at again.              *)
CompleteAnyway(a) ==
  /\ at[a] = "calling"
  /\ Finish(on[a], Met(auth[on[a]], req[a]))
  /\ End(a, "ended")
  /\ UNCHANGED <<logins, recoveries, on, req, loopVars, startupVars>>

(* completeLifecycle                                                       *)
Complete(a) ==
  /\ at[a] = "calling"
  /\ IF Current(a) THEN Finish(on[a], Met(auth[on[a]], req[a]))
                   ELSE UNCHANGED <<auth, missed>>
  /\ End(a, "ended")
  /\ UNCHANGED <<logins, recoveries, on, req, loopVars, startupVars>>

(* failLifecycle: an error is tried again, but one of an initialization    *)
(* may be terminal, and disables.                                          *)
FailLifecycle(a) ==
  LET i == on[a] IN
  /\ at[a] \in {"asking", "calling"}
  /\ \/ Current(a) /\ End(a, "again") /\ UNCHANGED <<auth, missed>>
     \/ /\ Current(a) /\ req[a].kind = "initialization"
        /\ Store(i, [auth[i] EXCEPT !.disabled = TRUE])
        /\ End(a, "ended")
     \/ ~Current(a) /\ End(a, "ended") /\ UNCHANGED <<auth, missed>>
  /\ UNCHANGED <<logins, recoveries, on, req, loopVars, startupVars>>

-----------------------------------------------------------------------------
CallerStep(c) == Write(c) \/ Queue(c) \/ Post(c)

AttemptStep(a) ==
  Begin(a) \/ MergeToken(a) \/ Complete(a) \/ FailLifecycle(a)

Starter == StartLoop \/ List \/ \E i \in Ids : PostListed(i)

Loop ==
  \/ TakeRequest
  \/ \E i \in Ids : DrainOverflow(i)
  \/ \E i \in Ids, a \in Attempts : Dispatch(i, a)
  \/ \E a \in Attempts : TakeResult(a)

Next ==
  \/ \E c \in Callers, i \in Ids : StartWrite(c, i) \/ Import(c, i) \/ MarkRateLimited(c, i)
  \/ \E c \in Callers : CallerStep(c)
  \/ \E i \in Ids : Remove(i) \/ Invalidate(i)
  \/ \E a \in Attempts : AttemptStep(a)
  \/ Starter
  \/ Loop

Spec == Init /\ [][Next]_vars

(* Goroutines run, the loop's select starves no channel and its dispatch   *)
(* takes the request that is due the longest, and the provider does not    *)
(* fail the same call for ever.                                            *)
Fairness ==
  /\ \A c \in Callers : WF_vars(CallerStep(c))
  /\ WF_vars(Starter)
  /\ WF_vars(TakeRequest)
  /\ \A i \in Ids : /\ WF_vars(DrainOverflow(i))
                   /\ SF_vars(\E a \in Attempts : Dispatch(i, a))
  /\ \A a \in Attempts : /\ WF_vars(AttemptStep(a))
                        /\ SF_vars(MergeToken(a))
                        /\ SF_vars(Complete(a))
                        /\ WF_vars(TakeResult(a))

FairSpec == Spec /\ Fairness

-----------------------------------------------------------------------------
(* Properties                                                              *)

(* A credential that waits for its initialization or recovery has a        *)
(* request, or an attempt, on the way, whatever was written over it or     *)
(* however the queue overflowed meanwhile, unless the code is known to     *)
(* have lost that very request (recovery.go:140-168).                      *)
RequestKept ==
  \A i \in Ids : LET r == RequestOf(auth[i]) IN
    \/ r = NoRequest \/ i \in missed
    \/ startup # "started" \/ listed[i] = r
    \/ \E c \in Callers : on[c] = i /\ (at[c] = "queueing" \/ req[c] = r)
    \/ \E k \in 1 .. Len(requests) : requests[k] = [id |-> i, request |-> r]
    \/ overflow[i] = r
    \/ pending[i] = r
    \/ Working(i, r)

(* An attempt ends or disables only what it was started for: what it does  *)
(* to a lifecycle, it does to the generation of its request, whatever was  *)
(* imported meanwhile (recovery.go:493, 575).                              *)
OwnGeneration ==
  [][\A a \in Attempts : at[a] # at'[a] => \A i \in Ids :
       \/ RequestOf(auth'[i]) = RequestOf(auth[i])
       \/ i = on[a] /\ Matches(auth[i], req[a])]_vars

(* What a credential waits for comes to an end, as long as it keeps asking *)
(* for it and its request is not lost.                                     *)
RecoveryEnds ==
  \A i \in Ids : \A r \in Requests :
    r = RequestOf(auth[i]) ~> r # RequestOf(auth[i]) \/ i \in missed
=============================================================================
