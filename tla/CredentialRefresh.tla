------------------------- MODULE CredentialRefresh -------------------------
(***************************************************************************)
(* The refresh tokens of the auth manager (sdk/cliproxy/auth).  A refresh  *)
(* token is good for one use: the provider trades it for a new one and     *)
(* refuses it afterwards (refresh_token_reused), and a refused token       *)
(* disables its credential.  Requests that met a 401, the workers of the   *)
(* auto-refresh loop and the attempts of the recovery loop all refresh;    *)
(* each holds the credential's lock (Manager.refreshLocks) from before it  *)
(* reads the token until the new one is stored.  Everything else, and the  *)
(* end of a refresh too, works on clones: it reads a credential, goes      *)
(* away, and Update stores the whole clone over whatever is there by then. *)
(*                                                                         *)
(* A step is one critical section of Manager.mu, one operation on the      *)
(* sync.Map of locks, or one answer of the provider.  Two credentials never*)
(* share a token here, and what a credential says of cooldowns, models,    *)
(* quotas and recoveries is left out (CredentialRecovery has the latter).  *)
(* When an attempt starts is up to the recovery loop: at any time here.    *)
(***************************************************************************)
EXTENDS Naturals

CONSTANTS
  Ids,        \* credentials, by auth id
  Workers,    \* goroutines of requests and of the auto-refresh loop
  Managers,   \* goroutines of the management API and of the watcher
  Attempts,   \* goroutines of the recovery loop
  Tokens,     \* refresh tokens; a name nobody knows any more is used again
  Locks,      \* authRefreshLock objects; likewise
  MaxLogins,  \* bound on the imports of the model's history
  None, NoId

Agents == Workers \union Managers \union Attempts

ASSUME NullAssumption ==
  None \notin Tokens /\ None \notin Locks /\ NoId \notin Ids
ASSUME AgentAssumption ==
  /\ Workers \intersect Managers = {}
  /\ Attempts \intersect (Workers \union Managers) = {}

VARIABLES
  auth,     \* Manager.auths
  entry,    \* Manager.refreshLocks: the lock of each id, or None
  live,     \* the tokens of a credential that the provider accepts
  spoiled,  \* credentials whose stored token may be used up: see Spoil
  logins,   \* imports so far; each has a generation of its own
  at,       \* where an agent is
  on,       \* the credential it works on
  copy,     \* its clone of it
  lock      \* the lock it waits for or holds

vars == <<auth, entry, live, spoiled, logins, at, on, copy, lock>>

(* A stored credential: "login" is its initialization_generation, and      *)
(* "initializing" what IsAuthInitializationBlocking says of it.            *)
Auths == [token : Tokens \union {None}, login : Nat, initializing : BOOLEAN,
          disabled : BOOLEAN]

Absent == [token |-> None, login |-> 0, initializing |-> FALSE,
           disabled |-> FALSE]

Phases == {"idle", "waiting", "asking", "answered", "editing", "replacing",
           "registering", "removing", "initializing"}

Init ==
  /\ auth = [i \in Ids |-> Absent]
  /\ entry = [i \in Ids |-> None]
  /\ live = [i \in Ids |-> {}]
  /\ spoiled = {}
  /\ logins = 0
  /\ at = [a \in Agents |-> "idle"]
  /\ on = [a \in Agents |-> NoId]
  /\ copy = [a \in Agents |-> Absent]
  /\ lock = [a \in Agents |-> None]

-----------------------------------------------------------------------------
(* Helpers                                                                 *)

Present(i) == auth[i].token # None
Store(i, record) == auth' = [auth EXCEPT ![i] = record]
Become(a, phase) == at' = [at EXCEPT ![a] = phase]
Unlock(a) == lock' = [lock EXCEPT ![a] = None]

(* An agent takes a credential up ...                                      *)
Take(a, i, phase) ==
  /\ at[a] = "idle"
  /\ Become(a, phase)
  /\ on' = [on EXCEPT ![a] = i]

(* ... and is done with it, and drops its lock.                            *)
Return(a) ==
  /\ Become(a, "idle")
  /\ on' = [on EXCEPT ![a] = NoId]
  /\ copy' = [copy EXCEPT ![a] = Absent]
  /\ Unlock(a)

(* The tokens of i that somebody knows.                                    *)
Known(i) ==
  {auth[i].token} \union {copy[a].token : a \in {b \in Agents : on[b] = i}}

FreshToken(i) == CHOOSE t \in Tokens : t \notin Known(i)
HasFreshToken(i) == \E t \in Tokens : t \notin Known(i)

(* The provider gives out a new token in the place of the ones in old.     *)
IssueToken(i, old) ==
  /\ HasFreshToken(i)
  /\ live' = [live EXCEPT ![i] =
               ((@ \intersect Known(i)) \ old) \union {FreshToken(i)}]

(* A lock nobody has: not in the map, not waited for or held.              *)
Unused(l) == (\A i \in Ids : entry[i] # l) /\ (\A a \in Agents : lock[a] # l)

(* refreshLocks.LoadOrStore                                                *)
LoadOrStoreLock(a, i) ==
  \/ /\ entry[i] # None
     /\ lock' = [lock EXCEPT ![a] = entry[i]]
     /\ UNCHANGED entry
  \/ /\ entry[i] = None
     /\ \E l \in Locks : Unused(l)
     /\ LET l == CHOOSE f \in Locks : Unused(f)
        IN  entry' = [entry EXCEPT ![i] = l] /\ lock' = [lock EXCEPT ![a] = l]

(* Mutant of Free: lock.mu.Lock() forgotten.                               *)
FreeAlways(l) == TRUE

(* lock.mu is free: whoever has it is still waiting.                       *)
Free(l) == \A a \in Agents : lock[a] = l => at[a] = "waiting"

(* A refresh of i holds a lock or waits for one.                           *)
Refreshing(i) == \E a \in Agents : on[a] = i /\ lock[a] # None

(* The stored token may be used up from now on, by no fault of the lock:   *)
(* an answer was lost on the way, a clone with an older token was stored,  *)
(* an attempt gave its new token up, Remove took the lock away in use.     *)
Spoil(i, why) == spoiled' = IF why THEN spoiled \union {i} ELSE spoiled

-----------------------------------------------------------------------------
(* refreshAuthForRequest: a worker, or a request whose token was rejected. *)

(* What the clone says of a token until the lock is taken is the rejected  *)
(* token, None for a refresh ahead of time.                                *)
StartRefresh(w, i) ==
  /\ Take(w, i, "waiting")
  /\ \E rejected \in {None, auth[i].token} :
       copy' = [copy EXCEPT ![w] = [Absent EXCEPT !.token = rejected]]
  /\ LoadOrStoreLock(w, i)
  /\ UNCHANGED <<auth, live, spoiled, logins>>

(* Under the lock: gone, or refreshed by another already; else a clone.    *)
Acquire(w) ==
  LET i == on[w] IN
  /\ at[w] = "waiting" /\ Free(lock[w])
  /\ IF ~Present(i) \/ copy[w].token \notin {None, auth[i].token}
       THEN Return(w)
       ELSE /\ copy' = [copy EXCEPT ![w] = auth[i]]
            /\ Become(w, "asking")
            /\ UNCHANGED <<on, lock>>
  /\ UNCHANGED <<auth, entry, live, spoiled, logins>>

(* The provider takes the token of a for a new one, or refuses it.         *)
Rotated(a) ==
  /\ at[a] = "asking" /\ copy[a].token \in live[on[a]]
  /\ IssueToken(on[a], {copy[a].token})

Refused(a) == at[a] = "asking" /\ copy[a].token \notin live[on[a]]

(* The new token arrives.                                                  *)
Answer(a) ==
  /\ Rotated(a)
  /\ Become(a, "answered")
  /\ copy' = [copy EXCEPT ![a].token = FreshToken(on[a])]
  /\ UNCHANGED <<auth, entry, spoiled, logins, on, lock>>

(* It is lost on the way, or the call fails for another passing reason.    *)
RefreshFails(a) ==
  /\ at[a] = "asking"
  /\ \/ Rotated(a) /\ Spoil(on[a], TRUE)
     \/ UNCHANGED <<live, spoiled>>
  /\ Return(a)
  /\ UNCHANGED <<auth, entry, logins>>

(* A terminal error disables what is stored by then.                       *)
RefreshRefused(w) ==
  /\ Refused(w)
  /\ IF Present(on[w]) THEN Store(on[w], [auth[on[w]] EXCEPT !.disabled = TRUE])
                       ELSE UNCHANGED auth
  /\ Return(w)
  /\ UNCHANGED <<entry, live, spoiled, logins>>

(* Manager.Update: the clone replaces what is stored, if anything is.      *)
Update(a) ==
  /\ IF Present(on[a]) THEN Store(on[a], copy[a]) ELSE UNCHANGED auth
  /\ Return(a)
  /\ UNCHANGED <<entry, live, logins>>

(* The lock is held until Update is through.                               *)
CommitRefresh(w) ==
  /\ at[w] = "answered"
  /\ Update(w)
  /\ UNCHANGED spoiled

-----------------------------------------------------------------------------
(* Edits, imports and removals                                             *)

(* PatchAuthFileStatus: a clone with its disabled flag the other way round.*)
StartEdit(m, i) ==
  /\ Present(i)
  /\ Take(m, i, "editing")
  /\ copy' = [copy EXCEPT ![m] = [auth[i] EXCEPT !.disabled = ~@]]
  /\ UNCHANGED <<auth, entry, live, spoiled, logins, lock>>

CommitEdit(m) ==
  /\ at[m] = "editing"
  /\ Spoil(on[m], Present(on[m]) /\ auth[on[m]].token # copy[m].token)
  /\ Update(m)

(* A fresh login, in a file: the provider knows its token, and that of a   *)
(* team account asks for an initialization of its own.                     *)
Login(i) ==
  /\ logins < MaxLogins
  /\ logins' = logins + 1
  /\ IssueToken(i, {})

Imported(i) == [token |-> FreshToken(i), login |-> logins + 1,
                initializing |-> TRUE, disabled |-> FALSE]

(* Update stores it in place: the watcher, for a file without a timestamp  *)
(* of its import.                                                          *)
ImportInPlace(i) ==
  /\ Present(i)
  /\ Login(i)
  /\ Store(i, Imported(i))
  /\ UNCHANGED <<entry, spoiled, at, on, copy, lock>>

(* upsertImportedAuthRecord: Remove whatever is there, then Register.      *)
StartImport(m, i) ==
  /\ Take(m, i, IF Present(i) THEN "replacing" ELSE "registering")
  /\ Login(i)
  /\ Store(i, Absent)
  /\ copy' = [copy EXCEPT ![m] = Imported(i)]
  /\ UNCHANGED <<entry, spoiled, lock>>

StartRemove(m, i) ==
  /\ Present(i)
  /\ Take(m, i, "removing")
  /\ Store(i, Absent)
  /\ UNCHANGED <<entry, live, spoiled, logins, copy, lock>>

(* The rest of Remove: refreshLocks.Delete.                                *)
RemoveLock(m) ==
  /\ at[m] \in {"replacing", "removing"}
  /\ entry' = [entry EXCEPT ![on[m]] = None]
  /\ Spoil(on[m], Refreshing(on[m]))
  /\ IF at[m] = "replacing" THEN Become(m, "registering") /\ UNCHANGED <<on, copy, lock>>
                            ELSE Return(m)
  /\ UNCHANGED <<auth, live, logins>>

(* A credential starts anew, unless a refresh of the old one is still on.  *)
Register(m) ==
  LET i == on[m] IN
  /\ at[m] = "registering"
  /\ Store(i, copy[m])
  /\ spoiled' = IF Refreshing(i) THEN spoiled ELSE spoiled \ {i}
  /\ Return(m)
  /\ UNCHANGED <<entry, live, logins>>

(* MarkResult of a terminal error, in place.                               *)
Invalidate(i) ==
  /\ Present(i) /\ ~auth[i].disabled
  /\ Store(i, [auth[i] EXCEPT !.disabled = TRUE])
  /\ UNCHANGED <<entry, live, spoiled, logins, at, on, copy, lock>>

-----------------------------------------------------------------------------
(* An attempt of the recovery loop to initialize a credential; copy.login  *)
(* is the generation it works for until it is done.                        *)

(* lifecycleGenerationMatches                                              *)
Matches(a) ==
  LET current == auth[on[a]] IN
  /\ Present(on[a]) /\ ~current.disabled
  /\ current.initializing /\ current.login = copy[a].login

(* transitionLifecycle, then refreshLocks.LoadOrStore.                     *)
StartLifecycle(a, i) ==
  /\ Present(i) /\ ~auth[i].disabled /\ auth[i].initializing
  /\ Take(a, i, "waiting")
  /\ copy' = [copy EXCEPT ![a] = [Absent EXCEPT !.login = auth[i].login]]
  /\ LoadOrStoreLock(a, i)
  /\ UNCHANGED <<auth, live, spoiled, logins>>

(* forceRefreshLifecycleToken, up to the call of the provider.             *)
AcquireLifecycle(a) ==
  /\ at[a] = "waiting" /\ Free(lock[a])
  /\ IF Matches(a)
       THEN /\ copy' = [copy EXCEPT ![a] = auth[on[a]]]
            /\ Become(a, "asking")
            /\ UNCHANGED <<on, lock>>
       ELSE Return(a)
  /\ UNCHANGED <<auth, entry, live, spoiled, logins>>

Keep(a) == [Absent EXCEPT !.login = copy[a].login]

(* Mutant of MergeToken: the generation is not looked at again.            *)
MergeTokenAnyway(a) ==
  LET i == on[a] IN
  /\ at[a] = "answered"
  /\ Store(i, [copy[a] EXCEPT !.disabled = auth[i].disabled])
  /\ copy' = [copy EXCEPT ![a] = Keep(a)]
  /\ Become(a, "initializing")
  /\ Unlock(a)
  /\ UNCHANGED <<entry, live, spoiled, logins, on>>

(* The rest of it: the new token goes into the credential only if that     *)
(* still needs the same initialization; if not the token is given up.      *)
MergeToken(a) ==
  LET i == on[a] IN
  /\ at[a] = "answered"
  /\ IF Matches(a)
       THEN /\ Store(i, [copy[a] EXCEPT !.disabled = auth[i].disabled])
            /\ copy' = [copy EXCEPT ![a] = Keep(a)]
            /\ Become(a, "initializing")
            /\ Unlock(a)
            /\ UNCHANGED <<spoiled, on>>
       ELSE /\ Return(a)
            /\ Spoil(i, Present(i) /\ auth[i].login = copy[a].login)
            /\ UNCHANGED auth
  /\ UNCHANGED <<entry, live, logins>>

(* Mutant of LifecycleRefused: the error path keeps the lock.              *)
LifecycleRefusedLocked(a) ==
  /\ Refused(a)
  /\ Become(a, "initializing")
  /\ copy' = [copy EXCEPT ![a] = Keep(a)]
  /\ UNCHANGED <<auth, entry, live, spoiled, logins, on, lock>>

(* A refused token: the lock is released, and failLifecycle follows.       *)
LifecycleRefused(a) ==
  /\ Refused(a)
  /\ Become(a, "initializing")
  /\ copy' = [copy EXCEPT ![a] = Keep(a)]
  /\ Unlock(a)
  /\ UNCHANGED <<auth, entry, live, spoiled, logins, on>>

(* completeLifecycle once the quota was read, or failLifecycle of a        *)
(* terminal error; after another error the loop starts a new attempt.      *)
EndLifecycle(a) ==
  LET i == on[a] IN
  /\ at[a] = "initializing"
  /\ \/ /\ Matches(a)
        /\ \/ Store(i, [auth[i] EXCEPT !.initializing = FALSE])
           \/ Store(i, [auth[i] EXCEPT !.disabled = TRUE])
     \/ UNCHANGED auth
  /\ Return(a)
  /\ UNCHANGED <<entry, live, spoiled, logins>>

-----------------------------------------------------------------------------
WorkerStep(w) ==
  \/ \E i \in Ids : StartRefresh(w, i)
  \/ Acquire(w) \/ Answer(w) \/ RefreshFails(w) \/ RefreshRefused(w)
  \/ CommitRefresh(w)

ManagerStep(m) ==
  \/ \E i \in Ids : StartEdit(m, i) \/ StartImport(m, i) \/ StartRemove(m, i)
  \/ CommitEdit(m) \/ RemoveLock(m) \/ Register(m)

AttemptStep(a) ==
  \/ \E i \in Ids : StartLifecycle(a, i)
  \/ AcquireLifecycle(a) \/ Answer(a) \/ RefreshFails(a) \/ LifecycleRefused(a)
  \/ MergeToken(a) \/ EndLifecycle(a)

Next ==
  \/ \E w \in Workers : WorkerStep(w)
  \/ \E m \in Managers : ManagerStep(m)
  \/ \E a \in Attempts : AttemptStep(a)
  \/ \E i \in Ids : ImportInPlace(i) \/ Invalidate(i)

Spec == Init /\ [][Next]_vars

-----------------------------------------------------------------------------
(* Properties                                                              *)

(* Every variable keeps its type; a refresh holds its lock or waits for it *)
(* to its end, and whoever is done, with an error or without, holds none.  *)
TypeOK ==
  /\ auth \in [Ids -> Auths]
  /\ entry \in [Ids -> Locks \union {None}]
  /\ live \in [Ids -> SUBSET Tokens]
  /\ spoiled \subseteq Ids
  /\ logins \in Nat
  /\ at \in [Agents -> Phases]
  /\ on \in [Agents -> Ids \union {NoId}]
  /\ copy \in [Agents -> Auths]
  /\ lock \in [Agents -> Locks \union {None}]
  /\ \A a \in Agents :
       /\ at[a] # "idle" <=> on[a] \in Ids
       /\ at[a] \in {"waiting", "asking", "answered"} <=> lock[a] # None

(* A refresh asks the provider with a token it still accepts, unless the   *)
(* credential is spoiled: no interleaving of requests, workers, attempts,  *)
(* edits and imports has two refreshes spend one token, which would        *)
(* disable a healthy credential (conductor_refresh.go:552-575).            *)
RotationSafe ==
  \A a \in Agents :
    at[a] = "asking" /\ on[a] \notin spoiled => copy[a].token \in live[on[a]]

(* An attempt started for one import never writes over another: the login  *)
(* stored stays the login stored, through all of its steps                 *)
(* (recovery.go:373, TestLifecycleRefreshGenerationGuardPreservesReimport).*)
ReimportKept ==
  [][\A a \in Attempts : at[a] # at'[a] =>
       \A i \in Ids : auth'[i].login = auth[i].login]_vars
=============================================================================
