---------------------- MODULE CredentialRecoveryProofs ----------------------
(***************************************************************************)
(* Proofs about CredentialRecovery: a credential that waits for its        *)
(* initialization or recovery has a request or an attempt on the way, or   *)
(* is known to have lost it, for every number of credentials, goroutines   *)
(* and attempts and every capacity of the channel.                         *)
(***************************************************************************)
EXTENDS CredentialRecovery, SequenceTheorems, TLAPS

Posts == [id : Ids, request : Requests]
MaybeRequests == Requests \union {NoRequest}

(* A credential asks for a request, or for none.                           *)
LEMMA RequestOfType ==
  ASSUME NEW record \in Auths
  PROVE  RequestOf(record) \in MaybeRequests
BY BoundAssumption
   DEF Auths, RequestOf, Enabled, MaybeRequests, Requests, Initialization, Recovery

(* What an attempt would work for is a request.                            *)
LEMMA NoRequestIsNone == NoRequest \notin Requests
BY DEF NoRequest, Requests, Initialization, Recovery

(* An attempt that works for what its credential asks for is current.      *)
LEMMA AskedIsCurrent ==
  ASSUME NEW record \in Auths, NEW r, r = RequestOf(record), r # NoRequest
  PROVE  Matches(record, r)
BY DEF RequestOf, Matches, Enabled

-----------------------------------------------------------------------------
(* Types.  The agents' part of TypeOK, the store's and the loop's.         *)

AgentTypes ==
  /\ at \in [Agents -> Phases]
  /\ \A c \in Callers : at[c] \notin AttemptPhases
  /\ \A a \in Attempts : at[a] \notin CallerPhases
  /\ on \in [Agents -> Ids \union {NoId}]
  /\ \A a \in Agents : at[a] # "idle" => on[a] \in Ids
  /\ req \in [Agents -> MaybeRequests]
  /\ \A a \in Agents : at[a] \in {"posting"} \union AttemptPhases => req[a] # NoRequest

StoreTypes ==
  /\ auth \in [Ids -> Auths]
  /\ logins \in 0 .. MaxLogins /\ recoveries \in 0 .. MaxRecoveries
  /\ copy \in [Agents -> Auths]
  /\ missed \subseteq Ids

LoopTypes ==
  /\ requests \in Seq(Posts) /\ Len(requests) <= Buffer
  /\ overflow \in [Ids -> MaybeRequests]
  /\ pending \in [Ids -> MaybeRequests]
  /\ active \in [Ids -> MaybeRequests]
  /\ startup \in {"loading", "starting", "started"}
  /\ listed \in [Ids -> MaybeRequests]

LEMMA TypesSplit == TypeOK <=> AgentTypes /\ StoreTypes /\ LoopTypes
BY DEF TypeOK, AgentTypes, StoreTypes, LoopTypes, Posts, MaybeRequests

LEMMA AgentTypesStep ==
  ASSUME TypeOK, [Next]_vars
  PROVE  AgentTypes'
<1> USE AgentAssumption, NoRequestIsNone, TypesSplit
    DEF AgentTypes, Agents, Phases, CallerPhases, AttemptPhases, MaybeRequests
<1>1. ASSUME UNCHANGED agentVars
      PROVE  AgentTypes'
  BY <1>1 DEF agentVars
<1>2. ASSUME NEW a \in Agents, Return(a)
      PROVE  AgentTypes'
  BY <1>2 DEF Return, Become
<1>3. ASSUME NEW c \in Callers, NEW i \in Ids,
             StartWrite(c, i) \/ Import(c, i) \/ MarkRateLimited(c, i)
      PROVE  AgentTypes'
  BY <1>3 DEF StartWrite, Import, MarkRateLimited, Begins, Become
<1>4. ASSUME NEW c \in Callers, Write(c)
      PROVE  AgentTypes'
  BY <1>4, <1>2 DEF Write, Become
<1>5. ASSUME NEW c \in Callers, Queue(c)
      PROVE  AgentTypes'
  <2>1. on[c] \in Ids /\ RequestOf(auth[on[c]]) \in MaybeRequests
    BY <1>5, RequestOfType DEF Queue, StoreTypes
  <2>2. QED
    BY <1>5, <1>2, <2>1 DEF Queue, Become
<1>6. ASSUME NEW c \in Callers, Post(c)
      PROVE  AgentTypes'
  BY <1>6, <1>2 DEF Post
<1>7. ASSUME NEW a \in Attempts, AttemptStep(a)
      PROVE  AgentTypes'
  BY <1>7 DEF AttemptStep, Begin, MergeToken, Complete, FailLifecycle, End, Become
<1>8. ASSUME NEW i \in Ids, NEW a \in Attempts, Dispatch(i, a)
      PROVE  AgentTypes'
  BY <1>8 DEF Dispatch, Begins, Become, LoopTypes
<1>9. ASSUME NEW a \in Attempts, TakeResult(a)
      PROVE  AgentTypes'
  BY <1>9, <1>2 DEF TakeResult
<1>10. QED
  BY <1>1, <1>3, <1>4, <1>5, <1>6, <1>7, <1>8, <1>9
     DEF Next, vars, CallerStep, Starter, Loop, Remove, Invalidate, StartLoop,
         List, PostListed, TakeRequest, DrainOverflow, agentVars

(* Records that stay credentials.                                          *)
LEMMA RecordTypes ==
  /\ Absent \in Auths
  /\ \A record \in Auths :
       /\ \A disabled \in BOOLEAN : [record EXCEPT !.disabled = disabled] \in Auths
       /\ \A rec \in 0 .. MaxRecoveries : [record EXCEPT !.rec = rec] \in Auths
       /\ [record EXCEPT !.initializing = FALSE] \in Auths
       /\ \A r : Met(record, r) \in Auths
  /\ \A login \in 1 .. MaxLogins : FreshLogin(login) \in Auths
<1> USE BoundAssumption DEF Auths
<1>1. Absent \in Auths
  BY DEF Absent
<1>2. ASSUME NEW record \in Auths
      PROVE  /\ \A disabled \in BOOLEAN : [record EXCEPT !.disabled = disabled] \in Auths
             /\ \A rec \in 0 .. MaxRecoveries : [record EXCEPT !.rec = rec] \in Auths
             /\ [record EXCEPT !.initializing = FALSE] \in Auths
  OBVIOUS
<1>3. ASSUME NEW record \in Auths, NEW r
      PROVE  Met(record, r) \in Auths
  <2>1. 0 \in 0 .. MaxRecoveries
    OBVIOUS
  <2>2. [record EXCEPT !.rec = 0] \in Auths /\ [record EXCEPT !.initializing = FALSE] \in Auths
    BY <1>2, <2>1
  <2>3. QED
    BY <2>2 DEF Met
<1>4. ASSUME NEW login \in 1 .. MaxLogins
      PROVE  FreshLogin(login) \in Auths
  BY DEF FreshLogin
<1>5. QED
  BY <1>1, <1>2, <1>3, <1>4

LEMMA StoreTypesStep ==
  ASSUME TypeOK, [Next]_vars
  PROVE  StoreTypes'
<1> AgentTypes /\ StoreTypes /\ LoopTypes
  BY TypesSplit
<1> USE DEF StoreTypes, storeVars
<1>1. ASSUME UNCHANGED <<storeVars, copy, missed>>
      PROVE  StoreTypes'
  BY <1>1
<1>2. ASSUME UNCHANGED <<storeVars, copy>>, NEW i \in Ids, NEW r, Drop(i, r)
      PROVE  StoreTypes'
  BY <1>2 DEF Drop
<1>3. ASSUME NEW i \in Ids, NEW record \in Auths, Store(i, record)
      PROVE  auth' \in [Ids -> Auths] /\ missed' \subseteq Ids
  BY <1>3 DEF Store
<1>4. ASSUME NEW c \in Callers, NEW i \in Ids, StartWrite(c, i)
      PROVE  StoreTypes'
  <2>1. PICK disabled \in BOOLEAN :
          copy' = [copy EXCEPT ![c] = [auth[i] EXCEPT !.disabled = disabled]]
    BY <1>4 DEF StartWrite
  <2>2. QED
    BY <1>4, <2>1, RecordTypes DEF StartWrite
<1>5. ASSUME NEW c \in Callers, NEW i \in Ids, Import(c, i)
      PROVE  StoreTypes'
  <2>1. logins + 1 \in 1 .. MaxLogins
    BY <1>5, BoundAssumption DEF Import
  <2>2. logins' \in 0 .. MaxLogins
    BY <1>5, <2>1, BoundAssumption DEF Import
  <2>3. auth' \in [Ids -> Auths] /\ missed' \subseteq Ids
    BY <1>5, <1>3, <2>1, RecordTypes DEF Import
  <2>4. QED
    BY <1>5, <2>2, <2>3 DEF Import
<1>6. ASSUME NEW c \in Callers, NEW i \in Ids, MarkRateLimited(c, i)
      PROVE  StoreTypes'
  <2> DEFINE rec == IF auth[i].rec = 0 THEN recoveries + 1 ELSE auth[i].rec
  <2>1. rec \in 0 .. MaxRecoveries
    <3>1. auth[i].rec \in 0 .. MaxRecoveries
      BY DEF Auths
    <3>2. QED
      BY <1>6, <3>1, BoundAssumption DEF MarkRateLimited
  <2>2. Store(i, [auth[i] EXCEPT !.rec = rec])
    BY <1>6 DEF MarkRateLimited
  <2>3. auth' \in [Ids -> Auths] /\ missed' \subseteq Ids
    BY <1>3, <2>1, <2>2, RecordTypes
  <2>4. recoveries' \in 0 .. MaxRecoveries
    BY <1>6, BoundAssumption DEF MarkRateLimited
  <2>5. QED
    BY <1>6, <2>3, <2>4 DEF MarkRateLimited
<1>7. ASSUME NEW c \in Callers, Write(c)
      PROVE  StoreTypes'
  BY <1>7, <1>3, RecordTypes DEF Write, Return, AgentTypes, Agents
<1>8. ASSUME NEW c \in Callers, Queue(c)
      PROVE  StoreTypes'
  BY <1>8, RecordTypes DEF Queue, Return
<1>9. ASSUME NEW i \in Ids, Remove(i) \/ Invalidate(i)
      PROVE  StoreTypes'
  BY <1>9, <1>3, RecordTypes DEF Remove, Invalidate, agentVars
<1>10. ASSUME NEW i \in Ids, NEW r, Enqueue(i, r), UNCHANGED storeVars,
              copy' \in [Agents -> Auths]
       PROVE  StoreTypes'
  BY <1>10, <1>2 DEF Enqueue, Supersede, Drop
<1>11. ASSUME NEW c \in Callers, Post(c)
       PROVE  StoreTypes'
  <2>1. on[c] \in Ids
    BY <1>11 DEF Post, AgentTypes, Agents
  <2>2. QED
    BY <1>11, <1>10, <2>1, RecordTypes DEF Post, Return
<1>12. ASSUME Starter
       PROVE  StoreTypes'
  BY <1>12, <1>1, <1>10 DEF Starter, StartLoop, List, PostListed, agentVars
<1>13. ASSUME TakeRequest
       PROVE  StoreTypes'
  <2>1. Head(requests) \in Posts
    BY <1>13, HeadTailProperties DEF TakeRequest, LoopTypes
  <2>2. Head(requests).id \in Ids
    BY <2>1 DEF Posts
  <2>3. QED
    BY <1>13, <1>1, <1>2, <2>2 DEF TakeRequest, Supersede, agentVars
<1>14. ASSUME NEW i \in Ids, DrainOverflow(i)
       PROVE  StoreTypes'
  BY <1>14, <1>2 DEF DrainOverflow, Supersede, agentVars
<1>15. ASSUME NEW i \in Ids, NEW a \in Attempts, Dispatch(i, a)
       PROVE  StoreTypes'
  BY <1>15, <1>1 DEF Dispatch
<1>16. ASSUME NEW a \in Attempts, TakeResult(a)
       PROVE  StoreTypes'
  <2>1. on[a] \in Ids
    BY <1>16 DEF TakeResult, AgentTypes, Agents
  <2>2. QED
    BY <1>16, <2>1, RecordTypes DEF TakeResult, Drop, Return
<1>17. ASSUME NEW a \in Attempts, AttemptStep(a)
       PROVE  StoreTypes'
  <2>1. a \in Agents /\ on[a] \in Ids /\ auth[on[a]] \in Auths /\ copy[a] \in Auths
    BY <1>17 DEF AttemptStep, Begin, MergeToken, Complete, FailLifecycle, AgentTypes, Agents
  <2>2. copy' \in [Agents -> Auths]
    BY <1>17, <2>1, RecordTypes DEF AttemptStep, Begin, MergeToken, Complete, FailLifecycle, End
  <2>3. \A record \in Auths : Finish(on[a], record) =>
          auth' \in [Ids -> Auths] /\ missed' \subseteq Ids
    BY <2>1 DEF Finish
  <2>4. [copy[a] EXCEPT !.disabled = auth[on[a]].disabled] \in Auths
    BY <2>1 DEF Auths
  <2>5. auth' \in [Ids -> Auths] /\ missed' \subseteq Ids
    BY <1>17, <1>3, <2>1, <2>3, <2>4, RecordTypes
       DEF AttemptStep, Begin, MergeToken, Complete, FailLifecycle
  <2>6. QED
    BY <1>17, <2>2, <2>5 DEF AttemptStep, Begin, MergeToken, Complete, FailLifecycle
<1>18. QED
  BY <1>1, <1>4, <1>5, <1>6, <1>7, <1>8, <1>9, <1>11, <1>12, <1>13, <1>14, <1>15,
     <1>16, <1>17 DEF Next, vars, agentVars, CallerStep, Loop

LEMMA LoopTypesStep ==
  ASSUME TypeOK, [Next]_vars
  PROVE  LoopTypes'
<1> USE BoundAssumption, LoopAssumption, TypesSplit, NoRequestIsNone
    DEF LoopTypes, MaybeRequests
<1>1. ASSUME UNCHANGED <<loopVars, startupVars>>
      PROVE  LoopTypes'
  BY <1>1 DEF loopVars, startupVars
<1>2. ASSUME NEW i \in Ids, NEW r \in Requests, Enqueue(i, r),
             UNCHANGED <<pending, active, startup>>,
             listed' \in [Ids -> MaybeRequests]
      PROVE  LoopTypes'
  <2>1. [id |-> i, request |-> r] \in Posts
    BY DEF Posts
  <2>2. CASE Len(requests) < Buffer
    <3>1. requests' \in Seq(Posts) /\ Len(requests') = Len(requests) + 1
      BY <1>2, <2>1, <2>2, AppendProperties, SMTT(30) DEF Enqueue
    <3>2. QED
      BY <1>2, <2>2, <3>1, LenProperties DEF Enqueue
  <2>3. CASE ~(Len(requests) < Buffer)
    BY <1>2, <2>3 DEF Enqueue
  <2>4. QED
    BY <2>2, <2>3
<1>3. ASSUME NEW c \in Callers, Post(c)
      PROVE  LoopTypes'
  <2>1. on[c] \in Ids /\ req[c] \in Requests
    BY <1>3 DEF Post, AgentTypes, Agents
  <2>2. QED
    BY <1>2, <1>3, <2>1 DEF Post, startupVars
<1>4. ASSUME Starter
      PROVE  LoopTypes'
  <2>1. CASE StartLoop
    BY <2>1 DEF StartLoop, loopVars
  <2>2. CASE List
    BY <2>2, RequestOfType DEF List, loopVars, StoreTypes
  <2>3. ASSUME NEW i \in Ids, PostListed(i)
        PROVE  LoopTypes'
    <3>1. listed[i] \in Requests
      BY <2>3 DEF PostListed
    <3>2. QED
      BY <1>2, <2>3, <3>1 DEF PostListed
  <2>4. QED
    BY <1>4, <2>1, <2>2, <2>3 DEF Starter
<1>5. ASSUME TakeRequest
      PROVE  LoopTypes'
  <2>1. Head(requests) \in Posts /\ Tail(requests) \in Seq(Posts)
        /\ Len(Tail(requests)) = Len(requests) - 1
    BY <1>5, HeadTailProperties DEF TakeRequest
  <2>2. requests' \in Seq(Posts) /\ Len(requests') <= Buffer
    BY <1>5, <2>1, LenProperties DEF TakeRequest
  <2>3. Head(requests).id \in Ids /\ Head(requests).request \in Requests
    BY <2>1 DEF Posts
  <2>4. QED
    BY <1>5, <2>2, <2>3 DEF TakeRequest, startupVars
<1>6. ASSUME NEW i \in Ids, DrainOverflow(i)
      PROVE  LoopTypes'
  BY <1>6 DEF DrainOverflow, startupVars
<1>7. ASSUME NEW i \in Ids, NEW a \in Attempts, Dispatch(i, a)
      PROVE  LoopTypes'
  BY <1>7 DEF Dispatch, startupVars
<1>8. ASSUME NEW a \in Attempts, TakeResult(a)
      PROVE  LoopTypes'
  BY <1>8 DEF TakeResult, startupVars, AgentTypes, Agents
<1>9. QED
  BY <1>1, <1>3, <1>4, <1>5, <1>6, <1>7, <1>8
     DEF Next, vars, CallerStep, AttemptStep, Loop, StartWrite, Import,
         MarkRateLimited, Write, Queue, Remove, Invalidate, Begin, MergeToken,
         Complete, FailLifecycle, loopVars, startupVars

LEMMA InitTypes == Init => TypeOK
<1> SUFFICES ASSUME Init
             PROVE  TypeOK
  OBVIOUS
<1> USE BoundAssumption, LoopAssumption, AgentAssumption, TypesSplit DEF Init
<1>1. AgentTypes
  BY DEF AgentTypes, Agents, Phases, CallerPhases, AttemptPhases, MaybeRequests
<1>2. Loaded \subseteq Auths
  <2>1. ASSUME NEW record \in [present : {TRUE}, login : {0, 1}, initializing : BOOLEAN,
                               rec : {0, 1}, disabled : BOOLEAN],
               record.initializing <=> record.login = 1
        PROVE  record \in Auths
    <3>1. record.initializing => record.login # 0
      BY <2>1
    <3>2. {0, 1} \subseteq 0 .. MaxLogins /\ {0, 1} \subseteq 0 .. MaxRecoveries
      OBVIOUS
    <3>3. QED
      BY <3>1, <3>2 DEF Auths
  <2>2. QED
    BY <2>1, RecordTypes DEF Loaded
<1>3. StoreTypes
  <2>1. auth \in [Ids -> Auths] /\ copy \in [Agents -> Auths] /\ missed \subseteq Ids
    BY <1>2, RecordTypes
  <2>2. logins \in 0 .. MaxLogins /\ recoveries \in 0 .. MaxRecoveries
    OBVIOUS
  <2>3. QED
    BY <2>1, <2>2 DEF StoreTypes
<1>4. LoopTypes
  BY EmptySeq DEF LoopTypes, MaybeRequests, Posts
<1>5. QED
  BY <1>1, <1>3, <1>4

(* Every variable of the loop keeps its type; in particular the channel    *)
(* never holds more than its capacity and only requests are ever posted.   *)
THEOREM RecoveryTypes == Spec => []TypeOK
<1>1. TypeOK /\ [Next]_vars => TypeOK'
  BY AgentTypesStep, StoreTypesStep, LoopTypesStep, TypesSplit
     DEF TypeOK, AgentTypes, StoreTypes, LoopTypes, Posts, MaybeRequests
<1>2. QED
  BY InitTypes, <1>1, PTL DEF Spec

-----------------------------------------------------------------------------
(* Where a request may be.                                                 *)

Contains(s, x) == \E k \in 1 .. Len(s) : s[k] = x

Asking(i, r) == \E c \in Callers : on[c] = i /\ (at[c] = "queueing" \/ req[c] = r)

Underway(i, r) ==
  \/ listed[i] = r
  \/ Asking(i, r)
  \/ Contains(requests, [id |-> i, request |-> r])
  \/ overflow[i] = r
  \/ pending[i] = r
  \/ Working(i, r)

Kept(i) ==
  \/ RequestOf(auth[i]) = NoRequest
  \/ i \in missed
  \/ startup # "started"
  \/ Underway(i, RequestOf(auth[i]))

LEMMA KeptIsRequestKept == RequestKept <=> \A i \in Ids : Kept(i)
BY DEF RequestKept, Kept, Underway, Asking, Contains

LEMMA AppendContains ==
  ASSUME NEW S, NEW s \in Seq(S), NEW e \in S, NEW x, Contains(s, x) \/ x = e
  PROVE  Contains(Append(s, e), x)
<1>1. CASE Contains(s, x)
  <2>1. PICK k \in 1 .. Len(s) : s[k] = x
    BY <1>1 DEF Contains
  <2>2. k \in 1 .. Len(Append(s, e)) /\ Append(s, e)[k] = x
    BY <2>1, AppendProperties, LenProperties
  <2>3. QED
    BY <2>2 DEF Contains
<1>2. CASE x = e
  <2>1. Len(s) + 1 \in 1 .. Len(Append(s, e)) /\ Append(s, e)[Len(s) + 1] = e
    BY AppendProperties, LenProperties
  <2>2. QED
    BY <1>2, <2>1 DEF Contains
<1>3. QED
  BY <1>1, <1>2

LEMMA TailContains ==
  ASSUME NEW S, NEW s \in Seq(S), s # << >>, NEW x, Contains(s, x), x # Head(s)
  PROVE  Contains(Tail(s), x)
<1>1. PICK k \in 1 .. Len(s) : s[k] = x
  BY DEF Contains
<1>2. k # 1
  BY <1>1, HeadTailProperties
<1>3. k - 1 \in 1 .. Len(Tail(s)) /\ Tail(s)[k - 1] = s[k]
  BY <1>1, <1>2, HeadTailProperties, LenProperties
<1>4. QED
  BY <1>1, <1>3 DEF Contains

-----------------------------------------------------------------------------
(* What else has to hold for RequestKept to be kept.                       *)

(* An idle agent has no credential, and nobody a request before it posts   *)
(* or works for one.                                                       *)
AgentsClean ==
  \A a \in Agents : /\ at[a] = "idle" => on[a] = NoId
                    /\ at[a] \in {"idle", "writing", "queueing"} => req[a] = NoRequest

(* The clone an initialization works on asks for that initialization.      *)
Merging ==
  \A a \in Attempts :
    at[a] = "asking" =>
      /\ copy[a].present /\ copy[a].initializing
      /\ req[a] = Initialization(copy[a].login)

KeepInv == TypeOK /\ AgentsClean /\ Merging /\ RequestKept

LEMMA AgentsCleanStep ==
  ASSUME TypeOK, AgentsClean, [Next]_vars
  PROVE  AgentsClean'
<1> AgentTypes /\ StoreTypes /\ LoopTypes
  BY TypesSplit
<1> USE DEF AgentsClean, AgentTypes, Agents, CallerPhases, AttemptPhases
<1>1. CASE UNCHANGED agentVars
  BY <1>1 DEF agentVars
<1>2. ASSUME NEW a \in Agents, Return(a)
      PROVE  AgentsClean'
  BY <1>2 DEF Return, Become
<1>3. ASSUME NEW c \in Callers, NEW i \in Ids,
             StartWrite(c, i) \/ Import(c, i) \/ MarkRateLimited(c, i)
      PROVE  AgentsClean'
  <2>1. PICK phase \in {"writing", "queueing"} : Begins(c, i, phase) /\ UNCHANGED req
    BY <1>3 DEF StartWrite, Import, MarkRateLimited
  <2>2. QED
    BY <2>1 DEF Begins, Become
<1>4. ASSUME NEW c \in Callers, CallerStep(c)
      PROVE  AgentsClean'
  BY <1>4, <1>2 DEF CallerStep, Write, Queue, Post, Become
<1>5. ASSUME NEW a \in Attempts, AttemptStep(a)
      PROVE  AgentsClean'
  BY <1>5 DEF AttemptStep, Begin, MergeToken, Complete, FailLifecycle, End, Become
<1>6. ASSUME NEW i \in Ids, NEW a \in Attempts, Dispatch(i, a)
      PROVE  AgentsClean'
  BY <1>6 DEF Dispatch, Begins, Become
<1>7. ASSUME NEW a \in Attempts, TakeResult(a)
      PROVE  AgentsClean'
  BY <1>7, <1>2 DEF TakeResult
<1>8. QED
  BY <1>1, <1>3, <1>4, <1>5, <1>6, <1>7
     DEF Next, vars, Starter, Loop, Remove, Invalidate, StartLoop, List,
         PostListed, TakeRequest, DrainOverflow, agentVars

LEMMA MergingStep ==
  ASSUME TypeOK, Merging, [Next]_vars
  PROVE  Merging'
<1> AgentTypes /\ StoreTypes /\ LoopTypes
  BY TypesSplit
<1> USE AgentAssumption DEF Merging, AgentTypes, Agents, CallerPhases, AttemptPhases
<1>1. CASE UNCHANGED agentVars
  BY <1>1 DEF agentVars
<1>2. ASSUME NEW c \in Callers,
             \A a \in Attempts : at'[a] = at[a] /\ copy'[a] = copy[a] /\ req'[a] = req[a]
      PROVE  Merging'
  BY <1>2
<1>3. ASSUME NEW c \in Callers, NEW i \in Ids,
             StartWrite(c, i) \/ Import(c, i) \/ MarkRateLimited(c, i)
      PROVE  Merging'
  BY <1>3, <1>2 DEF StartWrite, Import, MarkRateLimited, Begins, Become, StoreTypes
<1>4. ASSUME NEW c \in Callers, CallerStep(c)
      PROVE  Merging'
  BY <1>4, <1>2 DEF CallerStep, Write, Queue, Post, Return, Become, StoreTypes
<1>5. ASSUME NEW a \in Attempts, Begin(a)
      PROVE  Merging'
  <2>1. CASE at'[a] = "asking"
    <3>1. Current(a) /\ req[a].kind = "initialization" /\ copy' = [copy EXCEPT ![a] = auth[on[a]]]
      BY <1>5, <2>1 DEF Begin, Become
    <3>2. auth[on[a]].present /\ auth[on[a]].initializing
          /\ req[a] = Initialization(auth[on[a]].login)
      BY <3>1 DEF Current, Matches, Enabled, Initialization, Recovery
    <3>3. QED
      BY <1>5, <3>1, <3>2 DEF Begin, Become, StoreTypes
  <2>2. CASE at'[a] # "asking"
    BY <1>5, <2>2 DEF Begin, Become, StoreTypes
  <2>3. QED
    BY <2>1, <2>2
<1>6. ASSUME NEW a \in Attempts, MergeToken(a) \/ Complete(a) \/ FailLifecycle(a)
      PROVE  Merging'
  BY <1>6 DEF MergeToken, Complete, FailLifecycle, End, Become, StoreTypes
<1>7. ASSUME NEW i \in Ids, NEW a \in Attempts, Dispatch(i, a)
      PROVE  Merging'
  BY <1>7 DEF Dispatch, Begins, Become, StoreTypes
<1>8. ASSUME NEW a \in Attempts, TakeResult(a)
      PROVE  Merging'
  BY <1>8 DEF TakeResult, Return, Become, StoreTypes
<1>9. QED
  BY <1>1, <1>3, <1>4, <1>5, <1>6, <1>7, <1>8
     DEF Next, vars, AttemptStep, Starter, Loop, Remove, Invalidate, StartLoop,
         List, PostListed, TakeRequest, DrainOverflow, agentVars

-----------------------------------------------------------------------------
(* A request is kept by each of the steps.                                 *)

(* Storing a record touches what the others ask for in nothing.            *)
LEMMA StoreOthers ==
  ASSUME NEW i \in Ids, NEW j \in Ids, NEW record, auth \in [Ids -> Auths],
         Store(i, record),
         j # i \/ RequestOf(record) = RequestOf(auth[i])
  PROVE  /\ RequestOf(auth'[j]) = RequestOf(auth[j])
         /\ j \in missed => j \in missed'
BY DEF Store

(* What is dropped is missed.                                              *)
LEMMA DropMisses ==
  ASSUME NEW i \in Ids, NEW r, Drop(i, r)
  PROVE  /\ missed \subseteq missed'
         /\ r = RequestOf(auth[i]) /\ r # NoRequest => i \in missed'
BY DEF Drop

LEMMA EnqueueKeeps ==
  ASSUME TypeOK, NEW i \in Ids, NEW r \in Requests, Enqueue(i, r),
         NEW j \in Ids, NEW x, x = RequestOf(auth[j]), x # NoRequest
  PROVE  \/ j \in missed'
         \/ /\ Contains(requests, [id |-> j, request |-> x]) =>
                 Contains(requests', [id |-> j, request |-> x])
            /\ overflow[j] = x => overflow'[j] = x
            /\ j = i /\ x = r =>
                 \/ Contains(requests', [id |-> j, request |-> x])
                 \/ overflow'[j] = x
<1> LoopTypes
  BY TypesSplit
<1>1. CASE Len(requests) < Buffer
  <2>1. [id |-> i, request |-> r] \in Posts
    BY DEF Posts
  <2>2. requests' = Append(requests, [id |-> i, request |-> r]) /\ UNCHANGED overflow
    BY <1>1 DEF Enqueue
  <2>3. QED
    BY <2>1, <2>2, AppendContains DEF LoopTypes
<1>2. CASE ~(Len(requests) < Buffer)
  <2>1. /\ overflow' = [overflow EXCEPT ![i] = r]
        /\ Drop(i, IF overflow[i] = r THEN NoRequest ELSE overflow[i])
        /\ UNCHANGED requests
    BY <1>2 DEF Enqueue, Supersede
  <2>2. CASE j = i /\ overflow[j] = x /\ x # r
    BY <2>1, <2>2, DropMisses
  <2>3. CASE ~(j = i /\ overflow[j] = x /\ x # r)
    BY <2>1, <2>3 DEF LoopTypes
  <2>4. QED
    BY <2>2, <2>3
<1>3. QED
  BY <1>1, <1>2

(* An agent that will do something for request r of i yet.                 *)
Holds(a, i, r) ==
  \/ a \in Callers /\ on[a] = i /\ (at[a] = "queueing" \/ req[a] = r)
  \/ a \in Attempts /\ on[a] = i /\ req[a] = r /\ at[a] # "ended"

InLoop(i, r) ==
  \/ listed[i] = r
  \/ Contains(requests, [id |-> i, request |-> r])
  \/ overflow[i] = r
  \/ pending[i] = r

LEMMA UnderwaySplit ==
  ASSUME NEW i, NEW r
  PROVE  Underway(i, r) <=> InLoop(i, r) \/ \E a \in Agents : Holds(a, i, r)
BY AgentAssumption DEF Underway, InLoop, Holds, Asking, Working, Agents

(* A step that leaves the loop alone keeps a request unless its one agent  *)
(* held it and does not any more.                                          *)
LEMMA AgentKeeps ==
  ASSUME NEW j \in Ids, NEW a \in Agents, Kept(j),
         \A b \in Agents \ {a} : at'[b] = at[b] /\ on'[b] = on[b] /\ req'[b] = req[b],
         UNCHANGED <<loopVars, startupVars>>,
         RequestOf(auth'[j]) = RequestOf(auth[j]),
         j \in missed => j \in missed',
         RequestOf(auth[j]) # NoRequest /\ Holds(a, j, RequestOf(auth[j])) =>
           Holds(a, j, RequestOf(auth[j]))'
  PROVE  Kept(j)'
<1> DEFINE x == RequestOf(auth[j])
<1> HIDE DEF x
<1>1. CASE x = NoRequest \/ j \in missed \/ startup # "started"
  BY <1>1 DEF Kept, x, startupVars
<1>2. CASE x # NoRequest /\ InLoop(j, x)
  <2>1. Underway(j, x)'
    BY <1>2 DEF InLoop, Underway, Contains, x, loopVars, startupVars
  <2>2. QED
    BY <2>1 DEF Kept, x
<1>3. ASSUME NEW b \in Agents, Holds(b, j, x), x # NoRequest
      PROVE  Kept(j)'
  <2>1. Holds(b, j, x)'
    BY <1>3 DEF Holds, x
  <2>2. QED
    BY <2>1, AgentAssumption DEF Kept, Underway, Asking, Working, Holds, Agents, x
<1>4. QED
  BY <1>1, <1>2, <1>3, UnderwaySplit DEF Kept, x

(* What an agent queues now will be posted.                                *)
LEMMA QueueingKeeps ==
  ASSUME NEW j \in Ids, NEW c \in Callers, on'[c] = j, at'[c] = "queueing"
  PROVE  Kept(j)'
BY DEF Kept, Underway, Asking

(* A request is posted, and whoever had it may forget it.                  *)
LEMMA PostingKeeps ==
  ASSUME TypeOK, NEW j \in Ids, Kept(j), NEW i \in Ids, NEW r \in Requests,
         Enqueue(i, r), UNCHANGED <<auth, pending, startup>>,
         RequestOf(auth[j]) # NoRequest =>
           \A a \in Agents :
             Holds(a, j, RequestOf(auth[j])) =>
               Holds(a, j, RequestOf(auth[j]))' \/ (j = i /\ r = RequestOf(auth[j])),
         listed[j] = RequestOf(auth[j]) =>
           listed'[j] = RequestOf(auth[j]) \/ (j = i /\ r = RequestOf(auth[j]))
  PROVE  Kept(j)'
<1> DEFINE x == RequestOf(auth[j])
<1>1. x' = x
  OBVIOUS
<1> HIDE DEF x
<1>2. CASE x = NoRequest \/ startup # "started"
  BY <1>1, <1>2 DEF Kept, x
<1>3. missed \subseteq missed'
  BY DropMisses DEF Enqueue, Supersede
<1>4. CASE j \in missed'
  BY <1>4 DEF Kept
<1>5. CASE x # NoRequest /\ j \notin missed' /\ startup = "started"
  <2>1. /\ Contains(requests, [id |-> j, request |-> x]) =>
             Contains(requests', [id |-> j, request |-> x])
        /\ overflow[j] = x => overflow'[j] = x
        /\ j = i /\ x = r =>
             Contains(requests', [id |-> j, request |-> x]) \/ overflow'[j] = x
    BY <1>5, EnqueueKeeps DEF x
  <2>2. CASE j = i /\ x = r
    BY <1>1, <2>1, <2>2 DEF Kept, Underway, Contains, x
  <2>3. CASE ~(j = i /\ x = r) /\ InLoop(j, x)
    <3>1. Contains(requests', [id |-> j, request |-> x]) \/ overflow'[j] = x
          \/ pending'[j] = x \/ listed'[j] = x
      BY <2>1, <2>3 DEF InLoop, x
    <3>2. QED
      BY <1>1, <3>1 DEF Kept, Underway, Contains, x
  <2>4. ASSUME ~(j = i /\ x = r), NEW a \in Agents, Holds(a, j, x)
        PROVE  Kept(j)'
    <3>1. Holds(a, j, x)'
      BY <1>1, <1>5, <2>4 DEF x, Holds
    <3>2. QED
      BY <3>1, AgentAssumption DEF Kept, Underway, Asking, Working, Holds, Agents, x
  <2>5. QED
    BY <1>3, <1>5, <2>2, <2>3, <2>4, UnderwaySplit DEF Kept, x
<1>6. QED
  BY <1>2, <1>4, <1>5

LEMMA CallersKeep ==
  ASSUME KeepInv, NEW j \in Ids, NEW c \in Callers,
         \/ \E i \in Ids : StartWrite(c, i) \/ Import(c, i) \/ MarkRateLimited(c, i)
         \/ CallerStep(c)
  PROVE  Kept(j)'
<1> /\ TypeOK /\ AgentsClean /\ Merging /\ Kept(j)
    /\ AgentTypes /\ StoreTypes /\ LoopTypes
  BY KeptIsRequestKept, TypesSplit DEF KeepInv
<1> c \in Agents /\ c \notin Attempts
  BY AgentAssumption DEF Agents
<1> USE DEF Become
<1>1. ASSUME NEW i \in Ids, StartWrite(c, i)
      PROVE  Kept(j)'
  <2>1. ~Holds(c, j, RequestOf(auth[j]))
    BY <1>1, AgentAssumption DEF StartWrite, Begins, Holds, AgentsClean
  <2>2. QED
    BY <1>1, <2>1, AgentKeeps DEF StartWrite, Begins, AgentTypes, storeVars
<1>2. ASSUME NEW i \in Ids, Import(c, i) \/ MarkRateLimited(c, i)
      PROVE  Kept(j)'
  <2>1. PICK record : Store(i, record)
    BY <1>2 DEF Import, MarkRateLimited
  <2>2. at[c] = "idle" /\ Begins(c, i, "queueing") /\ UNCHANGED <<req, loopVars, startupVars>>
    BY <1>2 DEF Import, MarkRateLimited, Begins
  <2>3. CASE i = j
    BY <2>2, <2>3, QueueingKeeps DEF Begins, AgentTypes
  <2>4. CASE i # j
    <3>1. RequestOf(auth'[j]) = RequestOf(auth[j]) /\ (j \in missed => j \in missed')
      BY <2>1, <2>4, StoreOthers DEF StoreTypes
    <3>2. ~Holds(c, j, RequestOf(auth[j]))
      BY <2>2, AgentAssumption DEF Holds, AgentsClean
    <3>3. QED
      BY <2>2, <3>1, <3>2, AgentKeeps DEF Begins, AgentTypes
  <2>5. QED
    BY <2>3, <2>4
<1>3. CASE Write(c)
  <2>1. RequestOf(auth[j]) # NoRequest => ~Holds(c, j, RequestOf(auth[j]))
    BY <1>3 DEF Write, Holds, AgentsClean
  <2>2. CASE auth[on[c]].present /\ on[c] = j
    BY <1>3, <2>2, QueueingKeeps DEF Write, AgentTypes
  <2>3. CASE auth[on[c]].present /\ on[c] # j
    <3>1. Store(on[c], copy[c]) /\ on[c] \in Ids
      BY <1>3, <2>3 DEF Write, AgentTypes
    <3>2. RequestOf(auth'[j]) = RequestOf(auth[j]) /\ (j \in missed => j \in missed')
      BY <3>1, <2>3, StoreOthers DEF StoreTypes
    <3>3. QED
      BY <1>3, <2>1, <2>3, <3>2, AgentKeeps DEF Write, AgentTypes
  <2>4. CASE ~auth[on[c]].present
    BY <1>3, <2>1, <2>4, AgentKeeps DEF Write, Return, AgentTypes
  <2>5. QED
    BY <2>2, <2>3, <2>4
<1>4. CASE Queue(c)
  <2>1. CASE startup = "loading" \/ (on[c] = j /\ RequestOf(auth[j]) = NoRequest)
    BY <1>4, <2>1 DEF Queue, Kept, storeVars, startupVars
  <2>2. CASE startup # "loading" /\ on[c] = j /\ RequestOf(auth[j]) # NoRequest
    BY <1>4, <2>2 DEF Queue, Kept, Underway, Asking, storeVars, AgentTypes
  <2>3. CASE on[c] # j
    <3>1. ~Holds(c, j, RequestOf(auth[j]))
      BY <2>3 DEF Holds
    <3>2. UNCHANGED auth /\ (j \in missed => j \in missed')
      BY <1>4, <2>3 DEF Queue, storeVars
    <3>3. QED
      BY <1>4, <3>1, <3>2, AgentKeeps DEF Queue, Return, AgentTypes
  <2>4. QED
    BY <2>1, <2>2, <2>3
<1>5. CASE Post(c)
  <2>1. /\ on[c] \in Ids /\ req[c] \in Requests
        /\ Enqueue(on[c], req[c])
        /\ UNCHANGED <<auth, pending, startup, listed>>
    BY <1>5 DEF Post, AgentTypes, MaybeRequests, storeVars, startupVars
  <2>2. \A a \in Agents : Holds(a, j, RequestOf(auth[j])) =>
          Holds(a, j, RequestOf(auth[j]))' \/ (j = on[c] /\ req[c] = RequestOf(auth[j]))
    BY <1>5, <2>1 DEF Post, Return, Holds, AgentTypes
  <2>3. QED
    BY <2>1, <2>2, PostingKeeps
<1>6. QED
  BY <1>1, <1>2, <1>3, <1>4, <1>5 DEF CallerStep

LEMMA StarterKeeps ==
  ASSUME KeepInv, NEW j \in Ids, Starter
  PROVE  Kept(j)'
<1> TypeOK /\ Kept(j) /\ StoreTypes /\ LoopTypes
  BY KeptIsRequestKept, TypesSplit DEF KeepInv
<1>1. CASE StartLoop
  BY <1>1 DEF StartLoop, Kept
<1>2. CASE List
  <2>1. listed'[j] = RequestOf(auth'[j])
    BY <1>2 DEF List, storeVars
  <2>2. QED
    BY <2>1 DEF Kept, Underway
<1>3. ASSUME NEW i \in Ids, PostListed(i)
      PROVE  Kept(j)'
  <2>1. /\ listed[i] \in Requests
        /\ Enqueue(i, listed[i])
        /\ UNCHANGED <<auth, pending, startup>>
        /\ listed[j] = RequestOf(auth[j]) =>
             listed'[j] = RequestOf(auth[j]) \/ (j = i /\ listed[i] = RequestOf(auth[j]))
    BY <1>3 DEF PostListed, storeVars, LoopTypes, MaybeRequests
  <2>2. \A a \in Agents :
          Holds(a, j, RequestOf(auth[j])) => Holds(a, j, RequestOf(auth[j]))'
    BY <1>3 DEF PostListed, agentVars, storeVars, Holds
  <2>3. QED
    BY <2>1, <2>2, PostingKeeps
<1>4. QED
  BY <1>1, <1>2, <1>3 DEF Starter

LEMMA RemovalsKeep ==
  ASSUME KeepInv, NEW j \in Ids, NEW i \in Ids, Remove(i) \/ Invalidate(i)
  PROVE  Kept(j)'
<1> TypeOK /\ Kept(j) /\ StoreTypes /\ LoopTypes
  BY KeptIsRequestKept, TypesSplit DEF KeepInv
<1>1. PICK record : Store(i, record) /\ ~Enabled(record)
  BY DEF Remove, Invalidate, Enabled, Absent, StoreTypes, Auths
<1>2. UNCHANGED <<agentVars, loopVars, startupVars>>
  BY DEF Remove, Invalidate
<1>3. CASE i = j
  BY <1>1, <1>3 DEF Store, Kept, RequestOf, StoreTypes
<1>4. CASE i # j
  <2>1. RequestOf(auth'[j]) = RequestOf(auth[j]) /\ (j \in missed => j \in missed')
    BY <1>1, <1>4, StoreOthers DEF StoreTypes
  <2>2. QED
    BY <1>2, <2>1 DEF Kept, Underway, Asking, Contains, Working, agentVars,
                      loopVars, startupVars
<1>5. QED
  BY <1>3, <1>4

LEMMA LoopKeeps ==
  ASSUME KeepInv, NEW j \in Ids, Loop
  PROVE  Kept(j)'
<1> /\ TypeOK /\ AgentsClean /\ Kept(j)
    /\ AgentTypes /\ StoreTypes /\ LoopTypes
  BY KeptIsRequestKept, TypesSplit DEF KeepInv
<1> SUFFICES ASSUME NEW CONSTANT x, x = RequestOf(auth[j])
             PROVE  Kept(j)'
  OBVIOUS
<1>1. UNCHANGED <<auth, startup, listed>>
  BY DEF Loop, TakeRequest, DrainOverflow, Dispatch, TakeResult, storeVars, startupVars
<1>2. RequestOf(auth'[j]) = x
  BY <1>1
<1>3. missed \subseteq missed'
  BY DEF Loop, TakeRequest, DrainOverflow, Dispatch, TakeResult, Supersede, Drop
<1>4. CASE x = NoRequest \/ j \in missed' \/ startup # "started"
  BY <1>1, <1>2, <1>4 DEF Kept
<1>5. CASE x # NoRequest /\ j \notin missed' /\ startup = "started"
  <2> SUFFICES InLoop(j, x)' \/ \E a \in Agents : Holds(a, j, x)'
    BY <1>2, AgentAssumption
       DEF Kept, Underway, Asking, Working, Holds, Agents, InLoop, Contains
  <2>1. InLoop(j, x) \/ \E a \in Agents : Holds(a, j, x)
    BY <1>3, <1>5, UnderwaySplit DEF Kept
  <2>2. CASE TakeRequest
    <3>1. /\ requests' = Tail(requests) /\ UNCHANGED <<agentVars, overflow, active>>
          /\ Head(requests) \in Posts
      BY <2>2, HeadTailProperties DEF TakeRequest, LoopTypes
    <3>2. CASE Head(requests) = [id |-> j, request |-> x]
      <4>1. Head(requests).id = j /\ Head(requests).request = x
        BY <3>2
      <4>2. CASE active[j] = x
        <5>1. Working(j, x)
          BY <1>5, <2>2, <4>1, <4>2 DEF TakeRequest, Drop
        <5>2. QED
          BY <3>1, <5>1, AgentAssumption DEF Working, Holds, Agents, agentVars
      <4>3. CASE active[j] # x
        BY <2>2, <4>1, <4>3 DEF TakeRequest, InLoop, LoopTypes
      <4>4. QED
        BY <4>2, <4>3
    <3>3. CASE Head(requests) # [id |-> j, request |-> x]
      <4>1. Contains(requests, [id |-> j, request |-> x]) =>
              Contains(requests', [id |-> j, request |-> x])
        BY <2>2, <3>1, <3>3, TailContains DEF TakeRequest, LoopTypes
      <4>2. pending[j] = x => pending'[j] = x
        BY <1>5, <2>2 DEF TakeRequest, Supersede, Drop, LoopTypes
      <4>3. QED
        BY <1>1, <2>1, <3>1, <4>1, <4>2 DEF InLoop, Contains, Holds, agentVars
    <3>4. QED
      BY <3>2, <3>3
  <2>3. ASSUME NEW i \in Ids, DrainOverflow(i)
        PROVE  InLoop(j, x)' \/ \E a \in Agents : Holds(a, j, x)'
    <3>1. overflow[j] = x => overflow'[j] = x \/ pending'[j] = x
      BY <2>3 DEF DrainOverflow, LoopTypes
    <3>2. pending[j] = x => pending'[j] = x
      BY <1>5, <2>3 DEF DrainOverflow, Supersede, Drop, LoopTypes
    <3>3. UNCHANGED <<agentVars, requests>>
      BY <2>3 DEF DrainOverflow
    <3>4. QED
      BY <1>1, <2>1, <3>1, <3>2, <3>3 DEF InLoop, Contains, Holds, agentVars
  <2>4. ASSUME NEW i \in Ids, NEW a \in Attempts, Dispatch(i, a)
        PROVE  InLoop(j, x)' \/ \E b \in Agents : Holds(b, j, x)'
    <3>1. /\ a \in Agents /\ ~Holds(a, j, x) /\ UNCHANGED <<requests, overflow>>
          /\ \A b \in Agents \ {a} : at'[b] = at[b] /\ on'[b] = on[b] /\ req'[b] = req[b]
      BY <2>4, AgentAssumption
         DEF Dispatch, Begins, Become, Agents, AgentsClean, Holds, AgentTypes
    <3>2. CASE pending[j] = x /\ i = j
      BY <2>4, <3>1, <3>2 DEF Dispatch, Begins, Become, Holds, AgentTypes
    <3>3. CASE ~(pending[j] = x /\ i = j)
      <4>1. pending[j] = x => pending'[j] = x
        BY <2>4, <3>3 DEF Dispatch, LoopTypes
      <4>2. InLoop(j, x) => InLoop(j, x)'
        BY <1>1, <3>1, <4>1 DEF InLoop, Contains
      <4>3. ASSUME NEW b \in Agents, Holds(b, j, x)
            PROVE  Holds(b, j, x)'
        BY <3>1, <4>3 DEF Holds
      <4>4. QED
        BY <2>1, <4>2, <4>3
    <3>4. QED
      BY <3>2, <3>3
  <2>5. ASSUME NEW a \in Attempts, TakeResult(a)
        PROVE  InLoop(j, x)' \/ \E b \in Agents : Holds(b, j, x)'
    <3>1. /\ a \in Agents /\ a \notin Callers /\ UNCHANGED <<requests, overflow>>
          /\ \A b \in Agents \ {a} : at'[b] = at[b] /\ on'[b] = on[b] /\ req'[b] = req[b]
      BY <2>5, AgentAssumption DEF TakeResult, Return, Become, Agents, AgentTypes
    <3>2. pending[j] = x => pending'[j] = x
      BY <1>5, <2>5 DEF TakeResult, LoopTypes
    <3>3. InLoop(j, x) => InLoop(j, x)'
      BY <1>1, <3>1, <3>2 DEF InLoop, Contains
    <3>4. CASE Holds(a, j, x)
      <4>1. on[a] = j /\ req[a] = x /\ at[a] = "again"
        BY <2>5, <3>1, <3>4 DEF Holds, TakeResult
      <4>2. pending'[j] = x
        BY <1>5, <2>5, <4>1 DEF TakeResult, Drop, LoopTypes
      <4>3. QED
        BY <4>2 DEF InLoop
    <3>5. ASSUME NEW b \in Agents, Holds(b, j, x), b # a
          PROVE  Holds(b, j, x)'
      BY <3>1, <3>5 DEF Holds
    <3>6. QED
      BY <2>1, <3>3, <3>4, <3>5
  <2>6. QED
    BY <2>2, <2>3, <2>4, <2>5 DEF Loop
<1>6. QED
  BY <1>4, <1>5

LEMMA AttemptsKeep ==
  ASSUME KeepInv, NEW j \in Ids, NEW a \in Attempts, AttemptStep(a)
  PROVE  Kept(j)'
<1> /\ TypeOK /\ AgentsClean /\ Merging /\ Kept(j)
    /\ AgentTypes /\ StoreTypes /\ LoopTypes
  BY KeptIsRequestKept, TypesSplit DEF KeepInv
<1> SUFFICES ASSUME NEW CONSTANT x, x = RequestOf(auth[j])
             PROVE  Kept(j)'
  OBVIOUS
<1>1. /\ a \in Agents /\ a \notin Callers /\ on[a] \in Ids
      /\ on' = on /\ req' = req /\ UNCHANGED <<loopVars, startupVars>>
      /\ \A b \in Agents \ {a} : at'[b] = at[b]
  BY AgentAssumption DEF AttemptStep, Begin, MergeToken, Complete, FailLifecycle, End, Become,
     Agents, AgentTypes
(* An attempt that goes on, or is for something else.                      *)
<1>2. ASSUME RequestOf(auth'[j]) = x, j \in missed => j \in missed',
             x # NoRequest /\ on[a] = j /\ req[a] = x => at'[a] # "ended"
      PROVE  Kept(j)'
  <2>1. x # NoRequest /\ Holds(a, j, x) => Holds(a, j, x)'
    BY <1>1, <1>2 DEF Holds
  <2>2. QED
    BY <1>1, <1>2, <2>1, AgentKeeps
<1>3. x # NoRequest /\ on[a] = j /\ req[a] = x => Current(a)
  BY AskedIsCurrent DEF Current, StoreTypes
<1>4. CASE Begin(a)
  BY <1>2, <1>3, <1>4 DEF Begin, Become, storeVars, AgentTypes
<1>5. CASE MergeToken(a)
  <2>1. CASE ~Current(a)
    BY <1>2, <1>3, <1>5, <2>1 DEF MergeToken
  <2>2. CASE Current(a)
    <3> DEFINE record == [copy[a] EXCEPT !.disabled = auth[on[a]].disabled]
    <3>1. Store(on[a], record) /\ End(a, "calling")
      BY <1>5, <2>2 DEF MergeToken
    <3>5. at'[a] = "calling"
      BY <1>1, <3>1 DEF End, Become, AgentTypes
    <3>2. RequestOf(record) = req[a]
      <4>1. copy[a] \in Auths /\ auth[on[a]] \in Auths
        BY <1>1 DEF StoreTypes
      <4>2. /\ record.present = copy[a].present
            /\ record.initializing = copy[a].initializing
            /\ record.login = copy[a].login
            /\ record.disabled = auth[on[a]].disabled
        BY <4>1 DEF Auths
      <4>3. copy[a].present /\ copy[a].initializing /\ req[a] = Initialization(copy[a].login)
        BY <1>5 DEF MergeToken, Merging
      <4>4. ~auth[on[a]].disabled
        BY <2>2 DEF Current, Matches, Enabled
      <4> HIDE DEF record
      <4>5. Enabled(record) /\ record.initializing
        BY <4>2, <4>3, <4>4 DEF Enabled
      <4>6. QED
        BY <4>2, <4>3, <4>5 DEF RequestOf
    <3> HIDE DEF record
    <3>3. CASE on[a] = j
      <4>1. RequestOf(auth'[j]) = req[a]
        BY <3>1, <3>2, <3>3 DEF Store, StoreTypes
      <4>2. on'[a] = j /\ req'[a] = RequestOf(auth'[j]) /\ at'[a] # "ended"
        BY <1>1, <3>5, <3>3, <4>1
      <4>3. QED
        BY <4>2 DEF Kept, Underway, Working
    <3>4. CASE on[a] # j
      <4>1. RequestOf(auth'[j]) = x /\ (j \in missed => j \in missed')
        BY <1>1, <3>1, <3>4, StoreOthers DEF StoreTypes
      <4>2. QED
        BY <1>2, <3>4, <4>1
    <3>6. QED
      BY <3>3, <3>4
  <2>3. QED
    BY <2>1, <2>2
<1>6. CASE Complete(a)
  <2>1. CASE ~Current(a)
    BY <1>2, <1>3, <1>6, <2>1 DEF Complete
  <2>2. CASE Current(a)
    <3> DEFINE record == Met(auth[on[a]], req[a])
    <3>1. Finish(on[a], record)
      BY <1>6, <2>2 DEF Complete
    <3>2. CASE on[a] # j
      BY <1>1, <1>2, <3>1, <3>2 DEF Finish, StoreTypes
    <3>3. CASE on[a] = j /\ RequestOf(record) # x
      BY <1>1, <3>1, <3>3 DEF Finish, Kept, StoreTypes
    <3>4. CASE on[a] = j /\ RequestOf(record) = x
      <4>1. auth[j] \in Auths /\ Matches(auth[j], req[a])
        BY <2>2, <3>4 DEF Current, StoreTypes
      <4>2. x # NoRequest => req[a] # x
        BY <3>4, <4>1
           DEF Met, RequestOf, Matches, Enabled, Auths, Initialization, Recovery, NoRequest
      <4>3. RequestOf(auth'[j]) = x /\ missed' = missed
        BY <1>1, <3>1, <3>4 DEF Finish, StoreTypes
      <4>4. QED
        BY <1>2, <4>2, <4>3
    <3>5. QED
      BY <3>2, <3>3, <3>4
  <2>3. QED
    BY <2>1, <2>2
<1>7. CASE FailLifecycle(a)
  <2>1. CASE Current(a) /\ End(a, "again") /\ UNCHANGED <<auth, missed>>
    BY <1>1, <1>2, <2>1 DEF End, Become, AgentTypes
  <2>2. CASE ~Current(a) /\ UNCHANGED <<auth, missed>>
    BY <1>2, <1>3, <2>2
  <2>3. CASE Store(on[a], [auth[on[a]] EXCEPT !.disabled = TRUE])
    <3>1. CASE on[a] = j
      BY <1>1, <2>3, <3>1 DEF Store, Kept, RequestOf, Enabled, StoreTypes, Auths
    <3>2. CASE on[a] # j
      <4>1. RequestOf(auth'[j]) = x /\ (j \in missed => j \in missed')
        BY <1>1, <2>3, <3>2, StoreOthers DEF StoreTypes
      <4>2. QED
        BY <1>2, <3>2, <4>1
    <3>3. QED
      BY <3>1, <3>2
  <2>4. QED
    BY <1>7, <2>1, <2>2, <2>3 DEF FailLifecycle
<1>8. QED
  BY <1>4, <1>5, <1>6, <1>7 DEF AttemptStep

LEMMA RequestKeptStep ==
  ASSUME KeepInv, [Next]_vars
  PROVE  RequestKept'
<1> SUFFICES ASSUME NEW j \in Ids
             PROVE  Kept(j)'
  BY KeptIsRequestKept DEF Kept, Underway, Asking, Contains, RequestKept
<1>1. CASE UNCHANGED vars
  <2>1. Kept(j)
    BY KeptIsRequestKept DEF KeepInv
  <2>2. QED
    BY <1>1, <2>1 DEF Kept, Underway, Asking, Contains, Working, vars, storeVars,
                      agentVars, loopVars, startupVars
<1>2. CASE Next
  BY <1>2, CallersKeep, StarterKeeps, RemovalsKeep, LoopKeeps, AttemptsKeep DEF Next
<1>3. QED
  BY <1>1, <1>2

(* Whatever is written over a credential and however the queue overflows,  *)
(* its initialization or recovery is under way, or its request is known to *)
(* be lost, for every number of credentials, goroutines and attempts: two  *)
(* attempts may run for one credential here, as in the code.               *)
THEOREM RequestsAreKept == Spec => []RequestKept
<1>1. Init => KeepInv
  <2> SUFFICES ASSUME Init
               PROVE  KeepInv
    OBVIOUS
  <2>1. TypeOK
    BY InitTypes
  <2>2. AgentsClean /\ Merging /\ RequestKept
    BY DEF Init, AgentsClean, Merging, RequestKept, Agents
  <2>3. QED
    BY <2>1, <2>2 DEF KeepInv
<1>2. KeepInv /\ [Next]_vars => KeepInv'
  <2>1. TypeOK /\ [Next]_vars => TypeOK'
    BY AgentTypesStep, StoreTypesStep, LoopTypesStep, TypesSplit
       DEF TypeOK, AgentTypes, StoreTypes, LoopTypes, Posts, MaybeRequests
  <2>2. QED
    BY <2>1, AgentsCleanStep, MergingStep, RequestKeptStep DEF KeepInv
<1>3. KeepInv => RequestKept
  BY DEF KeepInv
<1>4. QED
  BY <1>1, <1>2, <1>3, PTL DEF Spec

-----------------------------------------------------------------------------
(* What an attempt does                                                    *)

LEMMA OwnGenerationStep ==
  ASSUME TypeOK, Merging, [Next]_vars, NEW a \in Attempts, at[a] # at'[a], NEW i \in Ids
  PROVE  \/ RequestOf(auth'[i]) = RequestOf(auth[i])
         \/ i = on[a] /\ Matches(auth[i], req[a])
<1> AgentTypes /\ StoreTypes /\ LoopTypes
  BY TypesSplit
<1>1. ASSUME NEW b \in Attempts, AttemptStep(b)
      PROVE  \/ RequestOf(auth'[i]) = RequestOf(auth[i])
             \/ i = on[a] /\ Matches(auth[i], req[a])
  <2>1. b = a
    <3>1. PICK phase : Become(b, phase)
      BY <1>1 DEF AttemptStep, Begin, MergeToken, Complete, FailLifecycle, End
    <3>2. QED
      BY <3>1 DEF Become, AgentTypes, Agents
  <2>2. CASE UNCHANGED auth
    BY <2>2
  <2>3. CASE Current(a) /\ \E record : auth' = [auth EXCEPT ![on[a]] = record]
    BY <2>3 DEF Current, StoreTypes
  <2>4. QED
    BY <1>1, <2>1, <2>2, <2>3
       DEF AttemptStep, Begin, MergeToken, Complete, FailLifecycle, Store, Finish, storeVars
<1>2. CASE UNCHANGED auth
  BY <1>2
<1>3. ASSUME NEW c \in Callers,
             \/ \E k \in Ids : StartWrite(c, k) \/ Import(c, k) \/ MarkRateLimited(c, k)
             \/ CallerStep(c)
      PROVE  FALSE
  BY <1>3, AgentAssumption
     DEF StartWrite, Import, MarkRateLimited, Begins, CallerStep, Write, Queue, Post,
         Return, Become, AgentTypes, Agents
<1>4. QED
  BY <1>1, <1>2, <1>3
     DEF Next, vars, Starter, StartLoop, List, PostListed, Loop, TakeRequest,
         DrainOverflow, Dispatch, TakeResult, Remove, Invalidate, storeVars, agentVars

(* An attempt ends or disables only what its request was for, whatever was *)
(* imported or written over it meanwhile, for every number of attempts.    *)
THEOREM AttemptsMindTheirGeneration == Spec => OwnGeneration
<1> DEFINE Own == \A a \in Attempts : at[a] # at'[a] => \A i \in Ids :
                    \/ RequestOf(auth'[i]) = RequestOf(auth[i])
                    \/ i = on[a] /\ Matches(auth[i], req[a])
<1>1. Init => TypeOK /\ Merging
  BY InitTypes DEF Init, Merging, Agents
<1>2. TypeOK /\ Merging /\ [Next]_vars => (TypeOK /\ Merging)'
  BY MergingStep, AgentTypesStep, StoreTypesStep, LoopTypesStep, TypesSplit
     DEF TypeOK, AgentTypes, StoreTypes, LoopTypes, Posts, MaybeRequests
<1>3. TypeOK /\ Merging /\ [Next]_vars => [Own]_vars
  BY OwnGenerationStep
<1>4. QED
  BY <1>1, <1>2, <1>3, PTL DEF Spec, OwnGeneration
=============================================================================
