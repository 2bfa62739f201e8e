---------------------- MODULE CredentialRefreshProofs ----------------------
(***************************************************************************)
(* What CredentialRefresh promises, proved for any number of credentials,  *)
(* agents, tokens, locks and imports.                                      *)
(***************************************************************************)
EXTENDS CredentialRefresh, TLAPS

-----------------------------------------------------------------------------
(* Types                                                                   *)

USE AgentAssumption, NullAssumption

(* A token is issued that nobody knows; the tokens somebody knows stay as  *)
(* they are, except those in old.                                          *)
LEMMA Issued ==
  ASSUME TypeOK, NEW i \in Ids, NEW old, IssueToken(i, old)
  PROVE  /\ FreshToken(i) \in Tokens
         /\ FreshToken(i) # auth[i].token
         /\ \A a \in Agents : on[a] = i => copy[a].token # FreshToken(i)
         /\ live' \in [Ids -> SUBSET Tokens]
         /\ \A j \in Ids \ {i} : live'[j] = live[j]
         /\ FreshToken(i) \in live'[i]
         /\ \A t \in live[i] \ old :
              \/ t = auth[i].token
              \/ \E a \in Agents : on[a] = i /\ t = copy[a].token
              => t \in live'[i]
<1>. DEFINE t == FreshToken(i)
<1>1. t \in Tokens /\ t \notin Known(i)
  BY DEF IssueToken, HasFreshToken, FreshToken
<1>2. \A a \in Agents : on[a] = i => copy[a].token \in Known(i)
  BY DEF Known
<1>3. auth[i].token \in Known(i)
  BY DEF Known
<1>4. live' = [live EXCEPT ![i] = ((live[i] \intersect Known(i)) \ old)
                                     \union {t}]
  BY DEF IssueToken
<1>. HIDE DEF t
<1>5. live' \in [Ids -> SUBSET Tokens] /\ t \in live'[i]
  BY <1>1, <1>4 DEF TypeOK
<1>6. \A s \in live[i] \ old : s \in Known(i) => s \in live'[i]
  BY <1>4 DEF TypeOK
<1>7. \A j \in Ids \ {i} : live'[j] = live[j]
  BY <1>4 DEF TypeOK
<1>. QED BY <1>1, <1>2, <1>3, <1>5, <1>6, <1>7 DEF t

(* A lock is chosen from Locks.                                            *)
LEMMA Stored ==
  ASSUME TypeOK, NEW a \in Agents, NEW i \in Ids, LoadOrStoreLock(a, i)
  PROVE  \E l \in Locks : /\ lock' = [lock EXCEPT ![a] = l]
                          /\ entry' = [entry EXCEPT ![i] = l]
                          /\ entry[i] \in {None, l}
<1>1. CASE entry[i] # None /\ lock' = [lock EXCEPT ![a] = entry[i]]
           /\ UNCHANGED entry
  <2>. entry[i] \in Locks BY <1>1 DEF TypeOK
  <2>. entry' = [entry EXCEPT ![i] = entry[i]] BY <1>1 DEF TypeOK
  <2>. QED BY <1>1
<1>2. CASE entry[i] = None /\ (\E l \in Locks : Unused(l))
           /\ LET l == CHOOSE f \in Locks : Unused(f)
              IN  entry' = [entry EXCEPT ![i] = l]
                  /\ lock' = [lock EXCEPT ![a] = l]
  <2>. (CHOOSE f \in Locks : Unused(f)) \in Locks BY <1>2
  <2>. QED BY <1>2
<1>. QED BY <1>1, <1>2 DEF LoadOrStoreLock

-----------------------------------------------------------------------------
(* The invariant                                                           *)

(* These phases have a clone with a token: the others know a rejected token*)
(* or a generation only.                                                   *)
Full == {"asking", "answered", "editing", "replacing", "registering"}

(* The token of a is with the provider, or was taken there for the new one.*)
Rotating(a) == at[a] \in {"asking", "answered"}

CopiesTyped ==
  \A a \in Agents :
    /\ at[a] \in Full => copy[a].token \in Tokens
    /\ at[a] \in {"idle", "removing", "initializing"} => copy[a].token = None

(* Nobody else knows the token of an import until it is registered, so     *)
(* nobody spends it.                                                       *)
ImportsPrivate ==
  \A a \in Agents : at[a] \in {"replacing", "registering"} =>
    /\ copy[a].token \in live[on[a]]
    /\ copy[a].token # auth[on[a]].token
    /\ \A b \in Agents \ {a} :
         on[b] = on[a] => copy[b].token # copy[a].token

(* A token belongs to one generation, wherever it is known.                *)
OneLogin ==
  \A a \in Agents : at[a] \in Full =>
    /\ copy[a].token = auth[on[a]].token => copy[a].login = auth[on[a]].login
    /\ \A b \in Agents :
         at[b] \in Full /\ on[b] = on[a] /\ copy[b].token = copy[a].token
           => copy[b].login = copy[a].login

(* Whoever refreshes an unspoiled credential uses the lock of the map, ... *)
SameLock ==
  \A a \in Agents :
    lock[a] # None /\ on[a] \notin spoiled => lock[a] = entry[on[a]]

(* ... so one of them at a time is past it, ...                            *)
OneRefresh ==
  \A a, b \in Agents :
    Rotating(a) /\ Rotating(b) /\ on[a] = on[b] /\ on[a] \notin spoiled => a = b

(* ... the token it has is good, ...                                       *)
RefreshLive ==
  \A a \in Agents :
    Rotating(a) /\ on[a] \notin spoiled => copy[a].token \in live[on[a]]

(* ... and what is stored is good, or its successor is about to be stored. *)
StoredLive ==
  \A i \in Ids \ spoiled : Present(i) =>
    \/ auth[i].token \in live[i]
    \/ \E a \in Agents : /\ at[a] = "answered" /\ on[a] = i
                         /\ copy[a].login = auth[i].login

IInv == /\ TypeOK /\ CopiesTyped /\ ImportsPrivate /\ OneLogin
        /\ SameLock /\ OneRefresh /\ RefreshLive /\ StoredLive

(* A step of a leaves the other agents alone.                              *)
Only(a) ==
  /\ at' \in [Agents -> Phases]
  /\ on' \in [Agents -> Ids \union {NoId}]
  /\ copy' \in [Agents -> Auths]
  /\ lock' \in [Agents -> Locks \union {None}]
  /\ \A b \in Agents \ {a} : /\ at'[b] = at[b] /\ on'[b] = on[b]
                             /\ copy'[b] = copy[b] /\ lock'[b] = lock[b]

-----------------------------------------------------------------------------
(* Steps of a refresh                                                      *)

(* A refresh takes the lock of the map, or one of its own into the map.    *)
LEMMA LockTakenKeeps ==
  ASSUME IInv, NEW a \in Agents, NEW i \in Ids, NEW c \in Auths,
         Take(a, i, "waiting"), copy' = [copy EXCEPT ![a] = c],
         c.token \in {None, auth[i].token}, LoadOrStoreLock(a, i),
         UNCHANGED <<auth, live, spoiled, logins>>
  PROVE  IInv'
<1>. USE DEF IInv
<1>1. PICK l \in Locks : /\ lock' = [lock EXCEPT ![a] = l]
                         /\ entry' = [entry EXCEPT ![i] = l]
                         /\ entry[i] \in {None, l}
  BY Stored
<1>2. /\ Only(a) /\ at[a] = "idle" /\ at'[a] = "waiting" /\ on'[a] = i
      /\ copy'[a].token \in {None, auth[i].token} /\ lock'[a] = l
  BY <1>1 DEF Take, Become, Only, TypeOK, Phases
<1>3. /\ entry' \in [Ids -> Locks \union {None}] /\ entry'[i] = l
      /\ \A j \in Ids \ {i} : entry'[j] = entry[j]
  BY <1>1 DEF TypeOK
<1>4. TypeOK' BY <1>2, <1>3 DEF TypeOK, Only
<1>5. CopiesTyped' BY <1>2 DEF CopiesTyped, Only, Full
<1>6. ImportsPrivate'
  BY <1>2, <1>4 DEF ImportsPrivate, Only, TypeOK, CopiesTyped, Full
<1>7. OneLogin' BY <1>2 DEF OneLogin, Only, Full
<1>8. SameLock' BY <1>1, <1>2, <1>3 DEF SameLock, Only, TypeOK
<1>9. OneRefresh' BY <1>2 DEF OneRefresh, Rotating, Only
<1>10. RefreshLive' BY <1>2 DEF RefreshLive, Rotating, Only
<1>11. StoredLive' BY <1>2 DEF StoredLive, Present, Only
<1>. QED BY <1>4, <1>5, <1>6, <1>7, <1>8, <1>9, <1>10, <1>11

(* With a free lock nobody else is past it, so the stored token is good.   *)
LEMMA LockAcquiredKeeps ==
  ASSUME IInv, NEW a \in Agents, at[a] = "waiting", Free(lock[a]),
         Present(on[a]), copy' = [copy EXCEPT ![a] = auth[on[a]]],
         Become(a, "asking"),
         UNCHANGED <<auth, entry, live, spoiled, logins, on, lock>>
  PROVE  IInv'
<1>. USE DEF IInv
<1>1. on[a] \in Ids /\ lock[a] # None /\ auth[on[a]].token \in Tokens
  BY DEF TypeOK, Present, Auths
<1>2. /\ Only(a) /\ at'[a] = "asking" /\ copy'[a] = auth[on[a]]
  BY <1>1 DEF Become, Only, TypeOK, Phases
<1>3. on[a] \notin spoiled => \A b \in Agents : Rotating(b) => on[b] # on[a]
  BY <1>1 DEF Free, SameLock, Rotating, TypeOK
<1>4. on[a] \notin spoiled => auth[on[a]].token \in live[on[a]]
  BY <1>1, <1>3 DEF StoredLive, Rotating
<1>5. TypeOK' BY <1>1, <1>2 DEF TypeOK, Only
<1>6. CopiesTyped' BY <1>1, <1>2 DEF CopiesTyped, Only, Full
<1>7. ImportsPrivate' BY <1>2 DEF ImportsPrivate, Only
<1>8. OneLogin' BY <1>2 DEF OneLogin, Only, Full
<1>9. SameLock' BY DEF SameLock
<1>10. OneRefresh' BY <1>2, <1>3 DEF OneRefresh, Rotating, Only
<1>11. RefreshLive' BY <1>2, <1>4 DEF RefreshLive, Rotating, Only
<1>12. StoredLive' BY <1>2 DEF StoredLive, Present, Only
<1>. QED BY <1>5, <1>6, <1>7, <1>8, <1>9, <1>10, <1>11, <1>12

LEMMA Returned ==
  ASSUME TypeOK, NEW a \in Agents, Return(a)
  PROVE  /\ Only(a) /\ at'[a] = "idle" /\ on'[a] = NoId /\ lock'[a] = None
         /\ copy'[a] = Absent
BY DEF Return, Become, Unlock, Only, TypeOK, Phases, Absent, Auths

(* The stored credentials keep their tokens and generations.               *)
SameTokens ==
  /\ auth' \in [Ids -> Auths]
  /\ \A i \in Ids : /\ auth'[i].token = auth[i].token
                    /\ auth'[i].login = auth[i].login

LEMMA FlagSet ==
  ASSUME NEW r \in Auths, NEW d \in BOOLEAN
  PROVE  /\ [r EXCEPT !.disabled = d] \in Auths
         /\ [r EXCEPT !.disabled = d].token = r.token
         /\ [r EXCEPT !.disabled = d].login = r.login
         /\ [r EXCEPT !.initializing = d] \in Auths
         /\ [r EXCEPT !.initializing = d].token = r.token
         /\ [r EXCEPT !.initializing = d].login = r.login
BY DEF Auths

LEMMA FlagStored ==
  ASSUME TypeOK, NEW i \in Ids,
         \/ Store(i, [auth[i] EXCEPT !.disabled = TRUE])
         \/ Store(i, [auth[i] EXCEPT !.initializing = FALSE])
  PROVE  SameTokens
<1>. PICK r \in Auths : /\ auth' = [auth EXCEPT ![i] = r]
                       /\ r.token = auth[i].token /\ r.login = auth[i].login
  BY FlagSet DEF Store, TypeOK
<1>. QED BY DEF SameTokens, TypeOK

(* An agent is done and stores no token: it has none that counts.          *)
LEMMA ReturnKeeps ==
  ASSUME IInv, NEW a \in Agents, Return(a), SameTokens,
         UNCHANGED <<entry, live, logins>>,
         spoiled \subseteq spoiled', spoiled' \subseteq Ids,
         at[a] = "answered" /\ Present(on[a])
             /\ auth[on[a]].login = copy[a].login
           => on[a] \in spoiled'
  PROVE  IInv'
<1>. USE DEF IInv
<1>1. /\ Only(a) /\ at'[a] = "idle" /\ on'[a] = NoId /\ lock'[a] = None
      /\ copy'[a] = Absent
  BY Returned
<1>2. TypeOK' BY <1>1 DEF TypeOK, Only, SameTokens
<1>3. CopiesTyped' BY <1>1 DEF CopiesTyped, Only, Full, Absent
<1>4. ImportsPrivate'
  BY <1>1 DEF ImportsPrivate, Only, TypeOK, SameTokens
<1>5. OneLogin' BY <1>1, SMTT(30) DEF OneLogin, Only, Full, SameTokens, TypeOK
<1>6. SameLock' BY <1>1 DEF SameLock, Only
<1>7. OneRefresh' BY <1>1 DEF OneRefresh, Rotating, Only
<1>8. RefreshLive' BY <1>1 DEF RefreshLive, Rotating, Only
<1>9. StoredLive' BY <1>1 DEF StoredLive, Present, Only, SameTokens
<1>. QED BY <1>2, <1>3, <1>4, <1>5, <1>6, <1>7, <1>8, <1>9

LEMMA AnswerKeeps ==
  ASSUME IInv, NEW a \in Agents, Answer(a)
  PROVE  IInv'
<1>. USE DEF IInv
<1>. DEFINE i == on[a]
            t == FreshToken(i)
<1>1. /\ i \in Ids /\ at[a] = "asking" /\ lock[a] # None
      /\ copy[a].token \in live[i] /\ IssueToken(i, {copy[a].token})
  BY DEF Answer, Rotated, TypeOK
<1>. HIDE DEF i, t
<1>2. /\ t \in Tokens /\ t # auth[i].token
      /\ \A b \in Agents : on[b] = i => copy[b].token # t
      /\ live' \in [Ids -> SUBSET Tokens]
      /\ \A j \in Ids \ {i} : live'[j] = live[j]
      /\ t \in live'[i]
      /\ \A s \in live[i] \ {copy[a].token} :
           \/ s = auth[i].token
           \/ \E b \in Agents : on[b] = i /\ s = copy[b].token
           => s \in live'[i]
  BY <1>1, Issued DEF t
<1>3. /\ Only(a) /\ at'[a] = "answered" /\ on'[a] = i /\ lock'[a] = lock[a]
      /\ copy'[a].token = t /\ copy'[a].login = copy[a].login
  BY <1>1, <1>2 DEF Answer, Become, Only, TypeOK, Auths, Phases, i, t
<1>4. UNCHANGED <<auth, entry, spoiled, logins>> BY DEF Answer
<1>5. TypeOK' BY <1>1, <1>2, <1>3, <1>4 DEF TypeOK, Only, i
<1>6. CopiesTyped' BY <1>2, <1>3, <1>4 DEF CopiesTyped, Only, Full
<1>7. ImportsPrivate'
  BY <1>1, <1>2, <1>3, <1>4 DEF ImportsPrivate, Only, i, TypeOK
<1>8. OneLogin' BY <1>1, <1>2, <1>3, <1>4 DEF OneLogin, Only, Full, i
<1>9. SameLock' BY <1>1, <1>3, <1>4 DEF SameLock, Only, i
<1>10. OneRefresh' BY <1>1, <1>3, <1>4 DEF OneRefresh, Rotating, Only, i
<1>11. RefreshLive'
  BY <1>1, <1>2, <1>3, <1>4 DEF RefreshLive, OneRefresh, Rotating, Only, i, TypeOK
<1>12. StoredLive'
  <2>. SUFFICES ASSUME NEW j \in Ids, j \notin spoiled, Present(j)
                PROVE  (\/ auth[j].token \in live[j]
                        \/ \E b \in Agents : /\ at[b] = "answered" /\ on[b] = j
                                             /\ copy[b].login = auth[j].login)'
    BY <1>4 DEF StoredLive, Present
  <2>1. CASE j = i
    BY <2>1, <1>1, <1>2, <1>3, <1>4
       DEF StoredLive, OneRefresh, Rotating, OneLogin, Full, i, TypeOK
  <2>2. CASE j # i
    BY <2>2, <1>1, <1>2, <1>3, <1>4 DEF StoredLive, Only, i
  <2>. QED BY <2>1, <2>2
<1>. QED BY <1>5, <1>6, <1>7, <1>8, <1>9, <1>10, <1>11, <1>12

(* An answer that is lost spoils its credential.                           *)
LEMMA AnswerLostKeeps ==
  ASSUME IInv, NEW a \in Agents, Rotated(a), spoiled' = spoiled \union {on[a]},
         Return(a), UNCHANGED <<auth, entry, logins>>
  PROVE  IInv'
<1>. USE DEF IInv
<1>. DEFINE i == on[a]
<1>1. i \in Ids /\ at[a] = "asking" /\ IssueToken(i, {copy[a].token})
  BY DEF Rotated, TypeOK
<1>. HIDE DEF i
<1>2. /\ live' \in [Ids -> SUBSET Tokens]
      /\ \A j \in Ids \ {i} : live'[j] = live[j]
      /\ \A s \in live[i] \ {copy[a].token} :
           \/ s = auth[i].token
           \/ \E b \in Agents : on[b] = i /\ s = copy[b].token
           => s \in live'[i]
  BY <1>1, Issued
<1>3. /\ Only(a) /\ at'[a] = "idle" /\ on'[a] = NoId /\ lock'[a] = None
      /\ copy'[a] = Absent
  BY Returned
<1>4. TypeOK' BY <1>1, <1>2, <1>3 DEF TypeOK, Only, i
<1>5. CopiesTyped' BY <1>3 DEF CopiesTyped, Only, Full, Absent
<1>6. ImportsPrivate'
  BY <1>1, <1>2, <1>3 DEF ImportsPrivate, Only, i, TypeOK
<1>7. OneLogin' BY <1>3 DEF OneLogin, Only, Full
<1>8. SameLock' BY <1>3 DEF SameLock, Only
<1>9. OneRefresh' BY <1>3 DEF OneRefresh, Rotating, Only
<1>10. RefreshLive' BY <1>1, <1>2, <1>3 DEF RefreshLive, Rotating, Only, i, TypeOK
<1>11. StoredLive' BY <1>1, <1>2, <1>3 DEF StoredLive, Present, Only, i
<1>. QED BY <1>4, <1>5, <1>6, <1>7, <1>8, <1>9, <1>10, <1>11

(* The new token is stored.                                                *)
LEMMA CommitKeeps ==
  ASSUME IInv, NEW a \in Agents, NEW c \in Auths, at[a] = "answered",
         c.token = copy[a].token, c.login = copy[a].login,
         Store(on[a], c), Only(a),
         at'[a] \in {"idle", "initializing"}, lock'[a] = None,
         on'[a] = (IF at'[a] = "idle" THEN NoId ELSE on[a]),
         copy'[a].token = None,
         UNCHANGED <<entry, live, spoiled, logins>>
  PROVE  IInv'
<1>. USE DEF IInv
<1>. DEFINE i == on[a]
<1>1. i \in Ids /\ copy[a].token \in Tokens
  BY DEF TypeOK, CopiesTyped, Full
<1>2. /\ auth' \in [Ids -> Auths]
      /\ auth'[i] = c
      /\ \A j \in Ids \ {i} : auth'[j] = auth[j]
  BY <1>1 DEF Store, TypeOK
<1>. HIDE DEF i
<1>3. TypeOK' BY <1>1, <1>2 DEF TypeOK, Only, i, Phases
<1>4. CopiesTyped' BY DEF CopiesTyped, Only, Full
<1>5. ImportsPrivate'
  BY <1>1, <1>2 DEF ImportsPrivate, Only, i, TypeOK, CopiesTyped, Full
<1>6. OneLogin' BY <1>1, <1>2 DEF OneLogin, Only, Full, i, TypeOK
<1>7. SameLock' BY DEF SameLock, Only
<1>8. OneRefresh' BY DEF OneRefresh, Rotating, Only
<1>9. RefreshLive' BY DEF RefreshLive, Rotating, Only
<1>10. StoredLive'
  BY <1>1, <1>2 DEF StoredLive, Present, Only, i, RefreshLive, Rotating
<1>. QED BY <1>3, <1>4, <1>5, <1>6, <1>7, <1>8, <1>9, <1>10

-----------------------------------------------------------------------------
(* Edits, imports and removals                                             *)

LEMMA StartEditKeeps ==
  ASSUME IInv, NEW m \in Managers, NEW i \in Ids, StartEdit(m, i)
  PROVE  IInv'
<1>. USE DEF IInv
<1>1. m \in Agents /\ auth[i].token \in Tokens
  BY DEF Agents, StartEdit, Present, TypeOK, Auths
<1>. DEFINE c == [auth[i] EXCEPT !.disabled = ~auth[i].disabled]
<1>2. /\ c \in Auths /\ c.token = auth[i].token /\ c.login = auth[i].login
      /\ copy' = [copy EXCEPT ![m] = c]
  BY ZenonT(40) DEF TypeOK, Auths, StartEdit
<1>. HIDE DEF c
<1>3. /\ Only(m) /\ at[m] = "idle" /\ at'[m] = "editing" /\ on'[m] = i
      /\ copy'[m] = c /\ lock'[m] = lock[m] /\ lock[m] = None
  BY <1>1, <1>2 DEF StartEdit, Take, Become, Only, TypeOK, Phases
<1>4. UNCHANGED <<auth, entry, live, spoiled, logins>> BY DEF StartEdit
<1>5. TypeOK' BY <1>1, <1>3, <1>4 DEF TypeOK, Only
<1>6. CopiesTyped' BY <1>1, <1>2, <1>3 DEF CopiesTyped, Only, Full
<1>7. ImportsPrivate' BY <1>2, <1>3, <1>4 DEF ImportsPrivate, Only
<1>8. OneLogin' BY <1>2, <1>3, <1>4 DEF OneLogin, Only, Full
<1>9. SameLock' BY <1>3, <1>4 DEF SameLock, Only
<1>10. OneRefresh' BY <1>3, <1>4 DEF OneRefresh, Rotating, Only
<1>11. RefreshLive' BY <1>3, <1>4 DEF RefreshLive, Rotating, Only
<1>12. StoredLive' BY <1>3, <1>4 DEF StoredLive, Present, Only
<1>. QED BY <1>5, <1>6, <1>7, <1>8, <1>9, <1>10, <1>11, <1>12

(* An edit that stores another token than the one it finds spoils.         *)
LEMMA CommitEditKeeps ==
  ASSUME IInv, NEW m \in Managers, CommitEdit(m)
  PROVE  IInv'
<1>. USE DEF IInv
<1>. DEFINE i == on[m]
<1>1. /\ m \in Agents /\ i \in Ids /\ copy[m].token \in Tokens
      /\ at[m] = "editing"
  BY DEF Agents, CommitEdit, TypeOK, CopiesTyped, Full
<1>. HIDE DEF i
<1>2. Return(m) /\ UNCHANGED <<entry, live, logins>>
  BY DEF CommitEdit, Update
<1>3. CASE ~Present(i)
  <2>. UNCHANGED auth /\ spoiled' = spoiled
    BY <1>3 DEF CommitEdit, Update, Spoil, i
  <2>. QED BY <1>1, <1>2, <1>3, ReturnKeeps DEF SameTokens, TypeOK
<1>4. CASE Present(i) /\ auth[i].token = copy[m].token
  <2>1. auth' = [auth EXCEPT ![i] = copy[m]] /\ spoiled' = spoiled
    BY <1>4 DEF CommitEdit, Update, Spoil, Store, i
  <2>2. auth[i].login = copy[m].login
    BY <1>1, <1>4 DEF OneLogin, Full, i
  <2>3. SameTokens
    BY <1>1, <1>4, <2>1, <2>2 DEF SameTokens, TypeOK
  <2>. QED BY <1>1, <1>2, <2>1, <2>3, ReturnKeeps DEF TypeOK
<1>5. CASE Present(i) /\ auth[i].token # copy[m].token
  <2>1. /\ Only(m) /\ at'[m] = "idle" /\ on'[m] = NoId /\ lock'[m] = None
        /\ copy'[m] = Absent
    BY <1>1, <1>2, Returned
  <2>2. /\ auth' = [auth EXCEPT ![i] = copy[m]]
        /\ spoiled' = spoiled \union {i}
    BY <1>5 DEF CommitEdit, Update, Spoil, Store, i
  <2>3. /\ auth' \in [Ids -> Auths]
        /\ auth'[i] = copy[m]
        /\ \A j \in Ids \ {i} : auth'[j] = auth[j]
    BY <1>1, <2>2 DEF TypeOK
  <2>4. TypeOK' BY <1>1, <1>2, <2>1, <2>2, <2>3 DEF TypeOK, Only
  <2>5. CopiesTyped' BY <2>1 DEF CopiesTyped, Only, Full, Absent
  <2>6. ImportsPrivate'
    BY <1>1, <1>2, <2>1, <2>3 DEF ImportsPrivate, Only, i, TypeOK
  <2>7. OneLogin' BY <1>1, <2>1, <2>3 DEF OneLogin, Only, Full, i, TypeOK
  <2>8. SameLock' BY <1>2, <2>1, <2>2 DEF SameLock, Only
  <2>9. OneRefresh' BY <2>1, <2>2 DEF OneRefresh, Rotating, Only
  <2>10. RefreshLive' BY <1>2, <2>1, <2>2 DEF RefreshLive, Rotating, Only
  <2>11. StoredLive'
    BY <1>1, <1>2, <2>1, <2>2, <2>3 DEF StoredLive, Present, Only, i
  <2>. QED BY <2>4, <2>5, <2>6, <2>7, <2>8, <2>9, <2>10, <2>11
<1>. QED BY <1>3, <1>4, <1>5

LEMMA StartImportKeeps ==
  ASSUME IInv, NEW m \in Managers, NEW i \in Ids, StartImport(m, i)
  PROVE  IInv'
<1>. USE DEF IInv
<1>. DEFINE t == FreshToken(i)
<1>. m \in Agents BY DEF Agents
<1>1. IssueToken(i, {}) /\ logins' = logins + 1
  BY DEF StartImport, Login
<1>2. /\ t \in Tokens /\ t # auth[i].token
      /\ \A b \in Agents : on[b] = i => copy[b].token # t
      /\ live' \in [Ids -> SUBSET Tokens]
      /\ \A j \in Ids \ {i} : live'[j] = live[j]
      /\ t \in live'[i]
      /\ \A s \in live[i] :
           \/ s = auth[i].token
           \/ \E b \in Agents : on[b] = i /\ s = copy[b].token
           => s \in live'[i]
  BY <1>1, Issued
<1>3. /\ Imported(i) \in Auths /\ Imported(i).token = t
  BY <1>2 DEF Imported, Auths, TypeOK
<1>. HIDE DEF t
<1>4. /\ Only(m) /\ at[m] = "idle" /\ at'[m] \in {"replacing", "registering"}
      /\ on'[m] = i /\ copy'[m].token = t
      /\ lock'[m] = lock[m] /\ lock[m] = None
  BY <1>3 DEF StartImport, Take, Become, Only, TypeOK, Phases
<1>5. /\ auth' \in [Ids -> Auths] /\ auth'[i].token = None
      /\ \A j \in Ids \ {i} : auth'[j] = auth[j]
  BY DEF StartImport, Store, TypeOK, Absent, Auths
<1>6. UNCHANGED <<entry, spoiled>> BY DEF StartImport
<1>7. TypeOK' BY <1>1, <1>2, <1>4, <1>5, <1>6 DEF TypeOK, Only
<1>8. CopiesTyped' BY <1>2, <1>4 DEF CopiesTyped, Only, Full
<1>9. ImportsPrivate'
  BY <1>2, <1>4, <1>5 DEF ImportsPrivate, Only, TypeOK, CopiesTyped, Full
<1>10. OneLogin'
  BY <1>2, <1>4, <1>5 DEF OneLogin, Only, Full, CopiesTyped, TypeOK
<1>11. SameLock' BY <1>4, <1>6 DEF SameLock, Only
<1>12. OneRefresh' BY <1>4, <1>6 DEF OneRefresh, Rotating, Only
<1>13. RefreshLive'
  BY <1>2, <1>4, <1>6 DEF RefreshLive, Rotating, Only, TypeOK
<1>14. StoredLive' BY <1>2, <1>4, <1>5, <1>6 DEF StoredLive, Present, Only
<1>. QED BY <1>7, <1>8, <1>9, <1>10, <1>11, <1>12, <1>13, <1>14

LEMMA StartRemoveKeeps ==
  ASSUME IInv, NEW m \in Managers, NEW i \in Ids, StartRemove(m, i)
  PROVE  IInv'
<1>. USE DEF IInv
<1>. m \in Agents BY DEF Agents
<1>1. /\ Only(m) /\ at[m] = "idle" /\ at'[m] = "removing"
      /\ on'[m] = i /\ copy' = copy
      /\ lock'[m] = lock[m] /\ lock[m] = None
  BY DEF StartRemove, Take, Become, Only, TypeOK, Phases
<1>2. /\ auth' \in [Ids -> Auths] /\ auth'[i].token = None
      /\ \A j \in Ids \ {i} : auth'[j] = auth[j]
  BY DEF StartRemove, Store, TypeOK, Absent, Auths
<1>3. UNCHANGED <<entry, live, spoiled, logins>> BY DEF StartRemove
<1>4. TypeOK' BY <1>1, <1>2, <1>3 DEF TypeOK, Only
<1>5. CopiesTyped' BY <1>1 DEF CopiesTyped, Only, Full, Absent
<1>6. ImportsPrivate'
  BY <1>1, <1>2, <1>3 DEF ImportsPrivate, Only, TypeOK, CopiesTyped, Full
<1>7. OneLogin' BY <1>1, <1>2 DEF OneLogin, Only, Full, CopiesTyped, TypeOK
<1>8. SameLock' BY <1>1, <1>3 DEF SameLock, Only
<1>9. OneRefresh' BY <1>1, <1>3 DEF OneRefresh, Rotating, Only
<1>10. RefreshLive' BY <1>1, <1>3 DEF RefreshLive, Rotating, Only
<1>11. StoredLive' BY <1>1, <1>2, <1>3 DEF StoredLive, Present, Only
<1>. QED BY <1>4, <1>5, <1>6, <1>7, <1>8, <1>9, <1>10, <1>11

(* The lock is taken out of the map: whoever has it spoils the credential. *)
LEMMA RemoveLockKeeps ==
  ASSUME IInv, NEW m \in Managers, RemoveLock(m)
  PROVE  IInv'
<1>. USE DEF IInv
<1>. DEFINE i == on[m]
<1>1. /\ m \in Agents /\ i \in Ids /\ lock[m] = None
      /\ at[m] \in {"replacing", "removing"}
  BY DEF Agents, RemoveLock, TypeOK
<1>2. /\ Only(m)
      /\ \/ /\ at[m] = "replacing" /\ at'[m] = "registering"
            /\ UNCHANGED <<on, copy, lock>>
         \/ at'[m] = "idle" /\ on'[m] = NoId /\ copy'[m] = Absent
      /\ lock'[m] = None
  <2>1. CASE at[m] = "replacing"
    BY <1>1, <2>1 DEF RemoveLock, Become, Only, TypeOK, Phases
  <2>2. CASE at[m] # "replacing"
    BY <1>1, <2>2, Returned DEF RemoveLock
  <2>. QED BY <2>1, <2>2
<1>. HIDE DEF i
<1>3. /\ entry' \in [Ids -> Locks \union {None}]
      /\ \A j \in Ids \ {i} : entry'[j] = entry[j]
  BY <1>1 DEF RemoveLock, TypeOK, i
<1>4. /\ UNCHANGED <<auth, live, logins>>
      /\ spoiled' \subseteq Ids /\ spoiled \subseteq spoiled'
      /\ Refreshing(i) => i \in spoiled'
  BY <1>1 DEF RemoveLock, Spoil, TypeOK, i
<1>5. TypeOK' BY <1>1, <1>2, <1>3, <1>4 DEF TypeOK, Only
<1>6. CopiesTyped' BY <1>2 DEF CopiesTyped, Only, Full, Absent
<1>7. ImportsPrivate' BY <1>1, <1>2, <1>4 DEF ImportsPrivate, Only, TypeOK
<1>8. OneLogin' BY <1>2, <1>4 DEF OneLogin, Only, Full
<1>9. SameLock'
  <2>. SUFFICES ASSUME NEW b \in Agents, lock'[b] # None, on'[b] \notin spoiled'
                PROVE  lock'[b] = entry'[on'[b]]
    BY DEF SameLock
  <2>1. b # m /\ lock[b] # None /\ on[b] = on'[b] /\ lock'[b] = lock[b]
    BY <1>2 DEF Only
  <2>2. on[b] \in Ids \ {i} /\ on[b] \notin spoiled
    BY <1>4, <2>1 DEF Refreshing, TypeOK
  <2>. QED BY <1>3, <2>1, <2>2 DEF SameLock
<1>10. OneRefresh' BY <1>2, <1>4 DEF OneRefresh, Rotating, Only
<1>11. RefreshLive' BY <1>2, <1>4 DEF RefreshLive, Rotating, Only
<1>12. StoredLive' BY <1>1, <1>2, <1>4 DEF StoredLive, Present, Only
<1>. QED BY <1>5, <1>6, <1>7, <1>8, <1>9, <1>10, <1>11, <1>12

(* A credential that nobody refreshes starts anew with a good token.       *)
LEMMA RegisterKeeps ==
  ASSUME IInv, NEW m \in Managers, Register(m)
  PROVE  IInv'
<1>. USE DEF IInv
<1>. DEFINE i == on[m]
<1>1. /\ m \in Agents /\ i \in Ids /\ at[m] = "registering"
      /\ copy[m].token \in Tokens /\ copy[m].token \in live[i]
  BY DEF Agents, Register, TypeOK, CopiesTyped, Full, ImportsPrivate
<1>2. /\ Only(m) /\ at'[m] = "idle" /\ on'[m] = NoId /\ lock'[m] = None
      /\ copy'[m] = Absent
  BY <1>1, Returned DEF Register
<1>3. /\ auth' \in [Ids -> Auths] /\ auth'[i] = copy[m]
      /\ \A j \in Ids \ {i} : auth'[j] = auth[j]
  BY <1>1 DEF Register, Store, TypeOK
<1>4. /\ spoiled' \subseteq Ids
      /\ spoiled' = spoiled \/ (spoiled' = spoiled \ {i} /\ ~Refreshing(i))
      /\ UNCHANGED <<entry, live, logins>>
  BY DEF Register, TypeOK
<1>5. \A b \in Agents : on[b] = i /\ lock[b] # None => i \in spoiled' \/ i \notin spoiled
  BY <1>4 DEF Refreshing
<1>. HIDE DEF i
<1>6. TypeOK' BY <1>2, <1>3, <1>4 DEF TypeOK, Only
<1>7. CopiesTyped' BY <1>2 DEF CopiesTyped, Only, Full, Absent
<1>8. ImportsPrivate'
  BY <1>1, <1>2, <1>3, <1>4 DEF ImportsPrivate, Only, TypeOK, CopiesTyped, Full, i
<1>9. OneLogin' BY <1>1, <1>2, <1>3 DEF OneLogin, Only, Full, i, TypeOK
<1>10. SameLock' BY <1>2, <1>4, <1>5 DEF SameLock, Only
<1>11. OneRefresh' BY <1>2, <1>4, <1>5 DEF OneRefresh, Rotating, Only, TypeOK
<1>12. RefreshLive'
  BY <1>2, <1>4, <1>5 DEF RefreshLive, Rotating, Only, TypeOK
<1>13. StoredLive'
  BY <1>1, <1>2, <1>3, <1>4 DEF StoredLive, Present, Only, i
<1>. QED BY <1>6, <1>7, <1>8, <1>9, <1>10, <1>11, <1>12, <1>13

LEMMA ImportInPlaceKeeps ==
  ASSUME IInv, NEW i \in Ids, ImportInPlace(i)
  PROVE  IInv'
<1>. USE DEF IInv
<1>. DEFINE t == FreshToken(i)
<1>1. /\ IssueToken(i, {}) /\ logins' = logins + 1
      /\ UNCHANGED <<entry, spoiled, at, on, copy, lock>>
  BY DEF ImportInPlace, Login
<1>2. /\ t \in Tokens /\ t # auth[i].token
      /\ \A b \in Agents : on[b] = i => copy[b].token # t
      /\ live' \in [Ids -> SUBSET Tokens]
      /\ \A j \in Ids \ {i} : live'[j] = live[j]
      /\ t \in live'[i]
      /\ \A s \in live[i] :
           \/ s = auth[i].token
           \/ \E b \in Agents : on[b] = i /\ s = copy[b].token
           => s \in live'[i]
  BY <1>1, Issued
<1>3. /\ Imported(i) \in Auths /\ Imported(i).token = t
  BY <1>2 DEF Imported, Auths, TypeOK
<1>. HIDE DEF t
<1>4. /\ auth' \in [Ids -> Auths] /\ auth'[i].token = t
      /\ \A j \in Ids \ {i} : auth'[j] = auth[j]
  BY <1>3 DEF ImportInPlace, Store, TypeOK
<1>5. TypeOK' BY <1>1, <1>2, <1>4 DEF TypeOK
<1>6. CopiesTyped' BY <1>1 DEF CopiesTyped
<1>7. ImportsPrivate'
  BY <1>1, <1>2, <1>4 DEF ImportsPrivate, TypeOK
<1>8. OneLogin' BY <1>1, <1>2, <1>4 DEF OneLogin, Full, TypeOK
<1>9. SameLock' BY <1>1 DEF SameLock
<1>10. OneRefresh' BY <1>1 DEF OneRefresh, Rotating
<1>11. RefreshLive'
  BY <1>1, <1>2 DEF RefreshLive, Rotating, TypeOK
<1>12. StoredLive' BY <1>1, <1>2, <1>4 DEF StoredLive, Present
<1>. QED BY <1>5, <1>6, <1>7, <1>8, <1>9, <1>10, <1>11, <1>12

(* Nothing but a flag of a stored credential changes.                      *)
LEMMA FlagKeeps ==
  ASSUME IInv, SameTokens,
         UNCHANGED <<entry, live, spoiled, logins, at, on, copy, lock>>
  PROVE  IInv'
<1>. USE DEF IInv
<1>1. TypeOK' BY DEF TypeOK, SameTokens
<1>2. CopiesTyped' BY DEF CopiesTyped
<1>3. ImportsPrivate' BY DEF ImportsPrivate, TypeOK, SameTokens
<1>4. OneLogin' BY DEF OneLogin, Full, TypeOK, SameTokens
<1>5. SameLock' BY DEF SameLock
<1>6. OneRefresh' BY DEF OneRefresh, Rotating
<1>7. RefreshLive' BY DEF RefreshLive, Rotating
<1>8. StoredLive' BY DEF StoredLive, Present, SameTokens
<1>. QED BY <1>1, <1>2, <1>3, <1>4, <1>5, <1>6, <1>7, <1>8

LEMMA LifecycleRefusedKeeps ==
  ASSUME IInv, NEW a \in Attempts, LifecycleRefused(a)
  PROVE  IInv'
<1>. USE DEF IInv
<1>. a \in Agents BY DEF Agents
<1>1. Keep(a) \in Auths /\ Keep(a).token = None
  BY DEF Keep, Absent, Auths, TypeOK
<1>2. /\ Only(a) /\ at[a] = "asking" /\ at'[a] = "initializing"
      /\ on' = on /\ copy'[a].token = None /\ lock'[a] = None
  BY <1>1 DEF LifecycleRefused, Refused, Become, Unlock, Only, TypeOK, Phases
<1>3. UNCHANGED <<auth, entry, live, spoiled, logins>> BY DEF LifecycleRefused
<1>4. TypeOK' BY <1>2, <1>3 DEF TypeOK, Only
<1>5. CopiesTyped' BY <1>2 DEF CopiesTyped, Only, Full
<1>6. ImportsPrivate'
  BY <1>2, <1>3 DEF ImportsPrivate, Only, CopiesTyped, Full
<1>7. OneLogin' BY <1>2, <1>3 DEF OneLogin, Only, Full
<1>8. SameLock' BY <1>2, <1>3 DEF SameLock, Only
<1>9. OneRefresh' BY <1>2, <1>3 DEF OneRefresh, Rotating, Only
<1>10. RefreshLive' BY <1>2, <1>3 DEF RefreshLive, Rotating, Only
<1>11. StoredLive' BY <1>2, <1>3 DEF StoredLive, Present, Only
<1>. QED BY <1>4, <1>5, <1>6, <1>7, <1>8, <1>9, <1>10, <1>11

-----------------------------------------------------------------------------
(* Together                                                                *)

LEMMA WorkerKeeps ==
  ASSUME IInv, NEW w \in Workers, WorkerStep(w)
  PROVE  IInv'
<1>. w \in Agents /\ TypeOK BY DEF Agents, IInv
<1>1. ASSUME NEW i \in Ids, StartRefresh(w, i) PROVE IInv'
  <2>1. PICK rejected \in {None, auth[i].token} :
          copy' = [copy EXCEPT ![w] = [Absent EXCEPT !.token = rejected]]
    BY <1>1 DEF StartRefresh
  <2>2. /\ [Absent EXCEPT !.token = rejected] \in Auths
        /\ [Absent EXCEPT !.token = rejected].token = rejected
    BY DEF Absent, Auths, TypeOK
  <2>. QED BY <1>1, <2>1, <2>2, LockTakenKeeps DEF StartRefresh
<1>2. CASE Acquire(w)
  <2>1. CASE Return(w) /\ UNCHANGED auth
    <3>. SameTokens BY <2>1 DEF SameTokens, TypeOK
    <3>. QED BY <1>2, <2>1, ReturnKeeps DEF Acquire, TypeOK
  <2>2. CASE ~Return(w)
    BY <1>2, <2>2, LockAcquiredKeeps DEF Acquire
  <2>. QED BY <1>2, <2>1, <2>2 DEF Acquire
<1>3. CASE Answer(w) BY <1>3, AnswerKeeps
<1>4. CASE RefreshFails(w)
  <2>. SameTokens BY <1>4 DEF RefreshFails, SameTokens, TypeOK
  <2>. QED BY <1>4, AnswerLostKeeps, ReturnKeeps
           DEF RefreshFails, Spoil, TypeOK
<1>5. CASE RefreshRefused(w)
  <2>. SameTokens
    BY <1>5, FlagStored DEF RefreshRefused, Refused, SameTokens, TypeOK
  <2>. QED BY <1>5, ReturnKeeps DEF RefreshRefused, Refused, TypeOK
<1>6. CASE CommitRefresh(w)
  <2>1. CASE Present(on[w])
    <3>1. /\ Only(w) /\ at'[w] = "idle" /\ on'[w] = NoId /\ lock'[w] = None
          /\ copy'[w].token = None
      BY <1>6, Returned DEF CommitRefresh, Update, Absent
    <3>. QED BY <1>6, <2>1, <3>1, CommitKeeps DEF CommitRefresh, Update, TypeOK
  <2>2. CASE ~Present(on[w])
    <3>. SameTokens
      BY <1>6, <2>2 DEF CommitRefresh, Update, SameTokens, TypeOK
    <3>. QED BY <1>6, <2>2, ReturnKeeps DEF CommitRefresh, Update, TypeOK
  <2>. QED BY <2>1, <2>2
<1>. QED BY <1>1, <1>2, <1>3, <1>4, <1>5, <1>6 DEF WorkerStep

LEMMA AttemptKeeps ==
  ASSUME IInv, NEW a \in Attempts, AttemptStep(a)
  PROVE  IInv'
<1>. a \in Agents /\ TypeOK BY DEF Agents, IInv
<1>1. ASSUME NEW i \in Ids, StartLifecycle(a, i) PROVE IInv'
  <2>. DEFINE c == [Absent EXCEPT !.login = auth[i].login]
  <2>1. c \in Auths /\ c.token = None
    BY DEF Absent, Auths, TypeOK
  <2>2. copy' = [copy EXCEPT ![a] = c] BY <1>1 DEF StartLifecycle
  <2>. HIDE DEF c
  <2>. QED BY <1>1, <2>1, <2>2, LockTakenKeeps DEF StartLifecycle
<1>2. CASE AcquireLifecycle(a)
  <2>1. CASE Matches(a)
    BY <1>2, <2>1, LockAcquiredKeeps DEF AcquireLifecycle, Matches
  <2>2. CASE ~Matches(a)
    <3>. SameTokens BY <1>2 DEF AcquireLifecycle, SameTokens, TypeOK
    <3>. QED BY <1>2, <2>2, ReturnKeeps DEF AcquireLifecycle, TypeOK
  <2>. QED BY <2>1, <2>2
<1>3. CASE Answer(a) BY <1>3, AnswerKeeps
<1>4. CASE RefreshFails(a)
  <2>. SameTokens BY <1>4 DEF RefreshFails, SameTokens, TypeOK
  <2>. QED BY <1>4, AnswerLostKeeps, ReturnKeeps
           DEF RefreshFails, Spoil, TypeOK
<1>5. CASE LifecycleRefused(a) BY <1>5, LifecycleRefusedKeeps
<1>6. CASE MergeToken(a)
  <2>1. CASE Matches(a)
    <3>. DEFINE c == [copy[a] EXCEPT !.disabled = auth[on[a]].disabled]
    <3>. on[a] \in Ids /\ auth[on[a]].disabled \in BOOLEAN
      BY <1>6 DEF MergeToken, TypeOK, Auths
    <3>1. /\ c \in Auths /\ c.token = copy[a].token /\ c.login = copy[a].login
      BY FlagSet DEF TypeOK
    <3>2. Keep(a) \in Auths /\ Keep(a).token = None
      BY DEF Keep, Absent, Auths, TypeOK
    <3>3. Store(on[a], c) BY <1>6, <2>1 DEF MergeToken
    <3>4. /\ Only(a) /\ at'[a] = "initializing" /\ lock'[a] = None
          /\ on'[a] = on[a] /\ copy'[a].token = None
      BY <1>6, <2>1, <3>2
         DEF MergeToken, Become, Unlock, Only, TypeOK, Phases
    <3>. HIDE DEF c
    <3>. QED BY <1>6, <2>1, <3>1, <3>3, <3>4, CommitKeeps DEF MergeToken
  <2>2. CASE ~Matches(a)
    <3>. SameTokens BY <1>6, <2>2 DEF MergeToken, SameTokens, TypeOK
    <3>. QED BY <1>6, <2>2, ReturnKeeps DEF MergeToken, Spoil, TypeOK
  <2>. QED BY <2>1, <2>2
<1>7. CASE EndLifecycle(a)
  <2>. SameTokens
    BY <1>7, FlagStored DEF EndLifecycle, SameTokens, TypeOK
  <2>. QED BY <1>7, ReturnKeeps DEF EndLifecycle, TypeOK
<1>. QED BY <1>1, <1>2, <1>3, <1>4, <1>5, <1>6, <1>7 DEF AttemptStep

LEMMA InvariantKept == IInv /\ [Next]_vars => IInv'
<1>. SUFFICES ASSUME IInv, [Next]_vars PROVE IInv' OBVIOUS
<1>1. ASSUME NEW m \in Managers, ManagerStep(m) PROVE IInv'
  BY <1>1, StartEditKeeps, StartImportKeeps, StartRemoveKeeps, CommitEditKeeps,
     RemoveLockKeeps, RegisterKeeps DEF ManagerStep
<1>2. ASSUME NEW i \in Ids, Invalidate(i) PROVE IInv'
  <2>. SameTokens
    BY <1>2, FlagStored DEF Invalidate, IInv
  <2>. QED BY <1>2, FlagKeeps DEF Invalidate
<1>3. CASE UNCHANGED vars
  <2>. SameTokens BY <1>3 DEF vars, SameTokens, TypeOK, IInv
  <2>. QED BY <1>3, FlagKeeps DEF vars
<1>. QED BY <1>1, <1>2, <1>3, WorkerKeeps, AttemptKeeps, ImportInPlaceKeeps
         DEF Next

LEMMA Invariant == Spec => []IInv
<1>1. Init => IInv
  BY DEF Init, IInv, TypeOK, CopiesTyped, ImportsPrivate, OneLogin, SameLock,
         OneRefresh, RefreshLive, StoredLive, Full, Rotating, Present, Absent,
         Auths, Phases
<1>. QED BY <1>1, InvariantKept, PTL DEF Spec

(* Every variable keeps its type, and a refresh its lock to its end.       *)
THEOREM RefreshTypes == Spec => []TypeOK
<1>. IInv => TypeOK BY DEF IInv
<1>. QED BY Invariant, PTL

(* No refresh of an unspoiled credential spends a token that is used up.   *)
THEOREM TokensAreSpentOnce == Spec => []RotationSafe
<1>. IInv => RotationSafe BY DEF IInv, RefreshLive, Rotating, RotationSafe
<1>. QED BY Invariant, PTL

(* No step of an attempt changes the generation of what is stored.         *)
THEOREM AttemptsKeepReimports == Spec => ReimportKept
<1>. DEFINE Kept == \A a \in Attempts : at[a] # at'[a] =>
                      \A i \in Ids : auth'[i].login = auth[i].login
<1>1. IInv /\ [Next]_vars => [Kept]_vars
  <2>. SUFFICES ASSUME TypeOK, Next, NEW a \in Attempts, at[a] # at'[a],
                       NEW i \in Ids
                PROVE  auth'[i].login = auth[i].login
    BY DEF IInv
  <2>. a \in Agents /\ auth[i] \in Auths BY DEF Agents, TypeOK
  <2>1. ASSUME NEW w \in Workers, WorkerStep(w) PROVE FALSE
    <3>. w \in Agents /\ w # a BY DEF Agents
    <3>. QED BY <2>1 DEF WorkerStep, StartRefresh, Acquire, Answer, RefreshFails,
                         RefreshRefused, CommitRefresh, Update, Take, Return,
                         Become, TypeOK
  <2>2. ASSUME NEW m \in Managers, ManagerStep(m) PROVE FALSE
    <3>. m \in Agents /\ m # a BY DEF Agents
    <3>. QED BY <2>2 DEF ManagerStep, StartEdit, StartImport, StartRemove,
                         CommitEdit, RemoveLock, Register, Update, Take, Return,
                         Become, TypeOK
  <2>3. ASSUME NEW b \in Attempts, AttemptStep(b)
        PROVE  \A j \in Ids : auth'[j].login = auth[j].login
    <3>. b \in Agents BY DEF Agents
    <3>1. CASE MergeToken(b) /\ Matches(b)
      <4>. DEFINE c == [copy[b] EXCEPT !.disabled = auth[on[b]].disabled]
      <4>1. on[b] \in Ids /\ auth[on[b]].disabled \in BOOLEAN
        BY <3>1 DEF MergeToken, TypeOK, Auths
      <4>2. c \in Auths /\ c.login = copy[b].login
        BY <4>1, FlagSet DEF TypeOK
      <4>3. Store(on[b], c) BY <3>1 DEF MergeToken
      <4>. HIDE DEF c
      <4>. QED BY <3>1, <4>1, <4>2, <4>3 DEF Matches, Store, TypeOK
    <3>2. CASE EndLifecycle(b)
      BY <3>2, FlagStored DEF EndLifecycle, SameTokens, TypeOK
    <3>3. CASE UNCHANGED auth BY <3>3
    <3>. QED BY <2>3, <3>1, <3>2, <3>3
             DEF AttemptStep, StartLifecycle, AcquireLifecycle, Answer,
                 RefreshFails, LifecycleRefused, MergeToken
  <2>4. ASSUME NEW j \in Ids, ImportInPlace(j) \/ Invalidate(j) PROVE FALSE
    BY <2>4 DEF ImportInPlace, Invalidate
  <2>. QED BY <2>1, <2>2, <2>3, <2>4 DEF Next
<1>. QED BY <1>1, Invariant, PTL DEF Spec, ReimportKept
=============================================================================
