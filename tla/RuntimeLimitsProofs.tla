-------------------------- MODULE RuntimeLimitsProofs --------------------------
(***************************************************************************)
(* Proofs about RuntimeLimits: the slots and the fallback of a credential  *)
(* are counted exactly, its rate is bounded, its freezes are absolute and  *)
(* its backoff converges, for every configuration, every number of         *)
(* requests and every lag of the callers' clocks.                          *)
(***************************************************************************)
EXTENDS RuntimeLimits, FiniteSetTheorems, FunctionTheorems, TLAPS

(* The number of subsets of 1 .. n is a power of two, so that is a natural *)
(* number.                                                                 *)
LEMMA PowerOfTwo ==
  ASSUME NEW n \in Nat
  PROVE  2 ^ n \in Nat
<1>1. IsFiniteSet(1 .. n) /\ Cardinality(1 .. n) = n
  BY FS_Interval
<1>2. IsFiniteSet(SUBSET (1 .. n)) /\ Cardinality(SUBSET (1 .. n)) = 2 ^ n
  BY <1>1, FS_SUBSET
<1>3. QED
  BY <1>2, FS_CardinalityType

-----------------------------------------------------------------------------
(* Types                                                                   *)

(* A caller never works with Go's zero time.                               *)
Types == TypeOK /\ clock > MaxLag

LEMMA TimesRead ==
  ASSUME Types, NEW now \in Nows
  PROVE  now \in Nat \ {0} /\ now <= clock /\ clock <= now + MaxLag
BY ConfigAssumption DEF Types, TypeOK, Nows

(* The limits of the configuration in use.                                 *)
LEMMA Configured ==
  ASSUME TypeOK
  PROVE  /\ MaxConcurrency \in Nat /\ AffinityMax \in Nat /\ BurstMax \in Nat
         /\ RateMax \in Nat /\ Window \in Nat \ {0} /\ MaxTime \in Nat
         /\ config.freezes \subseteq Nat /\ config.usages \subseteq Nat
         /\ config.preempts \subseteq Nat /\ config.retryAfters \subseteq Nat
BY ConfigAssumption
   DEF TypeOK, Config, MaxConcurrency, AffinityMax, BurstMax, RateMax, Window,
       MaxTime

(* Compaction only ever takes deadlines back to zero.                      *)
LEMMA Compacted ==
  ASSUME Types, NEW now \in Nows
  PROVE  /\ CompactFreezes(now) \in [Freezes -> Nat]
         /\ \A f \in Freezes : CompactFreezes(now)[f] \in {0, until[f]}
         /\ \A f \in Freezes : until[f] > now => CompactFreezes(now)[f] = until[f]
         /\ CompactWindow(now) \in [start : Nat, count : Nat]
<1>1. now \in Nat /\ now <= clock
  BY TimesRead
<1>2. until \in [Freezes -> Nat] /\ rateWindow \in [start : Nat, count : Nat]
  BY DEF Types, TypeOK
<1>3. QED
  BY <1>1, <1>2 DEF CompactFreezes, CompactWindow

(* A cooldown lasts for MaxBackoff at most.                                *)
LEMMA CooldownBounded ==
  ASSUME TypeOK, NEW retryAfter \in Nat
  PROVE  Cooldown(retryAfter) \in 0 .. MaxBackoff
<1>1. 2 ^ upstreamBackoff.level \in Nat
  BY PowerOfTwo DEF TypeOK
<1> DEFINE power == 2 ^ upstreamBackoff.level
<1>2. BaseBackoff * power \in Nat
  <2> HIDE DEF power
  <2> QED
    BY <1>1, BackoffAssumption DEF power
<1> HIDE DEF power
<1>3. ASSUME NEW backoff \in Nat
      PROVE  LET wanted == Larger(retryAfter, backoff)
             IN  (IF wanted < MaxBackoff THEN wanted ELSE MaxBackoff) \in 0 .. MaxBackoff
  BY BackoffAssumption DEF Larger
<1>4. QED
  BY <1>2, <1>3 DEF Cooldown, power

LEMMA TypesHold == Spec => []Types
<1>1. Init => Types
  <2> SUFFICES ASSUME Init
               PROVE  Types
    OBVIOUS
  <2>1. clock \in Nat /\ clock > MaxLag /\ config \in Configs
    BY ConfigAssumption DEF Init
  <2>2. until \in [Freezes -> Nat] /\ until["upstream"] <= clock + MaxBackoff
    BY <2>1, BackoffAssumption DEF Init, Freezes
  <2>3. request \in [Requests -> [pc : Pcs, lane : Lanes, fallback : BOOLEAN]]
    BY DEF Init, Idle, Pcs, Lanes
  <2>4. QED
    BY <2>1, <2>2, <2>3 DEF Init, Types, TypeOK
<1>2. Types /\ [Next]_vars => Types'
  <2> SUFFICES ASSUME Types, [Next]_vars
               PROVE  Types'
    OBVIOUS
  <2>0. TypeOK /\ clock > MaxLag /\ MaxLag \in Nat /\ MaxBackoff \in Nat
    BY ConfigAssumption, BackoffAssumption DEF Types
  <2> USE <2>0, Configured
  <2>1. ASSUME NEW r \in Requests, NEW lane \in Lanes,
               NEW fallback \in BOOLEAN, NEW now \in Nows,
               Acquire(r, lane, fallback, now), UNCHANGED config
        PROVE  Types'
    <3>1. now \in Nat /\ now <= clock
      BY TimesRead
    <3>2. until' \in [Freezes -> Nat] /\ until'["upstream"] <= clock + MaxBackoff
      BY <2>1, Compacted DEF Acquire, Types, TypeOK, Freezes
    <3>3. request' \in [Requests -> [pc : Pcs, lane : Lanes, fallback : BOOLEAN]]
      BY <2>1 DEF Acquire, TypeOK, Pcs
    <3>4. /\ rateWindow' \in [start : Nat, count : Nat]
          /\ admitted' \subseteq [at : 0 .. clock, window : Nat, nth : Nat]
      BY <2>1, <3>1, Compacted DEF Acquire, TypeOK
    <3>5. currentConcurrency' \in Nat /\ quotaPreemptFallbackInFlight' \in Nat
      BY <2>1 DEF Acquire, TypeOK
    <3>6. QED
      BY <2>1, <3>2, <3>3, <3>4, <3>5 DEF Acquire, Types, TypeOK
  <2>2. ASSUME NEW r \in Requests,
               Release(r) \/ ReleaseEarly(r) \/ ReleaseDrained(r),
               UNCHANGED config
        PROVE  Types'
    <3>1. request' \in [Requests -> [pc : Pcs, lane : Lanes, fallback : BOOLEAN]]
      <4>1. CASE request' = [request EXCEPT ![r] = Idle]
        BY <4>1 DEF TypeOK, Pcs, Lanes, Idle
      <4>2. CASE request' = [request EXCEPT ![r].pc = "released"]
        BY <4>2 DEF TypeOK, Pcs
      <4>3. QED
        BY <2>2, <4>1, <4>2 DEF Release, ReleaseEarly, ReleaseDrained
    <3>2. currentConcurrency' \in Nat /\ quotaPreemptFallbackInFlight' \in Nat
      BY <2>2 DEF Release, ReleaseEarly, ReleaseDrained, ReleaseSlot, TypeOK, Larger
    <3>3. QED
      BY <2>2, <3>1, <3>2
         DEF Release, ReleaseEarly, ReleaseDrained, Types, TypeOK
  <2>3. ASSUME NEW now \in Nows, UNCHANGED config,
               Check(now) \/ ClearTransient(now)
        PROVE  Types'
    <3>1. until' \in [Freezes -> Nat] /\ until'["upstream"] <= clock + MaxBackoff
      BY <2>3, Compacted
         DEF Check, ClearTransient, ClearTransientFreezes, Types, TypeOK, Freezes
    <3>2. QED
      BY <2>3, <3>1, Compacted DEF Check, ClearTransient, Types, TypeOK, slotVars
  <2>4. ASSUME NEW now \in Nows, UNCHANGED config,
               \/ \E length \in config.freezes : FreezeRuntimeResult(length, now)
               \/ \E length \in config.usages : FreezeUsageLimit(length, now)
               \/ \E length \in config.preempts : PreemptQuota(length, now)
        PROVE  Types'
    <3>1. now \in Nat
      BY TimesRead
    <3>2. QED
      BY <2>4, <3>1
         DEF FreezeRuntimeResult, FreezeUsageLimit, PreemptQuota, Freeze, Larger,
             Types, TypeOK, Freezes, slotVars
  <2>5. ASSUME NEW now \in Nows, NEW retryAfter \in config.retryAfters,
               FreezeUpstreamRateLimit(retryAfter, now), UNCHANGED config
        PROVE  Types'
    <3>1. now \in Nat /\ now <= clock
      BY TimesRead
    <3>2. Cooldown(retryAfter) \in 0 .. MaxBackoff
      BY CooldownBounded
    <3>3. QED
      BY <2>5, <3>1, <3>2
         DEF FreezeUpstreamRateLimit, Freeze, Larger, Types, TypeOK, Freezes,
             slotVars
  <2>6. ASSUME NEW now \in Nows, ObserveUpstreamSuccess(now), UNCHANGED config
        PROVE  Types'
    BY <2>6 DEF ObserveUpstreamSuccess, Freeze, Types, TypeOK, Freezes, slotVars
  <2>7. ASSUME EndQuotaPreempt \/ ResetQuota \/ Tick, UNCHANGED config
        PROVE  Types'
    <3>1. CASE EndQuotaPreempt
      BY <3>1, <2>7 DEF EndQuotaPreempt, Freeze, Types, TypeOK, Freezes, slotVars
    <3>2. CASE ResetQuota
      BY <3>2, <2>7 DEF ResetQuota, ResetFallback, Types, TypeOK, Freezes
    <3>3. CASE Tick
      <4>1. /\ clock' = clock + 1
            /\ admitted' \subseteq [at : 0 .. clock, window : Nat, nth : Nat]
        BY <3>3 DEF Tick, TypeOK
      <4>2. \A a \in [at : 0 .. clock, window : Nat, nth : Nat] :
              a \in [at : 0 .. clock + 1, window : Nat, nth : Nat]
        BY DEF TypeOK
      <4>3. admitted' \subseteq [at : 0 .. clock', window : Nat, nth : Nat]
        BY <4>1, <4>2
      <4>4. QED
        BY <3>3, <2>7, <4>3 DEF Tick, Types, TypeOK, Freezes, slotVars
    <3>4. QED
      BY <2>7, <3>1, <3>2, <3>3
  <2>8. CASE UNCHANGED vars
    BY <2>8 DEF vars, slotVars, Types, TypeOK
  <2>9. QED
    BY <2>1, <2>2, <2>3, <2>4, <2>5, <2>6, <2>7, <2>8
       DEF Next, Step, RequestStep, ResultStep
<1>3. QED
  BY <1>1, <1>2, PTL DEF Spec

(* Every variable keeps its type, and an upstream 429 never freezes a      *)
(* credential for longer than five minutes, whatever Retry-After says.     *)
THEOREM LimitsTypes == Spec => []TypeOK
BY TypesHold, PTL DEF Types

-----------------------------------------------------------------------------
(* Slots and the fallback                                                  *)

Fallbacks == {r \in Holding : request[r].fallback}
Cold == {r \in Holding : request[r].lane = "cold"}

Slots == SlotsExact /\ FallbackExclusive

(* Only an admission, a release and a quota reset touch the slots.         *)
LEMMA SlotSteps ==
  ASSUME [Next]_vars
  PROVE  \/ UNCHANGED <<config, slotVars>>
         \/ /\ UNCHANGED config
            /\ \/ ResetQuota
               \/ \E r \in Requests :
                    \/ \E lane \in Lanes, fallback \in BOOLEAN, now \in Nows :
                         Acquire(r, lane, fallback, now)
                    \/ Release(r) \/ ReleaseEarly(r) \/ ReleaseDrained(r)
BY DEF Next, Step, RequestStep, ResultStep, vars, Check, FreezeRuntimeResult,
       FreezeUsageLimit, FreezeUpstreamRateLimit, ObserveUpstreamSuccess,
       PreemptQuota, ClearTransient, EndQuotaPreempt, Tick

LEMMA HoldingFinite ==
  /\ IsFiniteSet(Holding) /\ Cardinality(Holding) \in Nat
  /\ IsFiniteSet(Cold) /\ Cardinality(Cold) \in Nat
  /\ IsFiniteSet(Fallbacks) /\ Cardinality(Fallbacks) \in Nat
  /\ Cardinality(Cold) <= Cardinality(Holding)
<1>1. IsFiniteSet(Holding)
  BY RequestsAssumption, FS_Subset DEF Holding
<1>2. IsFiniteSet(Cold) /\ Cardinality(Cold) <= Cardinality(Holding)
  BY <1>1, FS_Subset DEF Cold
<1>3. IsFiniteSet(Fallbacks)
  BY <1>1, FS_Subset DEF Fallbacks
<1>4. QED
  BY <1>1, <1>2, <1>3, FS_CardinalityType

(* An admission takes a slot below the limit of its lane, and the slot of  *)
(* the fallback only when nobody has it.                                   *)
LEMMA AcquireSlot ==
  ASSUME TypeOK, Slots, NEW r \in Requests, NEW lane \in Lanes,
         NEW fallback \in BOOLEAN, NEW now \in Nows,
         Acquire(r, lane, fallback, now), UNCHANGED config
  PROVE  Slots'
<1>0. /\ Cardinality(Holding) = currentConcurrency
      /\ quotaPreemptFallbackInFlight = Cardinality(Fallbacks)
      /\ Cardinality(Fallbacks) <= 1
      /\ Cardinality(Fallbacks) \in Nat /\ Cardinality(Holding) \in Nat
      /\ Cardinality(Cold) \in Nat /\ Cardinality(Cold) <= Cardinality(Holding)
      /\ NormalLimit("cold") > 0 => Cardinality(Cold) <= NormalLimit("cold")
  BY HoldingFinite DEF Slots, SlotsExact, FallbackExclusive, Fallbacks, Cold
<1> DEFINE mine == ActiveFreeze(now) /\ fallback /\ lane # "burst"
<1>1. /\ r \notin Holding
      /\ currentConcurrency' = currentConcurrency + 1
      /\ request' = [request EXCEPT ![r] =
                       [pc |-> "holding", lane |-> lane, fallback |-> mine]]
      /\ quotaPreemptFallbackInFlight' =
           quotaPreemptFallbackInFlight + (IF mine THEN 1 ELSE 0)
  BY DEF Acquire, Holding
<1>2. mine => quotaPreemptFallbackInFlight = 0
  BY DEF Acquire, FreezeBypassed
<1> HIDE DEF mine
<1>3. /\ Holding' = Holding \union {r}
      /\ Cold' = IF lane = "cold" THEN Cold \union {r} ELSE Cold
      /\ Fallbacks' = IF mine THEN Fallbacks \union {r} ELSE Fallbacks
  BY <1>1 DEF TypeOK, Holding, Cold, Fallbacks
<1>4. /\ Cardinality(Holding') = Cardinality(Holding) + 1
      /\ Cardinality(Cold') =
           Cardinality(Cold) + (IF lane = "cold" THEN 1 ELSE 0)
      /\ Cardinality(Fallbacks') =
           Cardinality(Fallbacks) + (IF mine THEN 1 ELSE 0)
  <2>1. r \notin Cold /\ r \notin Fallbacks
    BY <1>1 DEF Cold, Fallbacks
  <2>2. Cardinality(Holding') = Cardinality(Holding) + 1
    BY <1>1, <1>3, HoldingFinite, FS_AddElement
  <2>3. lane = "cold" => Cardinality(Cold') = Cardinality(Cold) + 1
    BY <1>3, <2>1, HoldingFinite, FS_AddElement
  <2>4. mine => Cardinality(Fallbacks') = Cardinality(Fallbacks) + 1
    BY <1>3, <2>1, HoldingFinite, FS_AddElement
  <2>5. QED
    BY <1>0, <1>3, <2>2, <2>3, <2>4
<1>5. FallbackExclusive'
  <2>1. Cardinality(Fallbacks') <= 1
    BY <1>0, <1>2, <1>4
  <2>2. quotaPreemptFallbackInFlight' = Cardinality(Fallbacks')
    BY <1>0, <1>1, <1>4
  <2>3. QED
    BY <2>1, <2>2 DEF FallbackExclusive, Fallbacks
<1>6. MaxConcurrency > 0 => currentConcurrency + 1 <= BurstLimit
  <2>1. HasSlot(lane) /\ lane \in Lanes
    BY DEF Acquire
  <2>2. QED
    BY <2>1, <1>0, Configured
       DEF HasSlot, NormalLimit, BurstLimit, Larger, Lanes
<1>7. lane = "cold" /\ NormalLimit("cold") > 0
        => Cardinality(Cold) + 1 <= NormalLimit("cold")
  <2>1. HasSlot(lane)
    BY DEF Acquire
  <2>2. NormalLimit("cold") \in Nat
    BY Configured DEF NormalLimit
  <2>3. QED
    BY <2>1, <2>2, <1>0 DEF HasSlot
<1>8. SlotsExact'
  <2>1. /\ NormalLimit("cold")' = NormalLimit("cold") /\ BurstLimit' = BurstLimit
        /\ MaxConcurrency' = MaxConcurrency
    BY DEF NormalLimit, BurstLimit, MaxConcurrency, AffinityMax, BurstMax, Larger
  <2>2. currentConcurrency' = Cardinality(Holding')
    BY <1>0, <1>1, <1>4
  <2>3. NormalLimit("cold") > 0 => Cardinality(Cold') <= NormalLimit("cold")
    BY <1>0, <1>4, <1>7
  <2>4. MaxConcurrency > 0 => currentConcurrency' <= BurstLimit
    BY <1>1, <1>6
  <2>5. QED
    BY <2>1, <2>2, <2>3, <2>4 DEF SlotsExact, Cold
<1>9. QED
  BY <1>5, <1>8 DEF Slots

(* The first call of release gives back what the admission took, another   *)
(* one gives back nothing.                                                 *)
LEMMA ReleaseASlot ==
  ASSUME TypeOK, Slots, NEW r \in Requests, UNCHANGED config,
         Release(r) \/ ReleaseEarly(r) \/ ReleaseDrained(r)
  PROVE  Slots'
<1>0. /\ Cardinality(Holding) = currentConcurrency
      /\ quotaPreemptFallbackInFlight = Cardinality(Fallbacks)
      /\ Cardinality(Fallbacks) <= 1
      /\ Cardinality(Fallbacks) \in Nat /\ Cardinality(Holding) \in Nat
      /\ Cardinality(Cold) \in Nat
      /\ NormalLimit("cold") > 0 => Cardinality(Cold) <= NormalLimit("cold")
      /\ MaxConcurrency > 0 => currentConcurrency <= BurstLimit
  BY HoldingFinite DEF Slots, SlotsExact, FallbackExclusive, Fallbacks, Cold
<1>1. /\ NormalLimit("cold")' = NormalLimit("cold") /\ NormalLimit("cold") \in Nat
      /\ BurstLimit' = BurstLimit /\ BurstLimit \in Nat
      /\ MaxConcurrency' = MaxConcurrency /\ MaxConcurrency \in Nat
  BY Configured DEF NormalLimit, BurstLimit, MaxConcurrency, AffinityMax, BurstMax, Larger
<1>2. CASE Release(r) \/ ReleaseEarly(r)
  <2>1. /\ r \in Holding
        /\ Holding' = Holding \ {r}
        /\ Cold' = Cold \ {r} /\ Fallbacks' = Fallbacks \ {r}
    <3>1. CASE request' = [request EXCEPT ![r] = Idle]
      BY <1>2, <3>1
         DEF Release, ReleaseEarly, TypeOK, Holding, Cold, Fallbacks, Idle
    <3>2. CASE request' = [request EXCEPT ![r].pc = "released"]
      BY <1>2, <3>2
         DEF Release, ReleaseEarly, TypeOK, Holding, Cold, Fallbacks
    <3>3. QED
      BY <1>2, <3>1, <3>2 DEF Release, ReleaseEarly
  <2>2. r \in Fallbacks <=> request[r].fallback
    BY <2>1 DEF Fallbacks
  <2>3. /\ Cardinality(Holding') = Cardinality(Holding) - 1
        /\ Cardinality(Cold') = Cardinality(Cold) - (IF r \in Cold THEN 1 ELSE 0)
        /\ Cardinality(Fallbacks') =
             Cardinality(Fallbacks) - (IF r \in Fallbacks THEN 1 ELSE 0)
        /\ Cardinality(Holding') \in Nat /\ Cardinality(Fallbacks') \in Nat
    <3>1. /\ IsFiniteSet(Holding') /\ IsFiniteSet(Fallbacks')
          /\ Cardinality(Holding') = Cardinality(Holding) - 1
          /\ Cardinality(Cold') = Cardinality(Cold) - (IF r \in Cold THEN 1 ELSE 0)
          /\ Cardinality(Fallbacks') =
               Cardinality(Fallbacks) - (IF r \in Fallbacks THEN 1 ELSE 0)
      <4>1. IsFiniteSet(Holding') /\ Cardinality(Holding') = Cardinality(Holding) - 1
        BY <2>1, HoldingFinite, FS_RemoveElement
      <4>2. Cardinality(Cold') =
              IF r \in Cold THEN Cardinality(Cold) - 1 ELSE Cardinality(Cold)
        BY <2>1, HoldingFinite, FS_RemoveElement
      <4>3. /\ IsFiniteSet(Fallbacks')
            /\ Cardinality(Fallbacks') =
                 IF r \in Fallbacks THEN Cardinality(Fallbacks) - 1
                                    ELSE Cardinality(Fallbacks)
        BY <2>1, HoldingFinite, FS_RemoveElement
      <4>4. QED
        BY <1>0, <4>1, <4>2, <4>3
    <3>2. QED
      BY <3>1, FS_CardinalityType
  <2>4. /\ currentConcurrency' = currentConcurrency - 1
        /\ quotaPreemptFallbackInFlight' =
             quotaPreemptFallbackInFlight - (IF r \in Fallbacks THEN 1 ELSE 0)
    BY <1>0, <1>2, <2>2, <2>3 DEF Release, ReleaseEarly, ReleaseSlot, Larger, TypeOK
  <2>5. SlotsExact'
    <3>1. currentConcurrency' = Cardinality(Holding')
      BY <1>0, <2>3, <2>4
    <3>2. NormalLimit("cold") > 0 => Cardinality(Cold') <= NormalLimit("cold")
      BY <1>0, <1>1, <2>3
    <3>3. MaxConcurrency > 0 => currentConcurrency' <= BurstLimit
      BY <1>0, <1>1, <2>4
    <3>4. QED
      BY <1>1, <3>1, <3>2, <3>3 DEF SlotsExact, Cold
  <2>6. FallbackExclusive'
    <3>1. Cardinality(Fallbacks') <= 1
      BY <1>0, <2>3
    <3>2. quotaPreemptFallbackInFlight' = Cardinality(Fallbacks')
      BY <1>0, <2>3, <2>4
    <3>3. QED
      BY <3>1, <3>2 DEF FallbackExclusive, Fallbacks
  <2>7. QED
    BY <2>5, <2>6 DEF Slots
<1>3. CASE ReleaseDrained(r)
  <2>1. Holding' = Holding /\ Cold' = Cold /\ Fallbacks' = Fallbacks
    BY <1>3 DEF ReleaseDrained, TypeOK, Holding, Cold, Fallbacks, Idle
  <2>2. UNCHANGED <<currentConcurrency, quotaPreemptFallbackInFlight>>
    BY <1>3 DEF ReleaseDrained
  <2>3. QED
    BY <1>0, <1>1, <2>1, <2>2
       DEF Slots, SlotsExact, FallbackExclusive, Cold, Fallbacks
<1>4. QED
  BY <1>2, <1>3

LEMMA SlotsHold == Spec => []Slots
<1>1. Init => Slots
  <2> SUFFICES ASSUME Init
               PROVE  Slots
    OBVIOUS
  <2>1. config \in Configs /\ currentConcurrency = 0 /\ quotaPreemptFallbackInFlight = 0
    BY DEF Init
  <2>2. Holding = {} /\ Cold = {} /\ Fallbacks = {}
    BY DEF Init, Holding, Cold, Fallbacks, Idle
  <2>3. Cardinality(Holding) = 0 /\ Cardinality(Cold) = 0 /\ Cardinality(Fallbacks) = 0
    BY <2>2, FS_EmptySet
  <2>4. BurstLimit \in Nat /\ NormalLimit("cold") \in Nat
    BY <2>1, ConfigAssumption
       DEF Config, BurstLimit, NormalLimit, MaxConcurrency, AffinityMax, BurstMax, Larger
  <2>5. QED
    BY <2>1, <2>3, <2>4
       DEF Slots, SlotsExact, FallbackExclusive, Cold, Fallbacks
<1>2. TypeOK /\ Slots /\ [Next]_vars => Slots'
  <2> SUFFICES ASSUME TypeOK, Slots, [Next]_vars
               PROVE  Slots'
    OBVIOUS
  <2>1. CASE UNCHANGED <<config, slotVars>>
    BY <2>1
       DEF slotVars, Slots, SlotsExact, FallbackExclusive, Holding, NormalLimit,
           BurstLimit, MaxConcurrency, AffinityMax, BurstMax, Larger
  <2>2. CASE ResetQuota /\ UNCHANGED config
    <3>1. UNCHANGED <<currentConcurrency, request, config>>
      BY <2>2 DEF ResetQuota
    <3>2. currentConcurrency = 0 => Fallbacks = {}
      BY HoldingFinite, FS_EmptySet DEF Slots, SlotsExact, Fallbacks
    <3>3. quotaPreemptFallbackInFlight' = quotaPreemptFallbackInFlight
      BY <2>2, <3>2, FS_EmptySet
         DEF ResetQuota, ResetFallback, Slots, FallbackExclusive, Fallbacks
    <3>4. QED
      BY <3>1, <3>3
         DEF Slots, SlotsExact, FallbackExclusive, Holding, NormalLimit,
             BurstLimit, MaxConcurrency, AffinityMax, BurstMax, Larger
  <2>3. QED
    BY <2>1, <2>2, SlotSteps, AcquireSlot, ReleaseASlot
<1>3. QED
  BY <1>1, <1>2, LimitsTypes, PTL DEF Spec

(* The concurrency counter is the number of requests that hold a slot,     *)
(* through early and repeated releases and quota resets, and stays within  *)
(* the limits of the lanes.                                                *)
THEOREM SlotsAreExact == Spec => []SlotsExact
BY SlotsHold, PTL DEF Slots

(* At most one request at a time is the fallback for a nearly used quota,  *)
(* and the counter says exactly that.                                      *)
THEOREM FallbackIsExclusive == Spec => []FallbackExclusive
BY SlotsHold, PTL DEF Slots

-----------------------------------------------------------------------------
(* Freezes                                                                 *)

(* Freezes for an error, a usage limit or an upstream 429 are absolute: no *)
(* request gets a slot while one holds by the clock, however old the time  *)
(* of its caller is.                                                       *)
THEOREM FreezesAreAbsolute == Spec => AbsoluteFreeze
<1>1. ASSUME Types, [Next]_vars, NEW q \in Requests,
             request[q].pc = "idle", request'[q].pc = "holding",
             NEW f \in Freezes \ {"preempt"}
      PROVE  until[f] <= clock
  <2>1. CASE \E r \in Requests, lane \in Lanes, fallback \in BOOLEAN, now \in Nows :
               Acquire(r, lane, fallback, now)
    <3>1. PICK r \in Requests, lane \in Lanes, fallback \in BOOLEAN, now \in Nows :
            Acquire(r, lane, fallback, now)
      BY <2>1
    <3>2. now <= clock /\ now \in Nat /\ until[f] \in Nat /\ clock \in Nat
      BY <1>1, TimesRead DEF Types, TypeOK
    <3>3. until[f] <= now
      <4>1. CASE ActiveFreeze(now)
        BY <3>1, <4>1 DEF Acquire, FreezeBypassed, OnlyQuotaPreemptFreeze
      <4>2. CASE ~ActiveFreeze(now)
        BY <3>2, <4>2 DEF ActiveFreeze
      <4>3. QED
        BY <4>1, <4>2
    <3>4. QED
      BY <3>2, <3>3
  <2>2. CASE \E r \in Requests : Release(r) \/ ReleaseEarly(r) \/ ReleaseDrained(r)
    <3>1. PICK r \in Requests : Release(r) \/ ReleaseEarly(r) \/ ReleaseDrained(r)
      BY <2>2
    <3>2. CASE request' = [request EXCEPT ![r] = Idle]
      BY <1>1, <3>2 DEF Types, TypeOK, Idle
    <3>3. CASE request' = [request EXCEPT ![r].pc = "released"]
      BY <1>1, <3>3 DEF Types, TypeOK
    <3>4. QED
      BY <3>1, <3>2, <3>3 DEF Release, ReleaseEarly, ReleaseDrained
  <2>3. CASE UNCHANGED request
    BY <1>1, <2>3
  <2>4. QED
    BY <1>1, <2>1, <2>2, <2>3, SlotSteps DEF slotVars, ResetQuota
<1>2. Types /\ [Next]_vars =>
        [\A r \in Requests :
           request[r].pc = "idle" /\ request'[r].pc = "holding"
             => \A f \in Freezes \ {"preempt"} : until[f] <= clock]_vars
  BY <1>1
<1>3. QED
  BY <1>2, TypesHold, PTL DEF Spec, AbsoluteFreeze

(* Only time or a quota reset ends the guard of a usage limit or of an     *)
(* upstream 429.                                                           *)
THEOREM GuardsAreHeld == Spec => GuardsHeld
<1>1. ASSUME Types, [Next]_vars, NEW f \in {"usage", "upstream"},
             until[f] > clock
      PROVE  until'[f] >= until[f] \/ ResetQuota
  <2>0. until \in [Freezes -> Nat] /\ clock \in Nat /\ f \in Freezes
    BY <1>1 DEF Types, TypeOK, Freezes
  <2>1. CASE until' = until
    BY <2>0, <2>1
  <2>2. ASSUME NEW now \in Nows, until' = CompactFreezes(now)
        PROVE  until'[f] >= until[f]
    BY <1>1, <2>0, <2>2, TimesRead DEF CompactFreezes
  <2>3. ASSUME NEW now \in Nows, ClearTransient(now)
        PROVE  until'[f] >= until[f]
    BY <1>1, <2>0, <2>3, TimesRead
       DEF ClearTransient, ClearTransientFreezes, CompactFreezes
  <2>4. ASSUME NEW t, until' = [until EXCEPT !["error"] = t]
        PROVE  until'[f] >= until[f]
    BY <2>0, <2>4
  <2>5. ASSUME NEW t, until' = [until EXCEPT !["preempt"] = t]
        PROVE  until'[f] >= until[f]
    BY <2>0, <2>5
  <2>6. ASSUME NEW now \in Nows, NEW length \in config.usages,
               FreezeUsageLimit(length, now)
        PROVE  until'[f] >= until[f]
    <3>1. now \in Nat /\ length \in Nat
      BY <1>1, TimesRead, Configured DEF Types
    <3>2. QED
      BY <2>0, <2>6, <3>1 DEF FreezeUsageLimit, Freeze, Larger
  <2>7. ASSUME NEW now \in Nows, NEW retryAfter \in config.retryAfters,
               FreezeUpstreamRateLimit(retryAfter, now)
        PROVE  until'[f] >= until[f]
    <3>1. now \in Nat /\ now <= clock
      BY <1>1, TimesRead
    <3>2. CASE f = "upstream"
      BY <1>1, <2>0, <2>7, <3>1, <3>2 DEF FreezeUpstreamRateLimit
    <3>3. CASE f = "usage"
      BY <2>0, <2>7, <3>3 DEF FreezeUpstreamRateLimit, Freeze
    <3>4. QED
      BY <3>2, <3>3
  <2>8. ASSUME NEW now \in Nows, ObserveUpstreamSuccess(now)
        PROVE  until'[f] >= until[f]
    BY <1>1, <2>0, <2>8, TimesRead DEF ObserveUpstreamSuccess, Freeze
  <2>9. QED
    <3>1. \/ until' = until \/ ResetQuota
          \/ \E now \in Nows :
               \/ until' = CompactFreezes(now) \/ ClearTransient(now)
               \/ \E length \in config.usages : FreezeUsageLimit(length, now)
               \/ \E retryAfter \in config.retryAfters :
                    FreezeUpstreamRateLimit(retryAfter, now)
               \/ ObserveUpstreamSuccess(now)
          \/ \E t : \/ until' = [until EXCEPT !["error"] = t]
                    \/ until' = [until EXCEPT !["preempt"] = t]
      BY <1>1
         DEF Next, Step, RequestStep, ResultStep, vars, Acquire, Release,
             ReleaseEarly, ReleaseDrained, Check, FreezeRuntimeResult,
             PreemptQuota, EndQuotaPreempt, Freeze, Tick
    <3>2. QED
      BY <3>1, <2>1, <2>2, <2>3, <2>4, <2>5, <2>6, <2>7, <2>8
<1>2. Types /\ [Next]_vars =>
        [\A f \in {"usage", "upstream"} :
           until[f] > clock => until'[f] >= until[f] \/ ResetQuota]_vars
  BY <1>1
<1>3. QED
  BY <1>2, TypesHold, PTL DEF Spec, GuardsHeld

-----------------------------------------------------------------------------
(* The progressive backoff                                                 *)

(* While the level is raised, lastSeen is not older than the last 429 by   *)
(* more than the lag of a caller's clock.                                  *)
BackoffSeen ==
  upstreamBackoff.level > 0 => last429 <= upstreamBackoff.lastSeen + MaxLag

backoffVars == <<upstreamBackoff, last429>>

LEMMA BackoffSteps ==
  ASSUME [Next]_vars
  PROVE  \/ UNCHANGED backoffVars
         \/ ResetQuota
         \/ \E now \in Nows :
              \/ ObserveUpstreamSuccess(now)
              \/ \E retryAfter \in config.retryAfters :
                   FreezeUpstreamRateLimit(retryAfter, now)
BY ZenonT(30)
   DEF Next, Step, RequestStep, ResultStep, vars, Check, FreezeRuntimeResult,
       FreezeUsageLimit, PreemptQuota, ClearTransient, EndQuotaPreempt, Tick,
       Acquire, Release, ReleaseEarly, ReleaseDrained, backoffVars

LEMMA BackoffSeenHolds == Spec => []BackoffSeen
<1>1. Init => BackoffSeen
  BY DEF Init, BackoffSeen
<1>2. Types /\ BackoffSeen /\ [Next]_vars => BackoffSeen'
  <2> SUFFICES ASSUME Types, BackoffSeen, [Next]_vars
               PROVE  BackoffSeen'
    OBVIOUS
  <2>1. CASE UNCHANGED backoffVars
    BY <2>1 DEF backoffVars, BackoffSeen
  <2>2. CASE ResetQuota
    BY <2>2 DEF ResetQuota, BackoffSeen
  <2>3. ASSUME NEW now \in Nows, ObserveUpstreamSuccess(now)
        PROVE  BackoffSeen'
    BY <2>3 DEF ObserveUpstreamSuccess, BackoffSeen
  <2>4. ASSUME NEW now \in Nows, NEW retryAfter \in config.retryAfters,
               FreezeUpstreamRateLimit(retryAfter, now)
        PROVE  BackoffSeen'
    <3>1. now \in Nat /\ clock <= now + MaxLag /\ MaxLag \in Nat
      BY TimesRead, ConfigAssumption
    <3>2. /\ last429' = clock
          /\ upstreamBackoff'.lastSeen = Larger(upstreamBackoff.lastSeen, now)
      BY <2>4 DEF FreezeUpstreamRateLimit
    <3>3. upstreamBackoff.lastSeen \in Nat /\ clock \in Nat
      BY DEF Types, TypeOK
    <3>4. QED
      BY <3>1, <3>2, <3>3 DEF BackoffSeen, Larger
  <2>5. QED
    BY <2>1, <2>2, <2>3, <2>4, BackoffSteps
<1>3. QED
  BY <1>1, <1>2, TypesHold, PTL DEF Spec

(* The backoff drops only at a quota reset or when no 429 came for the     *)
(* stable interval, less the lag of a caller's clock; and the 429s inside  *)
(* one window raise it by one level at most.                               *)
THEOREM BackoffDoesConverge == Spec => BackoffConverges
<1>1. ASSUME Types, BackoffSeen, [Next]_vars
      PROVE  /\ upstreamBackoff'.level < upstreamBackoff.level =>
                  ResetQuota \/ clock - last429 >= StableReset - MaxLag
             /\ upstreamBackoff'.level > upstreamBackoff.level =>
                  /\ upstreamBackoff'.level = upstreamBackoff.level + 1
                  /\ until["upstream"] <= clock
  <2>0. /\ upstreamBackoff.level \in Nat /\ upstreamBackoff.lastSeen \in Nat
        /\ last429 \in Nat /\ clock \in Nat /\ until["upstream"] \in Nat
        /\ StableReset \in Nat /\ MaxLag \in Nat
    BY <1>1, ConfigAssumption, BackoffAssumption DEF Types, TypeOK, Freezes
  <2>1. CASE UNCHANGED backoffVars
    BY <2>0, <2>1 DEF backoffVars
  <2>2. CASE ResetQuota
    BY <2>0, <2>2 DEF ResetQuota
  <2>3. ASSUME NEW now \in Nows, ObserveUpstreamSuccess(now)
        PROVE  /\ upstreamBackoff'.level = 0
               /\ upstreamBackoff.level > 0 =>
                    clock - last429 >= StableReset - MaxLag
    <3>1. now \in Nat /\ now <= clock
      BY <1>1, TimesRead
    <3>2. now - upstreamBackoff.lastSeen >= StableReset
      BY <2>3 DEF ObserveUpstreamSuccess, StableSince
    <3>3. upstreamBackoff'.level = 0
      BY <2>3 DEF ObserveUpstreamSuccess
    <3>4. QED
      BY <1>1, <2>0, <3>1, <3>2, <3>3 DEF BackoffSeen
  <2>4. ASSUME NEW now \in Nows, NEW retryAfter \in config.retryAfters,
               FreezeUpstreamRateLimit(retryAfter, now)
        PROVE  \/ upstreamBackoff'.level = upstreamBackoff.level
               \/ /\ upstreamBackoff'.level = upstreamBackoff.level + 1
                  /\ until["upstream"] <= clock
    <3>1. now \in Nat /\ now <= clock
      BY <1>1, TimesRead
    <3>2. upstreamBackoff'.level =
            upstreamBackoff.level
              + (IF ~(until["upstream"] > now) /\ Cooldown(retryAfter) < MaxBackoff
                   THEN 1 ELSE 0)
      BY <2>4 DEF FreezeUpstreamRateLimit
    <3>3. QED
      BY <2>0, <3>1, <3>2
  <2>5. QED
    BY <1>1, <2>0, <2>1, <2>2, <2>3, <2>4, BackoffSteps
<1>2. Types /\ BackoffSeen /\ [Next]_vars =>
        [/\ upstreamBackoff'.level < upstreamBackoff.level =>
              ResetQuota \/ clock - last429 >= StableReset - MaxLag
         /\ upstreamBackoff'.level > upstreamBackoff.level =>
              /\ upstreamBackoff'.level = upstreamBackoff.level + 1
              /\ until["upstream"] <= clock]_vars
  BY <1>1
<1>3. QED
  BY <1>2, TypesHold, BackoffSeenHolds, PTL DEF Spec, BackoffConverges

-----------------------------------------------------------------------------
(* The rate window                                                         *)

(* What is known of the admissions while the window w is open: each has a  *)
(* place of its own in its window, at a time that the window and the lag   *)
(* of a caller's clock allow, and windows are Window apart.                *)
InWindow(a) ==
  /\ a.window \in 1 .. a.at
  /\ a.at < a.window + Window + MaxLag
  /\ a.nth \in 1 .. RateMax

UpTo(a, w) ==
  \/ a.window = w.start /\ a.nth <= w.count
  \/ a.window + Window <= w.start

PlacesApart ==
  \A a, b \in admitted :
    /\ a.window < b.window => a.window + Window <= b.window
    /\ a.window = b.window /\ a.nth = b.nth => a = b

Windows(w) ==
  /\ w.start <= clock
  /\ \A a \in admitted : InWindow(a) /\ UpTo(a, w)
  /\ PlacesApart

(* A window that is opened anew starts behind all that was admitted.       *)
LEMMA WindowCompacted ==
  ASSUME Types, Windows(rateWindow), NEW now \in Nows
  PROVE  Windows(CompactWindow(now))
<1>0. /\ now \in Nat /\ now <= clock /\ clock \in Nat /\ Window \in Nat \ {0}
      /\ rateWindow.start \in Nat /\ rateWindow.count \in Nat
      /\ admitted \subseteq [at : 0 .. clock, window : Nat, nth : Nat]
  BY TimesRead, Configured DEF Types, TypeOK
<1>1. CASE CompactWindow(now) = rateWindow
  BY <1>1
<1>2. CASE /\ CompactWindow(now) = [start |-> now, count |-> 0]
           /\ now - rateWindow.start >= Window
  <2>1. rateWindow.start + Window <= now
    BY <1>0, <1>2
  <2>2. ASSUME NEW a \in admitted
        PROVE  UpTo(a, [start |-> now, count |-> 0])
    <3>1. a.window <= rateWindow.start /\ a.window \in Nat
      BY <1>0 DEF Windows, UpTo
    <3>2. QED
      BY <1>0, <2>1, <3>1 DEF UpTo
  <2>3. QED
    BY <1>0, <1>2, <2>2 DEF Windows
<1>3. QED
  BY <1>1, <1>2 DEF CompactWindow

(* An admission takes the next place of the window that is open, or the    *)
(* first one of a window it opens.                                         *)
LEMMA WindowAdmits ==
  ASSUME Types, Windows(rateWindow), NEW r \in Requests, NEW lane \in Lanes,
         NEW fallback \in BOOLEAN, NEW now \in Nows, RateMax # 0,
         Acquire(r, lane, fallback, now), UNCHANGED config
  PROVE  Windows(rateWindow)'
<1> DEFINE w     == CompactWindow(now)
           start == IF w.start = 0 THEN now ELSE w.start
           e     == [at |-> clock, window |-> start, nth |-> w.count + 1]
<1>0. /\ now \in Nat \ {0} /\ now <= clock /\ clock <= now + MaxLag
      /\ clock \in Nat /\ MaxLag \in Nat /\ Window \in Nat \ {0} /\ RateMax \in Nat
      /\ rateWindow.start \in Nat /\ w \in [start : Nat, count : Nat]
      /\ admitted \subseteq [at : 0 .. clock, window : Nat, nth : Nat]
  BY TimesRead, Configured, Compacted, ConfigAssumption DEF Types, TypeOK
<1>1. /\ clock' = clock /\ Window' = Window /\ RateMax' = RateMax
      /\ rateWindow' = [start |-> start, count |-> w.count + 1]
      /\ admitted' = admitted \union {e}
      /\ w.count < RateMax
  BY DEF Acquire, Window, RateMax
<1>2. Windows(w)
  BY WindowCompacted
<1>3. start \in 1 .. clock /\ clock < start + Window + MaxLag
  <2>1. CASE w.start = 0 \/ w.start = now
    BY <1>0, <2>1
  <2>2. CASE w = rateWindow /\ w.start # 0 /\ ~(now - rateWindow.start >= Window)
    BY <1>0, <1>2, <2>2 DEF Windows
  <2>3. QED
    BY <1>0, <2>1, <2>2 DEF CompactWindow
<1>4. \A a \in admitted :
        /\ a.window \in Nat /\ a.nth \in Nat
        /\ \/ a.window = start /\ a.nth <= w.count
           \/ a.window + Window <= start
  <2> SUFFICES ASSUME NEW a \in admitted
               PROVE  /\ a.window \in Nat /\ a.nth \in Nat
                      /\ \/ a.window = start /\ a.nth <= w.count
                         \/ a.window + Window <= start
    OBVIOUS
  <2>1. a.window \in Nat \ {0} /\ a.nth \in Nat /\ UpTo(a, w)
    BY <1>0, <1>2 DEF Windows, InWindow
  <2>2. w.start # 0
    BY <1>0, <2>1 DEF UpTo
  <2>3. QED
    BY <2>1, <2>2 DEF UpTo
<1>5. e.at = clock /\ e.window = start /\ e.nth = w.count + 1
  OBVIOUS
<1>6. w.count \in Nat
  BY <1>0
<1> HIDE DEF w, start, e
<1>7. \A a \in admitted' : InWindow(a)'
  <2>1. \A a \in {e} : InWindow(a)'
    BY <1>0, <1>1, <1>3, <1>5, <1>6 DEF InWindow
  <2>2. \A a \in admitted : InWindow(a)'
    BY <1>1, <1>2 DEF Windows, InWindow
  <2>3. QED
    BY <1>1, <2>1, <2>2
<1>8. \A a \in admitted' : UpTo(a, rateWindow)'
  <2>1. rateWindow'.start = start /\ rateWindow'.count = w.count + 1
    BY <1>1
  <2>2. \A a \in {e} : UpTo(a, rateWindow)'
    BY <2>1, <1>5, <1>6 DEF UpTo
  <2>3. \A a \in admitted : UpTo(a, rateWindow)'
    BY <1>1, <1>4, <1>6, <2>1 DEF UpTo
  <2>4. QED
    BY <1>1, <2>2, <2>3
<1>9. PlacesApart'
  <2>1. \A a \in admitted :
          /\ a.window <= e.window
          /\ a.window < e.window => a.window + Window <= e.window
          /\ ~(a.window = e.window /\ a.nth = e.nth)
    BY <1>0, <1>3, <1>4, <1>5, <1>6
  <2>2. PlacesApart /\ start \in Nat
    BY <1>2, <1>3 DEF Windows
  <2>3. QED
    BY <1>1, <1>4, <1>5, <2>1, <2>2 DEF PlacesApart
<1>10. QED
  BY <1>1, <1>3, <1>7, <1>8, <1>9 DEF Windows

LEMMA WindowsHold == Spec => []Windows(rateWindow)
<1>1. Init => Windows(rateWindow)
  BY ConfigAssumption DEF Init, Windows, PlacesApart
<1>2. Types /\ Windows(rateWindow) /\ [Next]_vars => Windows(rateWindow)'
  <2> SUFFICES ASSUME Types, Windows(rateWindow), [Next]_vars
               PROVE  Windows(rateWindow)'
    OBVIOUS
  <2>1. Window' = Window /\ RateMax' = RateMax /\ UNCHANGED config
    BY DEF Next, vars, Window, RateMax
  <2>2. CASE UNCHANGED <<clock, rateWindow, admitted>>
    BY <2>1, <2>2 DEF Windows, PlacesApart, InWindow, UpTo
  <2>3. ASSUME NEW r \in Requests, NEW lane \in Lanes,
               NEW fallback \in BOOLEAN, NEW now \in Nows,
               Acquire(r, lane, fallback, now)
        PROVE  Windows(rateWindow)'
    <3>1. CASE RateMax = 0
      BY <2>2, <2>3, <3>1 DEF Acquire
    <3>2. CASE RateMax # 0
      BY <2>1, <2>3, <3>2, WindowAdmits
    <3>3. QED
      BY <3>1, <3>2
  <2>4. ASSUME NEW now \in Nows, Check(now) \/ ClearTransient(now)
        PROVE  Windows(rateWindow)'
    <3>1. /\ UNCHANGED <<clock, admitted>>
          /\ rateWindow' = CompactWindow(now)
      BY <2>4 DEF Check, ClearTransient
    <3>2. Windows(CompactWindow(now))
      BY WindowCompacted
    <3>3. QED
      BY <2>1, <3>1, <3>2 DEF Windows, PlacesApart, InWindow, UpTo
  <2>5. CASE ResetQuota
    BY <2>5 DEF ResetQuota, Windows, PlacesApart, Types, TypeOK
  <2>6. CASE Tick
    <3>1. clock' = clock + 1 /\ UNCHANGED <<rateWindow, admitted>>
      BY <2>6 DEF Tick
    <3>2. clock \in Nat /\ rateWindow.start \in Nat
      BY DEF Types, TypeOK
    <3>3. QED
      BY <2>1, <3>1, <3>2 DEF Windows, PlacesApart, InWindow, UpTo
  <2>7. QED
    <3>1. \/ UNCHANGED <<clock, rateWindow, admitted>>
          \/ \E r \in Requests, lane \in Lanes, fallback \in BOOLEAN, now \in Nows :
               Acquire(r, lane, fallback, now)
          \/ \E now \in Nows : Check(now) \/ ClearTransient(now)
          \/ ResetQuota \/ Tick
      BY DEF Next, Step, RequestStep, ResultStep, vars, Release, ReleaseEarly,
             ReleaseDrained, FreezeRuntimeResult, FreezeUsageLimit,
             FreezeUpstreamRateLimit, ObserveUpstreamSuccess, PreemptQuota,
             EndQuotaPreempt
    <3>2. QED
      BY <3>1, <2>2, <2>3, <2>4, <2>5, <2>6
<1>3. QED
  BY <1>1, <1>2, TypesHold, PTL DEF Spec

AdmittedIn(window) == {a \in admitted : a.window = window}

(* A window admits RateMax requests: each has a place of its own.          *)
LEMMA WindowBounded ==
  ASSUME Types, Windows(rateWindow), NEW window
  PROVE  /\ IsFiniteSet(AdmittedIn(window))
         /\ Cardinality(AdmittedIn(window)) <= RateMax
<1> DEFINE place == [a \in AdmittedIn(window) |-> a.nth]
<1>1. place \in [AdmittedIn(window) -> 1 .. RateMax]
  BY DEF Windows, InWindow, AdmittedIn
<1>2. \A a, b \in AdmittedIn(window) : place[a] = place[b] => a = b
  BY DEF Windows, PlacesApart, AdmittedIn
<1>3. place \in Injection(AdmittedIn(window), 1 .. RateMax)
  BY <1>1, <1>2, Fun_IsInj
<1>4. IsFiniteSet(1 .. RateMax) /\ Cardinality(1 .. RateMax) = RateMax
  BY FS_Interval, Configured DEF Types
<1>5. QED
  BY <1>3, <1>4, FS_Injection

(* Without a quota reset, any Window - MaxLag consecutive ticks admit at   *)
(* most the requests of two windows: callers whose time is behind neither  *)
(* reopen a window nor let a third one in.                                 *)
THEOREM RateIsBounded == Spec => []RateBound
<1>1. Types /\ Windows(rateWindow) => RateBound
  <2> SUFFICES ASSUME Types, Windows(rateWindow), NEW t \in 1 .. MaxTime
               PROVE  Cardinality({a \in admitted :
                                     a.at \in t .. t + Window - MaxLag - 1})
                        <= 2 * RateMax
    BY DEF RateBound
  <2> DEFINE near == {a \in admitted : a.at \in t .. t + Window - MaxLag - 1}
  <2>0. /\ Window \in Nat \ {0} /\ MaxLag \in Nat /\ RateMax \in Nat /\ t \in Nat
        /\ \A a \in admitted : a.at \in Nat /\ a.window \in Nat
    BY Configured, ConfigAssumption DEF Types, TypeOK
  <2>1. ASSUME NEW a \in near, NEW b \in near, NEW c \in near,
               a.window < b.window, b.window < c.window
        PROVE  FALSE
    <3>1. a.window + Window <= b.window /\ b.window + Window <= c.window
      BY <2>1 DEF Windows, PlacesApart
    <3>2. a.at < a.window + Window + MaxLag /\ c.window <= c.at
      BY <2>0 DEF Windows, InWindow
    <3>3. a.at >= t /\ c.at <= t + Window - MaxLag - 1
      BY <2>0
    <3>4. QED
      BY <2>0, <3>1, <3>2, <3>3
  <2>2. \E v, w : near \subseteq AdmittedIn(v) \union AdmittedIn(w)
    <3>1. CASE near = {}
      BY <3>1
    <3>2. CASE near # {}
      <4>1. PICK a \in near : TRUE
        BY <3>2
      <4>2. CASE \A b \in near : b.window = a.window
        BY <4>2 DEF AdmittedIn
      <4>3. CASE \E b \in near : b.window # a.window
        <5>1. PICK b \in near : b.window # a.window
          BY <4>3
        <5>2. \A c \in near : c.window = a.window \/ c.window = b.window
          BY <2>0, <2>1, <5>1
        <5>3. QED
          BY <5>2 DEF AdmittedIn
      <4>4. QED
        BY <4>2, <4>3
    <3>3. QED
      BY <3>1, <3>2
  <2>3. PICK v, w : near \subseteq AdmittedIn(v) \union AdmittedIn(w)
    BY <2>2
  <2>4. /\ IsFiniteSet(AdmittedIn(v)) /\ Cardinality(AdmittedIn(v)) <= RateMax
        /\ IsFiniteSet(AdmittedIn(w)) /\ Cardinality(AdmittedIn(w)) <= RateMax
    BY WindowBounded
  <2>5. /\ IsFiniteSet(AdmittedIn(v) \union AdmittedIn(w))
        /\ Cardinality(AdmittedIn(v) \union AdmittedIn(w)) <= 2 * RateMax
    <3>1. /\ IsFiniteSet(AdmittedIn(v) \union AdmittedIn(w))
          /\ Cardinality(AdmittedIn(v) \union AdmittedIn(w)) =
               Cardinality(AdmittedIn(v)) + Cardinality(AdmittedIn(w))
                 - Cardinality(AdmittedIn(v) \cap AdmittedIn(w))
      BY <2>4, FS_Union
    <3>2. Cardinality(AdmittedIn(v) \cap AdmittedIn(w)) \in Nat
      BY <2>4, FS_Intersection, FS_CardinalityType
    <3>3. Cardinality(AdmittedIn(v)) \in Nat /\ Cardinality(AdmittedIn(w)) \in Nat
      BY <2>4, FS_CardinalityType
    <3>4. QED
      BY <2>0, <2>4, <3>1, <3>2, <3>3
  <2>6. /\ IsFiniteSet(near)
        /\ Cardinality(near) <= Cardinality(AdmittedIn(v) \union AdmittedIn(w))
    BY <2>3, <2>5, FS_Subset
  <2>7. /\ Cardinality(near) \in Nat
        /\ Cardinality(AdmittedIn(v) \union AdmittedIn(w)) \in Nat
    BY <2>5, <2>6, FS_CardinalityType
  <2>8. QED
    BY <2>0, <2>5, <2>6, <2>7
<1>2. QED
  BY <1>1, TypesHold, WindowsHold, PTL
=============================================================================
