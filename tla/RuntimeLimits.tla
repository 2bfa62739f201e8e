--------------------------- MODULE RuntimeLimits ---------------------------
(***************************************************************************)
(* The request-time limits of one credential                               *)
(* (sdk/cliproxy/auth/runtime_limits.go): its concurrency slots, its rate  *)
(* window, the freezes that keep it out of selection and the progressive   *)
(* backoff of upstream rate limits.                                        *)
(*                                                                         *)
(* One action is one critical section of authRuntimeLimits.mu.  A caller   *)
(* reads the clock before it waits for the lock, so the time it works with *)
(* may be up to MaxLag behind the clock, and behind the time of a caller   *)
(* that entered before it.  0 is Go's zero time.                           *)
(***************************************************************************)
EXTENDS Integers, FiniteSets

CONSTANTS Requests,    \* concurrent executions on the credential
          Configs,     \* configurations of a credential, see Config
          BaseBackoff, \* defaultUpstreamRateLimitBackoff
          MaxBackoff,  \* maximumUpstreamRateLimitBackoff
          StableReset, \* upstreamRateLimitStableResetWindow
          MaxLag       \* bound: how far a caller's time is behind

(* The limits set for a credential (0 when one is not set) and what its    *)
(* upstream may do, with the bounds of the instance.                       *)
Config(c) ==
  /\ c.maxConcurrency \in Nat    \* max_concurrency
  /\ c.affinityMax \in Nat       \* codexCacheAffinityMaxConcurrency
  /\ c.burstMax \in Nat          \* the larger of tail-burst and drain limits
  /\ c.rateMax \in Nat           \* rate_limit_max_requests
  /\ c.window \in Nat \ {0}      \* rate_limit_window
  /\ c.freezes \subseteq Nat \ {0}    \* for a request error
  /\ c.usages \subseteq Nat \ {0}     \* to the end of a usage limit
  /\ c.preempts \subseteq Nat \ {0}   \* to the reset of a nearly used quota
  /\ c.retryAfters \subseteq Nat      \* of an upstream 429, 0 for none
  /\ c.requests \in Nat          \* bound: executions at a time
  /\ c.maxTime \in Nat           \* bound: the clock stops there
  /\ MaxLag < c.maxTime

ASSUME ConfigAssumption == MaxLag \in Nat /\ \A c \in Configs : Config(c)
ASSUME RequestsAssumption == IsFiniteSet(Requests)
ASSUME BackoffAssumption ==
  /\ BaseBackoff \in Nat \ {0} /\ MaxBackoff \in Nat /\ StableReset \in Nat
  /\ BaseBackoff <= MaxBackoff

VARIABLES
  config,             \* what is configured; it does not change here
  clock,
  currentConcurrency,
  rateWindow,         \* rateWindowStart and rateWindowCount (without a
                      \* limit nobody reads them and they stay zero here)
  until,              \* frozenUntil, usageLimitFreezeUntil, ...
  upstreamBackoff,    \* upstreamRateLimitBackoff, ...LastSeen
  quotaPreemptFallbackInFlight,
  request,            \* the slot a request holds
  admitted,           \* history: the admissions since a quota reset, each
                      \* with its place in its rate window
  last429             \* history: when an upstream 429 was last applied

slotVars == <<currentConcurrency, quotaPreemptFallbackInFlight, request>>
vars == <<config, clock, slotVars, rateWindow, until, upstreamBackoff,
          admitted, last429>>

MaxConcurrency == config.maxConcurrency
AffinityMax    == config.affinityMax
BurstMax       == config.burstMax
RateMax        == config.rateMax
Window         == config.window
MaxTime        == config.maxTime

Freezes == {"error", "usage", "preempt", "upstream"}
Lanes   == {"cold", "warm", "burst"}

(* A slot is held until release is called; a stream that lost its client   *)
(* releases at once and calls release again when its upstream has drained. *)
Pcs  == {"idle", "holding", "released"}
Idle == [pc |-> "idle", lane |-> "cold", fallback |-> FALSE]

Larger(m, n) == IF m < n THEN n ELSE m

Init ==
  /\ config \in Configs
  /\ clock = MaxLag + 1
  /\ currentConcurrency = 0
  /\ rateWindow = [start |-> 0, count |-> 0]
  /\ until = [f \in Freezes |-> 0]
  /\ upstreamBackoff = [level |-> 0, lastSeen |-> 0]
  /\ quotaPreemptFallbackInFlight = 0
  /\ request = [r \in Requests |-> Idle]
  /\ admitted = {}
  /\ last429 = 0

(* The times an operation that enters now may work with.                   *)
Nows == (clock - MaxLag) .. clock

-----------------------------------------------------------------------------
(* compactRuntimeWindowLocked: what is left of the freezes, and the rate   *)
(* window that is open.                                                    *)

CompactFreezes(now) ==
  [f \in Freezes |-> IF until[f] > now THEN until[f] ELSE 0]

(* Mutant of CompactWindow: a time before the window opens a new one.      *)
CompactWindowOnSkew(now) ==
  IF rateWindow.start # 0 /\ (now - rateWindow.start >= Window
                               \/ now < rateWindow.start)
    THEN [start |-> now, count |-> 0]
    ELSE rateWindow

CompactWindow(now) ==
  IF rateWindow.start # 0 /\ now - rateWindow.start >= Window
    THEN [start |-> now, count |-> 0]
    ELSE rateWindow

-----------------------------------------------------------------------------
(* Admission                                                               *)

(* activeFreezeLocked reports the latest deadline.                         *)
ActiveFreeze(now) == \E f \in Freezes : until[f] > now

(* Mutant of OnlyQuotaPreemptFreeze: only the latest deadline is looked at.*)
LatestIsQuotaPreempt(now) ==
  /\ until["preempt"] > now
  /\ \A f \in Freezes : until[f] <= until["preempt"]

OnlyQuotaPreemptFreeze(now) ==
  /\ until["preempt"] > now
  /\ \A f \in Freezes \ {"preempt"} : until[f] <= now

FreezeBypassed(now, lane, quotaPreemptFallback) ==
  /\ OnlyQuotaPreemptFreeze(now)
  /\ \/ lane = "burst"
     \/ quotaPreemptFallback /\ quotaPreemptFallbackInFlight = 0

BurstLimit == Larger(1, Larger(MaxConcurrency, BurstMax))

NormalLimit(lane) ==
  IF /\ lane = "cold"
     /\ AffinityMax > 0
     /\ MaxConcurrency = 0 \/ AffinityMax < MaxConcurrency
    THEN AffinityMax
    ELSE MaxConcurrency

HasSlot(lane) ==
  IF lane = "burst"
    THEN currentConcurrency < BurstLimit
    ELSE NormalLimit(lane) = 0 \/ currentConcurrency < NormalLimit(lane)

(* acquireRuntimeSlotForModel: the request is admitted.                    *)
Acquire(r, lane, quotaPreemptFallback, now) ==
  LET window == CompactWindow(now) IN
  /\ request[r].pc = "idle"
  /\ Cardinality({q \in Requests : request[q].pc # "idle"}) < config.requests
  /\ ActiveFreeze(now) => FreezeBypassed(now, lane, quotaPreemptFallback)
  /\ HasSlot(lane)
  /\ RateMax = 0 \/ window.count < RateMax
  /\ currentConcurrency' = currentConcurrency + 1
  /\ LET fallback == /\ ActiveFreeze(now)
                     /\ quotaPreemptFallback
                     /\ lane # "burst"
     IN  /\ quotaPreemptFallbackInFlight' =
              quotaPreemptFallbackInFlight + (IF fallback THEN 1 ELSE 0)
         /\ request' = [request EXCEPT ![r] =
                          [pc |-> "holding", lane |-> lane,
                           fallback |-> fallback]]
  /\ IF RateMax = 0
       THEN UNCHANGED <<rateWindow, admitted>>
       ELSE /\ rateWindow' = [start |-> IF window.start = 0 THEN now
                                                           ELSE window.start,
                              count |-> window.count + 1]
            /\ admitted' = admitted \union
                 {[at |-> clock, window |-> rateWindow'.start,
                   nth |-> rateWindow'.count]}
  /\ until' = CompactFreezes(now)
  /\ UNCHANGED <<clock, upstreamBackoff, last429>>

(* Whatever only looks: a refused acquireRuntimeSlotForModel,              *)
(* runtimeAuthBlockedForModel and the snapshots.  All they leave behind is *)
(* the compaction (and the reported skip reason, left out).                *)
Check(now) ==
  /\ until' = CompactFreezes(now)
  /\ rateWindow' = CompactWindow(now)
  /\ UNCHANGED <<clock, slotVars, upstreamBackoff, admitted, last429>>

(* The body of release, once per acquisition.                              *)
ReleaseSlot(r) ==
  /\ currentConcurrency' = Larger(currentConcurrency - 1, 0)
  /\ quotaPreemptFallbackInFlight' =
       IF request[r].fallback THEN Larger(quotaPreemptFallbackInFlight - 1, 0)
                              ELSE quotaPreemptFallbackInFlight

(* The execution ends, or the client of its stream is gone.                *)
Release(r) ==
  /\ request[r].pc = "holding"
  /\ ReleaseSlot(r)
  /\ request' = [request EXCEPT ![r] = Idle]
  /\ UNCHANGED <<clock, rateWindow, until, upstreamBackoff, admitted, last429>>

ReleaseEarly(r) ==
  /\ request[r].pc = "holding"
  /\ ReleaseSlot(r)
  /\ request' = [request EXCEPT ![r].pc = "released"]
  /\ UNCHANGED <<clock, rateWindow, until, upstreamBackoff, admitted, last429>>

(* Mutant of ReleaseDrained: the second call of release counts.            *)
ReleaseDrainedTwice(r) ==
  /\ request[r].pc = "released"
  /\ ReleaseSlot(r)
  /\ request' = [request EXCEPT ![r] = Idle]
  /\ UNCHANGED <<clock, rateWindow, until, upstreamBackoff, admitted, last429>>

(* The deferred call of release once the upstream has drained does nothing.*)
ReleaseDrained(r) ==
  /\ request[r].pc = "released"
  /\ request' = [request EXCEPT ![r] = Idle]
  /\ UNCHANGED <<clock, currentConcurrency, quotaPreemptFallbackInFlight,
                 rateWindow, until, upstreamBackoff, admitted, last429>>

-----------------------------------------------------------------------------
(* Freezes                                                                 *)

Freeze(f, t) == until' = [until EXCEPT ![f] = t]

(* maybeFreezeRuntimeResult: the latest error decides.                     *)
FreezeRuntimeResult(length, now) ==
  /\ Freeze("error", now + length)
  /\ UNCHANGED <<clock, slotVars, rateWindow, upstreamBackoff, admitted,
                 last429>>

(* freezeUsageLimit only extends (a tick is long against the one second    *)
(* below which it takes two deadlines for the same).                       *)
FreezeUsageLimit(length, now) ==
  /\ Freeze("usage", Larger(until["usage"], now + length))
  /\ UNCHANGED <<clock, slotVars, rateWindow, upstreamBackoff, admitted,
                 last429>>

(* updateQuotaPreempt, from the collector's quota snapshots.               *)
PreemptQuota(length, now) ==
  /\ Freeze("preempt", Larger(until["preempt"], now + length))
  /\ UNCHANGED <<clock, slotVars, rateWindow, upstreamBackoff, admitted,
                 last429>>

EndQuotaPreempt ==
  /\ Freeze("preempt", 0)
  /\ UNCHANGED <<clock, slotVars, rateWindow, upstreamBackoff, admitted,
                 last429>>

(* Mutant of Cooldown: Retry-After is taken as it comes.                   *)
CooldownUncapped(retryAfter) ==
  Larger(retryAfter, BaseBackoff * 2 ^ upstreamBackoff.level)

(* 15s, doubled at each level, at least Retry-After and at most 5 minutes. *)
Cooldown(retryAfter) ==
  LET wanted == Larger(retryAfter, BaseBackoff * 2 ^ upstreamBackoff.level)
  IN  IF wanted < MaxBackoff THEN wanted ELSE MaxBackoff

(* A burst of 429s inside the window it opened raises the level once.      *)
FreezeUpstreamRateLimit(retryAfter, now) ==
  LET cooldown == Cooldown(retryAfter)
      active   == until["upstream"] > now
  IN  /\ IF active THEN UNCHANGED until ELSE Freeze("upstream", now + cooldown)
      /\ upstreamBackoff' =
           [level    |-> upstreamBackoff.level
                           + (IF ~active /\ cooldown < MaxBackoff THEN 1 ELSE 0),
            lastSeen |-> Larger(upstreamBackoff.lastSeen, now)]
      /\ last429' = clock
      /\ UNCHANGED <<clock, slotVars, rateWindow, admitted>>

(* Mutant of StableSince: the first success after the window resets.       *)
AnySuccess(now) == upstreamBackoff.lastSeen # 0

StableSince(now) ==
  /\ upstreamBackoff.lastSeen # 0
  /\ now - upstreamBackoff.lastSeen >= StableReset

ObserveUpstreamSuccess(now) ==
  /\ until["upstream"] <= now
  /\ StableSince(now)
  /\ Freeze("upstream", 0)
  /\ upstreamBackoff' = [level |-> 0, lastSeen |-> 0]
  /\ UNCHANGED <<clock, slotVars, rateWindow, admitted, last429>>

(* Mutant of ClearTransientFreezes: the upstream guard goes as well.       *)
ClearAllTransientFreezes(now) ==
  [CompactFreezes(now) EXCEPT !["error"] = 0, !["upstream"] = 0]

ClearTransientFreezes(now) == [CompactFreezes(now) EXCEPT !["error"] = 0]

(* clearTransientRateLimitRecovery: a recovery of the credential worked.   *)
ClearTransient(now) ==
  /\ until' = ClearTransientFreezes(now)
  /\ rateWindow' = CompactWindow(now)
  /\ UNCHANGED <<clock, slotVars, upstreamBackoff, admitted, last429>>

(* Mutant of ResetFallback: the fallback in flight is forgotten.           *)
ForgetFallback == 0

ResetFallback ==
  IF currentConcurrency = 0 THEN 0 ELSE quotaPreemptFallbackInFlight

(* resetQuotaRuntimeState: the quota was reset by an operator, or the      *)
(* credential was renewed.                                                 *)
ResetQuota ==
  /\ until' = [f \in Freezes |-> 0]
  /\ upstreamBackoff' = [level |-> 0, lastSeen |-> 0]
  /\ rateWindow' = [start |-> 0, count |-> 0]
  /\ quotaPreemptFallbackInFlight' = ResetFallback
  /\ admitted' = {}
  /\ UNCHANGED <<clock, currentConcurrency, request, last429>>

Tick ==
  /\ clock < MaxTime
  /\ clock' = clock + 1
  /\ UNCHANGED <<slotVars, rateWindow, until, upstreamBackoff, admitted,
                 last429>>

-----------------------------------------------------------------------------
RequestStep(r) ==
  \/ \E lane \in Lanes, fallback \in BOOLEAN, now \in Nows :
       Acquire(r, lane, fallback, now)
  \/ Release(r)
  \/ ReleaseEarly(r)
  \/ ReleaseDrained(r)

ResultStep(now) ==
  \/ \E length \in config.freezes : FreezeRuntimeResult(length, now)
  \/ \E length \in config.usages : FreezeUsageLimit(length, now)
  \/ \E retryAfter \in config.retryAfters : FreezeUpstreamRateLimit(retryAfter, now)
  \/ ObserveUpstreamSuccess(now)

Step ==
  \/ \E r \in Requests : RequestStep(r)
  \/ \E now \in Nows :
       \/ Check(now)
       \/ ResultStep(now)
       \/ \E length \in config.preempts : PreemptQuota(length, now)
       \/ ClearTransient(now)
  \/ EndQuotaPreempt
  \/ ResetQuota
  \/ Tick

Next == Step /\ UNCHANGED config

Spec == Init /\ [][Next]_vars

-----------------------------------------------------------------------------
(* Properties                                                              *)

(* Every variable keeps its type; in particular an upstream rate limit     *)
(* freezes a credential for MaxBackoff at most, whatever Retry-After says. *)
TypeOK ==
  /\ config \in Configs
  /\ clock \in Nat
  /\ currentConcurrency \in Nat
  /\ rateWindow \in [start : Nat, count : Nat]
  /\ until \in [Freezes -> Nat]
  /\ until["upstream"] <= clock + MaxBackoff
  /\ upstreamBackoff \in [level : Nat, lastSeen : 0 .. clock]
  /\ quotaPreemptFallbackInFlight \in Nat
  /\ request \in [Requests -> [pc : Pcs, lane : Lanes, fallback : BOOLEAN]]
  /\ admitted \subseteq [at : 0 .. clock, window : Nat, nth : Nat]
  /\ last429 \in 0 .. clock

(* currentConcurrency counts the requests that hold a slot, through early  *)
(* and repeated releases and quota resets, so the cold requests stay below *)
(* the limit of cache affinity and all of them below the burst limit.      *)
Holding == {r \in Requests : request[r].pc = "holding"}

SlotsExact ==
  /\ currentConcurrency = Cardinality(Holding)
  /\ MaxConcurrency > 0 => currentConcurrency <= BurstLimit
  /\ LET cold == {r \in Holding : request[r].lane = "cold"}
     IN  NormalLimit("cold") > 0 => Cardinality(cold) <= NormalLimit("cold")

(* At most one request at a time uses a credential as the fallback for a   *)
(* nearly used quota, and the counter that says so never loses it: not     *)
(* when the quota is reset while that request is in flight.                *)
FallbackExclusive ==
  LET fallbacks == {r \in Holding : request[r].fallback}
  IN  /\ Cardinality(fallbacks) <= 1
      /\ quotaPreemptFallbackInFlight = Cardinality(fallbacks)

(* Freezes for an error, a usage limit or an upstream 429 are absolute: as *)
(* long as one holds by the clock no lane gets a slot, whichever freeze    *)
(* ends last and however old the caller's time is.                         *)
AbsoluteFreeze ==
  [][\A r \in Requests :
       request[r].pc = "idle" /\ request'[r].pc = "holding"
         => \A f \in Freezes \ {"preempt"} : until[f] <= clock]_vars

(* A window may be opened in the past and requests that waited for the     *)
(* lock may arrive with an earlier time than its start.  Still, without a  *)
(* quota reset, any Window - MaxLag consecutive ticks admit at most the    *)
(* requests of two windows.                                                *)
RateBound ==
  RateMax > 0 =>
    \A t \in 1 .. MaxTime :
      LET consecutive == t .. t + Window - MaxLag - 1
      IN  Cardinality({a \in admitted : a.at \in consecutive}) <= 2 * RateMax

(* Only time or a quota reset ends the guard of a usage limit or of an     *)
(* upstream 429: no success, recovery or other freeze shortens it.         *)
GuardsHeld ==
  [][\A f \in {"usage", "upstream"} :
       until[f] > clock => until'[f] >= until[f] \/ ResetQuota]_vars

(* The progressive backoff converges: its level drops only at a quota      *)
(* reset, or when no 429 came for the stable interval (less the lag of the *)
(* caller's clock); and 429s inside one window raise it by one at most.    *)
BackoffConverges ==
  [][/\ upstreamBackoff'.level < upstreamBackoff.level =>
          ResetQuota \/ clock - last429 >= StableReset - MaxLag
     /\ upstreamBackoff'.level > upstreamBackoff.level =>
          /\ upstreamBackoff'.level = upstreamBackoff.level + 1
          /\ until["upstream"] <= clock]_vars

=============================================================================
