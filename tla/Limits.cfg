\* Two configurations: slots and freezes, rate window and backoff.
SPECIFICATION Spec
CONSTANTS
  Requests = {r1, r2, r3, r4}
  Configs <- LimitConfigs
  BaseBackoff = 1
  MaxBackoff = 4
  StableReset = 4
  MaxLag = 1
SYMMETRY Symmetry
INVARIANTS TypeOK SlotsExact FallbackExclusive RateBound
PROPERTIES AbsoluteFreeze GuardsHeld BackoffConverges
CHECK_DEADLOCK FALSE
