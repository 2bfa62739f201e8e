\* Two requests for one slot of one group, across three lifetimes.
SPECIFICATION SpecComposition
CONSTANTS
  Dispatches = {d1, d2}
  Groups = {g1}
  NoGroup = NoGroup
  Flusher = F
  Sinks = {F}
  NoSink = NoSink
  Calls = {c1}
  MaxBarrier = 0
  Capacity = 1
  MaxLifetimes = 3
SYMMETRY Symmetry
INVARIANTS NoLeakedSlot CleanShutdown
PROPERTIES SlotsSpec
CHECK_DEADLOCK FALSE
