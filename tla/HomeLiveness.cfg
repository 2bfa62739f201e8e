\* One request across three lifetimes: its slot comes back.
SPECIFICATION FairComposition
CONSTANTS
  Dispatches = {d1}
  Groups = {g1}
  NoGroup = NoGroup
  Flusher = F
  Sinks = {F}
  NoSink = NoSink
  Calls = {c1}
  MaxBarrier = 0
  Capacity = 1
  MaxLifetimes = 3
PROPERTIES SlotsReturned
CHECK_DEADLOCK FALSE
