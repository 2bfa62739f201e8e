\* Two calls of WaitPending, Drain and Close over two dispatches.
SPECIFICATION FairSpec
CONSTANTS
  Dispatches = {d1, d2}
  Groups = {}
  NoGroup = NoGroup
  Sinks = {}
  NoSink = NoSink
  Calls = {c1, c2}
  MaxBarrier = 0
INVARIANTS NoOrphanResource ShutdownComplete
PROPERTIES CallsReturn
CHECK_DEADLOCK FALSE
