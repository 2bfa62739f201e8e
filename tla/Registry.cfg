\* Releases and barriers: two dispatches of one group, one sink, two barriers.
SPECIFICATION PublisherSpec
CONSTANTS
  Dispatches = {d1, d2}
  Groups = {g1}
  NoGroup = NoGroup
  Sinks = {s1}
  NoSink = NoSink
  Calls = {}
  MaxBarrier = 2
INVARIANTS TypeOK BarrierSound ReleaseAfterClose NoLostRelease
PROPERTIES BarrierPublished
CHECK_DEADLOCK FALSE
