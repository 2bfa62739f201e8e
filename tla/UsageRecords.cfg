\* Home with two forwarders and three records, or a poller, a subscriber and two.
SPECIFICATION FairSpec
CONSTANTS
  Forwarders = {f1, f2}
  Pollers = {p1}
  Subscribers = {u1}
  Worker = Worker
  Batch = 2
  Buffer = 2
  Retention = 0
  MaxRecords = 3
  MaxLocal = 2
  MaxRefreshes = 1
  MaxSwitches = 2
  MaxLag = 1
  MaxTime = 2
INVARIANTS RecordsAccounted ClearLeavesLittle StreamsSound
PROPERTIES RecordsHandled
CHECK_DEADLOCK FALSE
