\* One credential, one channel slot, one attempt at a time.
SPECIFICATION FairSpec
CONSTANTS
  Ids = {i1}
  NoId = NoId
  Callers = {c1}
  Attempts = {a1}
  Buffer = 1
  Concurrency = 1
  MaxLogins = 2
  MaxRecoveries = 1
INVARIANTS TypeOK RequestKept
PROPERTIES OwnGeneration RecoveryEnds
CHECK_DEADLOCK FALSE
