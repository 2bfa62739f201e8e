\* One group with two releases across two lifetimes of Run, three configurations.
SPECIFICATION FairSpec
CONSTANTS
  Groups = {g1}
  MaxSequence = 2
  FlushIntervals = {1, 3}
  MaxBackoffs = {1, 2}
  MaxLifetimes = 2
INVARIANTS TypeOK AckSound TicketSound FlushComplete
PROPERTIES BackoffHeld LinkSpec ReleaseAcked
