\* Two streams on one session, one event more than a queue and the buffer hold.
CONSTANTS
  s1 = s1
  s2 = s2
  c1 = c1
  c2 = c2
  Session <- Sessions
  Reader <- Readers
  Watches <- Tabs
  Payload <- Deltas
  QueueSize = 2
  Retention = 2
  MaxLog = 5
SPECIFICATION FairSpec
CHECK_DEADLOCK FALSE
INVARIANTS
  FeedIsSound
PROPERTIES
  LossOnlyWhenFull
  ReadersHoldNothingUp
