\* Two batches over an L0 act and an L2 act: overlapping, aborted, run again.
CONSTANTS
  Key = {link, reserve}
  Gated = {reserve}
  Batch = {b1, b2}
  HasLedger = TRUE
  NoKey = NoKey
SPECIFICATION FairSpec
CHECK_DEADLOCK FALSE
INVARIANTS
  AtMostOneCall
  LedgerTellsTheTruth
PROPERTIES
  ClaimIsSettled
  ImplementsActOnce
