\* The command line: one request at a time, with everything a user can say,
\* and no repositories.
CONSTANTS
  Turn = {t1, t2, t3}
  Message <- EveryText
  Reply <- EveryReply
  Silence <- Hush
  MaxRounds = 1
  StrikeLimit = 1
  GateDeclared = FALSE
  MaxLive = 1
  MaxAborts = 0
  Key = {export, reserve}
  Gated = {reserve}
  HasLedger = FALSE
  NoKey = NoKey
SPECIFICATION FairSpec
CHECK_DEADLOCK FALSE
INVARIANTS
  OnlyApprovalsExecute
  QuestionsWithinBudget
PROPERTIES
  TurnsEnd
  ApprovalIsCarriedOut
