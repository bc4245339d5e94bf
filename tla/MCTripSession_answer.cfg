\* Two texts answer one question.
CONSTANTS
  Turn = {t1, t2, t3}
  Message <- PlanTexts
  Reply <- YesNo
  Silence <- Hush
  MaxRounds = 1
  StrikeLimit = 1
  GateDeclared = FALSE
  MaxLive = 3
  MaxAborts = 0
  Key = {export}
  Gated = {}
  HasLedger = TRUE
  NoKey = NoKey
SPECIFICATION Spec
CHECK_DEADLOCK FALSE
PROPERTIES
  TextDecidesNothing
