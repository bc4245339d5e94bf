\* The gate channel declared, an L2 act, two requests at once and one lost at any step.
CONSTANTS
  Turn = {t1, t2, t3}
  Message <- PlanTexts
  Reply <- PlanReplies
  Silence <- Hush
  MaxRounds = 1
  StrikeLimit = 1
  GateDeclared = TRUE
  MaxLive = 2
  MaxAborts = 1
  Key = {export, reserve}
  Gated = {reserve}
  HasLedger = TRUE
  NoKey = NoKey
SYMMETRY TurnSymmetry
SPECIFICATION Spec
CHECK_DEADLOCK FALSE
INVARIANTS
  ConsentIsToThePlan
  EndsAreTrue
