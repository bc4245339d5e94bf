SPECIFICATION Spec
CONSTANTS
    MaxRounds = 2
    MaxTripDays = 2
    MaxMessages = 4
    Messages <- MCMessages
    Edits <- MCEdits
INVARIANTS
    TypeOK
    GateOpensComplete
    LengthMatchesDates
PROPERTIES
    DelegationSettlesAll
    AnswersAreKept
CHECK_DEADLOCK FALSE
