SPECIFICATION Spec
CONSTANTS
    Calls = {c1, c2}
    MaxServers = 2
    MaxInvocations = 3
SYMMETRY Callers
INVARIANTS
    TypeOK
    OwnAnswer
    RepeatOnlyAfterLoss
    HandshakeFirst
    NoServerLeaks
CHECK_DEADLOCK FALSE
