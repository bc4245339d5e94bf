SPECIFICATION Spec
CONSTANTS
    RailMinKm = 150
    MaxChainAttempts = 2
    MaxSegments = 3
    Noise = {"noise"}
    DayStart = 36
    DayEnd = 80
    Home = "H"
    Requests <- MCRequests
    DoorWorlds <- MCDoorWorlds
    HopWorlds <- MCHopWorlds
    Renderings <- MCRenderings
INVARIANTS
    NightsFollowTheTraveller
