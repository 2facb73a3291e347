SPECIFICATION Spec
CONSTANTS
    Maps = {"field", "road"}
    Home = "field"
    Spawn = 1
    Open <- MCOpen
    Seen <- MCSeen
    Triggers <- MCTriggers
    Portals <- MCPortals
    Range = 0
    Slack = 1
    MaxIdle = 2
    Soft = 1
    Strong = 2
    Snap = 3
    StillInterval = 2
    MaxRemaining = 3
    MaxInFlight = 1
    MaxPortals = 2
INVARIANTS
    TypeOK
    TriggersMatchPlace
PROPERTY
    Settles
