SPECIFICATION FairSpec
CONSTANTS
    Maps <- MCMaps
    DefaultMap = "starter_field"
    Images <- MCImages
    References <- MCReferences
    Documents = {"items"}
    Portals <- MCPortals
    Tries = 2
    MaxInFlight = 2
    MaxCrashes = 1
INVARIANTS
    TypeOK
    SessionBehindWorld
    WalksOnTheServersMap
    MissingIsRequested
    ReadyIsDrawable
PROPERTIES
    BootEnds
\* A client whose cached map is torn stops in the boot.
CHECK_DEADLOCK FALSE
