SPECIFICATION Spec
CONSTANTS
    Maps <- MCMaps
    DefaultMap = "starter_field"
    Images <- MCImages
    References <- MCReferences
    Documents = {"items"}
    Portals <- MCPortals
    Tries = 2
    MaxInFlight = 2
    MaxCrashes = 1
INVARIANT
    FailedLoadIsRetried
