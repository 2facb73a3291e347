\* Liveness, without symmetry.
CONSTANTS
    Peers = {p1, p2}
    BootTimeout = 2
    ActiveTimeout = 1
    ScriptsUseStaleIds = FALSE
SPECIFICATION FairSpec
PROPERTIES
    SilenceEnds
CHECK_DEADLOCK FALSE
