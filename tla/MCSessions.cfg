\* Three slots: ids are released out of order and reused.  The boot timeout
\* is the longer one, as by default.
CONSTANTS
    Peers = {p1, p2, p3}
    BootTimeout = 2
    ActiveTimeout = 1
    ScriptsUseStaleIds = FALSE
SPECIFICATION Spec
SYMMETRY Slots
INVARIANTS
    TypeOK
    SlotsMatchIds
    NoIdLeaks
    IdsBounded
    TablesMatchPlayers
PROPERTIES
    OnlyItsOwnEnd
    ImplementsDirectory
CHECK_DEADLOCK FALSE
