SPECIFICATION Spec
CONSTANTS
    MaxClients = 3
    Watched = {2}
    Maps <- MCMaps
    DefaultMap = "starter_field"
    Places = {"gate", "road"}
    Spawn = "gate"
    Names = {"Ann"}
    MaxInFlight = 1
INVARIANTS
    TypeOK
    ShowsItsMap
    NewsOfTheShown
    NamesAreOwn
    ShownWhereTheyAre
