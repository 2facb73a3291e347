SPECIFICATION Spec
CONSTANTS
    Size = 2
    Starter <- MCStarter
    WireMod = 3
    Items = {1, 2}
    Amounts <- MCAmounts
    Grants <- MCGrants
    AnyClient = TRUE
    MaxScripts = 1
    MaxInFlight = 1
INVARIANTS
    TypeOK
    StacksAreReal
    ClientFollows
    AddIsExact
    RemoveIsExact
PROPERTIES
    ClientsCreateNothing
