SPECIFICATION Spec
CONSTANTS
    MaxClients = 2
    Maps <- MCMaps
    DefaultMap = "starter_field"
    ScriptOf <- MCScriptOf
    QuestScripts <- MCQuestScripts
    Portals <- MCPortals
    MaxInFlight = 4
INVARIANTS
    TypeOK
    NewcomersStartOver
    PaidExactlyOnce
    ObjectiveFollowsStage
PROPERTIES
    StagesInOrder
