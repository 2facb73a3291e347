SPECIFICATION Spec
CONSTANTS
    MaxClients = 1
    Maps <- MCMaps
    DefaultMap = "starter_field"
    ScriptOf <- MCScriptOf
    QuestScripts <- MCQuestScripts
    Portals <- MCPortals
    MaxInFlight = 3
INVARIANTS
    ClearedOnDisconnect
