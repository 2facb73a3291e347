------------------------------ MODULE MCQuest ------------------------------
EXTENDS Quest

MCMaps == {"starter_field", "crossroads"}

MCScriptOf ==
    [m \in MCMaps |->
        IF m = "starter_field" THEN "greenfields_main" ELSE "crossroads_main"]

MCPortals == [m \in MCMaps |-> MCMaps \ {m}]

MCQuestScripts == {"greenfields_main"}
=============================================================================
