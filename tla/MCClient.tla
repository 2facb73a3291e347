------------------------------ MODULE MCClient ------------------------------
EXTENDS Client

MCMaps == {"starter_field", "crossroads"}

MCImages == {"terrain", "road"}

(* The second map needs an image that the first does not. *)
MCReferences ==
    [m \in MCMaps |-> IF m = "starter_field" THEN {"terrain"} ELSE MCImages]

MCPortals == [m \in MCMaps |-> MCMaps \ {m}]
=============================================================================
