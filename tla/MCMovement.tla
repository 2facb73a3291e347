----------------------------- MODULE MCMovement -----------------------------
(* Two lanes, of six places and of three.  The field's third place is a    *)
(* wall, which a client that has no collision data of its image does not   *)
(* see; the road is all open.  A portal across the wall, and one to each   *)
(* map from the other.                                                     *)
EXTENDS Movement

MCOpen == [m \in {"field", "road"} |-> IF m = "field" THEN {0, 1, 3, 4, 5} ELSE 2 .. 4]
MCSeen == [m \in {"field", "road"} |-> IF m = "field" THEN 0 .. 5 ELSE 2 .. 4]
MCTriggers == [m \in {"field", "road"} |-> IF m = "field" THEN <<{1}>> ELSE <<{3, 4}>>]
Portal(map, place, target_map, target) ==
    [map |-> map, at |-> place, target_map |-> target_map, target |-> target]
MCPortals == {Portal("field", 0, "field", 5), Portal("field", 1, "road", 3),
              Portal("road", 4, "field", 0)}
=============================================================================
