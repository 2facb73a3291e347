-------------------------- MODULE SessionDirectory --------------------------
(***************************************************************************)
(* What the server promises about player ids, whatever the network, the    *)
(* clock and the clients do: at every moment some connections hold ids,    *)
(* no two the same one; a connection that joins gets the smallest id       *)
(* nobody holds, never one beyond the number of slots; a session ends      *)
(* alone, or all end when the server stops.                                *)
(* Sessions.tla is the server, shown to implement this.                    *)
(***************************************************************************)
EXTENDS Integers

CONSTANTS
    Peers,      \* the connections the host can hold at once
    MaxClients  \* and how many they are

VARIABLE owner      \* player id -> the connection that plays it

Ids == DOMAIN owner

Range == {owner[id] : id \in Ids}

(* The id a newcomer gets: nobody holds it and every smaller one is held. *)
IsSmallestUnused(id) ==
    /\ id \notin Ids
    /\ \A smaller \in 1..(id - 1) : smaller \in Ids

Init == owner = [id \in {} |-> CHOOSE p \in Peers : TRUE]

Join(p, id) ==
    /\ p \notin Range
    /\ IsSmallestUnused(id)
    /\ owner' = [i \in Ids \cup {id} |-> IF i = id THEN p ELSE owner[i]]

Leave(id) ==
    /\ id \in Ids
    /\ owner' = [i \in Ids \ {id} |-> owner[i]]

Stop == owner' = [id \in {} |-> CHOOSE p \in Peers : TRUE]

Next ==
    \/ \E p \in Peers, id \in 1..MaxClients : Join(p, id)
    \/ \E id \in Ids : Leave(id)
    \/ Stop

Spec == Init /\ [][Next]_owner
=============================================================================
