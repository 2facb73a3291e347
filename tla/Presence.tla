------------------------------ MODULE Presence ------------------------------
(***************************************************************************)
(* Who each client shows, where and under which name.  The server filters  *)
(* everything it tells by the map a player is on, so a player that changes *)
(* maps must be told off one group and introduced to another, to both      *)
(* sides, while others move, rename themselves, come and go.               *)
(*                                                                         *)
(* A client's channel keeps the order of everything sent on it.  Reliable  *)
(* packets arrive; positions sent as players walk may be lost, never       *)
(* overtaken: ENet drops an unreliable packet that a later reliable one    *)
(* has passed.                                                             *)
(*                                                                         *)
(* The scripts are those of the repository: they move players when a       *)
(* portal is used, not from within the callbacks of other handlers.        *)
(***************************************************************************)
EXTENDS Integers, Sequences, Functions

CONSTANTS
    MaxClients,
    Watched,        \* the players whose clients are followed: no client's view
                    \* touches another's, nor the server
    Maps,
    DefaultMap,
    Places,         \* positions, on any map
    Spawn,          \* defaultSpawnPosition
    Names,          \* names players choose
    MaxInFlight     \* bound: packets on their way to a client when more are sent

ASSUME PresenceAssumption ==
    /\ MaxClients \in Nat
    /\ Watched \subseteq 1..MaxClients
    /\ DefaultMap \in Maps
    /\ Spawn \in Places
    /\ MaxInFlight \in Nat

Players == 1..MaxClients

VARIABLES
    online,     \* Network::players_, by id
    closing,    \* players whose peer is no longer CONNECTED
    mapOf,      \* playerMapIds_
    pos,        \* playerPositions_
    name,       \* playerNames_
    chan,       \* what is on its way to each client
    shown,      \* remotePlayers_ of each client
    missed      \* history: the players whose last position a client missed

vars == <<online, closing, mapOf, pos, name, chan, shown, missed>>

(* "Player <id>", the name of whoever has not said another. *)
Unnamed == "Player"

(* Where a remote player is drawn that only a name is known of. *)
Origin == "origin"

Looks == [pos: Places \cup {Origin}, name: Names \cup {Unnamed}]

Nobody == [q \in {} |-> Unnamed]

-----------------------------------------------------------------------------
(* Packets *)

Handshake == [type |-> "HANDSHAKE"]
MapTransfer == [type |-> "MAP_TRANSFER"]
Join(p, x) == [type |-> "PLAYER_JOIN", id |-> p, pos |-> x]
Leave(p) == [type |-> "PLAYER_LEAVE", id |-> p]
Moved(p, x) == [type |-> "PLAYER_MOVE", id |-> p, pos |-> x]
Renamed(p, n) == [type |-> "PLAYER_NAME", of |-> [q \in {p} |-> n]]

(* A PLAYER_MOVE of somebody who walks is the only unreliable packet. *)
Walked(p, x) == [type |-> "walk", id |-> p, pos |-> x]

On(m) == {q \in online : mapOf[q] = m}

Snapshot(m) ==
    [type |-> "SNAPSHOT",
     of |-> [q \in On(m) |-> [pos |-> pos[q], name |-> name[q]]]]

(* The PLAYER_NAMEs of everybody else on a map, which the code sends one   *)
(* by one and nothing comes between.                                       *)
NamesOn(m, p) ==
    [type |-> "PLAYER_NAME", of |-> [q \in On(m) \ {p} |-> name[q]]]

(* Network::sendPacket drops what is for a peer that is not connected. *)
Tell(what) ==
    chan' = [q \in Players |->
                IF q \in Watched \ closing THEN chan[q] \o what[q] ELSE chan[q]]

(* broadcastPlayer...: a packet for everybody on a map but one player. *)
ToOthersOn(m, p, packet) ==
    [q \in Players |-> IF q \in On(m) \ {p} THEN <<packet>> ELSE <<>>]

Room == \A q \in online : Len(chan[q]) <= MaxInFlight

-----------------------------------------------------------------------------
(* Sessions, see modules Sessions and SessionDirectory *)

Connect(p) ==
    /\ Room
    /\ p \notin online
    /\ \A q \in 1..(p - 1) : q \in online
    /\ online' = online \cup {p}
    /\ mapOf' = [mapOf EXCEPT ![p] = DefaultMap]
    /\ pos' = [pos EXCEPT ![p] = Spawn]
    /\ name' = [name EXCEPT ![p] = Unnamed]
    /\ UNCHANGED <<closing, shown, missed>>
    /\ Tell([q \in Players |->
                IF q = p THEN <<Handshake, Snapshot(DefaultMap)', NamesOn(DefaultMap, p)'>>
                ELSE IF q \in On(DefaultMap) THEN <<Join(p, Spawn)>>
                ELSE <<>>])

(* Mutant: the peer's state outlives the session. *)
DisconnectStaysClosing(p) ==
    /\ Room
    /\ p \in online
    /\ online' = online \ {p}
    /\ chan' = [q \in Players |->
                   IF q = p THEN <<>>
                   ELSE IF q \in (On(mapOf[p]) \cap Watched) \ closing THEN Append(chan[q], Leave(p))
                   ELSE chan[q]]
    /\ shown' = [shown EXCEPT ![p] = Nobody]
    /\ missed' = [missed EXCEPT ![p] = {}]
    /\ mapOf' = [mapOf EXCEPT ![p] = DefaultMap]
    /\ pos' = [pos EXCEPT ![p] = Spawn]
    /\ name' = [name EXCEPT ![p] = Unnamed]
    /\ UNCHANGED closing

(* Mutant: the others are not told. *)
DisconnectUnheard(p) ==
    /\ Room
    /\ p \in online
    /\ online' = online \ {p}
    /\ closing' = closing \ {p}
    /\ chan' = [chan EXCEPT ![p] = <<>>]
    /\ shown' = [shown EXCEPT ![p] = Nobody]
    /\ missed' = [missed EXCEPT ![p] = {}]
    /\ mapOf' = [mapOf EXCEPT ![p] = DefaultMap]
    /\ pos' = [pos EXCEPT ![p] = Spawn]
    /\ name' = [name EXCEPT ![p] = Unnamed]

(* cleanupPlayerSession, whatever its reason.  The client forgets all; the *)
(* player's entries are erased, that is, back to what Connect sets.        *)
Disconnect(p) ==
    /\ Room
    /\ p \in online
    /\ online' = online \ {p}
    /\ closing' = closing \ {p}
    /\ chan' = [q \in Players |->
                   IF q = p THEN <<>>
                   ELSE IF q \in (On(mapOf[p]) \cap Watched) \ closing THEN Append(chan[q], Leave(p))
                   ELSE chan[q]]
    /\ shown' = [shown EXCEPT ![p] = Nobody]
    /\ missed' = [missed EXCEPT ![p] = {}]
    /\ mapOf' = [mapOf EXCEPT ![p] = DefaultMap]
    /\ pos' = [pos EXCEPT ![p] = Spawn]
    /\ name' = [name EXCEPT ![p] = Unnamed]

(* A packet the server rejects by disconnecting, or a client that goes:    *)
(* the session lives on until the event, but nothing reaches the client.   *)
(* For the others a closing player is one that does nothing.               *)
Closes(p) ==
    /\ p \in (online \cap Watched) \ closing
    /\ closing' = closing \cup {p}
    /\ UNCHANGED <<online, mapOf, pos, name, chan, shown, missed>>

-----------------------------------------------------------------------------
(* Players *)

Acts(p) == Room /\ p \in online \ closing

(* PLAYER_DATA, accepted: see module Movement for what is. *)
Walk(p, x) ==
    /\ Acts(p)
    /\ pos' = [pos EXCEPT ![p] = x]
    /\ UNCHANGED <<online, closing, mapOf, name, shown, missed>>
    /\ Tell(ToOthersOn(mapOf[p], p, Walked(p, x)))

(* PLAYER_NAME, and SetPlayerName of a script: the map hears of it, the    *)
(* player included.                                                        *)
Rename(p, n) ==
    /\ Acts(p)
    /\ name' = [name EXCEPT ![p] = n]
    /\ UNCHANGED <<online, closing, mapOf, pos, shown, missed>>
    /\ Tell(ToOthersOn(mapOf[p], 0, Renamed(p, n)))

(* Mutant: only the player hears of it. *)
TeleportUnheard(p, x) ==
    /\ Acts(p)
    /\ pos' = [pos EXCEPT ![p] = x]
    /\ UNCHANGED <<online, closing, mapOf, name, shown, missed>>
    /\ Tell([q \in Players |-> IF q = p THEN <<Join(p, x)>> ELSE <<>>])

(* teleportPlayerWithinMap: a join to oneself and a reliable move to the   *)
(* others.                                                                 *)
Teleport(p, x) ==
    /\ Acts(p)
    /\ pos' = [pos EXCEPT ![p] = x]
    /\ UNCHANGED <<online, closing, mapOf, name, shown, missed>>
    /\ Tell([q \in Players |->
                IF q = p THEN <<Join(p, x)>>
                ELSE IF q \in On(mapOf[p]) THEN <<Moved(p, x)>>
                ELSE <<>>])

(* Mutant: the leave goes to the map the player is on afterwards. *)
TransferLeavesLate(p, m, x) ==
    /\ Acts(p)
    /\ mapOf' = [mapOf EXCEPT ![p] = m]
    /\ pos' = [pos EXCEPT ![p] = x]
    /\ UNCHANGED <<online, closing, name, shown, missed>>
    /\ Tell([q \in Players |->
                IF q = p THEN <<MapTransfer, Snapshot(m)', NamesOn(m, p)'>>
                ELSE IF q \in On(m) THEN <<Leave(p), Join(p, x)>>
                ELSE <<>>])

(* transferPlayerToMap, also to another place of the same map: the old map *)
(* hears a leave, the client gets the new map, its players and their       *)
(* names, and the new map hears a join.                                    *)
Transfer(p, m, x) ==
    /\ Acts(p)
    /\ mapOf' = [mapOf EXCEPT ![p] = m]
    /\ pos' = [pos EXCEPT ![p] = x]
    /\ UNCHANGED <<online, closing, name, shown, missed>>
    /\ Tell([q \in Players |->
                IF q = p THEN <<MapTransfer, Snapshot(m)', NamesOn(m, p)'>>
                ELSE (IF q \in On(mapOf[p]) THEN <<Leave(p)>> ELSE <<>>)
                     \o (IF q \in On(m) THEN <<Join(p, x)>> ELSE <<>>)])

-----------------------------------------------------------------------------
(* The client: HandleNetworkEvent *)

(* The clients' views with news of some players, never of the client's     *)
(* own.                                                                    *)
Overlay(p, view, news) ==
    [q \in (DOMAIN view \cup DOMAIN news) \ {p} |->
        IF q \in DOMAIN news THEN news[q] ELSE view[q]]

Seen(view, q) == IF q \in DOMAIN view THEN view[q] ELSE [pos |-> Origin, name |-> Unnamed]

(* ApplyRemotePlayerState, which makes a player it does not know. *)
Placed(view, q, x) == [r \in {q} |-> [Seen(view, q) EXCEPT !.pos = x]]

(* ApplyPlayerName of each, which does too. *)
Called(view, names) == [r \in DOMAIN names |-> [Seen(view, r) EXCEPT !.name = names[r]]]

Hears(p, types) ==
    /\ chan[p] # <<>>
    /\ Head(chan[p]).type \in types
    /\ chan' = [chan EXCEPT ![p] = Tail(@)]
    /\ UNCHANGED <<online, closing, mapOf, pos, name>>

HearsHandshake(p) ==
    /\ Hears(p, {"HANDSHAKE"})
    /\ UNCHANGED <<shown, missed>>

HearsTransfer(p) ==
    /\ Hears(p, {"MAP_TRANSFER"})
    /\ shown' = [shown EXCEPT ![p] = Nobody]
    /\ missed' = [missed EXCEPT ![p] = {}]

HearsSnapshot(p) ==
    /\ Hears(p, {"SNAPSHOT"})
    /\ shown' = [shown EXCEPT ![p] = Overlay(p, @, Head(chan[p]).of)]
    /\ missed' = [missed EXCEPT ![p] = @ \ DOMAIN Head(chan[p]).of]

(* A join to oneself moves oneself: a teleport. *)
HearsPosition(p) ==
    /\ Hears(p, {"PLAYER_JOIN", "PLAYER_MOVE", "walk"})
    /\ LET packet == Head(chan[p])
       IN  /\ shown' = [shown EXCEPT ![p] = Overlay(p, @, Placed(@, packet.id, packet.pos))]
           /\ missed' = [missed EXCEPT ![p] = @ \ {packet.id}]

(* Mutant: whoever leaves stays as a shadow. *)
HearsLeaveAndKeeps(p) ==
    /\ Hears(p, {"PLAYER_LEAVE"})
    /\ UNCHANGED <<shown, missed>>

HearsLeave(p) ==
    /\ Hears(p, {"PLAYER_LEAVE"})
    /\ shown' = [shown EXCEPT ![p] = Restrict(@, DOMAIN @ \ {Head(chan[p]).id})]
    /\ missed' = [missed EXCEPT ![p] = @ \ {Head(chan[p]).id}]

HearsNames(p) ==
    /\ Hears(p, {"PLAYER_NAME"})
    /\ shown' = [shown EXCEPT ![p] = Overlay(p, @, Called(@, Head(chan[p]).of))]
    /\ UNCHANGED missed

(* A position is lost on its way. *)
Lost(p) ==
    /\ Hears(p, {"walk"})
    /\ missed' = [missed EXCEPT ![p] = @ \cup {Head(chan[p]).id}]
    /\ UNCHANGED shown

-----------------------------------------------------------------------------

Init ==
    /\ online = {}
    /\ closing = {}
    /\ mapOf = [p \in Players |-> DefaultMap]
    /\ pos = [p \in Players |-> Spawn]
    /\ name = [p \in Players |-> Unnamed]
    /\ chan = [p \in Players |-> <<>>]
    /\ shown = [p \in Players |-> Nobody]
    /\ missed = [p \in Players |-> {}]

Server(p) ==
    \/ Connect(p)
    \/ Disconnect(p)
    \/ Closes(p)
    \/ \E x \in Places : Walk(p, x)
    \/ \E n \in Names : Rename(p, n)
    \/ \E x \in Places : Teleport(p, x)
    \/ \E m \in Maps, x \in Places : Transfer(p, m, x)

Client(p) ==
    \/ HearsHandshake(p)
    \/ HearsTransfer(p)
    \/ HearsSnapshot(p)
    \/ HearsPosition(p)
    \/ HearsLeave(p)
    \/ HearsNames(p)
    \/ Lost(p)

Next == \E p \in Players : Server(p) \/ Client(p)

Spec == Init /\ [][Next]_vars

-----------------------------------------------------------------------------
(* Properties *)

Packets ==
    [type: {"HANDSHAKE", "MAP_TRANSFER"}]
    \cup [type: {"PLAYER_LEAVE"}, id: Players]
    \cup [type: {"PLAYER_JOIN", "PLAYER_MOVE", "walk"}, id: Players, pos: Places]
    \cup [type: {"SNAPSHOT"}, of: UNION {[S -> Looks] : S \in SUBSET Players}]
    \cup [type: {"PLAYER_NAME"}, of: UNION {[S -> Names \cup {Unnamed}] : S \in SUBSET Players}]

TypeOK ==
    /\ online \subseteq Players
    /\ closing \subseteq online
    /\ mapOf \in [Players -> Maps]
    /\ pos \in [Players -> Places]
    /\ name \in [Players -> Names \cup {Unnamed}]
    /\ chan \in [Players -> Seq(Packets)]
    /\ shown \in [Players -> UNION {[S -> Looks] : S \in SUBSET Players}]
    /\ missed \in [Players -> SUBSET Players]

Settled(p) == p \in (online \cap Watched) \ closing /\ chan[p] = <<>>

(* A client that has heard everything shows exactly the others on its map: *)
(* nobody is left behind on a map or missing from one, however players     *)
(* travel, leave, and come back under an id that was somebody else's.      *)
ShowsItsMap ==
    \A p \in Players : Settled(p) => DOMAIN shown[p] = On(mapOf[p]) \ {p}

(* A position, a name or a farewell never reaches a client before, or      *)
(* after, the player it is about is shown there: the client would make up  *)
(* a player out of it.                                                     *)
NewsOfTheShown ==
    \A p \in online :
        chan[p] # <<>> =>
            LET packet == Head(chan[p])
            IN  /\ packet.type \in {"PLAYER_MOVE", "walk", "PLAYER_LEAVE"} =>
                      packet.id \in DOMAIN shown[p]
                /\ packet.type = "PLAYER_NAME" =>
                      DOMAIN packet.of \subseteq DOMAIN shown[p] \cup {p}

(* Everybody is shown where they are, but for those whose last position    *)
(* was lost.                                                               *)
ShownWhereTheyAre ==
    \A p \in Players : Settled(p) =>
        \A q \in DOMAIN shown[p] \ missed[p] : shown[p][q].pos = pos[q]

(* Nobody is shown under the name of another, or an earlier holder of the  *)
(* id.                                                                     *)
NamesAreOwn ==
    \A p \in Players : Settled(p) =>
        \A q \in DOMAIN shown[p] : shown[p][q].name \in {Unnamed, name[q]}

-----------------------------------------------------------------------------
(* What the documents say and the code does not do *)

(* "Sinkronisasi nama player" (progress.md): a client that has heard       *)
(* everything shows everybody under their name.                            *)
NamesFollow ==
    \A p \in Players : Settled(p) =>
        \A q \in DOMAIN shown[p] : shown[p][q].name = name[q]
=============================================================================
