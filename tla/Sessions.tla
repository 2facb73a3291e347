------------------------------ MODULE Sessions ------------------------------
(***************************************************************************)
(* The session core of the game server: the tick loop of core/Server.cpp,  *)
(* the ENet peer slots it is driven by, the player ids it hands out, and   *)
(* the per-player tables it keeps.  The loop is one thread:                *)
(*                                                                         *)
(*    poll ENet until it has nothing  ->  time silent players out  ->      *)
(*    one line of stdin  ->  OnGameModeUpdate  ->  loop, or shut down      *)
(*                                                                         *)
(* The hazard is the two notions of "the player" the code joins by hand:   *)
(* an ENet peer slot, which lives until ENet reports its DISCONNECT event, *)
(* and a player id, which the timeout sweep releases earlier and the next  *)
(* connection may already hold when that late event arrives.               *)
(***************************************************************************)
EXTENDS Integers, FiniteSets

CONSTANTS
    Peers,              \* the host's peer slots (maxclients of them)
    BootTimeout,        \* silence allowed before login, in clock units
    ActiveTimeout,      \* silence allowed after login, in clock units
    ScriptsUseStaleIds  \* TRUE: a script may pass an id nobody plays

ASSUME SessionsAssumption ==
    /\ IsFiniteSet(Peers)
    /\ BootTimeout \in Nat \ {0}
    /\ ActiveTimeout \in Nat \ {0}
    /\ ScriptsUseStaleIds \in BOOLEAN

VARIABLES
    (* the server process *)
    running,    \* running_: FALSE once a shutdown was requested
    phase,      \* where the loop is
    stale,      \* the ids the sweep found and has not cleaned up yet
    (* ENet *)
    st,         \* the state of each peer slot
    data,       \* peer->data: the player id of a slot, 0 for a null pointer
    (* the server's tables *)
    players,    \* Network::players_, id -> slot
    freeIds,    \* freePlayerIds_
    nextId,     \* nextPlayerId_
    idle,       \* id -> clock units since playerLastSeenAtMs_, saturating
    entries     \* for every other per-player table, the ids it has a key for

server == <<running, phase, stale>>
enet   == <<st, data>>
tables == <<players, freeIds, nextId, idle, entries>>
vars   == <<server, enet, tables>>

Phases == {"starting", "poll", "sweep", "stdin", "update", "exiting", "down"}

(* ENet's states as the server can tell them apart.  "closing" stands for  *)
(* ACKNOWLEDGING_DISCONNECT and ZOMBIE: the remote end is gone and the     *)
(* DISCONNECT event has yet to be reported.                                *)
PeerStates == {"free", "connecting", "connected", "disconnecting", "closing"}

(* The tables a CONNECT event opens with an assignment, and the two it     *)
(* does not: session-ready is erased there, active triggers are left as    *)
(* they are.                                                               *)
OpenedTables ==
    {"positions", "names", "mapIds", "lastMove", "probe",
     "assetWindow", "assetCount", "inventory"}

Tables == OpenedTables \cup {"ready", "triggers"}

IdleCap == IF BootTimeout > ActiveTimeout THEN BootTimeout ELSE ActiveTimeout

PlayerIds == DOMAIN players

Without(f, id) == [i \in DOMAIN f \ {id} |-> f[i]]

With(f, id, v) == [i \in DOMAIN f \cup {id} |-> IF i = id THEN v ELSE f[i]]

-----------------------------------------------------------------------------
(* Ids *)

(* Mutant: released ids kept in a hash set, taken in any order. *)
AllocatableInAnyOrder == IF freeIds = {} THEN {nextId} ELSE freeIds

(* allocatePlayerId: the smallest released id, or a new one. *)
AllocatableIds ==
    IF freeIds = {} THEN {nextId}
    ELSE {id \in freeIds : \A other \in freeIds : id <= other}

AllocatePlayerId(id) ==
    /\ freeIds' = freeIds \ {id}
    /\ nextId' = IF freeIds = {} THEN nextId + 1 ELSE nextId

-----------------------------------------------------------------------------
(* ENet *)

(* enet_peer_disconnect: asks once; a slot already on its way out keeps    *)
(* its state, and from here on it delivers no packet.                      *)
EnetDisconnect(p) ==
    [st EXCEPT ![p] = CASE @ = "connected"  -> "disconnecting"
                        [] @ = "connecting" -> "free"
                        [] OTHER            -> @]

(* Network::disconnectPlayer: the mapping stays until the session is       *)
(* cleaned up; an unknown id changes nothing.                              *)
DisconnectPlayer(id) ==
    st' = IF id \in PlayerIds THEN EnetDisconnect(players[id]) ELSE st

(* A client's CONNECT command takes a free slot; no event yet. *)
ClientConnects(p) ==
    /\ phase = "poll"
    /\ st[p] = "free"
    /\ st' = [st EXCEPT ![p] = "connecting"]
    /\ UNCHANGED <<server, data, tables>>

(* A slot that never finished its handshake is reset without an event. *)
HandshakeLost(p) ==
    /\ phase = "poll"
    /\ st[p] = "connecting"
    /\ st' = [st EXCEPT ![p] = "free"]
    /\ UNCHANGED <<server, data, tables>>

(* The client asks to disconnect.  Both ends may do so at the same time. *)
ClientDisconnects(p) ==
    /\ phase = "poll"
    /\ st[p] \in {"connected", "disconnecting"}
    /\ st' = [st EXCEPT ![p] = "closing"]
    /\ UNCHANGED <<server, data, tables>>

-----------------------------------------------------------------------------
(* Sessions *)

(* CONNECT: an id is allocated, the slot and the id point at each other,   *)
(* and the tables are opened.  One datagram may carry the handshake's last *)
(* acknowledgement and a disconnect, so the slot may already be closing.   *)
ConnectEvent(p) ==
    /\ phase = "poll"
    /\ st[p] = "connecting"
    /\ \E s \in {"connected", "closing"} : st' = [st EXCEPT ![p] = s]
    /\ \E id \in AllocatableIds :
          /\ AllocatePlayerId(id)
          /\ data' = [data EXCEPT ![p] = id]
          /\ players' = With(players, id, p)
          /\ idle' = With(idle, id, 0)
          /\ entries' = [t \in Tables |->
                            IF t \in OpenedTables THEN entries[t] \cup {id}
                            ELSE IF t = "ready" THEN entries[t] \ {id}
                            ELSE entries[t]]
    /\ UNCHANGED server

(* Mutant: the slot's pointer is not cut. *)
CleanupKeepsPointer(id) ==
    /\ players' = Without(players, id)
    /\ idle' = Without(idle, id)
    /\ entries' = [t \in Tables |-> entries[t] \ {id}]
    /\ freeIds' = freeIds \cup {id}
    /\ UNCHANGED <<data, nextId>>

(* Mutant: the id is not released. *)
CleanupLeaksId(id) ==
    /\ players' = Without(players, id)
    /\ idle' = Without(idle, id)
    /\ entries' = [t \in Tables |-> entries[t] \ {id}]
    /\ data' = IF id \in PlayerIds THEN [data EXCEPT ![players[id]] = 0] ELSE data
    /\ UNCHANGED <<freeIds, nextId>>

(* Mutant: the active triggers are not erased. *)
CleanupKeepsTriggers(id) ==
    /\ players' = Without(players, id)
    /\ idle' = Without(idle, id)
    /\ entries' = [t \in Tables |-> IF t = "triggers" THEN entries[t] ELSE entries[t] \ {id}]
    /\ freeIds' = freeIds \cup {id}
    /\ data' = IF id \in PlayerIds THEN [data EXCEPT ![players[id]] = 0] ELSE data
    /\ UNCHANGED nextId

(* cleanupPlayerSession, but for what it does to the slot's ENet state:    *)
(* forget the id in every table, release it, and cut the slot's pointer.   *)
Cleanup(id) ==
    /\ players' = Without(players, id)
    /\ idle' = Without(idle, id)
    /\ entries' = [t \in Tables |-> entries[t] \ {id}]
    /\ freeIds' = freeIds \cup {id}
    /\ data' = IF id \in PlayerIds THEN [data EXCEPT ![players[id]] = 0] ELSE data
    /\ UNCHANGED nextId

(* DISCONNECT: acknowledged, asked for by the client, or ENet's own        *)
(* timeout.  ENet has already reset the slot.  A null pointer means the    *)
(* sweep was here first: there is no session left to end.                  *)
DisconnectEvent(p) ==
    /\ phase = "poll"
    /\ st[p] \in {"connected", "disconnecting", "closing"}
    /\ st' = [st EXCEPT ![p] = "free"]
    /\ IF data[p] > 0
       THEN Cleanup(data[p])
       ELSE /\ data' = [data EXCEPT ![p] = 0]
            /\ UNCHANGED <<players, freeIds, nextId, idle, entries>>
    /\ UNCHANGED server

(* The tables handlePacket gives a key to, per kind of packet that passed  *)
(* its checks.  "travel" is a portal: it also drops the active triggers.   *)
Touched(kind) ==
    CASE kind = "move"   -> {"positions", "lastMove", "triggers"}
      [] kind = "travel" -> {"positions", "lastMove", "mapIds"}
      [] kind = "rename" -> {"names", "ready"}
      [] kind = "probe"  -> {"probe"}
      [] kind = "asset"  -> {"assetWindow", "assetCount"}
      [] kind = "other"  -> {}

PacketKinds == {"move", "travel", "rename", "probe", "asset", "other"}

HandlePacket(id, kind) ==
    /\ kind \in {"move", "travel"} => id \in entries["positions"]
    /\ entries' = [t \in Tables |->
                      IF t \in Touched(kind) THEN entries[t] \cup {id}
                      ELSE IF t = "triggers" /\ kind = "travel"
                           THEN entries[t] \ {id}
                           ELSE entries[t]]

(* RECEIVE: any packet is a sign of life.  ENet delivers only from a       *)
(* connected slot.                                                         *)
SignOfLife(p) ==
    /\ phase = "poll"
    /\ st[p] = "connected"
    /\ idle' = IF data[p] > 0 THEN With(idle, data[p], 0) ELSE idle
    /\ UNCHANGED <<server, data, players, freeIds, nextId>>

Receive(p) ==
    /\ SignOfLife(p)
    /\ \E kind \in PacketKinds : HandlePacket(data[p], kind)
    /\ UNCHANGED st

(* A packet too long, or of a length its opcode cannot have: the player is *)
(* asked to leave.                                                         *)
ReceiveMalformed(p) ==
    /\ SignOfLife(p)
    /\ DisconnectPlayer(data[p])
    /\ UNCHANGED entries

-----------------------------------------------------------------------------
(* The loop *)

(* run() raises the flag itself: a signal that came in before is lost. *)
Run ==
    /\ phase = "starting"
    /\ phase' = "poll"
    /\ running' = TRUE
    /\ UNCHANGED <<stale, enet, tables>>

(* The silence a player is allowed. *)
Timeout(id) == IF id \in entries["ready"] THEN ActiveTimeout ELSE BootTimeout

(* Mutant: only players past the login can time out. *)
StaleOnceReady == {id \in DOMAIN idle : id \in entries["ready"] /\ idle[id] >= ActiveTimeout}

StaleIds == {id \in DOMAIN idle : idle[id] >= Timeout(id)}

(* ENet has nothing more to report: disconnectTimedOutPlayers collects the *)
(* silent players ...                                                      *)
EndPoll ==
    /\ phase = "poll"
    /\ phase' = "sweep"
    /\ stale' = StaleIds
    /\ UNCHANGED <<running, enet, tables>>

(* ... and then ends their sessions one by one, scripts and plugins being  *)
(* called in between.  The slot stays until ENet lets go of it.            *)
TimeOut(id) ==
    /\ phase = "sweep"
    /\ id \in stale
    /\ stale' = stale \ {id}
    /\ DisconnectPlayer(id)
    /\ Cleanup(id)
    /\ UNCHANGED <<running, phase>>

EndSweep ==
    /\ phase = "sweep"
    /\ stale = {}
    /\ phase' = "stdin"
    /\ UNCHANGED <<running, stale, enet, tables>>

(* processStdin: at most one line a tick.  "kick" asks the slot to close   *)
(* and leaves the session to the event or the sweep.                       *)
Kick(id) ==
    /\ phase = "stdin"
    /\ DisconnectPlayer(id)
    /\ phase' = "update"
    /\ UNCHANGED <<running, stale, data, tables>>

QuitCommand ==
    /\ phase = "stdin"
    /\ running' = FALSE
    /\ phase' = "update"
    /\ UNCHANGED <<stale, enet, tables>>

NoCommand ==
    /\ phase = "stdin"
    /\ phase' = "update"
    /\ UNCHANGED <<running, stale, enet, tables>>

(* OnGameModeUpdate or an "exec" line runs Lua, which may set a player's   *)
(* position; the builtin does not ask whether anybody plays that id.       *)
ScriptSetsPosition(id) ==
    /\ phase \in {"stdin", "update"}
    /\ ScriptsUseStaleIds \/ id \in PlayerIds
    /\ entries' = [entries EXCEPT !["positions"] = @ \cup {id}]
    /\ UNCHANGED <<server, enet, players, freeIds, nextId, idle>>

(* The tick ends; the flag is read at the top of the loop only. *)
Update ==
    /\ phase = "update"
    /\ phase' = IF running THEN "poll" ELSE "exiting"
    /\ UNCHANGED <<running, stale, enet, tables>>

(* SIGINT or SIGTERM, at any moment. *)
Signal ==
    /\ phase # "down"
    /\ running
    /\ running' = FALSE
    /\ UNCHANGED <<phase, stale, enet, tables>>

(* Mutant: ids start over at 0, which is the null pointer. *)
ShutdownToZero ==
    /\ phase = "exiting"
    /\ phase' = "down"
    /\ running' = FALSE
    /\ st' = [p \in Peers |-> "free"]
    /\ data' = [p \in Peers |-> 0]
    /\ players' = [id \in {} |-> 0]
    /\ idle' = [id \in {} |-> 0]
    /\ entries' = [t \in Tables |-> IF t = "inventory" THEN entries[t] ELSE {}]
    /\ freeIds' = {}
    /\ nextId' = 0
    /\ UNCHANGED stale

(* shutdown(): no session is cleaned up on its own; the host is destroyed  *)
(* and the tables are emptied at once, the inventories excepted.           *)
Shutdown ==
    /\ phase = "exiting"
    /\ phase' = "down"
    /\ running' = FALSE
    /\ st' = [p \in Peers |-> "free"]
    /\ data' = [p \in Peers |-> 0]
    /\ players' = [id \in {} |-> 0]
    /\ idle' = [id \in {} |-> 0]
    /\ entries' = [t \in Tables |-> IF t = "inventory" THEN entries[t] ELSE {}]
    /\ freeIds' = {}
    /\ nextId' = 1
    /\ UNCHANGED stale

(* Time passes, whatever the server is doing.  Only its comparison with    *)
(* the timeouts is ever read, so it saturates at the larger one.           *)
Clock ==
    /\ \E id \in DOMAIN idle : idle[id] < IdleCap
    /\ idle' = [id \in DOMAIN idle |->
                   IF idle[id] < IdleCap THEN idle[id] + 1 ELSE idle[id]]
    /\ UNCHANGED <<server, enet, players, freeIds, nextId, entries>>

-----------------------------------------------------------------------------

Init ==
    /\ running = FALSE
    /\ phase = "starting"
    /\ stale = {}
    /\ st = [p \in Peers |-> "free"]
    /\ data = [p \in Peers |-> 0]
    /\ players = [id \in {} |-> 0]
    /\ freeIds = {}
    /\ nextId = 1
    /\ idle = [id \in {} |-> 0]
    /\ entries = [t \in Tables |-> {}]

Network ==
    \E p \in Peers :
        \/ ClientConnects(p)
        \/ HandshakeLost(p)
        \/ ClientDisconnects(p)

Poll ==
    \E p \in Peers :
        \/ ConnectEvent(p)
        \/ DisconnectEvent(p)
        \/ Receive(p)
        \/ ReceiveMalformed(p)

Loop ==
    \/ Run
    \/ EndPoll
    \/ \E id \in stale : TimeOut(id)
    \/ EndSweep
    \/ \E id \in PlayerIds : Kick(id)
    \/ QuitCommand
    \/ NoCommand
    \/ \E id \in 1..nextId : ScriptSetsPosition(id)
    \/ Update
    \/ Shutdown

Next == Network \/ Poll \/ Loop \/ Signal \/ Clock

Spec == Init /\ [][Next]_vars

(* The loop's thread runs, and time passes.  That the drain in "poll" ends *)
(* is no property of the code, which leaves it only when ENet has nothing  *)
(* more: the liveness properties assume it instead of fairness.            *)
LoopStep ==
    \/ Run
    \/ \E id \in stale : TimeOut(id)
    \/ EndSweep
    \/ \E id \in PlayerIds : Kick(id)
    \/ QuitCommand
    \/ NoCommand
    \/ Update
    \/ Shutdown

FairSpec == Spec /\ WF_vars(LoopStep) /\ WF_vars(Clock)

-----------------------------------------------------------------------------
(* Invariants *)

TypeOK ==
    /\ running \in BOOLEAN
    /\ phase \in Phases
    /\ stale \subseteq Nat
    /\ st \in [Peers -> PeerStates]
    /\ data \in [Peers -> Nat]
    /\ PlayerIds \subseteq Nat \ {0}
    /\ players \in [PlayerIds -> Peers]
    /\ freeIds \subseteq Nat \ {0}
    /\ nextId \in Nat \ {0}
    /\ idle \in [DOMAIN idle -> 0..IdleCap]
    /\ entries \in [Tables -> SUBSET Nat]

(* Slot and id point at each other or not at all.  A slot that still can   *)
(* deliver a packet has a session, so no packet is ever handled for id 0   *)
(* or for a player that is gone; a slot whose session is over keeps no id  *)
(* for its late DISCONNECT event to act on.                                *)
SlotsMatchIds ==
    /\ \A id \in PlayerIds : data[players[id]] = id
    /\ \A p \in Peers : data[p] # 0 => data[p] \in PlayerIds /\ players[data[p]] = p
    /\ \A p \in Peers : st[p] = "connected" => data[p] # 0
    /\ \A p \in Peers : st[p] \in {"free", "connecting"} => data[p] = 0

(* Every id ever handed out is either played or free to be handed out      *)
(* again, never both and never lost.                                       *)
NoIdLeaks ==
    /\ PlayerIds \cap freeIds = {}
    /\ PlayerIds \cup freeIds = 1..(nextId - 1)

(* The keys nobody answers for: the inventories of a server that shut      *)
(* down, which nothing clears, and positions set for an id nobody plays.   *)
MayBeOrphaned(t) ==
    \/ phase = "down" /\ t = "inventory"
    \/ ScriptsUseStaleIds /\ t = "positions"

(* No table remembers a player who left: the next player with that id      *)
(* would inherit the login, the triggers it stands in or the silence.  A   *)
(* player on the server has a key in every table a handler reads.          *)
TablesMatchPlayers ==
    /\ DOMAIN idle = PlayerIds
    /\ \A t \in Tables : MayBeOrphaned(t) \/ entries[t] \subseteq PlayerIds
    /\ \A t \in OpenedTables : PlayerIds \subseteq entries[t]

(* Ids stay small, however long the server runs: never one beyond the      *)
(* number of slots.  The spawn grid relies on it.                          *)
IdsBounded == nextId <= Cardinality(Peers) + 1

(* The players found silent are still there when their turn comes: no      *)
(* clean-up can take another's session away.                               *)
StaleAreSilentPlayers ==
    phase = "sweep" =>
        \A id \in stale : id \in PlayerIds /\ idle[id] >= Timeout(id)

-----------------------------------------------------------------------------
(* Action properties *)

Left(id) == id \in PlayerIds /\ id \notin PlayerIds'

EnetLetGo(p) == st[p] # "free" /\ st'[p] = "free"

TimedOut(id) == phase = "sweep" /\ idle[id] >= Timeout(id)

EndsItsOwn(id) ==
    Left(id) => EnetLetGo(players[id]) \/ TimedOut(id) \/ phase = "exiting"

SessionStep ==
    /\ \A id \in PlayerIds : EndsItsOwn(id)
    /\ \A id \in PlayerIds \cap PlayerIds' : players'[id] = players[id]

(* A session ends because of its own connection or its own silence: ENet   *)
(* reported that slot's end, or the player was silent for the whole of the *)
(* time its state allows, or the server stops.  The late event of an old   *)
(* connection ends nobody's session, and an id never changes hands.        *)
OnlyItsOwnEnd == [][SessionStep]_vars

-----------------------------------------------------------------------------
(* Liveness *)

DrainEnds == []<>(phase # "poll")

(* Every silence ends, with a packet or with the session: a client that    *)
(* crashed, was kicked or said goodbye does not keep its id, whichever of  *)
(* ENet's event and the sweep comes first, or if the event never does.     *)
SilenceEnds ==
    DrainEnds =>
        \A id \in 1..Cardinality(Peers) :
            (id \in PlayerIds /\ idle[id] > 0) ~> (id \in PlayerIds => idle[id] = 0)

-----------------------------------------------------------------------------
(* Refinement *)

Directory == INSTANCE SessionDirectory
                 WITH owner <- players, MaxClients <- Cardinality(Peers)

(* The server hands out ids as SessionDirectory promises. *)
ImplementsDirectory == Directory!Spec
=============================================================================
