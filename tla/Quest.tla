------------------------------- MODULE Quest -------------------------------
(***************************************************************************)
(* The Lua gameplay: the starter quest (scripts/quests/starter_quest.lua), *)
(* Luna who gives and rewards it (scripts/npc/luna.lua), the road marker   *)
(* (scripts/triggers/starter_road.lua), and the dispatch of the server's   *)
(* callbacks to the module of the map a player is on (scripts/main.lua).   *)
(*                                                                         *)
(* Every quest map's module loads a starter_quest of its own, keyed by     *)
(* player id.  The hazard: the module that opens a player's entry is that  *)
(* of the map players start on, the one that clears it is that of the map  *)
(* they leave from, and the next player gets the same id.                  *)
(*                                                                         *)
(* And what clients show of it (Game.cpp): objectives and transfers arrive *)
(* in the order they were sent, some of them before the player logs in.    *)
(***************************************************************************)
EXTENDS Integers, Sequences

CONSTANTS
    MaxClients,
    Maps,           \* the maps that can be reached from the start map
    DefaultMap,     \* the start map: "worldmap" in server.cfg
    ScriptOf,       \* a map's "map_script", "overworld_main" if it has none
    QuestScripts,   \* the map scripts with a quest: the others have none
    Portals,        \* a map's portals to other maps
    MaxInFlight     \* bound: messages on their way to a client

ASSUME QuestAssumption ==
    /\ MaxClients \in Nat
    /\ DefaultMap \in Maps
    /\ DOMAIN ScriptOf = Maps
    /\ Portals \in [Maps -> SUBSET Maps]
    /\ MaxInFlight \in Nat

Players == 1..MaxClients

VARIABLES
    online,     \* the ids somebody plays
    mapOf,      \* playerMapIds_
    stage,      \* quest_state of each quest script's module
    sent,       \* what is on its way to each client, oldest first
    shown,      \* currentObjective_ of the client behind each id
    told,       \* history: the clients that heard an objective since they
                \* cleared it last
    playing,    \* the clients that have logged in
    paid,       \* history: how often Luna of a script paid a session
    met         \* history: the scripts whose Luna a session was welcomed by

vars == <<online, mapOf, stage, sent, shown, told, playing, paid, met>>

client == <<shown, told, playing>>

NOT_STARTED == 0
SCOUT_ROAD == 1
RETURN_TO_NPC == 2
DONE == 3

Stages == NOT_STARTED..DONE

(* The objective of a map without a quest. *)
Explore == -1

(* The client's own: no objective at all, and MAP_TRANSFER, the other      *)
(* message that touches it.                                                *)
Blank == -2
Transfer == -3

Texts == Stages \cup {Explore}

(* module_for_player: the module of the map the player is on. *)
Module(p) == ScriptOf[mapOf[p]]

HasQuest(p) == Module(p) \in QuestScripts

SetStage(p, n) == stage' = [stage EXCEPT ![Module(p)][p] = n]

(* What the map's script tells a player to do. *)
Current(p) == IF HasQuest(p) THEN stage[Module(p)][p] ELSE Explore

(* sendPacket on the reliable channel: messages arrive once and in order.  *)
Send(p, messages) ==
    /\ Len(sent[p]) + Len(messages) <= MaxInFlight
    /\ sent' = [sent EXCEPT ![p] = @ \o messages]

Objective(p, n) == Send(p, <<n>>)

(* A client of the id's next holder has its own past: LoadDefaults and a   *)
(* new connection leave currentObjective_ as it was.                       *)
NewClient(p) ==
    /\ \E old \in Texts \cup {Blank} : shown' = [shown EXCEPT ![p] = old]
    /\ told' = told \ {p}
    /\ playing' = playing \ {p}

-----------------------------------------------------------------------------

(* Mutant: the quest of the start map is not begun anew. *)
ConnectKeepsStage(p) ==
    /\ p \notin online
    /\ \A q \in 1..(p - 1) : q \in online
    /\ online' = online \cup {p}
    /\ mapOf' = [mapOf EXCEPT ![p] = DefaultMap]
    /\ NewClient(p)
    /\ Objective(p, IF ScriptOf[DefaultMap] \in QuestScripts
                    THEN stage[ScriptOf[DefaultMap]][p] ELSE Explore)
    /\ paid' = [paid EXCEPT ![p] = [s \in QuestScripts |-> 0]]
    /\ met' = [met EXCEPT ![p] = {}]
    /\ UNCHANGED stage

(* CONNECT, with the smallest id nobody plays (module SessionDirectory):   *)
(* OnPlayerConnect, which begins a quest and tells of it, and              *)
(* OnPlayerEnterMap of the start map, which tells again.                   *)
Connect(p) ==
    /\ p \notin online
    /\ \A q \in 1..(p - 1) : q \in online
    /\ online' = online \cup {p}
    /\ mapOf' = [mapOf EXCEPT ![p] = DefaultMap]
    /\ NewClient(p)
    /\ paid' = [paid EXCEPT ![p] = [s \in QuestScripts |-> 0]]
    /\ met' = [met EXCEPT ![p] = {}]
    /\ IF ScriptOf[DefaultMap] \in QuestScripts
       THEN /\ stage' = [stage EXCEPT ![ScriptOf[DefaultMap]][p] = NOT_STARTED]
            /\ Send(p, <<NOT_STARTED, NOT_STARTED>>)
       ELSE /\ Objective(p, Explore)
            /\ UNCHANGED stage

(* Luna is told to give the quest: stage 0 of luna.lua's interact. *)
Welcome(p) ==
    /\ stage[Module(p)][p] = NOT_STARTED
    /\ SetStage(p, SCOUT_ROAD)
    /\ Objective(p, SCOUT_ROAD)
    /\ met' = [met EXCEPT ![p] = @ \cup {Module(p)}]
    /\ UNCHANGED paid

(* Mutant: the quest is done whether or not the pack had room. *)
RewardOrNot(p) ==
    /\ stage[Module(p)][p] = RETURN_TO_NPC
    /\ \E room \in BOOLEAN :
          /\ SetStage(p, DONE)
          /\ Objective(p, DONE)
          /\ paid' = [paid EXCEPT ![p][Module(p)] = IF room THEN @ + 1 ELSE @]
    /\ UNCHANGED met

(* Mutant: the objective is not synchronised. *)
RewardInSilence(p) ==
    /\ stage[Module(p)][p] = RETURN_TO_NPC
    /\ \E room \in BOOLEAN :
          IF room
          THEN /\ SetStage(p, DONE)
               /\ paid' = [paid EXCEPT ![p][Module(p)] = @ + 1]
          ELSE UNCHANGED <<stage, paid>>
    /\ UNCHANGED <<met, sent>>

(* Stage 2: the reward, by AddInventoryItem (module InventoryService); a   *)
(* full pack leaves the quest as it is, to be tried again.                 *)
Reward(p) ==
    /\ stage[Module(p)][p] = RETURN_TO_NPC
    /\ \E room \in BOOLEAN :
          IF room
          THEN /\ SetStage(p, DONE)
               /\ Objective(p, DONE)
               /\ paid' = [paid EXCEPT ![p][Module(p)] = @ + 1]
          ELSE UNCHANGED <<stage, sent, paid>>
    /\ UNCHANGED met

(* OnMapObjectInteract with Luna.  At stages 1 and 3 she only talks.  The  *)
(* server asks nobody whether they have logged in.                         *)
TalkToLuna(p) ==
    /\ p \in online
    /\ HasQuest(p)
    /\ Welcome(p) \/ Reward(p)
    /\ UNCHANGED <<online, mapOf, client>>

(* Mutant: the marker counts before the quest was given. *)
ReachMarkerAnyTime(p) ==
    /\ p \in online
    /\ HasQuest(p)
    /\ stage[Module(p)][p] < RETURN_TO_NPC
    /\ SetStage(p, RETURN_TO_NPC)
    /\ Objective(p, RETURN_TO_NPC)
    /\ UNCHANGED <<online, mapOf, client, paid, met>>

(* Mutant: the marker moves the quest on from wherever it is. *)
ReachMarkerMovesOn(p) ==
    /\ p \in online
    /\ HasQuest(p)
    /\ stage[Module(p)][p] # NOT_STARTED
    /\ SetStage(p, stage[Module(p)][p] + 1)
    /\ Objective(p, stage[Module(p)][p] + 1)
    /\ UNCHANGED <<online, mapOf, client, paid, met>>

(* OnMapTriggerEnter at the road marker, which counts at stage 1 only. *)
ReachMarker(p) ==
    /\ p \in online
    /\ HasQuest(p)
    /\ stage[Module(p)][p] = SCOUT_ROAD
    /\ SetStage(p, RETURN_TO_NPC)
    /\ Objective(p, RETURN_TO_NPC)
    /\ UNCHANGED <<online, mapOf, client, paid, met>>

(* Mutant: the new map's script speaks before the client hears of it.     *)
TravelTellsFirst(p, m) ==
    /\ p \in online
    /\ m \in Portals[mapOf[p]] \ {mapOf[p]}
    /\ mapOf' = [mapOf EXCEPT ![p] = m]
    /\ Send(p, <<IF ScriptOf[m] \in QuestScripts THEN stage[ScriptOf[m]][p] ELSE Explore,
                 Transfer>>)
    /\ UNCHANGED <<online, stage, client, paid, met>>

(* A portal to another map: transferPlayerToMap, with OnPlayerLeaveMap of  *)
(* the old map (which only talks), the MAP_TRANSFER and OnPlayerEnterMap   *)
(* of the new one.                                                         *)
Travel(p, m) ==
    /\ p \in online
    /\ m \in Portals[mapOf[p]] \ {mapOf[p]}
    /\ mapOf' = [mapOf EXCEPT ![p] = m]
    /\ Send(p, <<Transfer,
                 IF ScriptOf[m] \in QuestScripts THEN stage[ScriptOf[m]][p] ELSE Explore>>)
    /\ UNCHANGED <<online, stage, client, paid, met>>

(* cleanupPlayerSession: OnPlayerDisconnect of the map the player is on,   *)
(* before the id is released.                                              *)
Disconnect(p) ==
    /\ p \in online
    /\ online' = online \ {p}
    /\ mapOf' = [mapOf EXCEPT ![p] = DefaultMap]
    /\ sent' = [sent EXCEPT ![p] = <<>>]
    /\ shown' = [shown EXCEPT ![p] = Blank]
    /\ told' = told \ {p}
    /\ playing' = playing \ {p}
    /\ IF HasQuest(p) THEN SetStage(p, NOT_STARTED) ELSE UNCHANGED stage
    /\ UNCHANGED <<paid, met>>

(* The client takes the next message, in whatever mode it is: the cases    *)
(* ObjectiveText and MapTransfer of HandleNetworkEvent.                    *)
Hear(p) ==
    /\ p \in online /\ sent[p] # <<>>
    /\ sent' = [sent EXCEPT ![p] = Tail(@)]
    /\ IF Head(sent[p]) = Transfer
       THEN shown' = [shown EXCEPT ![p] = Blank] /\ told' = told \ {p}
       ELSE shown' = [shown EXCEPT ![p] = Head(sent[p])] /\ told' = told \cup {p}
    /\ UNCHANGED <<online, mapOf, stage, playing, paid, met>>

(* Mutant: the objective of the session before stays. *)
StartLoginKeeps(p) ==
    /\ p \in online /\ p \notin playing
    /\ told' = told \ {p}
    /\ \E reached \in BOOLEAN : playing' = IF reached THEN playing \cup {p} ELSE playing
    /\ UNCHANGED <<online, mapOf, stage, sent, shown, paid, met>>

(* Game::StartLogin clears the objective, then says the player's name; if  *)
(* that fails, the player may try again.  The server has no script that    *)
(* answers a name with an objective.                                       *)
StartLogin(p) ==
    /\ p \in online /\ p \notin playing
    /\ shown' = [shown EXCEPT ![p] = Blank]
    /\ told' = told \ {p}
    /\ \E reached \in BOOLEAN : playing' = IF reached THEN playing \cup {p} ELSE playing
    /\ UNCHANGED <<online, mapOf, stage, sent, paid, met>>

-----------------------------------------------------------------------------

Init ==
    /\ online = {}
    /\ mapOf = [p \in Players |-> DefaultMap]
    /\ stage = [s \in QuestScripts |-> [p \in Players |-> NOT_STARTED]]
    /\ sent = [p \in Players |-> <<>>]
    /\ shown = [p \in Players |-> Blank]
    /\ told = {}
    /\ playing = {}
    /\ paid = [p \in Players |-> [s \in QuestScripts |-> 0]]
    /\ met = [p \in Players |-> {}]

Next ==
    \E p \in Players :
        \/ Connect(p)
        \/ TalkToLuna(p)
        \/ ReachMarker(p)
        \/ \E m \in Maps : Travel(p, m)
        \/ Disconnect(p)
        \/ Hear(p)
        \/ StartLogin(p)

Spec == Init /\ [][Next]_vars

-----------------------------------------------------------------------------
(* Properties *)

TypeOK ==
    /\ online \subseteq Players
    /\ mapOf \in [Players -> Maps]
    /\ stage \in [QuestScripts -> [Players -> Stages]]
    /\ sent \in [Players -> Seq(Texts \cup {Transfer})]
    /\ shown \in [Players -> Texts \cup {Blank}]
    /\ told \subseteq online
    /\ playing \subseteq online
    /\ paid \in [Players -> [QuestScripts -> Nat]]
    /\ met \in [Players -> SUBSET QuestScripts]

(* Nobody inherits the quest of whoever played the id before: a quest is   *)
(* under way, or done, only for a player whom its Luna welcomed in the     *)
(* same session.  Players who left from a map without a quest leave their  *)
(* progress behind; it is the next OnPlayerConnect that starts over.       *)
NewcomersStartOver ==
    \A p \in online, s \in QuestScripts : stage[s][p] # NOT_STARTED => s \in met[p]

(* Luna pays a player once in a session, and exactly those whose quest she *)
(* calls done, whatever the pack said and however often they come back.    *)
PaidExactlyOnce ==
    \A p \in online, s \in QuestScripts :
        paid[p][s] = IF stage[s][p] = DONE THEN 1 ELSE 0

(* A client that has heard all it was sent shows what the script of its    *)
(* map has it do now, after any wandering between maps, and nothing of     *)
(* another map, of an earlier stage or of the session before.  Or it shows *)
(* nothing at all, when it has heard no objective since it cleared its     *)
(* own: a login clears the one that came with the connection, and no       *)
(* script sends it again before the quest moves on or the player travels.  *)
ObjectiveFollowsStage ==
    \A p \in online :
        sent[p] = <<>> => shown[p] = IF p \in told THEN Current(p) ELSE Blank

(* As long as a session lasts, its quests go forward, a stage at a time,   *)
(* one quest at a time.                                                    *)
QuestStep ==
    \A p \in online \cap online' :
        \/ \A s \in QuestScripts : stage'[s][p] = stage[s][p]
        \/ /\ stage'[Module(p)][p] = stage[Module(p)][p] + 1
           /\ \A s \in QuestScripts \ {Module(p)} : stage'[s][p] = stage[s][p]

StagesInOrder == [][QuestStep]_vars

-----------------------------------------------------------------------------
(* What the documents say and the code does not do *)

(* "Progress quest dibersihkan saat player disconnect." (progress.md): no  *)
(* progress is kept for an id nobody plays.                                *)
ClearedOnDisconnect ==
    \A p \in Players \ online, s \in QuestScripts : stage[s][p] = NOT_STARTED
=============================================================================
