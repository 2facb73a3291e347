------------------------------ MODULE Movement ------------------------------
(***************************************************************************)
(* One player's position, which client and server both keep.  The client   *)
(* walks at once and reports where it is; the server takes a report that   *)
(* is near enough and on walkable ground, and answers any other with the   *)
(* position it keeps, towards which the client then slides.  Portals move  *)
(* the player from the server's side while reports are on their way.       *)
(*                                                                         *)
(* Positions are places on a line, the path the player walks; a unit is    *)
(* what a walking player covers between two reports.  Reports and the      *)
(* server's answers may be lost, never overtaken (see Presence); what      *)
(* places the player (a PLAYER_JOIN or a snapshot of its own id, a         *)
(* MAP_TRANSFER) arrives.                                                  *)
(***************************************************************************)
EXTENDS Integers, Sequences

CONSTANTS
    Maps,
    Home,          \* the map a player starts on
    Spawn,         \* and the place
    Open,          \* the walkable places of each map, as the server sees them
    Seen,          \* as the client sees them
    Triggers,      \* the areas of each map's triggers, by object index
    Portals,       \* [map, at, target_map, target]
    Range,         \* objectInteractionRange
    Slack,         \* kMoveSlack
    MaxIdle,       \* the most time a step is credited with: 0.25 s
    Soft, Strong, Snap,  \* kCorrectionSoftDistance, ...
    StillInterval, \* frames between the reports of a player who stands
    MaxRemaining,  \* bound: corrections that have added up
    MaxInFlight,   \* bound: packets on their way, beyond which one is lost
    MaxPortals     \* bound: uses of portals

ASSUME MovementAssumption ==
    /\ Home \in Maps /\ Spawn \in Int
    /\ Open \in [Maps -> SUBSET Int]
    /\ Seen \in [Maps -> SUBSET Int]
    /\ \A m \in Maps : Triggers[m] \in Seq(SUBSET Int)
    /\ \A p \in Portals :
          p.map \in Maps /\ p.at \in Int /\ p.target_map \in Maps /\ p.target \in Int
    /\ {Range, Slack, MaxIdle, Soft, Strong, Snap, StillInterval, MaxRemaining,
        MaxInFlight, MaxPortals} \subseteq Nat

VARIABLES
    mapOf,       \* playerMapIds_
    pos,         \* playerPositions_
    idle,        \* frames since playerLastMoveAtMs_, up to MaxIdle
    active,      \* playerActiveTriggers_
    reports,     \* PLAYER_DATA on its way to the server
    answers,     \* what is on its way to the client
    input,       \* the key held, or "chat" while the chat has the keyboard
    at,          \* player_.position
    remaining,   \* localCorrectionRemaining_
    sent,        \* lastSentPosition_
    wait,        \* sendAccumulator_, in frames, up to StillInterval
    ready,       \* mapReady_
    arrival,     \* pendingMapId_ and pendingSpawnPosition_, or the last map
    travelled    \* portals used

server == <<mapOf, pos, idle, active>>
client == <<at, remaining, sent, wait, ready, arrival>>
vars == <<server, reports, answers, input, client, travelled>>
-----------------------------------------------------------------------------
Distance(a, b) == IF a >= b THEN a - b ELSE b - a
Capped(n, most) == IF n > most THEN most ELSE n

Report(place) == place
Position(place) == [kind |-> "position", at |-> place]
Placed(place) == [kind |-> "placed", at |-> place]
Transfer(map, place) == [kind |-> "transfer", at |-> place, map |-> map]
Answers == [kind : {"position", "placed"}, at : Int]
           \union [kind : {"transfer"}, at : Int, map : Maps]

\* The network loses an unreliable packet when it likes, here at the latest
\* when the channel is full.
Unreliably(chan, packet) ==
    IF Len(chan) < MaxInFlight THEN Append(chan, packet) ELSE chan
-----------------------------------------------------------------------------
(* The server.                                                             *)

\* ValidateMovement.  A step is credited with at least the time between two
\* reports.
Credit == IF idle = 0 THEN 1 ELSE idle

MovementAccepted(place) ==
    /\ Distance(place, pos) <= Slack + Credit
    /\ place \in Open[mapOf]

\* The triggers that contain a place.
TriggersAt(map, place) == {i \in DOMAIN Triggers[map] : place \in Triggers[map][i]}

\* Server::updatePlayerTriggers.  The scripts' OnMapTriggerEnter does not move
\* the player.
updatePlayerTriggers(place) == active' = TriggersAt(mapOf, place)

\* Server::handlePacket, PLAYER_DATA
HandleReport ==
    /\ reports # <<>>
    /\ reports' = Tail(reports)
    /\ LET place == Head(reports) IN
       IF MovementAccepted(place)
       THEN /\ pos' = place
            /\ idle' = 0
            /\ updatePlayerTriggers(place)
            /\ UNCHANGED <<mapOf, answers>>
       ELSE /\ answers' = Unreliably(answers, Position(pos))
            /\ UNCHANGED server
    /\ UNCHANGED <<input, client, travelled>>

\* Server::teleportPlayerWithinMap
Teleport(place) ==
    /\ place \in Open[mapOf]
    /\ pos' = place
    /\ idle' = 0
    /\ updatePlayerTriggers(place)
    /\ answers' = Append(answers, Placed(place))
    /\ UNCHANGED mapOf

\* Mutant: the triggers of the map that is left stay.
TransferWithTriggers(map, place) ==
    /\ mapOf' = map
    /\ pos' = place
    /\ idle' = 0
    /\ answers' = Unreliably(Append(answers, Transfer(map, place)), Position(place))
                  \o <<Placed(place)>>
    /\ UNCHANGED active

\* Server::transferPlayerToMap: the snapshot of the new map holds the player.
TransferTo(map, place) ==
    /\ mapOf' = map
    /\ pos' = place
    /\ idle' = 0
    /\ active' = {}
    /\ answers' = Unreliably(Append(answers, Transfer(map, place)), Position(place))
                  \o <<Placed(place)>>

\* Server::handlePacket, OBJECT_INTERACT with a portal; the request is in
\* module Client.
UsePortal(portal) ==
    /\ travelled < MaxPortals
    /\ Len(answers) < MaxInFlight
    /\ portal.map = mapOf
    /\ Distance(pos, portal.at) <= Range
    /\ \/ portal.target_map = mapOf /\ Teleport(portal.target)
       \/ portal.target_map # mapOf /\ TransferTo(portal.target_map, portal.target)
    /\ travelled' = travelled + 1
    /\ UNCHANGED <<reports, input, client>>
-----------------------------------------------------------------------------
(* The client.                                                             *)

\* The share of a distance that an answer adds to the correction: 35 % of a
\* long one, 12 % of a short one, none of one that is not worth it.
Share(d) ==
    LET part == IF Distance(d, 0) > Strong THEN 35 ELSE 12
        size == (part * Distance(d, 0) + 99) \div 100
    IN  IF Distance(d, 0) <= Soft THEN 0 ELSE IF d > 0 THEN size ELSE -size

\* Corrections add up, here to MaxRemaining at most.
Added(d) ==
    IF remaining + d > MaxRemaining THEN MaxRemaining
    ELSE IF remaining + d < -MaxRemaining THEN -MaxRemaining
    ELSE remaining + d

\* A frame takes up to 12 % of what remains, at least one unit.
CorrectionStep ==
    LET size == (12 * Distance(remaining, 0) + 99) \div 100
    IN  IF remaining > 0 THEN size ELSE -size

Step == [none |-> 0, left |-> -1, right |-> 1, chat |-> 0]

Walked == IF at + Step[input] \in Seen[arrival.map] THEN at + Step[input] ELSE at

\* Game::UpdatePlayer: the correction is not checked against the ground.
UpdatePlayer ==
    IF ~ready \/ input = "chat" THEN UNCHANGED <<at, remaining>>
    ELSE /\ at' = Walked + CorrectionStep
         /\ remaining' = remaining - CorrectionStep

\* Mutant: a player who stands does not start the next interval.
SendWithoutReset ==
    /\ wait' = IF ready THEN wait + 1 ELSE wait
    /\ IF ready /\ wait + 1 >= (IF at # sent THEN 1 ELSE StillInterval)
       THEN /\ reports' = Unreliably(reports, Report(at))
            /\ sent' = at
       ELSE UNCHANGED <<reports, sent>>

SendInterval == IF at # sent THEN 1 ELSE StillInterval

\* The end of Game::UpdateNetwork.
SendPosition ==
    IF ready /\ wait + 1 >= SendInterval
    THEN /\ reports' = Unreliably(reports, Report(at))
         /\ sent' = at
         /\ wait' = 0
    ELSE /\ wait' = IF ready THEN wait + 1 ELSE wait
         /\ UNCHANGED <<reports, sent>>

\* From the events of one frame to those of the next: the report, then the
\* step.  The server's clock goes on.
Frame ==
    /\ SendPosition
    /\ UpdatePlayer
    /\ idle' = Capped(idle + 1, MaxIdle)
    /\ UNCHANGED <<mapOf, pos, active, answers, input, ready, arrival, travelled>>

Press(key) ==
    /\ key # input
    /\ input' = key
    /\ UNCHANGED <<server, reports, answers, client, travelled>>

\* Mutant: an answer within the snap distance is taken for near enough.
HearPositionOnce ==
    LET d == Head(answers).at - at IN
    /\ IF Distance(d, 0) > Snap
       THEN at' = Head(answers).at /\ remaining' = 0
       ELSE UNCHANGED <<at, remaining>>
    /\ sent' = at'
    /\ UNCHANGED <<ready, arrival>>

\* Game::HandleNetworkEvent, PlayerPosition
HearPosition ==
    LET d == Head(answers).at - at IN
    /\ IF Distance(d, 0) > Snap
       THEN at' = Head(answers).at /\ remaining' = 0
       ELSE at' = at /\ remaining' = Added(Share(d))
    /\ sent' = at'
    /\ UNCHANGED <<ready, arrival>>

\* ... PlayerJoined, SnapshotPlayer with its own id
HearPlaced ==
    /\ at' = Head(answers).at
    /\ sent' = at'
    /\ remaining' = 0
    /\ UNCHANGED <<ready, arrival>>

\* ... MapTransfer: the player waits until the map is ready.
HearTransfer ==
    /\ ready' = FALSE
    /\ arrival' = [map |-> Head(answers).map, spawn |-> {Head(answers).at}]
    /\ remaining' = 0
    /\ UNCHANGED <<at, sent>>

Hear ==
    /\ answers # <<>>
    /\ answers' = Tail(answers)
    /\ \/ Head(answers).kind = "position" /\ HearPosition
       \/ Head(answers).kind = "placed" /\ HearPlaced
       \/ Head(answers).kind = "transfer" /\ HearTransfer
    /\ UNCHANGED <<server, reports, input, wait, travelled>>

\* Game::ApplyMapAsset and the images after it: at once, from the cache, or
\* later.  What the server said of the place in the meantime is overwritten.
ApplyMap ==
    /\ ~ready
    /\ ready' = TRUE
    /\ at' = CHOOSE place \in arrival.spawn : TRUE
    /\ sent' = at'
    /\ remaining' = 0
    /\ arrival' = [arrival EXCEPT !.spawn = {}]
    /\ UNCHANGED <<server, reports, answers, input, wait, travelled>>
-----------------------------------------------------------------------------
Without(chan, i) == SubSeq(chan, 1, i - 1) \o SubSeq(chan, i + 1, Len(chan))

Lose ==
    \/ /\ \E i \in DOMAIN reports : reports' = Without(reports, i)
       /\ UNCHANGED <<server, answers, input, client, travelled>>
    \/ /\ \E i \in DOMAIN answers :
             answers[i].kind = "position" /\ answers' = Without(answers, i)
       /\ UNCHANGED <<server, reports, input, client, travelled>>

Init ==
    /\ mapOf = Home /\ pos = Spawn
    /\ idle = MaxIdle
    /\ active = {}
    /\ reports = <<>> /\ answers = <<>>
    /\ input = "none"
    /\ at = Spawn /\ remaining = 0 /\ sent = Spawn /\ wait = 0
    /\ ready = TRUE
    /\ arrival = [map |-> Home, spawn |-> {}]
    /\ travelled = 0

Next ==
    \/ HandleReport
    \/ \E portal \in Portals : UsePortal(portal)
    \/ Frame
    \/ \E key \in DOMAIN Step : Press(key)
    \/ Hear
    \/ ApplyMap
    \/ Lose

\* Frames follow each other, both sides take what arrives, and a map that is
\* asked for becomes ready (module Client).
Fairness ==
    /\ WF_vars(Frame)
    /\ WF_vars(HandleReport)
    /\ WF_vars(Hear)
    /\ WF_vars(ApplyMap)

Spec == Init /\ [][Next]_vars /\ Fairness
-----------------------------------------------------------------------------
TypeOK ==
    /\ mapOf \in Maps /\ pos \in Int /\ idle \in 0 .. MaxIdle
    /\ active \subseteq DOMAIN Triggers[mapOf]
    /\ reports \in Seq(Int)
    /\ answers \in Seq(Answers)
    /\ input \in DOMAIN Step
    /\ at \in Int /\ sent \in Int
    /\ remaining \in -MaxRemaining .. MaxRemaining
    /\ wait \in 0 .. StillInterval
    /\ ready \in BOOLEAN
    /\ arrival \in [map : Maps, spawn : SUBSET Int]
    /\ ~ready => arrival.spawn # {}
    /\ travelled \in 0 .. MaxPortals

\* A trigger counts as entered only while the player stands in it, on its
\* map: entering it again, or one of the same index on another map, runs its
\* script again.
TriggersMatchPlace == active \subseteq TriggersAt(mapOf, pos)

\* The client plays on the server's map and within the distance that is not
\* worth a correction of the server's position.
Together == ready /\ arrival.map = mapOf /\ Distance(at, pos) <= Soft

\* The network is quick: what a frame sent has arrived, and its answer,
\* before the next, and nothing is lost that would have changed anything.
Quick == (Frame => reports = <<>> /\ answers = <<>>)
         /\ (Lose => HandleReport \/ Hear)

\* Once the network is quick again and the player lets go of the keys, client
\* and server come to agree on where the player is and stay so, whatever was
\* lost, late, refused, overtaken by a portal or added up before: the slides
\* and the refusals of a player who only stands come to an end.
Settles == <>[](input = "none") /\ <>[][Quick]_vars => <>[]Together
=============================================================================
