# nganu.mp in TLA+

TLA+ models, TLC checks and TLAPS proofs for nganu.mp, a small 2D multiplayer
game: an authoritative single-threaded server (`nganu.mp`, C++17, ENet, Lua), a
raylib client (`nganu.game`) and the formats both share (`shared`).

## The system

### The server

One thread runs `Server::run`. A tick is: poll ENet until it has nothing more
(`processNetworkEvents`), time silent players out
(`disconnectTimedOutPlayers`), read at most one line of stdin (`processStdin`),
call `OnGameModeUpdate` in Lua, sleep. Nothing is persisted and there are no
other threads, only a signal handler that clears `running_`. The hard part is
not data races but *order*: what the network, the clock, the console and the
scripts may do between two steps of the loop, and how far two pieces of state
that the code joins by hand can drift apart.

| component | state | operations | what makes it correct |
|---|---|---|---|
| sessions (`core/Server.cpp`, `core/ServerContent.cpp`) | `running_`, `nextPlayerId_`, `freePlayerIds_`, eleven tables keyed by player id | CONNECT, DISCONNECT, RECEIVE, sweep, kick, quit, shutdown | an id names one connection at a time, no late event ends another's session, no table outlives a session, ids are neither leaked nor duplicated, silence ends |
| network wrapper (`network/Network.cpp`) | `players_`, the ENet host | poll, assign, remove, send, broadcast, disconnect, shutdown, LAN probe | id and slot point at each other; nothing is sent to a slot that is not connected |
| ENet (`vendor/enet`) | a state per slot | connect, deliver, disconnect, time out | (external) a slot reports CONNECT before any packet and DISCONNECT at most once after it |
| movement (`core/MovementValidation.cpp`, `handlePacket` PLAYER_DATA, `Game::UpdatePlayer`) | position, map, last move; the client's position and the correction that remains | report, accept or refuse, correct | client and server come to agree on where the player is, whatever was lost or refused |
| map data (`core/MapData.cpp`, the same in `World.cpp`) | layers, stamps, objects, spatial index, query tokens | load, candidates, `isWalkable`, object lookup | the grid index gives the answer a scan of every object would give, at both ends |
| map files (`shared/MapFormat.cpp`) | none | read the old text format and `.tmx`, resolve references | a map is what its author saved, stamp by stamp; readers refuse what they cannot hold |
| triggers (`updatePlayerTriggers`) | `playerActiveTriggers_` | enter on overlap | what counts as entered contains the player, on its map, however it was moved |
| presence (snapshot, join, leave, name, map transfer) | `playerMapIds_`, what each client was sent | transfer, snapshot, broadcast | a client shows exactly the players of its map |
| objects and Lua gameplay (`scripts/*.lua`) | quest state per map module, objectives, inventory | interact, talk, portal | a quest step happens once and in order, the client's objective follows it, items are conserved |
| inventory (`inventory/InventoryService.cpp`, `handleInventoryPacket`) | slots of item, amount, flags | create, move, use, drop, add, remove, full state, slot update | items are conserved, an action answers every request, the client's copy converges |
| content and assets (`core/ServerContent.cpp`, `core/ContentRevision.cpp`) | maps, allowed keys, revision, request window | load, list, validate, name, probe, request, chunked blob | every file a client will wait for is listed and sound; a revision names one content |
| plugins (`plugin/PluginManager.cpp`), Lua runtime (`script/`) | loaded plugins, Lua state | load, unload, callbacks, builtins | unloading in reverse; a script error never leaves the server half-changed |

### The client

| component | state | operations | what makes it correct |
|---|---|---|---|
| `NetworkClient` | connection, deadlines | connect, discover, update, disconnect, handle packet | every attempt ends connected or in a failure event |
| boot and login (`Game.cpp`) | `uiMode_`, retry timers | manifest, map bootstrap, login, retry | never in the world without a session; every retry wait ends |
| asset pipeline (`GameContent.cpp`) | pending requests, partial blobs, cache | request, accumulate, verify, retry | a completed asset has the bytes the manifest named |
| world (`World.cpp`) | the map, its index, its images | load, walk, look for images, draw | it stops where the server would; a frame finds all that is in view |
| UI (`InventoryUi.cpp`, ...) | windows | draw, input | (drawing: not modelled) |

### How they interact

ENet slots carry the player id in `peer->data`; `Network::players_` maps it
back. Handlers call Lua by name (`OnPlayerConnect`, `OnPlayerMove`,
`OnMapTriggerEnter`, ...), and Lua calls back into the server through
`script/Builtins.cpp` while the handler is still running. Reliable packets
arrive once and in order; positions of walking players are unreliable and may be
lost, but never overtake: ENet drops an unreliable packet that a later reliable
one has passed. Clients and server agree on content by a manifest of checksums.

### What is hard here

* the late event: a slot outlives its session after a timeout or a kick;
* the callback: a handler goes on after a script changed what it read before;
* the filter by map: leaves, snapshots, names and joins to two groups of
  clients while players travel between them, and positions that get lost;
* the copy: a client that asks by what it saw, after a script changed it;
* the prediction: two ends that move one player, and corrections that cross
  with what they correct;
* the index: an answer from a part of the map, by marks of earlier questions;
* the list: a client that waits for files by rules of its own, next to a server
  that lists them by others;
* the retry: a client that asks again for what is already on its way;
* the long run: ids, windows and retries over hours of reconnects;
* the shutdown in the middle of any of it.

`PROJECT.json` lists each at its line, with the properties that would catch it.

## Modules

### Sessions (checked and proved)

`Sessions.tla` models the loop, ENet's slots, id allocation and the per-player
tables; `SessionDirectory.tla` is what they promise.

| TLA+ | code |
|---|---|
| `phase` | where the thread is inside `Server::run` |
| `running` | `running_` |
| `st[p]` | the `ENetPeerState` of a slot, states the server cannot tell apart merged; `closing` is ACKNOWLEDGING_DISCONNECT and ZOMBIE |
| `data[p]` | `peer->data` as an integer, 0 for null |
| `players` | `Network::players_` |
| `freeIds`, `nextId` | `freePlayerIds_`, `nextPlayerId_` |
| `idle[id]` | the age of `playerLastSeenAtMs_[id]`, in clock units, saturating at the larger timeout: only comparisons with the timeouts are read |
| `entries[t]` | the key set of every other per-player table, the inventories included |
| `stale` | `stalePlayers` of the sweep |

Every action is a whole handler. ENet delivers events only while the loop
polls; the clock and the signal may come at any moment, between the clean-ups of
one sweep too. The sweep is one action per player, as scripts and plugins run
between two clean-ups. `HandlePacket` keeps, of each packet kind, the keys it
creates or erases.

Names are those of the code, but for `TimeOut` (one iteration of
`disconnectTimedOutPlayers`) and `Cleanup` (`cleanupPlayerSession`).

The properties:

* `SlotsMatchIds` – `peer->data` and `players_` agree, in both directions, and a
  slot that can still deliver a packet has a session. So `handlePacket` is never
  called for id 0 or for a player that is gone, which the code never checks.
* `NoIdLeaks` – the players and the free ids partition `1..nextPlayerId_-1`.
* `IdsBounded` – ids never exceed the number of slots, however long the server
  runs; the spawn grid of `defaultSpawnPosition` is laid out by id.
* `TablesMatchPlayers` – no table keeps a key of a player who left. The next
  holder of the id would inherit a login or an active trigger.
* `OnlyItsOwnEnd` – a session ends only because ENet let go of its own slot,
  because its own player was silent for the timeout of its own state, or because
  the server stops; an id never changes hands. This is the property the
  reset of `peer->data` in `cleanupPlayerSession` is for.
* `ImplementsDirectory` – the ids behave as `SessionDirectory` says: a newcomer
  gets the smallest id nobody holds.
* `SilenceEnds` – every silence ends with a packet or with the session.

#### The runs

| run | instance | what it shows |
|---|---|---|
| `sessions` | 3 slots, boot timeout 2, active timeout 1 | the safety properties. Three slots are the fewest at which ids are released out of order while a third is held; the two timeouts differ, so that the sweep's choice between them shows. Slots are symmetric |
| `sessions_live` | 2 slots, the same timeouts | `SilenceEnds`. No symmetry, as liveness requires |

Deadlock checking is off: a server that shut down stops for good.

`ScriptsUseStaleIds` is `FALSE` in both runs and free in the proofs: with `TRUE`,
`SetPlayerSpawnPosition` (`Builtins.cpp:95`), which takes any id, leaves a
position under an id nobody plays, which snapshots show until the id's next
holder writes over it. No script of the repository keeps the id of a player who
left.

**Fairness.** `FairSpec` assumes that the loop's thread runs (weak fairness of
its steps outside the drain) and that time passes. It does *not* assume that
the drain of ENet's queue ends: `while (network_.pollEvent(event))` has no bound,
and clients that send faster than the server handles keep it there.
`SilenceEnds` has the end of the drain as its premise (`DrainEnds`).

#### What is proved

`SessionsProofs.tla` proves, for every finite set of slots, every pair of
timeouts and scripts that use stale ids or not:

| theorem | |
|---|---|
| `TypeCorrect`, `SlotsAlwaysMatchIds`, `IdsNeverLeak`, `TablesAlwaysMatchPlayers` | the invariants of the run |
| `EverySessionEndsItsOwn` | the action property `OnlyItsOwnEnd` |
| `IdsStayBounded` | `IdsBounded`, by counting: a new id is taken only when all smaller ones are played, and players sit on different slots |
| `ServerImplementsDirectory` | `Spec => Directory!Spec` |

The only assumptions are `SessionsAssumption` (finitely many slots, positive
timeouts). The inductive invariant `IInv` is the conjunction of `TypeOK`,
`SlotsMatchIds`, `NoIdLeaks`, `TablesMatchPlayers` and `StaleAreSilentPlayers`.
None of them is inductive alone: a DISCONNECT event acts through the slot's
pointer, so it preserves the tables only if the pointer names a player; the sweep
acts through the silence table, so it preserves the pointers only if that table
lists players, and only if nobody left between the collection and the clean-up
(`StaleAreSilentPlayers`). The proof has one lemma per way a step can touch a
session (`QuietStep`, `ConnectIInv`, `CleanupIInv`, `PlayIInv`, `ShutdownIInv`,
`ClockIInv`); `StepChange` then says how any step changes `players_`, and the
action property, the bound and the refinement follow from that alone.

`SilenceEnds` is model-checked only: liveness under fairness is out of the
prover's reach.

### Inventory (checked and proved)

`InventoryService.tla` is `InventoryService.cpp`: each operation on a container
as an operator from slots to slots. `Inventory.tla` is one player's inventory at
both ends.

| TLA+ | code |
|---|---|
| `slots` | `ContainerState::slots` of the player, a function from slot to `SlotState` without its index |
| `link` | the session: `"ending"` is a client that has yet to hear of its end |
| `c2s`, `s2c` | the reliable packets on their way, both in order |
| `client`, `visible` | `InventoryState` of the client, whether its window is open |
| `silent` | history: the slots changed since the server last sent them |
| `OnWire` | the 16-bit fields of a slot on the wire, a number modulo `WireMod` |

A request handler is one action, from the packet to the answers it sends.
Scripts add, remove and set slots without sending anything, as `Builtins.cpp`
does. The copy outlives the session, as the client never clears its slots. The
container's revision and open flag are left out: the server keeps them and reads
them nowhere.

* `StacksAreReal` – a slot is occupied exactly when it holds a positive amount.
* `ClientFollows` – when what is on its way has arrived, the copy is the
  container, but for slots a script changed unheard: no answer is missing and no
  older one is shown last.
* `AddIsExact`, `RemoveIsExact` – in every reachable container, adding and
  removing is all or nothing, nothing only when it must be, and leaves every
  other item alone. Adding is about items other than 0, which stands for no item
  and which `addItem` refuses.
* `ClientsCreateNothing` – no request gives a player more of anything, moving
  loses nothing, using takes at most one.

| run | instance | what it shows |
|---|---|---|
| `inventory` | 2 slots, 2 items, a client that sends *any* request, one script change a session, one packet each way | all of the above. Two slots and two items are the fewest at which moves merge, swap and fill a free slot, an addition finds the pack full, and a removal spans stacks; `WireMod` is 3, so that amounts wrap |

`AnyClient` is `TRUE`: only the client's window looks at `CAN_MOVE`, `moveItem`
does not, and a request names a slot by a copy that a script may have outdated.

**Proved** (`InventoryProofs.tla`), for every size, starter pack, amounts,
channel bound and wire width: `TypeCorrect`, `StacksStayReal`,
`ClientAlwaysFollows`, `AddingIsExact`, `RemovingIsExact` and
`RequestsCreateNothing`. The inductive invariant is the conjunction of the first
three, from which the others follow: what an
answer tells is the container only if the container has its type, and the
operations keep stacks real only when they start so. The heart is two lemmas on
queues: an answer appended carries the newest state of the slots it names
(`AppendFollows`), and taking the oldest answer off hands its slots to the copy
(`TailFollows`); every handler is an instance of the first.

The last three speak of sums over a container, which the community modules
define by a fold, in an order that `CHOOSE` picks. That the fold exists, is
unique and does not depend on the order is proved by the smallest set of slots
for which it would fail (`SmallestSet`); from it follow the two facts all else
uses: the count of an item over a set is the sum over its parts, and a change of
one slot (`OneChanged`) or of two (`TwoChanged`) changes it by their shares.
Filling a pack is one slot, moving is two. A removal empties slots from the left
until nothing is owed; `RemovedBefore` says what is gone before each slot, by the
least slot for which it would be wrong.

### Quest (checked and proved)

`Quest.tla` is the Lua gameplay: `main.lua`'s dispatch to the module of the map
a player is on, `starter_quest.lua`, Luna and the road marker. Every map script
with a quest has a `quest_state` of its own, keyed by player id, and `stage` is
all of them. The full pack of `AddInventoryItem` is a choice.

What the client shows of it is `Game.cpp`'s. `sent[p]` is what is on its way to
the client of an id, in order; `Hear` is what `HandleNetworkEvent` does with an
objective and with a transfer, which clears the objective; `StartLogin` clears
it too. A client that connects brings along the objective of its session before
(`NewClient`), as nothing resets `currentObjective_` at a new connection.
`playing` are the clients whose login went out, after which there is no other in
the session; `told` records who has heard an objective since clearing it.

* `NewcomersStartOver` – no quest is under way for a session that Luna of that
  map did not welcome. Ids are reused at once, and players who leave from the
  crossroads leave their stage behind.
* `PaidExactlyOnce` – Luna has paid exactly the sessions whose quest is done.
* `ObjectiveFollowsStage` – a client that has heard all it was sent shows what
  the script of its map has it do now: nothing of another map, an earlier stage
  or a session before. Or it shows nothing, if it cleared its objective and has
  heard none since.
* `StagesInOrder` – within a session quests only go forward, one stage and one
  quest at a time.

| run | instance | what it shows |
|---|---|---|
| `quest` | 2 players, `starter_field` and `crossroads`, the two maps with portals to each other, 4 messages on their way to each | the properties. Players are independent but for the order in which ids are given, which two show; in 4 messages a connection's two objectives still wait while the player travels or moves the quest on |
| `quest_left` | 1 player | `ClearedOnDisconnect` is violated: leaving from the crossroads clears nothing, although `progress.md:62` says that progress is cleared on disconnect |

The exception of `ObjectiveFollowsStage` is the usual case. The server tells the
objective at the connection (`OnPlayerConnect` and `OnPlayerEnterMap`), while the
client is still in its boot; the login then clears it (`Game.cpp:1417`), and no
script answers a login (`OnPlayerNameChange`) with an objective. So everyone who
logs in on a quest map reads "No active objective." until the quest moves on or
the player travels. No document says otherwise in so many words, so that this is
no finding; the property says exactly how far the client follows.

**Proved** (`QuestProofs.tla`), for any number of players and maps and channels
of any length: `TypeOK`, `StagesInOrder` and, as `ObjectiveAlwaysFollows`,
`ObjectiveFollowsStage`, wherever there are quests; and
`NewcomersStartOver` and `PaidExactlyOnce` *provided* no map but the one players
start on has a quest (`OneQuest`). A handler of a map's
script touches the stage of one player in that script's table and sends its
objective along (`Progress`), which is all that order needs. That the client
follows needs what holds before everything has arrived: the last message on its
way is the objective that is current now (`LastIsCurrent`), because a transfer is
never sent but with the new map's objective behind it. The last two relate stages to sessions, and there
the hypothesis is needed: with a quest on another map, or a start map without
one, nobody begins that quest anew at connect, and the next holder of an id
inherits it. The repository's quest scripts are `greenfields_main` (of
`starter_field`) and `overworld_main` (of `overworld`, and of `new_map`, which
names no script). The hypothesis holds for a server started on any of these
three, since `crossroads` is all that their portals lead to; it fails for one
started on `crossroads`.

### Presence (checked and proved)

`Presence.tla` is who each client shows, where and under which name: connect,
departure, walk, rename, teleport and transfer on the server, `remotePlayers_`
on the clients, and the packets between them.

| TLA+ | code |
|---|---|
| `online`, `closing` | `players_`, and those whose peer is no longer `CONNECTED`, to which `sendPacket` sends nothing |
| `mapOf`, `pos`, `name` | `playerMapIds_`, `playerPositions_`, `playerNames_` |
| `chan[p]` | what was sent to a client and not yet handled, in order |
| `shown[p]` | `remotePlayers_` of the client: position and name, from the players it knows |
| `missed[p]` | history: the players whose last position was lost |

A handler and all its packets are one action, a packet heard is one, a lost
position is one. No client's view touches the server or another client, so a
run follows the clients of `Watched` only, which makes three players affordable.
The names sent one by one to a newcomer are one packet: nothing comes between.

* `ShowsItsMap` – a client that has heard everything shows exactly the other
  players of its map.
* `NewsOfTheShown` – a move, a farewell or a name is only heard of somebody
  shown: otherwise `ApplyRemotePlayerState` or `ApplyPlayerName` would make up a
  player that nobody takes away again.
* `ShownWhereTheyAre` – and where they are, but for lost positions.
* `NamesAreOwn` – nobody is shown under the name of another, or of an earlier
  holder of the id.

| run | instance | what it shows |
|---|---|---|
| `presence` | 3 players of whom the second is watched, 2 maps, 2 places, 1 packet left when more are sent | the properties. The watched player has neighbours with a smaller and a larger id, who can meet and part without it; a handler sends up to three packets at once, so up to four are on their way, and positions are lost between teleports and transfers |
| `presence_names` | 3 players | `NamesFollow` is violated: a transfer announces the player without its name, and nobody says it again |

Left out: a player's own position (module `Movement`), the loading of a map
between transfer and play (module `Client`), plugins and scripts that move players within the callbacks of
another handler. No script of the repository does the last; a transfer from
`OnPlayerConnect` would send a snapshot of the wrong map before the handshake.

**Proved** (`PresenceProofs.tla`), for any number of players, maps, places and
names, any set of clients that are followed, and channels of any length: `TypeOK`,
`ShowsItsMap`, `NewsOfTheShown`, `ShownWhereTheyAre` and `NamesAreOwn`. Assumed
is only `PresenceAssumption`, which says of what type the constants are.

None of the last four is inductive: each speaks of a channel that is empty, or of
its first packet, and what is to arrive later decides. The invariant is about
whole channels. A *story* is what a client makes of another player, before and after
each packet on its way (`Story`):

* it begins with what the client shows (`Like`), but for a place that was missed;
* each packet leads from one status to the next (`After`), and finds the player
  shown if it could otherwise make one up;
* it ends with what the server says of the player (`Fits`), or, for a client that
  is closing, with what it said when the client was last told.

`StoriesFit` says that every pair of an online client and another player has a
story, `Silence` that nothing is on its way to, or shown by, those who are
offline, and `NotOfOneself` that no client is told to move or hide itself;
`IInv` is their conjunction with `TypeOK`. TLC checked it on the
instance of `presence` before it was proved. A handler of the server changes the
truth and lengthens stories at their end; a packet heard or lost shortens them at
their beginning. So there is one lemma for each end of a channel and one step per
action, and the hard case is the one that the code gets right by order alone: a
transfer, which must end the stories of the old map before it begins those of the new.

### Client (checked and proved)

`Client.tla` is the client from its start to the world: `uiMode_`, the
connection, the manifest, `pendingAssetRequests_` with their retries, the cache
directory and the readiness of the map, with the answers of the server.

| TLA+ | code |
|---|---|
| `game` | `Game` and its `NetworkClient`: the mode, the peer, `handshakeReady_`, `bootstrapRequested_`, `manifest_.valid`, `mapReady_`, the map wanted and the map applied, the pending images, the requests and their attempts, what is on its way to and from the server |
| `batch` | what is left of `ConsumeEvents()` in this frame |
| `unheard` | the `ConnectionFailed` that a failed `Connect()` leaves in `events_` |
| `cache` | each asset's file: absent, whole or torn |
| `playerMap` | `playerMapIds_` of this player |

A frame hands its events to the game one after another. That is where it gets
hard: a handler may drop the connection while events of the same session wait
behind it, and the peer is gone before the first of them is handled if the loss
arrived in the same frame. `Receive` therefore collects any part of what the
server sent, with or without a loss behind it, each handler is an action, and
timers and keys act only on an empty batch. Handlers are composed of pure
operators on `game` named after the functions they stand for (`Bootstrap` is
`BeginMapBootstrapForAsset`, `Refresh` is `RefreshMapAssetReadiness`, ...).
`Crash` ends the client anywhere; in the middle of `SaveAssetToCache` it leaves
a torn map (images are renamed into place).

* `SessionBehindWorld` – whoever logs in or plays has a live session with a
  handshake and a manifest.
* `WalksOnTheServersMap` – the positions the client sends belong to the map the
  server has it on, unless a transfer is under way.
* `MissingIsRequested` – a client that waits for its map waits for a request
  that will be repeated or given up.
* `ReadyIsDrawable` – a ready map has all its images.
* `BootEnds` – a boot with a connection ends, even if the server never answers.

| run | instance | what it shows |
|---|---|---|
| `client` | `starter_field` and `crossroads`, the second with an image of its own, 1 document, 2 tries, 1 end of the client, portals used with less than 2 packets on their way | the properties, under the fairness below. Two tries are a retry, a late answer to the first, and giving up |
| `client_torn` | the same | `FailedLoadIsRetried` is violated: the torn map is found, `BeginRetryWait` drops the connection, and the `AssetManifest` handler overwrites the countdown with `Boot`, where no key is read and no timer runs |

Fairness: a frame handles its events, and the timers (`connectTimeout_`,
`manifestWait_`, `elapsed`, `retryCountdown_`, `stateTimer_`) run out, since
`Update` is called as long as the window is open. Neither the server nor the
network nor the player is fair. `BootEnds` speaks of boots with a connection
because of what `client_torn` shows. The torn client is also why deadlock is not checked.

**Proved** (`ClientProofs.tla`), for every set of maps, images, documents and
portals, every number of tries and channels of any length: `TypeOK`,
`SessionBehindWorld`, `MissingIsRequested` and `ReadyIsDrawable`. Assumed of the
constants: the assets are finitely many, a map is not an image and neither is a
document (the prefixes of their keys), and a map has a name. The argument has two
layers:

* `Sound` is what each helper on `game` establishes or keeps, with a lemma for
  each (`RequestAsks`, `RefreshSound`, `ApplyMapSound`, `BootstrapSound`, ...). It
  strengthens the last two properties to the middle of a batch, and adds that a
  ready map waits for no image and that without a map no image is pending. The
  first of these shows that `RefreshMapAssetReadiness` never takes readiness
  away, as long as writes to the cache succeed.
* `LiveSession` and `NothingYet` relate `game` to the `batch`: whoever plays
  without a connection has the `Disconnected` at the end of the batch still to
  come, and before a connection is up the batch holds failures only. Neither
  `SessionBehindWorld` nor `MissingIsRequested` is inductive without them: a
  handler could put a player of a lost session anywhere, and a connection that
  comes up would find an old manifest.

`WalksOnTheServersMap` is proved *provided* there are two maps at most
(`TwoMaps`): the start map and one more. That holds for every map a server of
this repository can start on, with `Maps` the maps it leads to: `starter_field`
and `crossroads` have portals to each other, `overworld` and `new_map` to no
other map. Nothing is assumed of the portals. The
invariant (`WayInv`) is about the whole session, since what a player walks on is
decided by requests and answers sent several events ago:

* the events under way, in the batch and from the server, are a path of maps
  from the one the client shows or waits for (`Here`) to `playerMap` (`Path`), on
  which every map that arrives is the one waited for and images arrive on maps
  that are there;
* the requests on their way to the server will meet the player where they were
  sent (`Asks`): a portal is only used on a map whose file is there, so nothing
  is asked for a map behind it that could come back after the transfer. This is
  where the second map matters: who plays has the start map with its images,
  and an image that is asked for on a map that is there is the start map's, or
  both maps are there (`Planned`, `ImagesAreAsked`);
* nobody travels before playing (`AtHome`), the loss of a session leaves nothing
  of it to be handled (`Unbroken`), and a session has one manifest, before anybody
  plays (`ProbedOnce`): a second one would send a player back to the start map.

`BootEnds` is liveness and only model-checked.

Two things the code does that no property states. A name lookup that fails
twice in a row ends in the main menu and not in the countdown, because the two
stale events meet in one batch (`ConnectionFailed` outside `Boot` opens the
menu); the same happens when a connection is made and lost within a frame. And
`WalksOnTheServersMap` needs the portal graph to have two maps, as the
repository's has: with three, a dropped answer and `E` pressed while textures
load, an image of the map that is left arrives after the transfer, and
`RefreshMapAssetReadiness` finds that map ready again.

Left out: the chunks of an asset (sent in one go on one ordered channel: a part
of an answer changes nothing), failing writes, atlas metadata, the theme's
images, LAN discovery, several content revisions.

### Movement (checked and proved)

`Movement.tla` is one player's position at both ends: the client walks at once
and reports, the server accepts a report or refuses it with the position it
keeps, and the client slides towards what it is told. Portals teleport or
transfer the player in between, and triggers follow it.

| TLA+ | code |
|---|---|
| `mapOf`, `pos`, `idle`, `active` | `playerMapIds_`, `playerPositions_`, the age of `playerLastMoveAtMs_`, `playerActiveTriggers_` |
| `at`, `remaining`, `sent`, `wait` | `player_.position`, `localCorrectionRemaining_`, `lastSentPosition_`, `sendAccumulator_` |
| `ready`, `arrival` | `mapReady_`; `pendingMapId_` with `pendingSpawnPosition_`, or the map in use |
| `reports`, `answers` | PLAYER_DATA; what the server says of the player's own place |
| `Open`, `Seen` | the walkable places as the server and as the client sees them |

Places lie on a line, the path the player walks, and a unit is what is walked
between two reports. `Frame` is what a frame does after its events: the report,
then the step and the slide. A position (PLAYER_POSITION) is unreliable and may
be lost; what places the player (PLAYER_JOIN, a snapshot, MAP_TRANSFER) arrives.

* `TriggersMatchPlace` – what counts as entered contains the player, on its map,
  after every report, teleport and transfer.
* `Settles` – once the network is quick again and the keys are let go, client
  and server come to agree, within the distance that is not worth a correction.

| run | instance | what it shows |
|---|---|---|
| `movement` | a field of six places with a wall its client does not see (an image without its `.atlas` file), a portal across the wall and one to each map from the other, 2 uses of portals, 1 packet each way | the properties. The thresholds are the smallest that keep their order (soft 1, strong 2, snap 3), so that each branch of the correction is taken, a slide ends in the wall, and a report outruns the speed limit |

**Fairness**: frames follow each other, both sides take what arrives, and a map
that is asked for becomes ready. `Settles` has as premises that the player
stops for good and that the network is quick from some point on: what a frame
sent has arrived, and its answer, before the next frame, and only packets that
change nothing are lost. The second premise is needed: on a network that stays
slow, TLC finds an endless exchange of late refusals and slides.

What the model shows beside its properties: a client that stands in a wall
within the soft distance of the server's position is refused for ever and never
corrected; a report that was under way may undo a teleport within its reach;
corrections add up while the chat has the keyboard, as `UpdatePlayer` returns
before it takes a step of them; `ApplyMapAsset` overwrites a teleport heard
while the map was loading; and a transfer neither asks whether its target is
walkable nor enters the triggers there.

**Proved** (`MovementProofs.tla`), for any ground, triggers, portals, thresholds
and channel bound: `TypeOK` and `TriggersMatchPlace`, whose conjunction is the
inductive invariant. The type carries two facts a reader would look for: what
remains of a correction stays bounded and shrinks with every step
(`CorrectionEnds`), and a client that waits for a map always knows where it will
appear. `Settles` is liveness and only model-checked.

### Ground (checked and proved)

`Ground.tla` is where a player may stand and what a frame draws: the spatial
indexes of `MapData` and `World`, and the queries that use them.

| TLA+ | code |
|---|---|
| `serverIndex`, `clientIndex` | the buckets of `rebuildSpatialIndex` at each end: pairs of a chunk and an index |
| `serverSeen`, `clientSeen`, `objectsSeen` | a query token and the marks it leaves; the server's search for objects keeps none |
| `atlasKnown` | whether the client has read the `.atlas` files of the map's images |
| `stampBounds`, `stampCollisionRect`, `objectCollisionRect` | the functions of `MapData.cpp`, which `World.cpp` repeats |

Lengths are half pixels, so that a sprite narrower than its tile stays on an
integer. Loading a map, reading the `.atlas` files, a question of each end and a
frame are the actions; a question leaves its marks.

* `ServerAnswersExactly` – `isWalkable` answers as a look at everything on the
  map would, where colliders stay within the bounds they are filed by.
* `ClientAgrees` – with the `.atlas` files read, the client is never held where
  the server lets it pass, and under the same condition stops wherever the server
  refuses.
* `DrawsWhatIsThere` – a frame finds all and only what is in view.

| run | instance | what it shows |
|---|---|---|
| `ground` | 4 by 4 tiles in chunks of 2 by 2; maps of up to two stamps and an object; a sprite as tall as three tiles with a collider at its foot, objects across chunks, a collider out of its bounds, a point; two views, one larger than the map; a token of three values | the properties. A body fits into one chunk, two or four; the token wraps at every second query |

The condition on colliders is needed: an object's collider that stands out of
its bounds blocks on the server only for a body in one of the object's chunks,
and on the client only for one that overlaps the bounds. Without the `.atlas`
files the client is laxer, which is what `Seen` in `Movement` stands for.

**Proved** (`GroundProofs.tla`), for any maps, sizes of tile, chunk and body, and
any width of the token: all four invariants. The inductive invariant adds to
`TypeOK` that no mark is ahead of its token (`NotAhead`): so the next token is on
no mark and a query looks at all in its reach (`LookedAtAll`); when it
wraps, the marks are cleared first. The rest is geometry: rectangles that
overlap touch a chunk in common (`OverlapSharesChunk`), what lies within
overlaps what its bounds overlap (`WithinOverlaps`), so that all that can block
is found (`BlockingIsFound`).

### Content and map files (checked and proved)

`MapFormat.tla` is `MapFormat.cpp` as operators: the reader of the old text
format as a recursion over lines, the reader of `.tmx`, references to images and
their domains, and where a stamp is drawn (`stampBounds` of `MapData` and
`World`). `LineForms` are the kinds of line the reader knows, each with the types
of its parts once they are split and parsed; a text is a sequence of them. A
`.tmx` file is a tree of groups (`TreeForm`), in which a place is a number of
parts of half a pixel. `Content.tla` is what becomes of files: authors save them,
the server reads, lists, checks and names them at its start, and clients keep
them across its restarts.

| TLA+ | code |
|---|---|
| `maps`, `files` | `assets/maps`, and the other asset directories |
| `ParseDocument`, `StampGrid`, `StampBounds` | `ParseDocument`, `StampGridFromObject`, `stampBounds` |
| `server` | `maps_`, the path of each, `allowedAssetKeys_`, `contentRevision_` |
| `cache` | a client's cache directory, by revision and key |
| `AllowedKeys`, `Sound`, `Revision` | `rebuildAllowedAssetKeys`, `validateContentAssets`, `computeContentRevision` |
| `Wanted`, `Preloaded` | `EnsureReferencedImagesRequested`, `PreloadReferencedTextures` |

* `MapsAreAsSaved` – the maps of a server are those its authors saved: no stamp of
  a `.tmx` file is lost or made up, each is of its own layer and image and drawn
  half a tile from its place at most; and the object that an id names is the one
  that has it. The reader makes a tile of a stamp's place, `MapData` and `World`
  make a place of the tile again, and the size of the image enters all three.
* `ClientsGetWhatTheyNeed` – a server that has started lists every file that a
  client will wait for on any of its maps, although the two look for references
  by rules of their own; and what must be drawn is among what is waited for.
* `CacheIsCurrent` – what a client keeps under the server's revision is what the
  server has, from whichever run of it the client got it.

| run | instance | what it shows |
|---|---|---|
| `content` | a text with a line of every key, without each line of its head and with each kind of wrong line; eleven Tiled maps, some of which a server refuses, with sprites narrower and taller than a tile, between two tiles and outside the map, and a place in quarters of a pixel; 2 edits and 1 file kept | the properties. Two edits are a map more and a map changed, or a change between two runs of the server |

Deadlock is not checked: a server that refuses its files waits for an author.

Each property has a condition, and the code does otherwise without it:

* `OneGroup`: the `.tmx` reader tells ids apart only within one group of objects
  (`MapFormat.cpp:905`). In a file with two, `MapData::objectIndexById` finds the
  first of two objects with one id, and TLC finds `MapsAreAsSaved` violated
  without the condition. Stamps need none.
* `WellReferenced`: a reference without a rectangle (`tree.png`) passes the
  server's checks, but the client asks for it in both domains, of which the server
  lists one; a `player_sprite_` of the maps' images is preloaded and never asked
  for. Either way the map never becomes ready.
* `LiveEdits` is `FALSE`: a file edited under a running server is served under
  the old revision, and TLC finds `CacheIsCurrent` violated.

**Proved** (`ContentProofs.tla`), for any files and authors:
`ClientsGetWhatTheyNeed`, with edits at any time, and `CacheIsCurrent`, from the
hypothesis `~LiveEdits`. The first rests on `ListFits` (the list is the one made
from the loaded maps) and on a comparison of the two searches
(`SearchesAgree`, `WantedAreAllowed`, `PreloadedAreWanted`). The second's
inductive invariant says that what is kept under a revision is what that
revision *names* (`CachesHold`), which mentions no server and so survives edits
and restarts, and that the running server's revision names what it has
(`RevisionFits`); keys that are safe tell their files apart
(`PathsTellKeysApart`), which is what the check of keys at the start is for.

`MapsAreAsSaved` is proved, as `MapsStayAsSaved`, for texts of any length made of
`LineForms`, trees of any number of groups, any sizes of tiles and images and any
places, with edits at any time. Its inductive invariant, `SavedInv`, says that the
server's maps are what its start read of the files its revision names. The rest
is about the two readers:

* *Stamps stand* (`TreesStand`). Rounding moves a place by half a tile at most
  (`RoundNear`), and what the reader takes off a place for the size of its image
  is what `stampBounds` puts on again (`StampNear`, `StampStands`). The stamps
  read and the stamps saved are two sequences of sequences that are put together
  alike (`MatchedFlatten`).
* *Objects are found*. In a `.tmx` file with one group its check of ids decides
  (`TreesGiveObjects`). Along a text, from the top down to each line, the reader
  keeps a document of its type in which ids of objects are unique, sizes are not
  negative and what blocks is known (`Sane`, `LegacyDocuments`): one lemma for
  each kind of line, joined by `LineIsSane`.

`UpTo` carries facts along a sequence. The library's induction takes an operator as
a parameter, so `UpTo` speaks of a *set* of places instead and argues from the
least place outside it. The same argument shows that the recursive functions the
readers are made of exist (`TextsAreRead`, `PickingGoesOn`, `FlatteningGoesOn`).

Places are whole numbers of parts: what floats do to a place within their
precision of the middle between two tiles, and to one too large for an `int`, is
left out, and so are image sizes in fractions of a pixel.

## Bounds and fairness

Every bound is a constant with `Max` in its name, in the guard of the actions
that would exceed it. They are small because what the properties are about
happens early: two slots to exchange, three ids to release out of order, two
maps to travel between, a queue in which one packet waits while others are
sent. The proofs, where there are any, hold for every value. Fairness is assumed
by `sessions_live`, `client` and `movement`, see there. Deadlock is checked in
every run but those of `Sessions`, `client` and `content`.

## What is proved and what is only checked

The proofs are about the modules the runs check, for every value of the
constants that the `ASSUME` of the module allows. Every invariant and every
action property of a passing run is a theorem. Only model-checked is liveness,
which is out of the prover's reach: `SilenceEnds`, `BootEnds`, `Settles`.

## Plan

In this order:

1. **Client, next.** Failing writes to the cache (a second answer that cannot be
   written makes a map not ready with no request left), the chunks, a server
   that comes back with another revision, and the request window's counters.
2. **Callbacks.** Scripts that move a player from within `OnMapTriggerEnter`,
   while `updatePlayerTriggers` holds its references.
3. **Shutdown.** Plugins loaded and unloaded in reverse, with a signal at any
   point.

## Not modelled, and why

* `enet` beyond its peer states: sequencing, fragments and retransmission are
  assumed to do what ENet's documentation says.
* `SerializeDocumentAsTmx` and `FormatFloat`, which write a map as `.tmx`: nothing
  in the repository calls them.
* the characters of text formats: escapes and separators of XML, of the old map
  lines and of `.atlas` files, and JSON (`JsonRuntime.h`). What is read from them
  and what is refused is in `MapFormat`.
* runtime configuration: read once at start, before anything it could race with.
* chat, server texts and logging: lines relayed and forgotten.
* plugins: the repository holds one example, and no plugin keeps state the
  server reads; the order of loading and unloading is in the plan.
* how the client draws: camera, windows, fonts, animation. What of the map a
  frame draws is in `Ground`.
* the Lua interpreter and the thin wrappers of `Builtins.cpp`, whose effects are
  in the modules of what they change.
* the Android wrapper, build files and CI.

Three hazards in `PROJECT.json` have no property: a builtin called with the id of
a player who left (no script does), a trigger's script that moves the player
(none does), and an image that arrives twice and cannot be written. Each has a
note that says why.
