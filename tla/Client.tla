------------------------------- MODULE Client -------------------------------
(***************************************************************************)
(* The client from its start to the world: the modes of Game.cpp, the      *)
(* content manifest, the requests for maps, images and documents with      *)
(* their retries, the cache on disk, and the server's answers.             *)
(*                                                                         *)
(* A frame hands the events that the network collected to the game one     *)
(* after another, and the handlers may drop the connection, ask for        *)
(* assets, or change the mode in between: `batch' is what is left of the   *)
(* events of a frame.  Timers and keys act between two batches only.       *)
(*                                                                         *)
(* An asset's chunks are one answer: they are sent in one go on one        *)
(* ordered channel, and a part of an answer does nothing but wait for the  *)
(* rest.  The content revision does not change.  Writes to the cache       *)
(* succeed, but a client may be ended in the middle of one.                *)
(***************************************************************************)
EXTENDS Integers, FiniteSets, Sequences, SequencesExt

CONSTANTS
    Maps,
    DefaultMap,     \* the manifest's map_id
    Images,         \* "map_image:" and "character_image:" assets
    References,     \* the images of a map
    Documents,      \* "data:" assets
    Portals,        \* a map's portals to other maps
    Tries,          \* requests for an asset before the client gives up: 4
    MaxInFlight,    \* bound on the packets to the server when a key is pressed
    MaxCrashes      \* bound on the times a client is ended

ASSUME ClientAssumption ==
    /\ DefaultMap \in Maps
    /\ References \in [Maps -> SUBSET Images]
    /\ Portals \in [Maps -> SUBSET Maps]
    /\ Maps \cap Images = {}
    /\ (Maps \cup Images) \cap Documents = {}
    /\ IsFiniteSet(Maps \cup Images \cup Documents)
    /\ Tries \in Nat \ {0}
    /\ MaxInFlight \in Nat
    /\ MaxCrashes \in Nat

Assets == Maps \cup Images \cup Documents

None == "none"

ASSUME NoMapIsNone == None \notin Maps

VARIABLES
    game,       \* Game and its connection
    batch,      \* the events of this frame that are not handled yet
    unheard,    \* the ConnectionFailed that Connect() left for the next frame
    cache,      \* the files of the cache directory: absent, whole or torn
    playerMap,  \* the server's map of this player
    crashes

vars == <<game, batch, unheard, cache, playerMap, crashes>>

-----------------------------------------------------------------------------
(* Packets and events *)

Connected == [kind |-> "Connected"]
ConnectionFailed == [kind |-> "ConnectionFailed"]
Disconnected == [kind |-> "Disconnected"]
Handshake == [kind |-> "Handshake"]
Manifest == [kind |-> "AssetManifest"]
Blob(a) == [kind |-> "AssetBlob", asset |-> a]
MapTransfer(m) == [kind |-> "MapTransfer", map |-> m]

UpdateProbe == [kind |-> "UpdateProbe"]
AssetRequest(a) == [kind |-> "AssetRequest", asset |-> a]
Interact(m) == [kind |-> "Interact", map |-> m]

ToServer == {UpdateProbe} \cup {AssetRequest(a) : a \in Assets} \cup {Interact(m) : m \in Maps}
ToClient == {Handshake, Manifest} \cup {Blob(a) : a \in Assets} \cup {MapTransfer(m) : m \in Maps}
Events == ToClient \cup {Connected, ConnectionFailed, Disconnected}

Modes == {"Boot", "RetryWait", "MainMenu", "LoggingIn", "World"}

(* mode       uiMode_                       link      the ENet peer        *)
(* handshake  handshakeReady_               probed    bootstrapRequested_  *)
(* manifest   manifest_.valid               ready     mapReady_            *)
(* wanted     pendingMapAssetKey_           applied   lastAppliedMapAssetKey_ *)
(* images     pendingMapImageAssetKeys_                                    *)
(* requests   the attempts of pendingAssetRequests_, 0 for no request      *)
Games ==
    [mode : Modes, link : {"none", "connecting", "connected"},
     handshake : BOOLEAN, probed : BOOLEAN, manifest : BOOLEAN, ready : BOOLEAN,
     wanted : Maps \cup {None}, applied : Maps \cup {None}, images : SUBSET Images,
     requests : [Assets -> 0..Tries],
     toServer : Seq(ToServer), fromServer : Seq(ToClient)]

NoRequests == [a \in Assets |-> 0]

Offline(g) == [g EXCEPT !.link = "none", !.toServer = <<>>, !.fromServer = <<>>]

(* BeginRetryWait *)
RetryWait(g) ==
    [Offline(g) EXCEPT !.mode = "RetryWait", !.probed = FALSE, !.requests = NoRequests]

(* What BeginBootUpdateCheck resets. *)
Fresh ==
    [mode |-> "Boot", link |-> "none", handshake |-> FALSE, probed |-> FALSE,
     manifest |-> FALSE, ready |-> FALSE, wanted |-> None, applied |-> None,
     images |-> {}, requests |-> NoRequests, toServer |-> <<>>, fromServer |-> <<>>]

(* BeginBootUpdateCheck.  Connect() fails at once when the host's name has *)
(* no address; it leaves an event that nobody takes before the next boot.  *)
(* More than two of them are handled like two.                             *)
BootUpdateCheck(failedBefore) ==
    \/ /\ game' = [Fresh EXCEPT !.link = "connecting"]
       /\ unheard' = failedBefore
    \/ /\ game' = RetryWait(Fresh)
       /\ unheard' = IF failedBefore < 2 THEN failedBefore + 1 ELSE 2

(* RequestAssetWithTracking for each asset of A *)
Request(g, A) ==
    LET new == {a \in A : g.requests[a] = 0}
    IN  IF g.link # "connected" THEN g
        ELSE [g EXCEPT !.requests = [a \in Assets |-> IF a \in new THEN 1 ELSE @[a]],
                       !.toServer = @ \o SetToSeq({AssetRequest(a) : a \in new})]

Missing(files, A) == {a \in A : files[a] # "whole"}

(* Mutant: only what was asked for just now is pending. *)
RequestNewImages(g, files) ==
    LET missing == Missing(files, References[g.applied])
    IN  Request([g EXCEPT !.images = {i \in missing : g.requests[i] = 0}], missing)

(* EnsureReferencedImagesRequested *)
RequestImages(g, files) ==
    LET missing == Missing(files, References[g.applied])
    IN  Request([g EXCEPT !.images = missing], missing)

(* Mutant: any answer makes the map ready. *)
RefreshAtOnce(g, files) ==
    IF g.applied = None THEN g
    ELSE [g EXCEPT !.images = Missing(files, @), !.ready = TRUE,
                   !.mode = IF @ = "Boot" THEN "MainMenu" ELSE @]

(* RefreshMapAssetReadiness: the map is ready when no image is pending and *)
(* all its textures can be loaded from the cache.                          *)
Refresh(g, files) ==
    LET rest == [g EXCEPT !.images = Missing(files, g.images)]
        drawn == [rest EXCEPT !.ready = TRUE,
                              !.mode = IF @ = "Boot" THEN "MainMenu" ELSE @]
    IN  CASE g.applied = None                                  -> g
          [] g.applied # None /\ rest.images # {}              -> [rest EXCEPT !.ready = FALSE]
          [] g.applied # None /\ rest.images = {} /\ rest.ready -> rest
          [] OTHER -> IF Missing(files, References[g.applied]) = {} THEN drawn
                      ELSE RequestImages(rest, files)

(* ApplyMapAsset of a whole map *)
ApplyMap(g, m, files) ==
    Refresh(RequestImages([g EXCEPT !.ready = FALSE, !.wanted = None, !.applied = m], files),
            files)

(* Mutant: the map that is left stays ready until the next one is there. *)
BootstrapKeepsReady(g, m, files) ==
    LET next == [g EXCEPT !.wanted = m]
    IN  CASE files[m] = "whole" -> ApplyMap(next, m, files)
          [] files[m] = "torn" -> RetryWait(next)
          [] OTHER -> IF g.link = "connected" THEN Request(next, {m}) ELSE RetryWait(next)

(* BeginMapBootstrapForAsset: from the cache if it is there, as it is; a   *)
(* torn file does not parse.                                               *)
Bootstrap(g, m, files) ==
    LET next == [g EXCEPT !.ready = FALSE, !.wanted = m]
    IN  CASE files[m] = "whole" -> ApplyMap(next, m, files)
          [] files[m] = "torn" -> RetryWait(next)
          [] OTHER -> IF g.link = "connected" THEN Request(next, {m}) ELSE RetryWait(next)

-----------------------------------------------------------------------------
(* NetworkClient::Update and ConsumeEvents: what has arrived becomes the   *)
(* batch of this frame.  The loss of the connection is noticed after any   *)
(* part of what the server sent, and the peer is gone before the batch is  *)
(* handled.  The server answers a connection with a handshake, and puts    *)
(* the player on the start map.                                            *)
Left == [i \in 1..unheard |-> ConnectionFailed]

Arrives(up, n, down) ==
    LET arrived == IF up THEN <<Handshake>> ELSE game.fromServer
        now == [game EXCEPT !.link = IF up THEN "connected" ELSE @,
                            !.fromServer = SubSeq(arrived, n + 1, Len(arrived))]
    IN  /\ n \in 0..Len(arrived)
        /\ game' = IF down THEN Offline(now) ELSE now
        /\ batch' = Left \o (IF up THEN <<Connected>> ELSE <<>>) \o SubSeq(arrived, 1, n)
                         \o (IF down THEN <<Disconnected>> ELSE <<>>)
        /\ playerMap' = IF up THEN DefaultMap ELSE playerMap

Between == batch = <<>> /\ game.mode # "RetryWait"

Receive ==
    /\ Between
    /\ \E up, down \in BOOLEAN : \E n \in 0..(Len(game.fromServer) + 1) :
          /\ up => game.link = "connecting"
          /\ n > 0 => up \/ game.link = "connected"
          /\ down => game.link # "none"
          /\ Arrives(up, n, down)
          /\ batch' # <<>>
    /\ unheard' = 0
    /\ UNCHANGED <<cache, crashes>>

(* Update: no answer for three seconds *)
ConnectTimeout ==
    /\ Between
    /\ game.link = "connecting"
    /\ game' = Offline(game)
    /\ batch' = Left \o <<ConnectionFailed>>
    /\ unheard' = 0
    /\ UNCHANGED <<cache, playerMap, crashes>>

-----------------------------------------------------------------------------
(* HandleNetworkEvent, a case each *)

Handle(event) ==
    /\ batch # <<>>
    /\ Head(batch) = event
    /\ batch' = Tail(batch)
    /\ UNCHANGED <<unheard, playerMap, crashes>>

OnConnected ==
    /\ Handle(Connected)
    /\ game' = CASE game.mode # "Boot" -> game
                 [] game.mode = "Boot" /\ game.link = "connected" ->
                        [game EXCEPT !.probed = TRUE, !.toServer = Append(@, UpdateProbe)]
                 [] OTHER -> RetryWait(game)
    /\ UNCHANGED cache

OnConnectionFailed ==
    /\ Handle(ConnectionFailed)
    /\ game' = IF game.mode = "Boot" THEN RetryWait(game) ELSE [game EXCEPT !.mode = "MainMenu"]
    /\ UNCHANGED cache

(* Mutant: a session lost while logging in goes on logging in. *)
OnDisconnectedInPlay ==
    /\ Handle(Disconnected)
    /\ game' = LET ended == [game EXCEPT !.handshake = FALSE, !.probed = FALSE, !.ready = FALSE,
                                         !.wanted = None, !.images = {}, !.requests = NoRequests]
               IN  CASE ended.mode = "Boot" -> RetryWait(ended)
                     [] ended.mode = "LoggingIn" -> [ended EXCEPT !.manifest = FALSE]
                     [] OTHER -> [ended EXCEPT !.manifest = FALSE, !.mode = "MainMenu"]
    /\ UNCHANGED cache

(* Disconnected: back to the countdown when booting, else to the menu *)
OnDisconnected ==
    /\ Handle(Disconnected)
    /\ game' = LET ended == [game EXCEPT !.handshake = FALSE, !.probed = FALSE, !.ready = FALSE,
                                         !.wanted = None, !.images = {}, !.requests = NoRequests]
               IN  IF ended.mode = "Boot" THEN RetryWait(ended)
                   ELSE [ended EXCEPT !.manifest = FALSE, !.mode = "MainMenu"]
    /\ UNCHANGED cache

OnHandshake ==
    /\ Handle(Handshake)
    /\ game' = [game EXCEPT !.handshake = TRUE]
    /\ UNCHANGED cache

(* AssetManifest.  Whatever the bootstrap made of the mode is overwritten. *)
OnManifest ==
    /\ Handle(Manifest)
    /\ game' = LET known == [game EXCEPT !.manifest = TRUE, !.probed = FALSE]
                   begun == Bootstrap(Request(known, Missing(cache, Documents)), DefaultMap, cache)
               IN  [begun EXCEPT !.mode = IF begun.ready THEN "MainMenu" ELSE "Boot"]
    /\ UNCHANGED cache

(* AssetBlob: saved to the cache, its request completed, and applied. *)
OnBlob(a) ==
    /\ Handle(Blob(a))
    /\ cache' = [cache EXCEPT ![a] = "whole"]
    /\ game' = LET done == [game EXCEPT !.requests[a] = 0]
               IN  CASE a \in Images -> Refresh(done, cache')
                     [] a \in Maps -> ApplyMap(done, a, cache')
                     [] OTHER -> done

OnMapTransfer(m) ==
    /\ Handle(MapTransfer(m))
    /\ game' = Bootstrap([game EXCEPT !.images = {}], m, cache)
    /\ UNCHANGED cache

HandleEvent ==
    \/ OnConnected
    \/ OnConnectionFailed
    \/ OnDisconnected
    \/ OnHandshake
    \/ OnManifest
    \/ \E a \in Assets : OnBlob(a)
    \/ \E m \in Maps : OnMapTransfer(m)

-----------------------------------------------------------------------------
(* Timers *)

(* Mutant: the clock of the manifest starts with the handshake. *)
ManifestTimeoutAfterHandshake ==
    /\ Between
    /\ game.mode = "Boot" /\ game.probed /\ game.handshake /\ ~game.manifest
    /\ game' = RetryWait(game)
    /\ UNCHANGED <<batch, unheard, cache, playerMap, crashes>>

(* UpdateNetwork: no manifest for four seconds *)
ManifestTimeout ==
    /\ Between
    /\ game.mode = "Boot" /\ game.probed /\ ~game.manifest
    /\ game' = RetryWait(game)
    /\ UNCHANGED <<batch, unheard, cache, playerMap, crashes>>

(* Mutant: one request too many. *)
RequestTimeoutLate(a) ==
    /\ Between
    /\ game.link = "connected"
    /\ game.requests[a] > 0
    /\ game' = IF game.requests[a] > Tries THEN RetryWait(game)
               ELSE [game EXCEPT !.requests[a] = @ + 1,
                                 !.toServer = Append(@, AssetRequest(a))]
    /\ UNCHANGED <<batch, unheard, cache, playerMap, crashes>>

(* UpdatePendingAssetRequests: no answer for three seconds *)
RequestTimeout(a) ==
    /\ Between
    /\ game.link = "connected"
    /\ game.requests[a] > 0
    /\ game' = IF game.requests[a] >= Tries THEN RetryWait(game)
               ELSE [game EXCEPT !.requests[a] = @ + 1,
                                 !.toServer = Append(@, AssetRequest(a))]
    /\ UNCHANGED <<batch, unheard, cache, playerMap, crashes>>

(* UpdateRetryWait: ten seconds are over *)
Retry ==
    /\ game.mode = "RetryWait" /\ batch = <<>>
    /\ BootUpdateCheck(unheard)
    /\ UNCHANGED <<batch, cache, playerMap, crashes>>

(* UpdateLoggingIn: after a fifth of a second *)
EnterWorld ==
    /\ Between
    /\ game.mode = "LoggingIn" /\ game.link = "connected" /\ game.handshake
    /\ game' = [game EXCEPT !.mode = "World"]
    /\ UNCHANGED <<batch, unheard, cache, playerMap, crashes>>

-----------------------------------------------------------------------------
(* Keys *)

MayLogIn == game.manifest /\ game.ready /\ game.link = "connected" /\ game.handshake

(* StartLogin, with a name *)
Login ==
    /\ Between
    /\ game.mode = "MainMenu"
    /\ IF MayLogIn
       THEN /\ game' = [game EXCEPT !.mode = "LoggingIn"]
            /\ UNCHANGED unheard
       ELSE BootUpdateCheck(unheard)
    /\ UNCHANGED <<batch, cache, playerMap, crashes>>

(* F5 in the main menu: StartConnection *)
Reconnect ==
    /\ Between
    /\ game.mode = "MainMenu"
    /\ BootUpdateCheck(unheard)
    /\ UNCHANGED <<batch, cache, playerMap, crashes>>

(* UpdateNpcAndQuest: E near a portal of the map that is shown, ready or   *)
(* not                                                                     *)
UsePortal ==
    /\ Between
    /\ game.mode = "World" /\ game.link = "connected"
    /\ game.applied # None
    /\ Len(game.toServer) < MaxInFlight
    /\ game' = [game EXCEPT !.toServer = Append(@, Interact(game.applied))]
    /\ UNCHANGED <<batch, unheard, cache, playerMap, crashes>>

(* The client is ended and started again.  A map is written to its own     *)
(* file, images to a temporary one that is renamed: only a map is torn.    *)
Crash ==
    /\ crashes < MaxCrashes
    /\ crashes' = crashes + 1
    /\ \/ UNCHANGED cache
       \/ \E m \in Maps :
             /\ batch # <<>> /\ Head(batch) = Blob(m)
             /\ cache' = [cache EXCEPT ![m] = "torn"]
    /\ BootUpdateCheck(0)
    /\ batch' = <<>>
    /\ UNCHANGED playerMap

-----------------------------------------------------------------------------
(* The server *)

Take(packet) ==
    /\ game.toServer # <<>>
    /\ Head(game.toServer) = packet
    /\ UNCHANGED <<batch, unheard, cache, crashes>>

Answer(packets) ==
    game' = [game EXCEPT !.toServer = Tail(@), !.fromServer = @ \o packets]

ServeProbe ==
    /\ Take(UpdateProbe)
    /\ Answer(<<Handshake, Manifest>>)
    /\ UNCHANGED playerMap

(* sendAssetBlobToPeer, or nothing: more than 64 requests in a second, a   *)
(* key that is not listed, a file that cannot be read                      *)
ServeAsset(a) ==
    /\ Take(AssetRequest(a))
    /\ Answer(<<Blob(a)>>) \/ Answer(<<>>)
    /\ UNCHANGED playerMap

(* OBJECT_INTERACT with a portal of map m, looked up on the player's map *)
ServePortal(m) ==
    /\ Take(Interact(m))
    /\ IF playerMap = m /\ Portals[m] # {}
       THEN \E to \in Portals[m] :
                /\ playerMap' = to
                /\ Answer(<<MapTransfer(to)>>)
       ELSE /\ Answer(<<>>)
            /\ UNCHANGED playerMap

-----------------------------------------------------------------------------

Init ==
    /\ \/ game = [Fresh EXCEPT !.link = "connecting"] /\ unheard = 0
       \/ game = RetryWait(Fresh) /\ unheard = 1
    /\ batch = <<>>
    /\ cache = [a \in Assets |-> "absent"]
    /\ playerMap = DefaultMap
    /\ crashes = 0

Timers ==
    \/ ConnectTimeout
    \/ ManifestTimeout
    \/ \E a \in Assets : RequestTimeout(a)
    \/ Retry
    \/ EnterWorld

Keys == Login \/ Reconnect \/ UsePortal

Server ==
    \/ ServeProbe
    \/ \E a \in Assets : ServeAsset(a)
    \/ \E m \in Maps : ServePortal(m)

Next == Receive \/ HandleEvent \/ Timers \/ Keys \/ Crash \/ Server

Spec == Init /\ [][Next]_vars

(* A frame handles its events and its timers run out.  The server need not *)
(* answer, nor the network deliver.                                        *)
FairSpec ==
    /\ Spec
    /\ WF_vars(HandleEvent)
    /\ WF_vars(ConnectTimeout)
    /\ WF_vars(ManifestTimeout)
    /\ \A a \in Assets : WF_vars(RequestTimeout(a))
    /\ WF_vars(Retry)
    /\ WF_vars(EnterWorld)

-----------------------------------------------------------------------------
(* Properties *)

TypeOK ==
    /\ game \in Games
    /\ batch \in Seq(Events)
    /\ unheard \in 0..2
    /\ cache \in [Assets -> {"absent", "whole", "torn"}]
    /\ playerMap \in Maps
    /\ crashes \in 0..MaxCrashes

TransferUnderWay == \E m \in Maps : MapTransfer(m) \in ToSet(batch \o game.fromServer)

(* Whoever logs in or plays does so on a live session that has shown its   *)
(* handshake and its manifest, however the connection was lost and made    *)
(* again before: no handler of a batch that goes wrong leaves the client   *)
(* in the world without a server.                                          *)
SessionBehindWorld ==
    batch = <<>> /\ game.mode \in {"LoggingIn", "World"} =>
        game.link = "connected" /\ game.handshake /\ game.manifest

(* UpdateNetwork sends the player's positions while the map is ready: they *)
(* are positions on the map the server has the player on, unless the news  *)
(* of another one is still under way.                                      *)
WalksOnTheServersMap ==
    game.mode = "World" /\ game.ready /\ game.link = "connected" /\ ~TransferUnderWay =>
        game.applied = playerMap

(* A connected client that waits for its map waits for something it asked  *)
(* for and whose request will be repeated or given up: no image and no map *)
(* is forgotten over transfers, late answers and reconnects.               *)
MissingIsRequested ==
    batch = <<>> /\ game.link = "connected" /\ game.manifest /\ ~game.ready =>
        IF game.wanted # None THEN game.requests[game.wanted] > 0
        ELSE game.images # {} /\ \A i \in game.images : game.requests[i] > 0

(* A map that is ready has all its images, whatever was pending when it    *)
(* was chosen.                                                             *)
ReadyIsDrawable ==
    game.ready => game.applied # None /\ Missing(cache, References[game.applied]) = {}

(* Every boot with a connection ends: in the main menu, in the countdown   *)
(* to the next, or in the loss of the connection, even if the server never *)
(* answers anything.                                                       *)
Booting == game.mode = "Boot" /\ game.link # "none"

BootEnds == Booting ~> ~Booting

-----------------------------------------------------------------------------
(* What the code says and does not do *)

(* "Map asset failed to load. Retrying in 10 seconds.": a client that is   *)
(* checking for updates has, or is about to make, a connection to do so.   *)
FailedLoadIsRetried ==
    batch = <<>> /\ game.mode = "Boot" => game.link # "none"
=============================================================================
