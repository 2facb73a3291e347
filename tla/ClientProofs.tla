---------------------------- MODULE ClientProofs ----------------------------
(***************************************************************************)
(* Proofs about Client, for any maps, images, documents, portals and       *)
(* number of tries.                                                        *)
(*                                                                         *)
(* A handler transforms the game by pure operators.  Sound is what each of *)
(* them establishes or keeps, Continues is what none of them may do to the *)
(* session, and the invariant adds how the events that wait in the batch   *)
(* account for a connection that is gone, or not yet there.                *)
(*                                                                         *)
(* The second part is about the map under the player: the events under way *)
(* are a path from the map the client shows to the one the server has the  *)
(* player on.                                                              *)
(***************************************************************************)
EXTENDS Client, TLAPS, FiniteSetTheorems, SequenceTheorems, WellFoundedInduction

Files == [Assets -> {"absent", "whole", "torn"}]

Playing(g) == g.mode \in {"LoggingIn", "World"}

(* A map that is ready waits for no image. *)
Drawable(g, files) ==
    g.ready => /\ g.applied # None
               /\ g.images = {}
               /\ Missing(files, References[g.applied]) = {}

Waiting(g) == g.link = "connected" /\ g.manifest /\ ~g.ready

(* MissingIsRequested, in the middle of a batch, too. *)
Asked(g) ==
    Waiting(g) =>
        IF g.wanted # None THEN g.requests[g.wanted] > 0
        ELSE g.images # {} /\ \A i \in g.images : g.requests[i] > 0

Sound(g, files) ==
    /\ g \in Games
    /\ Drawable(g, files)
    /\ Asked(g)
    /\ g.applied = None => g.images = {}

(* What holds before the readiness is refreshed: images that have arrived  *)
(* are still among those the map waits for.                                *)
Refreshable(g, files) ==
    /\ g \in Games
    /\ Drawable(g, files)
    /\ g.applied = None => g.images = {}
    /\ Waiting(g) =>
           IF g.wanted # None THEN g.requests[g.wanted] > 0
           ELSE g.applied # None /\ \A i \in Missing(files, g.images) : g.requests[i] > 0

(* From g to r no session comes up, and nobody plays on without one. *)
Continues(g, r) ==
    /\ g.handshake => r.handshake
    /\ g.manifest => r.manifest
    /\ r.link \in {g.link, "none"}
    /\ Playing(r) => Playing(g) /\ r.link = g.link

EndsLost == batch # <<>> /\ batch[Len(batch)] = Disconnected

(* Whoever plays has a session, or is about to hear that it is over. *)
LiveSession ==
    Playing(game) => game.handshake /\ game.manifest /\ (game.link = "connected" \/ EndsLost)

(* A connection that is not up yet follows on failures, if on anything. *)
NothingYet ==
    game.link = "connecting" =>
        ~game.manifest /\ \A i \in 1..Len(batch) : batch[i] = ConnectionFailed

IInv ==
    /\ Sound(game, cache)
    /\ LiveSession
    /\ NothingYet
    /\ batch \in Seq(Events)
    /\ unheard \in 0..2
    /\ cache \in Files
    /\ playerMap \in Maps
    /\ crashes \in 0..MaxCrashes

-----------------------------------------------------------------------------
(* The helpers *)

(* The requests for a finite set of assets can be put into a row. *)
LEMMA SetToSeqIsSeq ==
    ASSUME NEW S, IsFiniteSet(S)
    PROVE  SetToSeq(S) \in Seq(S)
<1>1. Cardinality(S) \in Nat /\ ExistsBijection(1..Cardinality(S), S)
    BY FS_CardinalityType
<1>2. PICK f \in Bijection(1..Cardinality(S), S) : TRUE
    BY <1>1 DEF ExistsBijection
<1>3. f \in [1..Cardinality(S) -> S] /\ IsInjective(f)
    BY <1>2 DEF Bijection, Injection, IsInjective
<1>4. SetToSeq(S) \in [1..Cardinality(S) -> S]
    BY <1>3 DEF SetToSeq
<1> QED
    BY <1>1, <1>4

LEMMA MissingIn ==
    ASSUME NEW files, NEW A
    PROVE  Missing(files, A) \subseteq A
BY DEF Missing

(* Request changes requests and what is on its way, and leaves every asset *)
(* it was given asked for.                                                 *)
LEMMA RequestAsks ==
    ASSUME NEW g \in Games, NEW A \in SUBSET Assets
    PROVE  LET r == Request(g, A)
           IN  /\ r \in Games
               /\ r = [g EXCEPT !.requests = r.requests, !.toServer = r.toServer]
               /\ \A a \in Assets : g.requests[a] > 0 => r.requests[a] > 0
               /\ g.link = "connected" => \A a \in A : r.requests[a] > 0
<1> DEFINE r == Request(g, A)
           new == {a \in A : g.requests[a] = 0}
           row == SetToSeq({AssetRequest(a) : a \in new})
           asked == [a \in Assets |-> IF a \in new THEN 1 ELSE g.requests[a]]
<1>1. CASE g.link # "connected"
    BY <1>1 DEF Request, Games
<1>2. CASE g.link = "connected"
  <2>1. r = [g EXCEPT !.requests = asked, !.toServer = g.toServer \o row]
      BY <1>2 DEF Request, Games
  <2>2. IsFiniteSet({AssetRequest(a) : a \in new})
    <3>1. IsFiniteSet(new)
        BY ClientAssumption, FS_Subset DEF Assets
    <3>2. [a \in new |-> AssetRequest(a)] \in Surjection(new, {AssetRequest(a) : a \in new})
        BY DEF Surjection
    <3> QED
        BY <3>1, <3>2, FS_Surjection DEF ExistsSurjection
  <2>3. row \in Seq(ToServer)
    <3>1. row \in Seq({AssetRequest(a) : a \in new})
        BY <2>2, SetToSeqIsSeq
    <3>2. {AssetRequest(a) : a \in new} \subseteq ToServer
        BY DEF ToServer
    <3> HIDE DEF row
    <3> QED
        BY <3>1, <3>2
  <2> HIDE DEF row
  <2>4. g.requests \in [Assets -> 0..Tries] /\ g.toServer \in Seq(ToServer)
      BY DEF Games
  <2>5. asked \in [Assets -> 0..Tries]
      BY <2>4, ClientAssumption
  <2>6. g.toServer \o row \in Seq(ToServer)
      BY <2>3, <2>4
  <2>7. r \in Games
      BY <2>1, <2>5, <2>6 DEF Games
  <2>8. r.requests = asked /\ r.toServer = g.toServer \o row
      BY <2>1 DEF Games
  <2> QED
      BY <2>1, <2>4, <2>7, <2>8
<1> QED
    BY <1>1, <1>2

LEMMA RequestImagesAsks ==
    ASSUME NEW g \in Games, g.applied \in Maps, NEW files
    PROVE  LET r == RequestImages(g, files)
               missing == Missing(files, References[g.applied])
           IN  /\ r \in Games
               /\ r = [g EXCEPT !.images = missing, !.requests = r.requests,
                                !.toServer = r.toServer]
               /\ \A a \in Assets : g.requests[a] > 0 => r.requests[a] > 0
               /\ g.link = "connected" => \A i \in missing : r.requests[i] > 0
<1> DEFINE missing == Missing(files, References[g.applied])
           chosen == [g EXCEPT !.images = missing]
           r == Request(chosen, missing)
<1>1. missing \subseteq Images
    BY MissingIn, ClientAssumption
<1> HIDE DEF missing
<1>2. chosen \in Games /\ missing \in SUBSET Assets
    BY <1>1 DEF Games, Assets
<1>3. chosen.requests = g.requests /\ chosen.link = g.link
    BY DEF Games
<1>4. /\ r \in Games
      /\ r = [chosen EXCEPT !.requests = r.requests, !.toServer = r.toServer]
      /\ \A a \in Assets : chosen.requests[a] > 0 => r.requests[a] > 0
      /\ chosen.link = "connected" => \A i \in missing : r.requests[i] > 0
    <2> HIDE DEF chosen
    <2> QED
        BY <1>2, RequestAsks
<1>5. r = [g EXCEPT !.images = missing, !.requests = r.requests, !.toServer = r.toServer]
    <2> HIDE DEF r
    <2> QED
        BY <1>4 DEF Games
<1>6. RequestImages(g, files) = r
    BY DEF RequestImages, missing
<1> QED
    BY <1>3, <1>4, <1>5, <1>6 DEF missing

(* The countdown is sound, and nobody plays in it. *)
LEMMA RetryWaitSound ==
    ASSUME NEW g \in Games, NEW files, Drawable(g, files),
           g.applied = None => g.images = {}
    PROVE  Sound(RetryWait(g), files) /\ Continues(g, RetryWait(g))
<1> DEFINE r == RetryWait(g)
<1>1. /\ r.mode = "RetryWait" /\ r.link = "none" /\ r.requests = NoRequests
      /\ r.handshake = g.handshake /\ r.manifest = g.manifest /\ r.ready = g.ready
      /\ r.applied = g.applied /\ r.images = g.images
    BY DEF RetryWait, Offline, Games
<1>2. NoRequests \in [Assets -> 0..Tries]
    BY ClientAssumption DEF NoRequests
<1>3. Offline(g) \in Games
    <2>1. <<>> \in Seq(ToServer) /\ <<>> \in Seq(ToClient)
        OBVIOUS
    <2> QED
        BY <2>1 DEF Offline, Games
<1>4. r \in Games
    <2> HIDE DEF NoRequests
    <2> QED
        BY <1>2, <1>3 DEF RetryWait, Games, Modes
<1> QED
    BY <1>1, <1>4 DEF Sound, Drawable, Asked, Waiting, Continues, Playing

LEMMA RefreshSound ==
    ASSUME NEW g, NEW files, Refreshable(g, files)
    PROVE  Sound(Refresh(g, files), files) /\ Continues(g, Refresh(g, files))
<1> DEFINE left == Missing(files, g.images)
           rest == [g EXCEPT !.images = left]
<1> USE DEF Refreshable
<1>1. left \subseteq g.images /\ left \subseteq Images
    BY MissingIn DEF Games
<1>2. rest \in Games
    BY <1>1 DEF Games
<1>3. /\ rest.images = left /\ rest.ready = g.ready /\ rest.applied = g.applied
      /\ rest.wanted = g.wanted /\ rest.requests = g.requests /\ rest.link = g.link
      /\ rest.mode = g.mode /\ rest.manifest = g.manifest /\ rest.handshake = g.handshake
    BY DEF Games
<1> HIDE DEF rest
<1>4. CASE g.applied = None
  <2>1. Refresh(g, files) = g
      BY <1>4 DEF Refresh
  <2> QED
      BY <1>4, <2>1 DEF Sound, Asked, Waiting, Continues
<1>5. CASE g.applied # None /\ left # {}
  <2>1. Refresh(g, files) = [rest EXCEPT !.ready = FALSE]
      BY <1>3, <1>5 DEF Refresh, rest
  <2> DEFINE r == [rest EXCEPT !.ready = FALSE]
  <2>2. /\ r \in Games
        /\ r.images = left /\ ~r.ready /\ r.applied = g.applied /\ r.wanted = g.wanted
        /\ r.requests = g.requests /\ r.link = g.link /\ r.mode = g.mode
        /\ r.manifest = g.manifest /\ r.handshake = g.handshake
      BY <1>2, <1>3 DEF Games
  <2> HIDE DEF r
  <2>3. Sound(r, files)
      BY <1>1, <1>5, <2>2 DEF Sound, Drawable, Asked, Waiting
  <2> QED
      BY <2>1, <2>2, <2>3 DEF Continues, Playing, r
<1>6. CASE g.applied # None /\ left = {} /\ g.ready
  <2>1. Refresh(g, files) = rest
      BY <1>3, <1>6 DEF Refresh, rest
  <2> QED
      BY <1>2, <1>3, <1>6, <2>1 DEF Sound, Drawable, Asked, Waiting, Continues, Playing
<1>7. CASE g.applied # None /\ left = {} /\ ~g.ready
           /\ Missing(files, References[g.applied]) = {}
  <2> DEFINE drawn == [rest EXCEPT !.ready = TRUE,
                                   !.mode = IF @ = "Boot" THEN "MainMenu" ELSE @]
  <2>1. Refresh(g, files) = drawn
      BY <1>3, <1>7 DEF Refresh, rest
  <2>2. /\ drawn \in Games
        /\ drawn.ready /\ drawn.applied = g.applied /\ drawn.images = {}
        /\ drawn.link = g.link /\ drawn.manifest = g.manifest /\ drawn.handshake = g.handshake
        /\ drawn.mode = IF g.mode = "Boot" THEN "MainMenu" ELSE g.mode
      BY <1>2, <1>3, <1>7 DEF Games, Modes
  <2> QED
      BY <1>7, <2>1, <2>2 DEF Sound, Drawable, Asked, Waiting, Continues, Playing
<1>8. CASE g.applied # None /\ left = {} /\ ~g.ready
           /\ Missing(files, References[g.applied]) # {}
  <2> DEFINE r == RequestImages(rest, files)
             missing == Missing(files, References[rest.applied])
  <2>1. Refresh(g, files) = r
      BY <1>3, <1>8 DEF Refresh, rest
  <2>2. rest.applied \in Maps
      BY <1>2, <1>3, <1>8 DEF Games
  <2>3. /\ r \in Games
        /\ r = [rest EXCEPT !.images = missing, !.requests = r.requests,
                            !.toServer = r.toServer]
        /\ \A a \in Assets : rest.requests[a] > 0 => r.requests[a] > 0
        /\ rest.link = "connected" => \A i \in missing : r.requests[i] > 0
      BY <1>2, <1>3, <2>2, RequestImagesAsks
  <2> HIDE DEF r, missing
  <2>4. /\ r.images = missing /\ r.ready = g.ready /\ r.applied = g.applied
        /\ r.wanted = g.wanted /\ r.link = g.link /\ r.mode = g.mode
        /\ r.manifest = g.manifest /\ r.handshake = g.handshake
      BY <1>2, <1>3, <2>3 DEF Games
  <2>5. g.wanted # None => g.wanted \in Assets
      BY DEF Games, Assets
  <2>6. Sound(r, files)
      BY <1>3, <1>8, <2>3, <2>4, <2>5 DEF Sound, Drawable, Asked, Waiting, missing
  <2> QED
      BY <2>1, <2>4, <2>6 DEF Continues, Playing
<1> QED
    BY <1>4, <1>5, <1>6, <1>7, <1>8

(* From one game to the next and on. *)
LEMMA ContinuesOn ==
    ASSUME NEW g, NEW h, NEW r, Continues(g, h), Continues(h, r), h.link \in {g.link, "none"}
    PROVE  Continues(g, r)
BY DEF Continues

(* A map that is applied needs nothing of the game it is applied to. *)
LEMMA ApplyMapSound ==
    ASSUME NEW g \in Games, NEW m \in Maps, NEW files
    PROVE  Sound(ApplyMap(g, m, files), files) /\ Continues(g, ApplyMap(g, m, files))
<1> DEFINE start == [g EXCEPT !.ready = FALSE, !.wanted = None, !.applied = m]
           missing == Missing(files, References[start.applied])
           r == RequestImages(start, files)
<1>1. start \in Games
    BY DEF Games
<1>2. /\ start.ready = FALSE /\ start.wanted = None /\ start.applied = m
      /\ start.link = g.link /\ start.mode = g.mode
      /\ start.manifest = g.manifest /\ start.handshake = g.handshake
    BY DEF Games
<1> HIDE DEF start
<1>3. /\ r \in Games
      /\ r = [start EXCEPT !.images = missing, !.requests = r.requests,
                           !.toServer = r.toServer]
      /\ start.link = "connected" => \A i \in missing : r.requests[i] > 0
    BY <1>1, <1>2, RequestImagesAsks
<1> HIDE DEF r
<1>4. /\ r.images = missing /\ ~r.ready /\ r.wanted = None /\ r.applied = m
      /\ r.link = g.link /\ r.mode = g.mode
      /\ r.manifest = g.manifest /\ r.handshake = g.handshake
    <2> HIDE DEF missing
    <2> QED
        BY <1>1, <1>2, <1>3 DEF Games
<1>5. m # None
    BY NoMapIsNone
<1>6. Missing(files, r.images) \subseteq missing
    <2> HIDE DEF missing
    <2> QED
        BY <1>4, MissingIn
<1>7. Refreshable(r, files)
    <2> HIDE DEF missing
    <2> QED
        BY <1>2, <1>3, <1>4, <1>5, <1>6 DEF Refreshable, Drawable, Waiting
<1>8. Continues(g, r)
    BY <1>4 DEF Continues, Playing
<1>9. ApplyMap(g, m, files) = Refresh(r, files)
    BY DEF ApplyMap, r, start
<1>10. Sound(Refresh(r, files), files) /\ Continues(r, Refresh(r, files))
    BY <1>7, RefreshSound
<1> QED
    BY <1>4, <1>8, <1>9, <1>10, ContinuesOn

LEMMA BootstrapSound ==
    ASSUME NEW g \in Games, g.applied = None => g.images = {}, NEW m \in Maps, NEW files
    PROVE  Sound(Bootstrap(g, m, files), files) /\ Continues(g, Bootstrap(g, m, files))
<1> DEFINE next == [g EXCEPT !.ready = FALSE, !.wanted = m]
           r == Bootstrap(g, m, files)
<1>1. next \in Games
    BY DEF Games
<1>2. /\ ~next.ready /\ next.wanted = m /\ next.applied = g.applied /\ next.images = g.images
      /\ next.link = g.link /\ next.mode = g.mode
      /\ next.manifest = g.manifest /\ next.handshake = g.handshake
    BY DEF Games
<1> HIDE DEF next
<1>3. Continues(g, next)
    BY <1>2 DEF Continues, Playing
<1>4. Drawable(next, files)
    BY <1>2 DEF Drawable
<1>5. CASE files[m] = "whole"
  <2>1. r = ApplyMap(next, m, files)
      BY <1>2, <1>5 DEF Bootstrap, next
  <2> QED
      BY <1>1, <1>2, <1>3, <2>1, ApplyMapSound, ContinuesOn
<1>6. CASE r = RetryWait(next)
    BY <1>1, <1>2, <1>3, <1>4, <1>6, RetryWaitSound, ContinuesOn
<1>7. CASE files[m] # "whole" /\ files[m] # "torn" /\ g.link = "connected"
  <2> DEFINE q == Request(next, {m})
  <2>1. r = q
      BY <1>7 DEF Bootstrap, next
  <2>2. {m} \in SUBSET Assets
      BY DEF Assets
  <2>3. /\ q \in Games
        /\ q = [next EXCEPT !.requests = q.requests, !.toServer = q.toServer]
        /\ q.requests[m] > 0
      BY <1>1, <1>2, <1>7, <2>2, RequestAsks
  <2> HIDE DEF q
  <2>4. /\ ~q.ready /\ q.wanted = m /\ q.applied = g.applied /\ q.images = g.images
        /\ q.link = g.link /\ q.mode = g.mode
        /\ q.manifest = g.manifest /\ q.handshake = g.handshake
      BY <1>1, <1>2, <2>3 DEF Games
  <2> QED
      BY <2>1, <2>3, <2>4, NoMapIsNone DEF Sound, Drawable, Asked, Waiting, Continues, Playing
<1>8. CASE files[m] # "whole" /\ files[m] # "torn" /\ g.link # "connected"
  <2>1. r = RetryWait(next)
      BY <1>8 DEF Bootstrap, next
  <2> QED
      BY <1>6, <2>1
<1>9. CASE files[m] = "torn"
  <2>1. r = RetryWait(next)
      BY <1>9 DEF Bootstrap, next
  <2> QED
      BY <1>6, <2>1
<1> QED
    BY <1>5, <1>7, <1>8, <1>9

(* Every boot starts from nothing. *)
LEMMA FreshSound ==
    ASSUME NEW files, NEW g \in {[Fresh EXCEPT !.link = "connecting"], RetryWait(Fresh)}
    PROVE  /\ Sound(g, files)
           /\ ~g.manifest /\ ~Playing(g) /\ g.link \in {"none", "connecting"}
<1>1. Fresh \in Games
  <2>1. NoRequests \in [Assets -> 0..Tries]
      BY ClientAssumption DEF NoRequests
  <2>2. <<>> \in Seq(ToServer) /\ <<>> \in Seq(ToClient)
      OBVIOUS
  <2> QED
      BY <2>1, <2>2 DEF Fresh, Games, Modes
<1>2. /\ Fresh.mode = "Boot" /\ ~Fresh.ready /\ ~Fresh.manifest
      /\ Fresh.applied = None /\ Fresh.images = {}
    BY DEF Fresh
<1>3. Drawable(Fresh, files)
    BY <1>2 DEF Drawable
<1>4. CASE g = RetryWait(Fresh)
  <2>1. g.link = "none" /\ g.mode = "RetryWait" /\ ~g.manifest
      BY <1>4 DEF RetryWait, Offline, Fresh
  <2> QED
      BY <1>1, <1>2, <1>3, <1>4, <2>1, RetryWaitSound DEF Playing
<1>5. CASE g = [Fresh EXCEPT !.link = "connecting"]
  <2>1. /\ g \in Games
        /\ g.mode = "Boot" /\ g.link = "connecting" /\ ~g.ready /\ ~g.manifest
        /\ g.applied = None /\ g.images = {}
      BY <1>1, <1>2, <1>5 DEF Games
  <2> QED
      BY <2>1 DEF Sound, Drawable, Asked, Waiting, Playing
<1> QED
    BY <1>4, <1>5

LEMMA InitIInv == Init => IInv
<1> SUFFICES ASSUME Init PROVE IInv
    OBVIOUS
<1>1. game \in {[Fresh EXCEPT !.link = "connecting"], RetryWait(Fresh)}
    BY DEF Init
<1>2. /\ Sound(game, cache)
      /\ ~game.manifest /\ ~Playing(game) /\ game.link \in {"none", "connecting"}
    BY <1>1, FreshSound
<1>3. /\ batch = <<>> /\ unheard \in 0..2 /\ playerMap \in Maps /\ crashes \in 0..MaxCrashes
      /\ cache \in Files
    BY ClientAssumption DEF Init, Files
<1> QED
    BY <1>2, <1>3 DEF IInv, LiveSession, NothingYet

(* A boot begun between two batches. *)
LEMMA BootIInv ==
    ASSUME IInv, NEW n \in 0..2, BootUpdateCheck(n),
           batch' = <<>>, cache' \in Files, playerMap' = playerMap,
           crashes' \in 0..MaxCrashes
    PROVE  IInv'
<1>1. game' \in {[Fresh EXCEPT !.link = "connecting"], RetryWait(Fresh)} /\ unheard' \in 0..2
    BY DEF BootUpdateCheck
<1>2. /\ Sound(game', cache')
      /\ ~game'.manifest /\ ~Playing(game') /\ game'.link \in {"none", "connecting"}
    BY <1>1, FreshSound
<1> QED
    BY <1>1, <1>2 DEF IInv, LiveSession, NothingYet

(* A handler that leaves a sound game and continues the one it found.  A   *)
(* loss that waits in the batch is still there afterwards, unless it is    *)
(* what was handled.                                                       *)
LEMMA HandlerIInv ==
    ASSUME IInv, NEW event \in Events, Handle(event),
           event # ConnectionFailed, Sound(game', cache'),
           ~Playing(game') \/ (event # Disconnected /\ Continues(game, game')),
           game'.link \in {game.link, "none"}, cache' \in Files
    PROVE  IInv'
<1> USE DEF IInv
<1>1. batch # <<>> /\ batch[1] = event /\ batch' = Tail(batch) /\ batch \in Seq(Events)
    BY DEF Handle
<1>2. batch' \in Seq(Events)
    BY <1>1
<1>3. game.link # "connecting"
    BY <1>1 DEF NothingYet
<1>4. NothingYet'
    BY <1>3 DEF NothingYet
<1>5. event # Disconnected /\ EndsLost => EndsLost'
  <2> SUFFICES ASSUME event # Disconnected, EndsLost PROVE EndsLost'
      OBVIOUS
  <2>1. Len(batch) > 1
      BY <1>1 DEF EndsLost
  <2>2. Len(batch') = Len(batch) - 1 /\ \A i \in 1..Len(batch') : batch'[i] = batch[i + 1]
      BY <1>1
  <2>3. batch' # <<>> /\ batch'[Len(batch')] = batch[Len(batch)]
    <3>1. Len(batch) \in Nat /\ Len(batch') \in 1..Len(batch')
        BY <1>1, <2>1, <2>2
    <3> QED
        BY <2>2, <3>1
  <2> QED
      BY <2>3 DEF EndsLost
<1>6. LiveSession'
    BY <1>5 DEF LiveSession, Continues
<1> QED
    BY <1>2, <1>4, <1>6 DEF Handle

(* A step of a timer, of a key or of the server between two batches. *)
LEMMA StepIInv ==
    ASSUME IInv, batch' = batch, unheard' = unheard, cache' = cache, crashes' = crashes,
           playerMap' \in Maps, Sound(game', cache), Continues(game, game'),
           game'.manifest = game.manifest
    PROVE  IInv'
BY DEF IInv, LiveSession, NothingYet, EndsLost, Continues

-----------------------------------------------------------------------------
(* The handlers *)

LEMMA OnConnectedIInv == ASSUME IInv, OnConnected PROVE IInv'
<1> USE DEF IInv, OnConnected
<1>1. Handle(Connected) /\ Connected \in Events /\ Connected # ConnectionFailed
      /\ Connected # Disconnected /\ cache' = cache
    BY DEF Events, Connected, ConnectionFailed, Disconnected
<1>2. CASE game.mode # "Boot"
    BY <1>1, <1>2, HandlerIInv DEF Continues
<1>3. CASE game.mode = "Boot" /\ game.link = "connected"
  <2>1. game' = [game EXCEPT !.probed = TRUE, !.toServer = Append(@, UpdateProbe)]
      BY <1>3
  <2>2. Append(game.toServer, UpdateProbe) \in Seq(ToServer)
      BY DEF Sound, Games, ToServer
  <2>3. /\ game' \in Games
        /\ game'.mode = game.mode /\ game'.link = game.link /\ game'.handshake = game.handshake
        /\ game'.manifest = game.manifest /\ game'.ready = game.ready
        /\ game'.wanted = game.wanted /\ game'.applied = game.applied
        /\ game'.images = game.images /\ game'.requests = game.requests
      BY <2>1, <2>2 DEF Sound, Games
  <2>4. Sound(game', cache') /\ Continues(game, game')
      BY <1>1, <2>3 DEF Sound, Drawable, Asked, Waiting, Continues, Playing
  <2> QED
      BY <1>1, <2>3, <2>4, HandlerIInv
<1>4. CASE game.mode = "Boot" /\ game.link # "connected"
  <2>1. game' = RetryWait(game)
      BY <1>4
  <2>2. Sound(game', cache') /\ Continues(game, game')
      BY <1>1, <2>1, RetryWaitSound DEF Sound
  <2> QED
      BY <1>1, <2>2, HandlerIInv DEF Continues
<1> QED
    BY <1>2, <1>3, <1>4

LEMMA OnConnectionFailedIInv == ASSUME IInv, OnConnectionFailed PROVE IInv'
<1> USE DEF IInv, OnConnectionFailed
<1>1. batch # <<>> /\ batch' = Tail(batch) /\ batch' \in Seq(Events) /\ cache' = cache
      /\ UNCHANGED <<unheard, playerMap, crashes>>
    BY DEF Handle
<1>2. Sound(game', cache') /\ ~Playing(game') /\ game'.link \in {game.link, "none"}
      /\ game'.manifest = game.manifest
  <2>1. CASE game.mode = "Boot"
    <3>1. game' = RetryWait(game) /\ game'.mode = "RetryWait" /\ game'.manifest = game.manifest
        BY <2>1 DEF RetryWait, Offline, Sound, Games
    <3> QED
        BY <1>1, <3>1, RetryWaitSound DEF Sound, Continues, Playing
  <2>2. CASE game.mode # "Boot"
    <3>1. /\ game' \in Games
          /\ game'.mode = "MainMenu" /\ game'.link = game.link
          /\ game'.manifest = game.manifest /\ game'.ready = game.ready
          /\ game'.wanted = game.wanted /\ game'.applied = game.applied
          /\ game'.images = game.images /\ game'.requests = game.requests
        BY <2>2 DEF Sound, Games, Modes
    <3> QED
        BY <1>1, <3>1 DEF Sound, Drawable, Asked, Waiting, Playing
  <2> QED
      BY <2>1, <2>2
<1>3. NothingYet'
  <2>1. \A i \in 1..Len(batch') : i + 1 \in 1..Len(batch) /\ batch'[i] = batch[i + 1]
      BY <1>1
  <2> QED
      BY <1>2, <2>1 DEF NothingYet
<1> QED
    BY <1>1, <1>2, <1>3 DEF LiveSession

LEMMA OnDisconnectedIInv == ASSUME IInv, OnDisconnected PROVE IInv'
<1> DEFINE ended == [game EXCEPT !.handshake = FALSE, !.probed = FALSE, !.ready = FALSE,
                                 !.wanted = None, !.images = {}, !.requests = NoRequests]
<1>1. Handle(Disconnected) /\ Disconnected \in Events /\ Disconnected # ConnectionFailed
      /\ cache' = cache
    BY DEF OnDisconnected, Events, Connected, ConnectionFailed, Disconnected
<1>2. NoRequests \in [Assets -> 0..Tries]
    BY ClientAssumption DEF NoRequests
<1>3. /\ ended \in Games
      /\ ended.mode = game.mode /\ ended.link = game.link
      /\ ~ended.ready /\ ended.images = {}
    <2> HIDE DEF NoRequests
    <2> QED
        BY <1>2 DEF IInv, Sound, Games
<1>4. game' = IF ended.mode = "Boot" THEN RetryWait(ended)
              ELSE [ended EXCEPT !.manifest = FALSE, !.mode = "MainMenu"]
    BY DEF OnDisconnected
<1> HIDE DEF ended
<1>5. Sound(game', cache') /\ ~Playing(game') /\ game'.link \in {game.link, "none"}
  <2>1. CASE ended.mode = "Boot"
    <3>1. game' = RetryWait(ended) /\ game'.mode = "RetryWait"
        BY <1>3, <1>4, <2>1 DEF RetryWait, Offline, Games
    <3>2. Drawable(ended, cache')
        BY <1>3 DEF Drawable
    <3> QED
        BY <1>3, <3>1, <3>2, RetryWaitSound DEF Continues, Playing
  <2>2. CASE ended.mode # "Boot"
    <3>1. /\ game' \in Games
          /\ game'.mode = "MainMenu" /\ game'.link = game.link
          /\ ~game'.manifest /\ ~game'.ready /\ game'.images = {}
        BY <1>3, <1>4, <2>2 DEF Games, Modes
    <3> QED
        BY <3>1 DEF Sound, Drawable, Asked, Waiting, Playing
  <2> QED
      BY <2>1, <2>2
<1> QED
    BY <1>1, <1>5, HandlerIInv DEF IInv

LEMMA OnHandshakeIInv == ASSUME IInv, OnHandshake PROVE IInv'
<1>1. Handle(Handshake) /\ Handshake \in Events /\ Handshake # ConnectionFailed
      /\ Handshake # Disconnected /\ cache' = cache
    BY DEF OnHandshake, Events, ToClient, Handshake, ConnectionFailed, Disconnected
<1>2. game' = [game EXCEPT !.handshake = TRUE]
    BY DEF OnHandshake
<1>3. /\ game' \in Games
      /\ game'.handshake
      /\ game'.mode = game.mode /\ game'.link = game.link
      /\ game'.manifest = game.manifest /\ game'.ready = game.ready
      /\ game'.wanted = game.wanted /\ game'.applied = game.applied
      /\ game'.images = game.images /\ game'.requests = game.requests
    BY <1>2 DEF IInv, Sound, Games
<1>4. Sound(game', cache') /\ Continues(game, game')
    BY <1>1, <1>3 DEF IInv, Sound, Drawable, Asked, Waiting, Continues, Playing
<1> QED
    BY <1>1, <1>3, <1>4, HandlerIInv DEF IInv

(* The map's bootstrap makes the game sound whatever was wanted before.    *)
LEMMA OnManifestIInv == ASSUME IInv, OnManifest PROVE IInv'
<1> DEFINE known == [game EXCEPT !.manifest = TRUE, !.probed = FALSE]
           asking == Request(known, Missing(cache, Documents))
           begun == Bootstrap(asking, DefaultMap, cache)
<1>1. Handle(Manifest) /\ Manifest \in Events /\ Manifest # ConnectionFailed
      /\ Manifest # Disconnected /\ cache' = cache
    BY DEF OnManifest, Events, ToClient, Manifest, ConnectionFailed, Disconnected
<1>2. game' = [begun EXCEPT !.mode = IF begun.ready THEN "MainMenu" ELSE "Boot"]
    BY DEF OnManifest
<1>3. known \in Games /\ known.link = game.link
      /\ known.applied = game.applied /\ known.images = game.images
    BY DEF IInv, Sound, Games
<1>4. Missing(cache, Documents) \in SUBSET Assets
    BY MissingIn DEF Assets
<1> HIDE DEF known
<1>5. asking \in Games
      /\ asking = [known EXCEPT !.requests = asking.requests, !.toServer = asking.toServer]
    BY <1>3, <1>4, RequestAsks
<1> HIDE DEF asking
<1>6. asking.link = game.link /\ asking.applied = game.applied /\ asking.images = game.images
    BY <1>3, <1>5 DEF Games
<1>7. Sound(begun, cache) /\ begun.link \in {game.link, "none"}
  <2>1. asking.applied = None => asking.images = {}
      BY <1>6 DEF IInv, Sound
  <2> QED
      BY <1>5, <1>6, <2>1, BootstrapSound, ClientAssumption DEF Continues
<1> HIDE DEF begun
<1>8. /\ game' \in Games
      /\ game'.mode \in {"MainMenu", "Boot"} /\ game'.link = begun.link
      /\ game'.manifest = begun.manifest /\ game'.ready = begun.ready
      /\ game'.wanted = begun.wanted /\ game'.applied = begun.applied
      /\ game'.images = begun.images /\ game'.requests = begun.requests
    BY <1>2, <1>7 DEF Sound, Games, Modes
<1>9. Sound(game', cache') /\ ~Playing(game') /\ game'.link \in {game.link, "none"}
    BY <1>1, <1>7, <1>8 DEF Sound, Drawable, Asked, Waiting, Playing
<1> QED
    BY <1>1, <1>9, HandlerIInv DEF IInv

(* An answer completes its request; what it was for is whole now. *)
LEMMA OnBlobIInv == ASSUME IInv, NEW a \in Assets, OnBlob(a) PROVE IInv'
<1> DEFINE done == [game EXCEPT !.requests[a] = 0]
<1>1. Handle(Blob(a)) /\ Blob(a) \in Events /\ Blob(a) # ConnectionFailed
      /\ Blob(a) # Disconnected
    BY DEF OnBlob, Events, ToClient, Blob, ConnectionFailed, Disconnected
<1>2. /\ cache' \in Files
      /\ cache'[a] = "whole" /\ \A b \in Assets \ {a} : cache'[b] = cache[b]
    BY DEF OnBlob, IInv, Files
<1>3. /\ done \in Games
      /\ done.requests[a] = 0 /\ \A b \in Assets \ {a} : done.requests[b] = game.requests[b]
      /\ done.mode = game.mode /\ done.link = game.link /\ done.handshake = game.handshake
      /\ done.manifest = game.manifest /\ done.ready = game.ready
      /\ done.wanted = game.wanted /\ done.applied = game.applied /\ done.images = game.images
  <2>1. [game.requests EXCEPT ![a] = 0] \in [Assets -> 0..Tries]
      BY ClientAssumption DEF IInv, Sound, Games
  <2> QED
      BY <2>1 DEF IInv, Sound, Games
<1>4. game' = CASE a \in Images -> Refresh(done, cache')
                [] a \in Maps -> ApplyMap(done, a, cache')
                [] OTHER -> done
    BY DEF OnBlob
<1> HIDE DEF done
<1>5. Continues(game, done)
    BY <1>3 DEF Continues, Playing
<1>6. Images \subseteq Assets /\ Maps \subseteq Assets
    BY DEF Assets
<1>7. Drawable(done, cache')
  <2> SUFFICES ASSUME done.ready PROVE Drawable(done, cache')
      BY DEF Drawable
  <2>1. game.applied \in Maps /\ game.images = {} /\ Missing(cache, References[game.applied]) = {}
      BY <1>3 DEF IInv, Sound, Drawable, Games
  <2>2. References[game.applied] \subseteq Assets
      BY <1>6, <2>1, ClientAssumption
  <2>3. Missing(cache', References[game.applied]) = {}
      BY <1>2, <2>1, <2>2 DEF Missing
  <2> QED
      BY <1>3, <2>1, <2>3, NoMapIsNone DEF Drawable
<1>8. Sound(game', cache') /\ Continues(game, game')
  <2>1. CASE a \in Images
    <3>1. a \notin Maps
        BY <2>1, ClientAssumption
    <3>2. Waiting(done) =>
              IF done.wanted # None THEN done.requests[done.wanted] > 0
              ELSE done.applied # None
                   /\ \A i \in Missing(cache', done.images) : done.requests[i] > 0
      <4> SUFFICES ASSUME Waiting(done)
                   PROVE  IF done.wanted # None THEN done.requests[done.wanted] > 0
                          ELSE done.applied # None
                               /\ \A i \in Missing(cache', done.images) : done.requests[i] > 0
          OBVIOUS
      <4>1. Asked(game) /\ Waiting(game)
          BY <1>3 DEF IInv, Sound, Waiting
      <4>2. CASE done.wanted # None
        <5>1. game.wanted \in Maps /\ game.wanted # a
            BY <1>3, <3>1, <4>2 DEF IInv, Sound, Games
        <5> QED
            BY <1>3, <1>6, <4>1, <4>2, <5>1 DEF Asked
      <4>3. CASE done.wanted = None
        <5>1. game.images # {} /\ \A i \in game.images : game.requests[i] > 0
            BY <1>3, <4>1, <4>3 DEF Asked
        <5>2. game.applied # None
            BY <5>1 DEF IInv, Sound
        <5>3. \A i \in Missing(cache', game.images) : i \in game.images /\ i # a /\ i \in Assets
            BY <1>2, <1>6 DEF Missing, IInv, Sound, Games
        <5> QED
            BY <1>3, <4>3, <5>1, <5>2, <5>3
      <4> QED
          BY <4>2, <4>3
    <3>3. Refreshable(done, cache')
        BY <1>3, <1>7, <3>2 DEF Refreshable, IInv, Sound
    <3>4. game' = Refresh(done, cache')
        BY <1>4, <2>1, <3>1
    <3> QED
        BY <1>3, <1>5, <3>3, <3>4, RefreshSound, ContinuesOn
  <2>2. CASE a \in Maps
    <3>1. game' = ApplyMap(done, a, cache')
        BY <1>4, <2>2, ClientAssumption
    <3> QED
        BY <1>3, <1>5, <2>2, <3>1, ApplyMapSound, ContinuesOn
  <2>3. CASE a \notin Images \cup Maps
    <3>1. game' = done
        BY <1>4, <2>3
    <3>2. Asked(done)
      <4>1. game.wanted # None => game.wanted \in Assets \ {a}
          BY <1>6, <2>3 DEF IInv, Sound, Games
      <4>2. game.images \subseteq Assets \ {a}
          BY <1>6, <2>3 DEF IInv, Sound, Games
      <4> QED
          BY <1>3, <4>1, <4>2 DEF IInv, Sound, Asked, Waiting
    <3> QED
        BY <1>3, <1>5, <1>7, <3>1, <3>2 DEF IInv, Sound
  <2> QED
      BY <2>1, <2>2, <2>3
<1> QED
    BY <1>1, <1>2, <1>8, HandlerIInv DEF Continues

LEMMA OnMapTransferIInv == ASSUME IInv, NEW m \in Maps, OnMapTransfer(m) PROVE IInv'
<1> DEFINE start == [game EXCEPT !.images = {}]
<1>1. Handle(MapTransfer(m)) /\ MapTransfer(m) \in Events /\ MapTransfer(m) # ConnectionFailed
      /\ MapTransfer(m) # Disconnected /\ cache' = cache
    BY DEF OnMapTransfer, Events, ToClient, MapTransfer, ConnectionFailed, Disconnected
<1>2. game' = Bootstrap(start, m, cache)
    BY DEF OnMapTransfer
<1>3. /\ start \in Games
      /\ start.images = {} /\ start.mode = game.mode /\ start.link = game.link
      /\ start.manifest = game.manifest /\ start.handshake = game.handshake
    BY DEF IInv, Sound, Games
<1> HIDE DEF start
<1>4. Sound(game', cache') /\ Continues(game, game')
    BY <1>1, <1>2, <1>3, BootstrapSound DEF Continues, Playing
<1> QED
    BY <1>1, <1>4, HandlerIInv DEF Continues, IInv

LEMMA HandleEventIInv == ASSUME IInv, HandleEvent PROVE IInv'
BY OnConnectedIInv, OnConnectionFailedIInv, OnDisconnectedIInv, OnHandshakeIInv,
   OnManifestIInv, OnBlobIInv, OnMapTransferIInv DEF HandleEvent

-----------------------------------------------------------------------------
(* The network *)

(* Between two batches whoever plays is connected. *)
LEMMA PlayingConnected ==
    ASSUME IInv, batch = <<>>, Playing(game)
    PROVE  game.link = "connected" /\ game.handshake /\ game.manifest
BY DEF IInv, LiveSession, EndsLost

LEMMA LeftIsFailures ==
    ASSUME unheard \in 0..2
    PROVE  /\ Left \in Seq(Events)
           /\ \A i \in 1..Len(Left) : Left[i] = ConnectionFailed
BY DEF Left, Events

LEMMA OfflineKeeps ==
    ASSUME NEW g \in Games
    PROVE  LET r == Offline(g)
           IN  /\ r \in Games
               /\ r.link = "none" /\ r.mode = g.mode /\ r.handshake = g.handshake
               /\ r.manifest = g.manifest /\ r.ready = g.ready
               /\ r.wanted = g.wanted /\ r.applied = g.applied
               /\ r.images = g.images /\ r.requests = g.requests
<1>1. <<>> \in Seq(ToServer) /\ <<>> \in Seq(ToClient)
    OBVIOUS
<1> QED
    BY <1>1 DEF Offline, Games

(* A batch that comes with the loss of the connection ends in it. *)
LEMMA ReceiveIInv == ASSUME IInv, Receive PROVE IInv'
<1> USE DEF IInv
<1>1. batch = <<>> /\ unheard' = 0 /\ cache' = cache /\ crashes' = crashes
    BY DEF Receive, Between
<1>2. PICK up \in BOOLEAN, down \in BOOLEAN, n \in 0..(Len(game.fromServer) + 1) :
          /\ up => game.link = "connecting"
          /\ n > 0 => up \/ game.link = "connected"
          /\ down => game.link # "none"
          /\ Arrives(up, n, down)
    BY DEF Receive
<1> DEFINE arrived == IF up THEN <<Handshake>> ELSE game.fromServer
           before == IF up THEN <<Connected>> ELSE <<>>
           heard == SubSeq(arrived, 1, n)
           after == IF down THEN <<Disconnected>> ELSE <<>>
           link == IF up THEN "connected" ELSE game.link
           now == [game EXCEPT !.link = IF up THEN "connected" ELSE @,
                               !.fromServer = SubSeq(arrived, n + 1, Len(arrived))]
<1>3. arrived \in Seq(ToClient)
  <2>1. game.fromServer \in Seq(ToClient) /\ Handshake \in ToClient
      BY DEF Sound, Games, ToClient
  <2>2. <<Handshake>> \in Seq(ToClient)
      BY <2>1
  <2> QED
      BY <2>1, <2>2
<1>4. /\ n \in 0..Len(arrived)
      /\ game' = IF down THEN Offline(now) ELSE now
      /\ batch' = Left \o before \o heard \o after
      /\ playerMap' = IF up THEN DefaultMap ELSE playerMap
    BY <1>2 DEF Arrives
<1> HIDE DEF arrived
<1>5. SubSeq(arrived, n + 1, Len(arrived)) \in Seq(ToClient) /\ heard \in Seq(ToClient)
    BY <1>3, <1>4
<1>6. /\ now \in Games /\ now.link = link
      /\ now.mode = game.mode /\ now.handshake = game.handshake
      /\ now.manifest = game.manifest /\ now.ready = game.ready
      /\ now.wanted = game.wanted /\ now.applied = game.applied
      /\ now.images = game.images /\ now.requests = game.requests
    BY <1>5 DEF Sound, Games
<1> HIDE DEF now
<1>7. /\ game' \in Games /\ game'.link = IF down THEN "none" ELSE link
      /\ game'.mode = game.mode /\ game'.handshake = game.handshake
      /\ game'.manifest = game.manifest /\ game'.ready = game.ready
      /\ game'.wanted = game.wanted /\ game'.applied = game.applied
      /\ game'.images = game.images /\ game'.requests = game.requests
    BY <1>4, <1>6, OfflineKeeps
<1>8. Left \in Seq(Events) /\ \A i \in 1..Len(Left) : Left[i] = ConnectionFailed
    BY LeftIsFailures
<1>9. heard \in Seq(Events)
    BY <1>5 DEF Events
<1>10. before \in Seq(Events) /\ after \in Seq(Events)
  <2>1. Connected \in Events /\ Disconnected \in Events
      BY DEF Events
  <2>2. <<Connected>> \in Seq(Events) /\ <<Disconnected>> \in Seq(Events)
      BY <2>1
  <2>3. <<>> \in Seq(Events)
      OBVIOUS
  <2> QED
      BY <2>2, <2>3
<1> HIDE DEF heard
<1>11. batch' \in Seq(Events)
    BY <1>4, <1>8, <1>9, <1>10
<1>12. up => ~game.manifest
    BY <1>2 DEF NothingYet
<1>13. Sound(game', cache')
    BY <1>1, <1>7, <1>12 DEF Sound, Drawable, Asked, Waiting
<1>14. LiveSession'
  <2> SUFFICES ASSUME Playing(game')
               PROVE  game'.handshake /\ game'.manifest /\ (game'.link = "connected" \/ EndsLost')
      BY DEF LiveSession
  <2>1. game.link = "connected" /\ game.handshake /\ game.manifest
      BY <1>1, <1>7, PlayingConnected DEF Playing
  <2>2. CASE down
    <3> DEFINE rest == Left \o before \o heard
    <3>1. rest \in Seq(Events)
        BY <1>8, <1>9, <1>10
    <3> HIDE DEF rest, before
    <3>2. batch' = rest \o <<Disconnected>>
        BY <1>4, <2>2 DEF rest
    <3>3. EndsLost'
        BY <3>1, <3>2 DEF EndsLost
    <3> QED
        BY <1>7, <2>1, <3>3
  <2>3. CASE ~down
      BY <1>7, <2>1, <2>3
  <2> QED
      BY <2>2, <2>3
<1>15. NothingYet'
  <2> SUFFICES ASSUME game'.link = "connecting"
               PROVE  ~game'.manifest /\ \A i \in 1..Len(batch') : batch'[i] = ConnectionFailed
      BY DEF NothingYet
  <2>1. ~up /\ ~down /\ game.link = "connecting" /\ n = 0
      BY <1>2, <1>7
  <2>2. heard = <<>>
      BY <1>3, <2>1 DEF heard
  <2>3. batch' = Left
      BY <1>4, <1>8, <2>1, <2>2
  <2> QED
      BY <1>7, <1>8, <2>1, <2>3 DEF NothingYet
<1> QED
    BY <1>1, <1>4, <1>11, <1>13, <1>14, <1>15, ClientAssumption

LEMMA ConnectTimeoutIInv == ASSUME IInv, ConnectTimeout PROVE IInv'
<1> USE DEF IInv
<1>1. /\ batch = <<>> /\ game.link = "connecting"
      /\ game' = Offline(game) /\ batch' = Left \o <<ConnectionFailed>>
      /\ unheard' = 0 /\ UNCHANGED <<cache, playerMap, crashes>>
    BY DEF ConnectTimeout, Between
<1>2. batch' \in Seq(Events)
    BY <1>1, LeftIsFailures DEF Events
<1>3. Sound(game', cache') /\ game'.link = "none" /\ game'.mode = game.mode
    BY <1>1, OfflineKeeps DEF Sound, Drawable, Asked, Waiting
<1>4. ~Playing(game')
    BY <1>1, <1>3, PlayingConnected DEF Playing
<1> QED
    BY <1>1, <1>2, <1>3, <1>4 DEF LiveSession, NothingYet

-----------------------------------------------------------------------------
(* Timers, keys and the server *)

LEMMA GivesUpIInv ==
    ASSUME IInv, game' = RetryWait(game),
           UNCHANGED <<batch, unheard, cache, playerMap, crashes>>
    PROVE  IInv'
<1>1. game'.manifest = game.manifest
    BY DEF IInv, Sound, Games, RetryWait, Offline
<1>2. Sound(game', cache) /\ Continues(game, game')
    BY RetryWaitSound DEF IInv, Sound
<1> QED
    BY <1>1, <1>2, StepIInv DEF IInv

LEMMA RequestTimeoutIInv == ASSUME IInv, NEW a \in Assets, RequestTimeout(a) PROVE IInv'
<1>1. UNCHANGED <<batch, unheard, cache, playerMap, crashes>>
    BY DEF RequestTimeout
<1>2. CASE game.requests[a] >= Tries
    BY <1>1, <1>2, GivesUpIInv DEF RequestTimeout
<1>3. CASE ~(game.requests[a] >= Tries)
  <2> DEFINE again == [game.requests EXCEPT ![a] = @ + 1]
  <2>1. game.requests \in [Assets -> 0..Tries] /\ game.toServer \in Seq(ToServer)
      BY DEF IInv, Sound, Games
  <2>2. again \in [Assets -> 0..Tries] /\ \A b \in Assets : game.requests[b] > 0 => again[b] > 0
      BY <1>3, <2>1, ClientAssumption
  <2>3. Append(game.toServer, AssetRequest(a)) \in Seq(ToServer)
      BY <2>1 DEF ToServer
  <2>4. game' = [game EXCEPT !.requests[a] = @ + 1, !.toServer = Append(@, AssetRequest(a))]
      BY <1>3 DEF RequestTimeout
  <2>5. game' = [game EXCEPT !.requests = again,
                             !.toServer = Append(game.toServer, AssetRequest(a))]
      BY <2>4 DEF IInv, Sound, Games
  <2> HIDE DEF again
  <2>6. /\ game' \in Games /\ game'.requests = again
        /\ game'.mode = game.mode /\ game'.link = game.link
        /\ game'.handshake = game.handshake /\ game'.manifest = game.manifest
        /\ game'.ready = game.ready /\ game'.wanted = game.wanted
        /\ game'.applied = game.applied /\ game'.images = game.images
      BY <2>2, <2>3, <2>5 DEF IInv, Sound, Games
  <2>7. /\ game.wanted # None => game.wanted \in Assets
        /\ game.images \subseteq Assets
      BY DEF IInv, Sound, Games, Assets
  <2>8. Sound(game', cache) /\ Continues(game, game')
      BY <2>2, <2>6, <2>7 DEF IInv, Sound, Drawable, Asked, Waiting, Continues, Playing
  <2> QED
      BY <1>1, <2>6, <2>8, StepIInv DEF IInv
<1> QED
    BY <1>2, <1>3

LEMMA TimersIInv == ASSUME IInv, Timers PROVE IInv'
<1>1. CASE ConnectTimeout
    BY <1>1, ConnectTimeoutIInv
<1>2. CASE ManifestTimeout
    BY <1>2, GivesUpIInv DEF ManifestTimeout
<1>3. ASSUME NEW a \in Assets, RequestTimeout(a) PROVE IInv'
    BY <1>3, RequestTimeoutIInv
<1>4. CASE Retry
    BY <1>4, BootIInv DEF Retry, IInv
<1>5. CASE EnterWorld
  <2>1. game' = [game EXCEPT !.mode = "World"] /\ Playing(game)
        /\ UNCHANGED <<batch, unheard, cache, playerMap, crashes>>
      BY <1>5 DEF EnterWorld, Playing
  <2>2. /\ game' \in Games
        /\ game'.link = game.link /\ game'.handshake = game.handshake
        /\ game'.manifest = game.manifest /\ game'.ready = game.ready
        /\ game'.wanted = game.wanted /\ game'.applied = game.applied
        /\ game'.images = game.images /\ game'.requests = game.requests
      BY <2>1 DEF IInv, Sound, Games, Modes
  <2>3. Sound(game', cache) /\ Continues(game, game')
      BY <2>1, <2>2 DEF IInv, Sound, Drawable, Asked, Waiting, Continues
  <2> QED
      BY <2>1, <2>2, <2>3, StepIInv DEF IInv
<1> QED
    BY <1>1, <1>2, <1>3, <1>4, <1>5 DEF Timers

(* The one way into play asks for the session that play needs. *)
LEMMA LoginIInv == ASSUME IInv, Login PROVE IInv'
<1>1. batch = <<>> /\ UNCHANGED <<batch, cache, playerMap, crashes>>
    BY DEF Login, Between
<1>2. CASE MayLogIn
  <2>1. game' = [game EXCEPT !.mode = "LoggingIn"] /\ unheard' = unheard
      BY <1>2 DEF Login
  <2>2. game.manifest /\ game.link = "connected" /\ game.handshake
      BY <1>2 DEF MayLogIn
  <2>3. /\ game' \in Games
        /\ game'.link = game.link /\ game'.handshake = game.handshake
        /\ game'.manifest = game.manifest /\ game'.ready = game.ready
        /\ game'.wanted = game.wanted /\ game'.applied = game.applied
        /\ game'.images = game.images /\ game'.requests = game.requests
      BY <2>1 DEF IInv, Sound, Games, Modes
  <2>4. Sound(game', cache')
      BY <1>1, <2>3 DEF IInv, Sound, Drawable, Asked, Waiting
  <2> QED
      BY <1>1, <2>1, <2>2, <2>3, <2>4 DEF IInv, LiveSession, NothingYet
<1>3. CASE ~MayLogIn
    BY <1>1, <1>3, BootIInv DEF Login, IInv
<1> QED
    BY <1>2, <1>3

(* What passes between the two sides leaves the rest of the game alone. *)
LEMMA PacketsIInv ==
    ASSUME IInv, NEW up \in Seq(ToServer), NEW down \in Seq(ToClient),
           game' = [game EXCEPT !.toServer = up, !.fromServer = down],
           UNCHANGED <<batch, unheard, cache, crashes>>, playerMap' \in Maps
    PROVE  IInv'
<1>1. /\ game' \in Games
      /\ game'.mode = game.mode
      /\ game'.link = game.link /\ game'.handshake = game.handshake
      /\ game'.manifest = game.manifest /\ game'.ready = game.ready
      /\ game'.wanted = game.wanted /\ game'.applied = game.applied
      /\ game'.images = game.images /\ game'.requests = game.requests
    BY DEF IInv, Sound, Games
<1>2. Sound(game', cache) /\ Continues(game, game')
    BY <1>1 DEF IInv, Sound, Drawable, Asked, Waiting, Continues, Playing
<1> QED
    BY <1>1, <1>2, StepIInv

LEMMA UsePortalIInv == ASSUME IInv, UsePortal PROVE IInv'
<1>1. /\ game.applied \in Maps
      /\ game.toServer \in Seq(ToServer) /\ game.fromServer \in Seq(ToClient)
    BY DEF UsePortal, IInv, Sound, Games
<1> DEFINE up == Append(game.toServer, Interact(game.applied))
<1>2. up \in Seq(ToServer)
    BY <1>1 DEF ToServer
<1>3. game' = [game EXCEPT !.toServer = up, !.fromServer = game.fromServer]
    BY DEF UsePortal, IInv, Sound, Games
<1> QED
    BY <1>1, <1>2, <1>3, PacketsIInv DEF UsePortal, IInv

LEMMA CrashIInv == ASSUME IInv, Crash PROVE IInv'
<1>1. cache' \in Files
    BY DEF Crash, IInv, Files, Assets
<1>2. crashes' \in 0..MaxCrashes
    BY ClientAssumption DEF Crash, IInv
<1> QED
    BY <1>1, <1>2, BootIInv DEF Crash

LEMMA AnswerIInv ==
    ASSUME IInv, NEW packet, Take(packet), NEW packets \in Seq(ToClient), Answer(packets),
           playerMap' \in Maps
    PROVE  IInv'
<1> DEFINE up == Tail(game.toServer)
           down == game.fromServer \o packets
<1>1. up \in Seq(ToServer) /\ down \in Seq(ToClient)
    BY DEF Take, IInv, Sound, Games
<1>2. game' = [game EXCEPT !.toServer = up, !.fromServer = down]
    BY DEF Answer, IInv, Sound, Games
<1> QED
    BY <1>1, <1>2, PacketsIInv DEF Take

LEMMA ServerIInv == ASSUME IInv, Server PROVE IInv'
<1>1. playerMap \in Maps
    BY DEF IInv
<1>2. <<>> \in Seq(ToClient)
    OBVIOUS
<1>3. CASE ServeProbe
  <2>1. Handshake \in ToClient /\ Manifest \in ToClient
      BY DEF ToClient
  <2>2. <<Handshake, Manifest>> \in Seq(ToClient)
      BY <2>1
  <2> QED
      BY <1>1, <1>3, <2>2, AnswerIInv DEF ServeProbe
<1>4. ASSUME NEW a \in Assets, ServeAsset(a) PROVE IInv'
  <2>1. Blob(a) \in ToClient
      BY DEF ToClient
  <2>2. <<Blob(a)>> \in Seq(ToClient)
      BY <2>1
  <2> QED
      BY <1>1, <1>2, <1>4, <2>2, AnswerIInv DEF ServeAsset
<1>5. ASSUME NEW m \in Maps, ServePortal(m) PROVE IInv'
  <2>1. CASE playerMap = m /\ Portals[m] # {}
    <3>1. PICK to \in Portals[m] : playerMap' = to /\ Answer(<<MapTransfer(to)>>)
        BY <1>5, <2>1 DEF ServePortal
    <3>2. to \in Maps
        BY <3>1, ClientAssumption
    <3>3. MapTransfer(to) \in ToClient
        BY <3>2 DEF ToClient
    <3>4. <<MapTransfer(to)>> \in Seq(ToClient)
        BY <3>3
    <3> QED
        BY <1>5, <3>1, <3>2, <3>4, AnswerIInv DEF ServePortal
  <2>2. CASE ~(playerMap = m /\ Portals[m] # {})
      BY <1>1, <1>2, <1>5, <2>2, AnswerIInv DEF ServePortal
  <2> QED
      BY <2>1, <2>2
<1> QED
    BY <1>3, <1>4, <1>5 DEF Server

LEMMA NextIInv == IInv /\ [Next]_vars => IInv'
<1> SUFFICES ASSUME IInv, [Next]_vars PROVE IInv'
    OBVIOUS
<1>1. CASE Receive
    BY <1>1, ReceiveIInv
<1>2. CASE HandleEvent
    BY <1>2, HandleEventIInv
<1>3. CASE Timers
    BY <1>3, TimersIInv
<1>4. CASE Keys
  <2>1. CASE Login
      BY <2>1, LoginIInv
  <2>2. CASE Reconnect
      BY <2>2, BootIInv DEF Reconnect, Between, IInv
  <2>3. CASE UsePortal
      BY <2>3, UsePortalIInv
  <2> QED
      BY <1>4, <2>1, <2>2, <2>3 DEF Keys
<1>5. CASE Crash
    BY <1>5, CrashIInv
<1>6. CASE Server
    BY <1>6, ServerIInv
<1>7. CASE UNCHANGED vars
    BY <1>7 DEF vars, IInv, LiveSession, NothingYet, EndsLost
<1> QED
    BY <1>1, <1>2, <1>3, <1>4, <1>5, <1>6, <1>7 DEF Next

LEMMA IInvHolds == Spec => []IInv
BY InitIInv, NextIInv, PTL DEF Spec

-----------------------------------------------------------------------------

(* The game, the events of a frame, the cache and the server's view of the *)
(* player stay what the code's types and tables allow, for any assets.     *)
THEOREM TypeCorrect == Spec => []TypeOK
<1>1. IInv => TypeOK
    BY DEF IInv, Sound, TypeOK, Files
<1> QED
    BY <1>1, IInvHolds, PTL

(* However the connection is lost and made, and wherever in a frame that   *)
(* is noticed, nobody logs in or plays without a session.                  *)
THEOREM NobodyPlaysAlone == Spec => []SessionBehindWorld
<1>1. IInv => SessionBehindWorld
    BY PlayingConnected DEF SessionBehindWorld, Playing
<1> QED
    BY <1>1, IInvHolds, PTL

(* No map and no image that a connected client waits for is forgotten, for *)
(* any number of maps that share any images.                               *)
THEOREM NothingIsForgotten == Spec => []MissingIsRequested
<1>1. IInv => MissingIsRequested
    BY DEF IInv, Sound, Asked, Waiting, MissingIsRequested
<1> QED
    BY <1>1, IInvHolds, PTL

(* No map becomes or stays ready without its images. *)
THEOREM ReadyMeansDrawable == Spec => []ReadyIsDrawable
<1>1. IInv => ReadyIsDrawable
    BY DEF IInv, Sound, Drawable, ReadyIsDrawable
<1> QED
    BY <1>1, IInvHolds, PTL

-----------------------------------------------------------------------------
(* The map under the player                                                *)
(*                                                                         *)
(* What is under way to the client leads from the map it shows, or waits   *)
(* for, to the map the server has it on: a path from map to map, along     *)
(* which every answer finds the client on the map it was asked for.        *)

Underway == batch \o game.fromServer

(* The map that the client shows or waits for. *)
Here(g) ==
    IF g.wanted # None THEN g.wanted
    ELSE IF g.applied # None THEN g.applied ELSE DefaultMap

AllWhole(files) == \A m \in Maps : files[m] = "whole"

(* A client only leaves, and asks for images on, a map whose file it has,  *)
(* and is only answered with a map while it is there.                      *)
IsPath(h, c, from, to, files) ==
    /\ h[0] = from
    /\ \A k \in 1..Len(c) :
          /\ h[k] = IF c[k].kind = "MapTransfer" THEN c[k].map ELSE h[k - 1]
          /\ c[k].kind = "MapTransfer" => files[h[k - 1]] = "whole"
          /\ c[k].kind = "AssetBlob" =>
                /\ c[k].asset \in Maps => h[k - 1] = c[k].asset
                /\ c[k].asset \in Images => files[h[k - 1]] = "whole"
    /\ h[Len(c)] = to

Path(c, from, to, files) ==
    \E h \in [0..Len(c) -> Maps] : IsPath(h, c, from, to, files)

Leaves(c, m) == \E k \in 1..Len(c) : c[k] = Interact(m)

(* The requests that will be answered while the player is on m. *)
Asks(c, m, files) ==
    \A k \in 1..Len(c) :
       /\ c[k].kind = "Interact" => files[c[k].map] = "whole"
       /\ c[k].kind = "AssetRequest" =>
             /\ c[k].asset \in Maps =>
                   c[k].asset = m /\ \A j \in 1..(k - 1) : c[j] # Interact(m)
             /\ c[k].asset \in Images =>
                   /\ files[m] = "whole"
                   /\ AllWhole(files) \/ \A j \in 1..(k - 1) : c[j] # Interact(m)

(* Nothing is asked for that is there, a map only when it is wanted, and   *)
(* whoever plays has all of the start map.                                 *)
Planned(g, files) ==
    /\ \A a \in Assets : g.requests[a] > 0 => files[a] # "whole"
    /\ \A m \in Maps : g.requests[m] > 0 => g.wanted = m
    /\ \A i \in Images : g.requests[i] > 0 =>
          g.applied # None /\ (i \in References[DefaultMap] \/ AllWhole(files))
    /\ g.applied # None => files[g.applied] = "whole" /\ files[DefaultMap] = "whole"
    /\ g.wanted # None => files[g.wanted] # "whole" /\ ~g.ready
    /\ IF Playing(g) THEN /\ g.applied # None
                          /\ Missing(files, References[DefaultMap]) = {}
       ELSE g.wanted \in {None, DefaultMap} /\ g.applied \in {None, DefaultMap}

(* A session asks for the manifest once, and gets it before anybody plays. *)
Probe(e) == e.kind \in {"Connected", "UpdateProbe", "AssetManifest"}

Unprobed(c) == \A k \in 1..Len(c) : ~Probe(c[k])

OneProbe(c) == \A j, k \in 1..Len(c) : Probe(c[j]) /\ Probe(c[k]) => j = k

ProbedOnce(c, d, known) ==
    /\ OneProbe(c) /\ OneProbe(d)
    /\ Unprobed(c) \/ Unprobed(d)
    /\ known => Unprobed(c) /\ Unprobed(d)

(* Nobody travels before playing. *)
AtHome(c, d, m) ==
    /\ m = DefaultMap
    /\ \A k \in 1..Len(c) : c[k].kind # "MapTransfer"
    /\ \A k \in 1..Len(d) : d[k].kind # "Interact"

Unbroken(c, playing) ==
    \A k \in 1..Len(c) : c[k] # Disconnected /\ (c[k] = ConnectionFailed => ~playing)

Way(c, g, m, files) ==
    /\ Path(c, Here(g), m, files)
    /\ Asks(g.toServer, m, files)
    /\ Planned(g, files)
    /\ Playing(g) \/ AtHome(c, g.toServer, m)
    /\ Unbroken(c, Playing(g))
    /\ ProbedOnce(c, g.toServer, g.manifest)

WayInv ==
    /\ game.link = "connected" => unheard = 0 /\ Way(Underway, game, playerMap, cache)
    /\ game.link = "connecting" => game = [Fresh EXCEPT !.link = "connecting"]

(* The start map and at most one more. *)
TwoMaps == \E other \in Maps : Maps = {DefaultMap, other}

-----------------------------------------------------------------------------
(* Paths *)

(* A set of numbers that is not empty has a least. *)
LEMMA SomeLeast ==
    ASSUME NEW S \in SUBSET Nat, S # {}
    PROVE  \E s \in S : \A other \in S : s <= other
<1> DEFINE R == {ss \in Nat \X Nat : ss[1] < ss[2]}
<1>1. OpToRel(<, Nat) = R
    BY DEF OpToRel
<1>2. IsWellFoundedOn(R, Nat)
    BY <1>1, NatLessThanWellFounded
<1>3. PICK s \in S : \A other \in S : <<other, s>> \notin R
  <2> HIDE DEF R
  <2> QED
      BY <1>2, WFMin, Zenon
<1>4. ASSUME NEW other \in S PROVE s <= other
  <2>1. <<other, s>> \notin R
      BY <1>3
  <2>2. <<other, s>> \in Nat \X Nat
      OBVIOUS
  <2> QED
      BY <2>1, <2>2
<1> QED
    BY <1>4

(* A path without transfers, or from a map whose file is not there, stays  *)
(* where it is.                                                            *)
LEMMA PathStays ==
    ASSUME NEW c \in Seq(Events), NEW from, NEW to, NEW files, Path(c, from, to, files),
           \/ files[from] # "whole"
           \/ \A k \in 1..Len(c) : c[k].kind # "MapTransfer"
    PROVE  /\ to = from
           /\ \A k \in 1..Len(c) :
                 /\ c[k].kind # "MapTransfer"
                 /\ c[k].kind = "AssetBlob" =>
                       /\ c[k].asset \in Maps => from = c[k].asset
                       /\ c[k].asset \in Images => files[from] = "whole"
<1>1. PICK h \in [0..Len(c) -> Maps] : IsPath(h, c, from, to, files)
    BY DEF Path
<1> DEFINE gone == {k \in 0..Len(c) : h[k] # from}
<1>2. Len(c) \in Nat
    OBVIOUS
<1>3. gone = {}
  <2> SUFFICES ASSUME gone # {} PROVE FALSE
      OBVIOUS
  <2>1. gone \in SUBSET Nat
      OBVIOUS
  <2>2. PICK k \in gone : \A j \in gone : k <= j
    <3> HIDE DEF gone
    <3> QED
        BY <2>1, SomeLeast
  <2>3. k \in 0..Len(c) /\ h[k] # from /\ k # 0
      BY <1>1 DEF IsPath
  <2>4. k \in 1..Len(c) /\ k - 1 \in 0..Len(c) /\ ~(k <= k - 1)
      BY <1>2, <2>3
  <2>5. h[k - 1] = from
      BY <2>2, <2>4
  <2> HIDE DEF gone
  <2> QED
      BY <1>1, <2>3, <2>4, <2>5 DEF IsPath
<1>4. \A k \in 0..Len(c) : h[k] = from
    BY <1>3
<1>5. \A k \in 1..Len(c) : k \in 0..Len(c) /\ k - 1 \in 0..Len(c)
    BY <1>2
<1> HIDE DEF gone
<1> QED
    BY <1>1, <1>2, <1>4, <1>5 DEF IsPath

(* What a handler finds: the first event on the path, and the rest of it. *)
LEMMA PathTail ==
    ASSUME NEW c \in Seq(Events), c # <<>>, NEW from, NEW to, NEW files,
           Path(c, from, to, files)
    PROVE  /\ Path(Tail(c), IF c[1].kind = "MapTransfer" THEN c[1].map ELSE from, to, files)
           /\ c[1].kind = "MapTransfer" => files[from] = "whole"
           /\ c[1].kind = "AssetBlob" =>
                 /\ c[1].asset \in Maps => from = c[1].asset
                 /\ c[1].asset \in Images => files[from] = "whole"
<1>1. PICK h \in [0..Len(c) -> Maps] : IsPath(h, c, from, to, files)
    BY DEF Path
<1> DEFINE d == Tail(c)
           n == Len(c)
           g == [j \in 0..(n - 1) |-> h[j + 1]]
           next == IF c[1].kind = "MapTransfer" THEN c[1].map ELSE from
<1>2. /\ n \in Nat /\ n > 0 /\ 1 \in 1..n
      /\ Len(d) = n - 1
      /\ \A j \in 1..(n - 1) : d[j] = c[j + 1]
    OBVIOUS
<1>3. g \in [0..Len(d) -> Maps]
    BY <1>2
<1>4. h[0] = from /\ h[1] = next
    BY <1>1, <1>2 DEF IsPath
<1>5. g[0] = next /\ g[Len(d)] = to
    BY <1>1, <1>2, <1>4 DEF IsPath
<1>6. ASSUME NEW j \in 1..Len(d)
      PROVE  /\ g[j] = IF d[j].kind = "MapTransfer" THEN d[j].map ELSE g[j - 1]
             /\ d[j].kind = "MapTransfer" => files[g[j - 1]] = "whole"
             /\ d[j].kind = "AssetBlob" =>
                   /\ d[j].asset \in Maps => g[j - 1] = d[j].asset
                   /\ d[j].asset \in Images => files[g[j - 1]] = "whole"
  <2>1. j + 1 \in 1..n /\ g[j] = h[j + 1] /\ g[j - 1] = h[j] /\ d[j] = c[j + 1]
        /\ (j + 1) - 1 = j
      BY <1>2
  <2> HIDE DEF g, d, n
  <2>2. h[j + 1] = IF c[j + 1].kind = "MapTransfer" THEN c[j + 1].map ELSE h[(j + 1) - 1]
      BY <1>1, <2>1 DEF IsPath, n
  <2> QED
      BY <1>1, <2>1, <2>2 DEF IsPath, n
<1> HIDE DEF g, d, n, next
<1>7. Path(d, next, to, files)
    BY <1>3, <1>5, <1>6 DEF Path, IsPath
<1> QED
    BY <1>1, <1>2, <1>4, <1>7 DEF IsPath, d, n, next

(* What the server adds: one more event at the end of the path. *)
LEMMA PathAppend ==
    ASSUME NEW c \in Seq(Events), NEW from, NEW to, NEW files, Path(c, from, to, files),
           NEW e, NEW next \in Maps,
           next = IF e.kind = "MapTransfer" THEN e.map ELSE to,
           e.kind = "MapTransfer" => files[to] = "whole",
           e.kind = "AssetBlob" => /\ e.asset \in Maps => to = e.asset
                                   /\ e.asset \in Images => files[to] = "whole"
    PROVE  Path(Append(c, e), from, next, files)
<1>1. PICK h \in [0..Len(c) -> Maps] : IsPath(h, c, from, to, files)
    BY DEF Path
<1> DEFINE d == Append(c, e)
           n == Len(c)
           g == [j \in 0..(n + 1) |-> IF j <= n THEN h[j] ELSE next]
<1>2. n \in Nat /\ Len(d) = n + 1 /\ d[n + 1] = e /\ \A j \in 1..n : d[j] = c[j]
    OBVIOUS
<1>3. g \in [0..Len(d) -> Maps]
    BY <1>2
<1>4. g[0] = h[0] /\ g[n] = h[n] /\ g[n + 1] = next
    BY <1>2
<1>5. \A j \in 1..n : g[j - 1] = h[j - 1] /\ g[j] = h[j]
    BY <1>2
<1>6. h[0] = from /\ h[n] = to
    BY <1>1 DEF IsPath
<1>7. ASSUME NEW j \in 1..Len(d)
      PROVE  /\ g[j] = IF d[j].kind = "MapTransfer" THEN d[j].map ELSE g[j - 1]
             /\ d[j].kind = "MapTransfer" => files[g[j - 1]] = "whole"
             /\ d[j].kind = "AssetBlob" =>
                   /\ d[j].asset \in Maps => g[j - 1] = d[j].asset
                   /\ d[j].asset \in Images => files[g[j - 1]] = "whole"
  <2>1. CASE j \in 1..n
      BY <1>1, <1>2, <1>5, <2>1 DEF IsPath
  <2>2. CASE j = n + 1
    <3>1. j - 1 = n /\ d[j] = e /\ g[j] = next /\ g[j - 1] = to
        BY <1>2, <1>4, <1>6, <2>2
    <3> HIDE DEF g, d, n
    <3> QED
        BY <3>1
  <2> QED
      BY <1>2, <2>1, <2>2
<1> HIDE DEF g, d, n
<1> QED
    BY <1>2, <1>3, <1>4, <1>6, <1>7 DEF Path, IsPath, d

(* Files that arrive block no path. *)
LEMMA PathGrows ==
    ASSUME NEW c, NEW from, NEW to, NEW files, NEW more, Path(c, from, to, files),
           Len(c) \in Nat, \A m \in Maps : files[m] = "whole" => more[m] = "whole"
    PROVE  Path(c, from, to, more)
<1>1. PICK h \in [0..Len(c) -> Maps] : IsPath(h, c, from, to, files)
    BY DEF Path
<1>2. \A k \in 1..Len(c) : h[k - 1] \in Maps
    OBVIOUS
<1> QED
    BY <1>1, <1>2 DEF Path, IsPath

-----------------------------------------------------------------------------
(* What the helpers ask for *)

(* From g to r, nothing but assets of A is asked for. *)
AsksFor(g, r, A) ==
    /\ \A a \in Assets : r.requests[a] > 0 => g.requests[a] > 0 \/ a \in A
    /\ \E row \in Seq({AssetRequest(a) : a \in A}) : r.toServer = g.toServer \o row

(* From g to r, the session is the same. *)
SameSession(g, r) ==
    /\ r.link = g.link /\ r.manifest = g.manifest /\ r.fromServer = g.fromServer
    /\ Playing(r) <=> Playing(g)

LEMMA AsksForNothing ==
    ASSUME NEW g, NEW r, NEW A, g.toServer \in Seq(ToServer),
           r.requests = g.requests, r.toServer = g.toServer
    PROVE  AsksFor(g, r, A)
<1>1. <<>> \in Seq({AssetRequest(a) : a \in A}) /\ g.toServer = g.toServer \o <<>>
    OBVIOUS
<1> QED
    BY <1>1 DEF AsksFor

LEMMA RequestAdds ==
    ASSUME NEW g \in Games, NEW A \in SUBSET Assets
    PROVE  LET r == Request(g, A) IN AsksFor(g, r, A)
<1> DEFINE r == Request(g, A)
           new == {a \in A : g.requests[a] = 0}
           row == SetToSeq({AssetRequest(a) : a \in new})
           asked == [a \in Assets |-> IF a \in new THEN 1 ELSE g.requests[a]]
<1>1. CASE g.link # "connected"
  <2>1. r = g
      BY <1>1 DEF Request
  <2> QED
      BY <2>1, AsksForNothing DEF Games
<1>2. CASE g.link = "connected"
  <2>1. r = [g EXCEPT !.requests = asked, !.toServer = g.toServer \o row]
      BY <1>2 DEF Request, Games
  <2>2. r.requests = asked /\ r.toServer = g.toServer \o row
      BY <2>1 DEF Games
  <2>3. IsFiniteSet({AssetRequest(a) : a \in new})
    <3>1. IsFiniteSet(new)
        BY ClientAssumption, FS_Subset DEF Assets
    <3>2. [a \in new |-> AssetRequest(a)] \in Surjection(new, {AssetRequest(a) : a \in new})
        BY DEF Surjection
    <3> QED
        BY <3>1, <3>2, FS_Surjection DEF ExistsSurjection
  <2>4. row \in Seq({AssetRequest(a) : a \in A})
    <3>1. row \in Seq({AssetRequest(a) : a \in new})
        BY <2>3, SetToSeqIsSeq
    <3>2. {AssetRequest(a) : a \in new} \subseteq {AssetRequest(a) : a \in A}
        OBVIOUS
    <3> HIDE DEF row
    <3> QED
        BY <3>1, <3>2
  <2> HIDE DEF row, r
  <2>5. AsksFor(g, r, A)
      BY <2>2, <2>4 DEF AsksFor
  <2> QED
      BY <2>5 DEF r
<1> QED
    BY <1>1, <1>2

LEMMA RequestImagesAdds ==
    ASSUME NEW g \in Games, g.applied \in Maps, NEW files
    PROVE  LET r == RequestImages(g, files)
           IN  AsksFor(g, r, Missing(files, References[g.applied]))
<1> DEFINE missing == Missing(files, References[g.applied])
           chosen == [g EXCEPT !.images = missing]
           r == Request(chosen, missing)
<1>1. missing \subseteq Images
    BY MissingIn, ClientAssumption
<1> HIDE DEF missing
<1>2. chosen \in Games /\ missing \in SUBSET Assets
    BY <1>1 DEF Games, Assets
<1>3. chosen.requests = g.requests /\ chosen.toServer = g.toServer
    BY DEF Games
<1>4. AsksFor(chosen, r, missing)
    <2> HIDE DEF chosen
    <2> QED
        BY <1>2, RequestAdds
<1>5. AsksFor(g, r, missing)
    <2> HIDE DEF chosen, r
    <2> QED
        BY <1>3, <1>4 DEF AsksFor
<1>6. RequestImages(g, files) = r
    BY DEF RequestImages, missing
<1> HIDE DEF r
<1> QED
    BY <1>5, <1>6 DEF missing

LEMMA RefreshAdds ==
    ASSUME NEW g \in Games, NEW files
    PROVE  LET r == Refresh(g, files)
           IN  /\ r.wanted = g.wanted /\ r.applied = g.applied
               /\ SameSession(g, r)
               /\ AsksFor(g, r, IF g.applied = None THEN {}
                                ELSE Missing(files, References[g.applied]))
<1> DEFINE left == Missing(files, g.images)
           rest == [g EXCEPT !.images = left]
           A == IF g.applied = None THEN {} ELSE Missing(files, References[g.applied])
<1>1. left \subseteq Images
    BY MissingIn DEF Games
<1>2. rest \in Games
    BY <1>1 DEF Games
<1>3. /\ rest.images = left /\ rest.ready = g.ready /\ rest.applied = g.applied
      /\ rest.wanted = g.wanted /\ rest.requests = g.requests /\ rest.toServer = g.toServer
      /\ rest.link = g.link /\ rest.mode = g.mode /\ rest.manifest = g.manifest
      /\ rest.fromServer = g.fromServer
    BY DEF Games
<1>4. g.toServer \in Seq(ToServer)
    BY DEF Games
<1> HIDE DEF rest
<1>5. CASE g.applied = None
  <2>1. Refresh(g, files) = g
      BY <1>5 DEF Refresh
  <2> QED
      BY <1>4, <2>1, AsksForNothing DEF SameSession
<1>6. CASE g.applied # None /\ left # {}
  <2> DEFINE r == [rest EXCEPT !.ready = FALSE]
  <2>1. Refresh(g, files) = r
      BY <1>3, <1>6 DEF Refresh, rest
  <2>2. /\ r.applied = g.applied /\ r.wanted = g.wanted
        /\ r.requests = g.requests /\ r.toServer = g.toServer /\ r.link = g.link
        /\ r.mode = g.mode /\ r.manifest = g.manifest /\ r.fromServer = g.fromServer
      BY <1>2, <1>3 DEF Games
  <2> HIDE DEF r
  <2> QED
      BY <1>4, <2>1, <2>2, AsksForNothing DEF SameSession, Playing
<1>7. CASE g.applied # None /\ left = {} /\ g.ready
  <2>1. Refresh(g, files) = rest
      BY <1>3, <1>7 DEF Refresh, rest
  <2> QED
      BY <1>3, <1>4, <2>1, AsksForNothing DEF SameSession, Playing
<1>8. CASE g.applied # None /\ left = {} /\ ~g.ready
           /\ Missing(files, References[g.applied]) = {}
  <2> DEFINE drawn == [rest EXCEPT !.ready = TRUE,
                                   !.mode = IF @ = "Boot" THEN "MainMenu" ELSE @]
  <2>1. Refresh(g, files) = drawn
      BY <1>3, <1>8 DEF Refresh, rest
  <2>2. /\ drawn.applied = g.applied /\ drawn.wanted = g.wanted
        /\ drawn.requests = g.requests /\ drawn.toServer = g.toServer
        /\ drawn.link = g.link /\ drawn.manifest = g.manifest
        /\ drawn.fromServer = g.fromServer
        /\ drawn.mode = IF g.mode = "Boot" THEN "MainMenu" ELSE g.mode
      BY <1>2, <1>3 DEF Games, Modes
  <2> HIDE DEF drawn
  <2> QED
      BY <1>4, <2>1, <2>2, AsksForNothing DEF SameSession, Playing
<1>9. CASE g.applied # None /\ left = {} /\ ~g.ready
           /\ Missing(files, References[g.applied]) # {}
  <2> DEFINE r == RequestImages(rest, files)
             missing == Missing(files, References[rest.applied])
  <2>1. Refresh(g, files) = r
      BY <1>3, <1>9 DEF Refresh, rest
  <2>2. rest.applied \in Maps
      BY <1>2, <1>3, <1>9 DEF Games
  <2>3. /\ r = [rest EXCEPT !.images = missing, !.requests = r.requests,
                            !.toServer = r.toServer]
        /\ AsksFor(rest, r, missing)
      BY <1>2, <1>3, <2>2, RequestImagesAsks, RequestImagesAdds
  <2> HIDE DEF r
  <2>4. /\ r.applied = g.applied /\ r.wanted = g.wanted /\ r.link = g.link
        /\ r.mode = g.mode /\ r.manifest = g.manifest /\ r.fromServer = g.fromServer
    <3> HIDE DEF missing
    <3> QED
        BY <1>2, <1>3, <2>3 DEF Games
  <2>5. AsksFor(g, r, Missing(files, References[g.applied]))
      BY <1>3, <2>3 DEF AsksFor
  <2> QED
      BY <1>9, <2>1, <2>4, <2>5 DEF SameSession, Playing
<1> QED
    BY <1>5, <1>6, <1>7, <1>8, <1>9

LEMMA Joined ==
    ASSUME NEW S, NEW a \in Seq(S), NEW b \in Seq(S), NEW c \in Seq(S)
    PROVE  (a \o b) \o c = a \o (b \o c)
BY ConcatAssociative

(* One helper after another. *)
LEMMA AsksOn ==
    ASSUME NEW g, NEW h, NEW r, NEW A, g.toServer \in Seq(ToServer),
           AsksFor(g, h, A), AsksFor(h, r, A), A \subseteq Assets
    PROVE  AsksFor(g, r, A)
<1>1. PICK one \in Seq({AssetRequest(a) : a \in A}) : h.toServer = g.toServer \o one
    BY DEF AsksFor
<1>2. PICK two \in Seq({AssetRequest(a) : a \in A}) : r.toServer = h.toServer \o two
    BY DEF AsksFor
<1>3. one \o two \in Seq({AssetRequest(a) : a \in A})
    OBVIOUS
<1>4. r.toServer = g.toServer \o (one \o two)
  <2>1. g.toServer \in Seq(ToServer)
      OBVIOUS
  <2>2. {AssetRequest(a) : a \in A} \subseteq ToServer
      BY DEF ToServer
  <2>3. one \in Seq(ToServer) /\ two \in Seq(ToServer)
      BY <2>2
  <2>4. \A a, b, c \in Seq(ToServer) : (a \o b) \o c = a \o (b \o c)
      BY Joined
  <2>5. (g.toServer \o one) \o two = g.toServer \o (one \o two)
      BY <2>1, <2>3, <2>4, Zenon
  <2> QED
      BY <1>1, <1>2, <2>5
<1> QED
    BY <1>3, <1>4 DEF AsksFor

LEMMA ApplyMapAdds ==
    ASSUME NEW g \in Games, NEW m \in Maps, NEW files
    PROVE  LET r == ApplyMap(g, m, files)
           IN  /\ r.wanted = None /\ r.applied = m
               /\ SameSession(g, r)
               /\ AsksFor(g, r, Missing(files, References[m]))
<1> DEFINE start == [g EXCEPT !.ready = FALSE, !.wanted = None, !.applied = m]
           missing == Missing(files, References[start.applied])
           q == RequestImages(start, files)
           A == Missing(files, References[m])
<1>1. start \in Games
    BY DEF Games
<1>2. /\ start.wanted = None /\ start.applied = m
      /\ start.requests = g.requests /\ start.toServer = g.toServer
      /\ start.link = g.link /\ start.mode = g.mode
      /\ start.manifest = g.manifest /\ start.fromServer = g.fromServer
    BY DEF Games
<1> HIDE DEF start
<1>3. /\ q \in Games
      /\ q = [start EXCEPT !.images = missing, !.requests = q.requests,
                           !.toServer = q.toServer]
      /\ AsksFor(start, q, missing)
    BY <1>1, <1>2, RequestImagesAsks, RequestImagesAdds
<1> HIDE DEF q
<1>4. /\ q.wanted = None /\ q.applied = m
      /\ q.link = g.link /\ q.mode = g.mode
      /\ q.manifest = g.manifest /\ q.fromServer = g.fromServer
    <2> HIDE DEF missing
    <2> QED
        BY <1>1, <1>2, <1>3 DEF Games
<1>5. AsksFor(g, q, A)
    BY <1>2, <1>3 DEF AsksFor
<1> DEFINE r == Refresh(q, files)
<1>6. /\ r.wanted = q.wanted /\ r.applied = q.applied
      /\ SameSession(q, r)
      /\ AsksFor(q, r, IF q.applied = None THEN {} ELSE Missing(files, References[q.applied]))
    BY <1>3, RefreshAdds
<1>7. ApplyMap(g, m, files) = r
    BY DEF ApplyMap, q, start
<1> HIDE DEF r
<1>8. AsksFor(q, r, A)
    BY <1>4, <1>6, NoMapIsNone
<1>9. A \subseteq Assets /\ g.toServer \in Seq(ToServer)
  <2>1. A \subseteq References[m] /\ References[m] \subseteq Images
      BY MissingIn, ClientAssumption
  <2> HIDE DEF A
  <2> QED
      BY <2>1 DEF Assets, Games
<1>10. AsksFor(g, r, A)
  <2> HIDE DEF A
  <2> QED
      BY <1>5, <1>8, <1>9, AsksOn
<1>11. SameSession(g, r)
    BY <1>4, <1>6 DEF SameSession, Playing
<1> QED
    BY <1>4, <1>6, <1>7, <1>10, <1>11

LEMMA BootstrapAdds ==
    ASSUME NEW g \in Games, NEW m \in Maps, NEW files,
           Bootstrap(g, m, files).link = "connected"
    PROVE  LET r == Bootstrap(g, m, files)
           IN  /\ SameSession(g, r)
               /\ IF files[m] = "whole"
                  THEN /\ r.wanted = None /\ r.applied = m
                       /\ AsksFor(g, r, Missing(files, References[m]))
                  ELSE /\ r.wanted = m /\ r.applied = g.applied /\ ~r.ready
                       /\ AsksFor(g, r, {m})
<1> DEFINE next == [g EXCEPT !.ready = FALSE, !.wanted = m]
           r == Bootstrap(g, m, files)
<1>1. next \in Games
    BY DEF Games
<1>2. /\ ~next.ready /\ next.wanted = m /\ next.applied = g.applied
      /\ next.requests = g.requests /\ next.toServer = g.toServer
      /\ next.link = g.link /\ next.mode = g.mode
      /\ next.manifest = g.manifest /\ next.fromServer = g.fromServer
    BY DEF Games
<1> HIDE DEF next
<1>3. CASE files[m] = "whole"
  <2>1. r = ApplyMap(next, m, files)
      BY <1>2, <1>3 DEF Bootstrap, next
  <2> HIDE DEF r
  <2>2. /\ r.wanted = None /\ r.applied = m /\ SameSession(next, r)
        /\ AsksFor(next, r, Missing(files, References[m]))
      BY <1>1, <2>1, ApplyMapAdds
  <2> QED
      BY <1>2, <1>3, <2>2 DEF SameSession, Playing, AsksFor, r
<1>4. CASE files[m] # "whole"
  <2>1. RetryWait(next).link = "none"
      BY <1>1 DEF RetryWait, Offline, Games
  <2>2. r # RetryWait(next)
      BY <2>1
  <2>3. r = Request(next, {m})
      BY <1>2, <1>4, <2>2 DEF Bootstrap, next
  <2>4. {m} \in SUBSET Assets
      BY DEF Assets
  <2> HIDE DEF r
  <2>5. r = [next EXCEPT !.requests = r.requests, !.toServer = r.toServer]
        /\ AsksFor(next, r, {m})
      BY <1>1, <2>3, <2>4, RequestAsks, RequestAdds
  <2>6. /\ ~r.ready /\ r.wanted = m /\ r.applied = g.applied
        /\ r.link = g.link /\ r.mode = g.mode
        /\ r.manifest = g.manifest /\ r.fromServer = g.fromServer
      BY <1>1, <1>2, <2>5 DEF Games
  <2> QED
      BY <1>2, <1>4, <2>5, <2>6 DEF SameSession, Playing, AsksFor, r
<1> QED
    BY <1>3, <1>4

-----------------------------------------------------------------------------
(* What one end of a channel does to it *)

LEMMA TailOfJoined ==
    ASSUME NEW S, NEW s \in Seq(S), NEW t \in Seq(S), s # <<>>
    PROVE  /\ s \o t # <<>> /\ (s \o t)[1] = s[1]
           /\ Tail(s) \o t = Tail(s \o t)
<1>1. Len(s) \in Nat /\ Len(s) > 0 /\ Len(t) \in Nat
    OBVIOUS
<1>2. /\ Tail(s) \in Seq(S) /\ Len(Tail(s)) = Len(s) - 1
      /\ \A i \in 1..(Len(s) - 1) : Tail(s)[i] = s[i + 1]
    BY <1>1
<1>3. /\ s \o t \in Seq(S) /\ Len(s \o t) = Len(s) + Len(t)
      /\ \A i \in 1..(Len(s) + Len(t)) :
            (s \o t)[i] = IF i <= Len(s) THEN s[i] ELSE t[i - Len(s)]
    BY ConcatProperties
<1>4. s \o t # <<>> /\ (s \o t)[1] = s[1]
    BY <1>1, <1>3
<1>5. /\ Tail(s \o t) \in Seq(S) /\ Len(Tail(s \o t)) = Len(s) + Len(t) - 1
      /\ \A i \in 1..(Len(s) + Len(t) - 1) : Tail(s \o t)[i] = (s \o t)[i + 1]
    BY <1>1, <1>3, <1>4, HeadTailProperties
<1>6. /\ Tail(s) \o t \in Seq(S) /\ Len(Tail(s) \o t) = Len(s) + Len(t) - 1
      /\ \A i \in 1..(Len(s) + Len(t) - 1) :
            (Tail(s) \o t)[i] = IF i <= Len(s) - 1 THEN Tail(s)[i] ELSE t[i - (Len(s) - 1)]
    BY <1>1, <1>2, ConcatProperties
<1>7. \A i \in 1..(Len(s) + Len(t) - 1) : (Tail(s) \o t)[i] = Tail(s \o t)[i]
    BY <1>1, <1>2, <1>3, <1>5, <1>6
<1> QED
    BY <1>4, <1>5, <1>6, <1>7, SeqEqual

LEMMA UnderwayFacts ==
    ASSUME IInv
    PROVE  /\ Underway \in Seq(Events) /\ batch \in Seq(Events)
           /\ game.fromServer \in Seq(ToClient) /\ game.fromServer \in Seq(Events)
           /\ game.toServer \in Seq(ToServer)
           /\ game \in Games /\ playerMap \in Maps /\ cache \in Files
<1>1. game.fromServer \in Seq(ToClient) /\ game.toServer \in Seq(ToServer)
    BY DEF IInv, Sound, Games
<1>2. ToClient \subseteq Events
    BY DEF Events
<1>3. game.fromServer \in Seq(Events) /\ batch \in Seq(Events)
    BY <1>1, <1>2 DEF IInv
<1> QED
    BY <1>1, <1>3 DEF IInv, Sound, Underway

LEMMA UnderwayTail ==
    ASSUME IInv, NEW event, Handle(event), game'.fromServer = game.fromServer
    PROVE  /\ Underway # <<>> /\ Underway[1] = event
           /\ Underway' = Tail(Underway)
<1>1. batch # <<>> /\ batch[1] = event /\ batch' = Tail(batch)
    BY UnderwayFacts DEF Handle
<1>2. batch \in Seq(Events) /\ game.fromServer \in Seq(Events)
    BY UnderwayFacts
<1>3. /\ batch \o game.fromServer # <<>> /\ (batch \o game.fromServer)[1] = batch[1]
      /\ Tail(batch) \o game.fromServer = Tail(batch \o game.fromServer)
    BY <1>1, <1>2, TailOfJoined
<1> QED
    BY <1>1, <1>3 DEF Underway

LEMMA ProbedTail ==
    ASSUME NEW S, NEW c \in Seq(S), c # <<>>
    PROVE  /\ OneProbe(c) => OneProbe(Tail(c)) /\ (Probe(c[1]) => Unprobed(Tail(c)))
           /\ Unprobed(c) => Unprobed(Tail(c)) /\ ~Probe(c[1])
<1>1. /\ Len(c) \in Nat /\ 1 \in 1..Len(c) /\ Len(Tail(c)) = Len(c) - 1
      /\ \A i \in 1..Len(Tail(c)) : Tail(c)[i] = c[i + 1] /\ i + 1 \in 1..Len(c) /\ i + 1 # 1
    OBVIOUS
<1>2. \A i, j \in 1..Len(Tail(c)) : i + 1 = j + 1 => i = j
    OBVIOUS
<1> HIDE DEF Probe
<1> QED
    BY <1>1, <1>2 DEF OneProbe, Unprobed

LEMMA ProbedAppend ==
    ASSUME NEW S, NEW c \in Seq(S), NEW e
    PROVE  /\ ~Probe(e) /\ OneProbe(c) => OneProbe(Append(c, e))
           /\ ~Probe(e) /\ Unprobed(c) => Unprobed(Append(c, e))
           /\ Unprobed(c) => OneProbe(Append(c, e))
<1>1. /\ Len(c) \in Nat /\ Len(Append(c, e)) = Len(c) + 1
      /\ Append(c, e)[Len(c) + 1] = e
      /\ \A i \in 1..Len(c) : Append(c, e)[i] = c[i]
      /\ \A i \in 1..(Len(c) + 1) : i \in 1..Len(c) \/ i = Len(c) + 1
    OBVIOUS
<1> HIDE DEF Probe
<1> QED
    BY <1>1 DEF OneProbe, Unprobed

(* A row of requests for assets is no probe and leaves no map. *)
LEMMA RowIsQuiet ==
    ASSUME NEW c \in Seq(ToServer), NEW A \in SUBSET Assets,
           NEW row \in Seq({AssetRequest(a) : a \in A})
    PROVE  LET d == c \o row
           IN  /\ d \in Seq(ToServer)
               /\ OneProbe(c) => OneProbe(d)
               /\ Unprobed(c) => Unprobed(d)
               /\ (\A k \in 1..Len(c) : c[k].kind # "Interact")
                     => \A k \in 1..Len(d) : d[k].kind # "Interact"
<1> DEFINE d == c \o row
<1>1. row \in Seq(ToServer)
  <2>1. {AssetRequest(a) : a \in A} \subseteq ToServer
      BY DEF ToServer
  <2> QED
      BY <2>1
<1>2. /\ d \in Seq(ToServer) /\ Len(d) = Len(c) + Len(row)
      /\ \A i \in 1..(Len(c) + Len(row)) :
            d[i] = IF i <= Len(c) THEN c[i] ELSE row[i - Len(c)]
    BY <1>1, ConcatProperties
<1>3. \A i \in 1..Len(row) : row[i].kind = "AssetRequest"
    BY DEF AssetRequest
<1>4. Len(c) \in Nat /\ Len(row) \in Nat
    OBVIOUS
<1>5. \A i \in 1..Len(d) : \/ i \in 1..Len(c) /\ d[i] = c[i]
                           \/ d[i].kind = "AssetRequest"
  <2> TAKE i \in 1..Len(d)
  <2> HIDE DEF d
  <2>1. i \in 1..(Len(c) + Len(row))
      BY <1>2
  <2>2. CASE i <= Len(c)
      BY <1>2, <1>4, <2>1, <2>2
  <2>3. CASE ~(i <= Len(c))
    <3>1. i - Len(c) \in 1..Len(row)
        BY <1>4, <2>1, <2>3
    <3> QED
        BY <1>2, <1>3, <2>1, <2>3, <3>1
  <2> QED
      BY <2>2, <2>3
<1> HIDE DEF d
<1>6. \A e : e.kind = "AssetRequest" => ~Probe(e)
    BY DEF Probe
<1>7. OneProbe(c) => OneProbe(d)
    BY <1>5, <1>6 DEF OneProbe
<1>8. Unprobed(c) => Unprobed(d)
    BY <1>5, <1>6 DEF Unprobed
<1>9. (\A k \in 1..Len(c) : c[k].kind # "Interact") => \A k \in 1..Len(d) : d[k].kind # "Interact"
    BY <1>5
<1> QED
    BY <1>2, <1>7, <1>8, <1>9 DEF d

LEMMA AsksTail ==
    ASSUME NEW c \in Seq(ToServer), c # <<>>, NEW m, NEW files, Asks(c, m, files)
    PROVE  Asks(Tail(c), m, files)
<1> DEFINE d == Tail(c)
<1>1. /\ Len(c) \in Nat /\ Len(d) = Len(c) - 1
      /\ \A k \in 1..Len(d) : d[k] = c[k + 1] /\ k + 1 \in 1..Len(c)
    OBVIOUS
<1>2. \A k \in 1..Len(d) : \A j \in 1..(k - 1) :
          j \in 1..Len(d) /\ j + 1 \in 1..((k + 1) - 1)
    BY <1>1
<1> HIDE DEF d
<1> QED
    BY <1>1, <1>2 DEF Asks, d

LEMMA AsksGrow ==
    ASSUME NEW c, NEW m \in Maps, NEW files, NEW more, Asks(c, m, files),
           c \in Seq(ToServer),
           \A x \in Maps : files[x] = "whole" => more[x] = "whole"
    PROVE  Asks(c, m, more)
<1>1. \A k \in 1..Len(c) : c[k].kind = "Interact" => c[k].map \in Maps
  <2> TAKE k \in 1..Len(c)
  <2>1. c[k] \in ToServer
      OBVIOUS
  <2> QED
      BY <2>1 DEF ToServer, UpdateProbe, AssetRequest, Interact
<1>2. AllWhole(files) => AllWhole(more)
    BY DEF AllWhole
<1> QED
    BY <1>1, <1>2 DEF Asks

(* Requests that are added are answered while the player is on m. *)
LEMMA AsksMore ==
    ASSUME NEW c \in Seq(ToServer), NEW m \in Maps, NEW files, Asks(c, m, files),
           NEW A \in SUBSET Assets, NEW row \in Seq({AssetRequest(a) : a \in A}),
           \A a \in A \cap Maps : a = m /\ ~Leaves(c, m),
           \A a \in A \cap Images : files[m] = "whole" /\ (AllWhole(files) \/ ~Leaves(c, m))
    PROVE  Asks(c \o row, m, files)
<1> DEFINE d == c \o row
           n == Len(c)
<1>1. row \in Seq(ToServer)
  <2>1. {AssetRequest(a) : a \in A} \subseteq ToServer
      BY DEF ToServer
  <2> QED
      BY <2>1
<1>2. /\ d \in Seq(ToServer) /\ Len(d) = n + Len(row)
      /\ \A i \in 1..(n + Len(row)) : d[i] = IF i <= n THEN c[i] ELSE row[i - n]
    BY <1>1, ConcatProperties
<1>3. n \in Nat /\ Len(row) \in Nat
    OBVIOUS
<1>4. \A i \in 1..Len(row) : \E a \in A : row[i] = AssetRequest(a)
    OBVIOUS
<1> HIDE DEF d, n
<1>5. \A i \in 1..n : d[i] = c[i] /\ i \in 1..Len(d)
    BY <1>2, <1>3
<1>6. \A i \in 1..Len(d) : i \in 1..n \/ \E a \in A : d[i] = AssetRequest(a)
  <2> TAKE i \in 1..Len(d)
  <2>1. i \in 1..(n + Len(row))
      BY <1>2
  <2>2. CASE ~(i <= n)
    <3>1. i - n \in 1..Len(row)
        BY <1>3, <2>1, <2>2
    <3> QED
        BY <1>2, <1>4, <2>1, <2>2, <3>1
  <2> QED
      BY <1>3, <2>1, <2>2
<1>7. \A a : AssetRequest(a).kind = "AssetRequest" /\ AssetRequest(a).asset = a
          /\ AssetRequest(a) # Interact(m)
    BY DEF AssetRequest, Interact
<1>8. ~Leaves(c, m) => \A k \in 1..Len(d) : d[k] # Interact(m)
    BY <1>5, <1>6, <1>7 DEF Leaves, n
<1>9. ASSUME NEW k \in 1..Len(d)
      PROVE  /\ d[k].kind = "Interact" => files[d[k].map] = "whole"
             /\ d[k].kind = "AssetRequest" =>
                   /\ d[k].asset \in Maps =>
                         d[k].asset = m /\ \A j \in 1..(k - 1) : d[j] # Interact(m)
                   /\ d[k].asset \in Images =>
                         /\ files[m] = "whole"
                         /\ AllWhole(files) \/ \A j \in 1..(k - 1) : d[j] # Interact(m)
  <2>1. CASE k \in 1..n
    <3>1. d[k] = c[k] /\ \A j \in 1..(k - 1) : j \in 1..n /\ d[j] = c[j]
        BY <1>3, <1>5, <2>1
    <3> QED
        BY <2>1, <3>1 DEF Asks, n
  <2>2. CASE \E a \in A : d[k] = AssetRequest(a)
    <3>1. PICK a \in A : d[k] = AssetRequest(a)
        BY <2>2
    <3>2. d[k].kind = "AssetRequest" /\ d[k].asset = a
        BY <1>7, <3>1
    <3>3. Len(d) \in Nat /\ \A j \in 1..(k - 1) : j \in 1..Len(d)
        BY <1>2, <1>3
    <3> QED
        BY <1>8, <3>2, <3>3
  <2> QED
      BY <1>6, <2>1, <2>2
<1> QED
    BY <1>9 DEF Asks, d

-----------------------------------------------------------------------------
(* A handler keeps the way *)

(* No handler dials: the connection that is there stays or goes. *)
LEMMA HandleFacts ==
    ASSUME IInv, NEW event, Handle(event)
    PROVE  /\ batch # <<>> /\ batch[1] = event
           /\ event # ConnectionFailed => game.link # "connecting"
           /\ unheard' = unheard /\ playerMap' = playerMap
<1>1. batch # <<>> /\ batch[1] = event /\ batch \in Seq(Events)
    BY UnderwayFacts DEF Handle
<1> QED
    BY <1>1 DEF Handle, IInv, NothingYet

(* What a handler does to the session must leave the rest of the way as it *)
(* is, from the map that the client is then on.                            *)
LEMMA HandlerWay ==
    ASSUME IInv, WayInv, NEW event, Handle(event),
           game.link = "connected", game'.link = "connected",
           game'.fromServer = game.fromServer, Playing(game') <=> Playing(game),
           Path(Tail(Underway), Here(game'), playerMap, cache'),
           Planned(game', cache'),
           Asks(game'.toServer, playerMap, cache'),
           (\A k \in 1..Len(game.toServer) : game.toServer[k].kind # "Interact")
               => \A k \in 1..Len(game'.toServer) : game'.toServer[k].kind # "Interact",
           ProbedOnce(Tail(Underway), game'.toServer, game'.manifest)
    PROVE  WayInv'
<1>1. Way(Underway, game, playerMap, cache) /\ unheard = 0
    BY DEF WayInv
<1>2. Underway # <<>> /\ Underway' = Tail(Underway) /\ Underway \in Seq(Events)
    BY UnderwayFacts, UnderwayTail
<1>3. unheard' = 0 /\ playerMap' = playerMap
    BY <1>1, HandleFacts
<1>4. \A k \in 1..Len(Tail(Underway)) :
          k + 1 \in 1..Len(Underway) /\ Tail(Underway)[k] = Underway[k + 1]
    BY <1>2
<1>5. Playing(game') \/ AtHome(Underway', game'.toServer, playerMap')
    BY <1>1, <1>2, <1>3, <1>4 DEF Way, AtHome
<1>6. Unbroken(Underway', Playing(game'))
    BY <1>1, <1>2, <1>4 DEF Way, Unbroken
<1>7. Way(Underway, game, playerMap, cache)'
    BY <1>2, <1>3, <1>5, <1>6 DEF Way
<1> QED
    BY <1>3, <1>7 DEF WayInv

(* The same, of a handler that asks for assets and for nothing else. *)
LEMMA AskingWay ==
    ASSUME IInv, WayInv, NEW event, Handle(event),
           game.link = "connected", game'.link = "connected",
           game'.fromServer = game.fromServer, Playing(game') <=> Playing(game),
           Path(Tail(Underway), Here(game'), playerMap, cache'),
           Planned(game', cache'),
           \A m \in Maps : cache[m] = "whole" => cache'[m] = "whole",
           NEW A \in SUBSET Assets, AsksFor(game, game', A),
           \A a \in A \cap Maps : a = playerMap /\ cache'[a] # "whole",
           \A a \in A \cap Images :
              /\ cache'[playerMap] = "whole"
              /\ AllWhole(cache') \/ ~Leaves(game.toServer, playerMap),
           game'.manifest => game.manifest \/ Probe(event)
    PROVE  WayInv'
<1>1. Way(Underway, game, playerMap, cache)
    BY DEF WayInv
<1>2. /\ Underway \in Seq(Events) /\ game.toServer \in Seq(ToServer)
      /\ playerMap \in Maps /\ Underway # <<>> /\ Underway[1] = event
    BY UnderwayFacts, UnderwayTail
<1>3. PICK row \in Seq({AssetRequest(a) : a \in A}) : game'.toServer = game.toServer \o row
    BY DEF AsksFor
<1>4. Asks(game.toServer, playerMap, cache')
    BY <1>1, <1>2, AsksGrow DEF Way
<1>5. ASSUME NEW m \in Maps, cache'[m] # "whole" PROVE ~Leaves(game.toServer, m)
    BY <1>4, <1>5 DEF Leaves, Asks, Interact
<1>6. Asks(game'.toServer, playerMap, cache')
    BY <1>2, <1>3, <1>4, <1>5, AsksMore
<1>7. /\ OneProbe(game.toServer) => OneProbe(game'.toServer)
      /\ Unprobed(game.toServer) => Unprobed(game'.toServer)
      /\ (\A k \in 1..Len(game.toServer) : game.toServer[k].kind # "Interact")
            => \A k \in 1..Len(game'.toServer) : game'.toServer[k].kind # "Interact"
    BY <1>2, <1>3, RowIsQuiet
<1>8. /\ OneProbe(Underway) =>
             OneProbe(Tail(Underway)) /\ (Probe(event) => Unprobed(Tail(Underway)))
      /\ Unprobed(Underway) => Unprobed(Tail(Underway)) /\ ~Probe(event)
    BY <1>2, ProbedTail
<1>9. ProbedOnce(Tail(Underway), game'.toServer, game'.manifest)
    BY <1>1, <1>7, <1>8 DEF Way, ProbedOnce
<1> QED
    BY <1>6, <1>7, <1>9, HandlerWay

(* What a client finds when it handles an event of its session. *)
LEMMA OnItsWay ==
    ASSUME IInv, WayInv, game.link = "connected", NEW event, Handle(event)
    PROVE  /\ Path(Tail(Underway), IF event.kind = "MapTransfer" THEN event.map ELSE Here(game),
                   playerMap, cache)
           /\ event.kind = "MapTransfer" => cache[Here(game)] = "whole" /\ Playing(game)
           /\ event.kind = "AssetBlob" =>
                 /\ event.asset \in Maps => Here(game) = event.asset
                 /\ event.asset \in Images => cache[Here(game)] = "whole"
           /\ event # Disconnected
           /\ event = ConnectionFailed => ~Playing(game)
           /\ Planned(game, cache)
           /\ Playing(game) \/ (playerMap = DefaultMap /\ ~Leaves(game.toServer, playerMap))
<1>1. Way(Underway, game, playerMap, cache)
    BY DEF WayInv
<1>2. batch # <<>> /\ batch[1] = event /\ batch \in Seq(Events)
    BY UnderwayFacts DEF Handle
<1>3. /\ Underway \in Seq(Events) /\ game.fromServer \in Seq(Events)
    BY UnderwayFacts
<1>4. Underway # <<>> /\ Underway[1] = event
    BY <1>2, <1>3, TailOfJoined DEF Underway
<1>5. 1 \in 1..Len(Underway)
    BY <1>3, <1>4
<1>6. Playing(game) \/ ~Leaves(game.toServer, playerMap)
    BY <1>1 DEF Way, AtHome, Leaves, Interact
<1>7. /\ Path(Tail(Underway), IF event.kind = "MapTransfer" THEN event.map ELSE Here(game),
              playerMap, cache)
      /\ event.kind = "MapTransfer" => cache[Here(game)] = "whole"
      /\ event.kind = "AssetBlob" =>
            /\ event.asset \in Maps => Here(game) = event.asset
            /\ event.asset \in Images => cache[Here(game)] = "whole"
    BY <1>1, <1>3, <1>4, PathTail DEF Way
<1> QED
    BY <1>1, <1>4, <1>5, <1>6, <1>7 DEF Way, AtHome, Unbroken

(* Images are asked for while nobody can be on the way to a map whose file *)
(* is not there.                                                           *)
LEMMA ImagesAreAsked ==
    ASSUME TwoMaps, NEW files, NEW m \in Maps, NEW c, NEW x \in Maps,
           files[x] = "whole", files[DefaultMap] = "whole",
           \/ Missing(files, References[DefaultMap]) = {}
           \/ m = DefaultMap /\ ~Leaves(c, m)
    PROVE  \A i \in Missing(files, References[x]) :
              /\ files[m] = "whole"
              /\ AllWhole(files) \/ ~Leaves(c, m)
              /\ i \in References[DefaultMap] \/ AllWhole(files)
<1>1. CASE x = DefaultMap
    BY <1>1, MissingIn
<1>2. CASE x # DefaultMap
  <2>1. AllWhole(files)
      BY <1>2 DEF TwoMaps, AllWhole
  <2> QED
      BY <2>1 DEF AllWhole
<1> QED
    BY <1>1, <1>2

LEMMA AsksAppend ==
    ASSUME NEW c \in Seq(ToServer), NEW m, NEW files, NEW e, Asks(c, m, files),
           e.kind # "AssetRequest", e.kind = "Interact" => files[e.map] = "whole"
    PROVE  Asks(Append(c, e), m, files)
<1> DEFINE d == Append(c, e)
           n == Len(c)
<1>1. /\ n \in Nat /\ Len(d) = n + 1 /\ d[n + 1] = e
      /\ \A i \in 1..n : d[i] = c[i]
      /\ \A i \in 1..(n + 1) : i \in 1..n \/ i = n + 1
      /\ \A i \in 1..n : \A j \in 1..(i - 1) : j \in 1..n
    OBVIOUS
<1> HIDE DEF d, n
<1>2. ASSUME NEW k \in 1..Len(d)
      PROVE  /\ d[k].kind = "Interact" => files[d[k].map] = "whole"
             /\ d[k].kind = "AssetRequest" =>
                   /\ d[k].asset \in Maps =>
                         d[k].asset = m /\ \A j \in 1..(k - 1) : d[j] # Interact(m)
                   /\ d[k].asset \in Images =>
                         /\ files[m] = "whole"
                         /\ AllWhole(files) \/ \A j \in 1..(k - 1) : d[j] # Interact(m)
  <2>1. CASE k \in 1..n
    <3>1. d[k] = c[k] /\ \A j \in 1..(k - 1) : d[j] = c[j]
        BY <1>1, <2>1
    <3> QED
        BY <2>1, <3>1 DEF Asks, n
  <2>2. CASE k = n + 1
      BY <1>1, <2>2
  <2> QED
      BY <1>1, <2>1, <2>2
<1> QED
    BY <1>2 DEF Asks, d

(* What a handler that asks for A plans. *)
LEMMA PlannedNext ==
    ASSUME NEW g, NEW r, NEW files, NEW more, NEW A \in SUBSET Assets, Planned(g, files),
           \A b \in Assets : files[b] = "whole" => more[b] = "whole",
           \A b \in Assets : r.requests[b] > 0 =>
              (g.requests[b] > 0 /\ more[b] # "whole") \/ b \in A,
           \A b \in A : more[b] # "whole",
           \A i \in A \cap Images : r.applied # None /\ (i \in References[DefaultMap] \/ AllWhole(more)),
           \A m \in Maps : r.requests[m] > 0 => r.wanted = m,
           g.applied # None => r.applied # None,
           r.applied # None => more[r.applied] = "whole" /\ more[DefaultMap] = "whole",
           r.wanted # None => more[r.wanted] # "whole" /\ ~r.ready,
           Playing(r) <=> Playing(g),
           ~Playing(r) => r.wanted \in {None, DefaultMap} /\ r.applied \in {None, DefaultMap}
    PROVE  Planned(r, more)
<1>1. Images \subseteq Assets /\ Maps \subseteq Assets
      /\ References[DefaultMap] \subseteq Assets
    BY ClientAssumption DEF Assets
<1>2. Missing(files, References[DefaultMap]) = {} => Missing(more, References[DefaultMap]) = {}
    BY <1>1 DEF Missing
<1>3. AllWhole(files) => AllWhole(more)
    BY <1>1 DEF AllWhole
<1>4. \A i \in Images : r.requests[i] > 0 =>
          r.applied # None /\ (i \in References[DefaultMap] \/ AllWhole(more))
    BY <1>1, <1>3 DEF Planned
<1> QED
    BY <1>1, <1>2, <1>4 DEF Planned

LEMMA NoSessionNoWay == ASSUME game'.link = "none" PROVE WayInv'
BY DEF WayInv

LEMMA RetryWaitLink ==
    ASSUME NEW g \in Games
    PROVE  RetryWait(g).link = "none" /\ RetryWait(g).mode = "RetryWait"
BY DEF RetryWait, Offline, Games

(* A handler that keeps all that the way is about. *)
LEMMA IdleWay ==
    ASSUME IInv, WayInv, NEW event, Handle(event), game.link = "connected",
           cache' = cache, event.kind # "MapTransfer",
           game'.link = game.link, game'.fromServer = game.fromServer,
           game'.toServer = game.toServer, game'.requests = game.requests,
           game'.wanted = game.wanted, game'.applied = game.applied,
           game'.ready = game.ready, game'.manifest = game.manifest,
           Playing(game') <=> Playing(game)
    PROVE  WayInv'
<1>1. Path(Tail(Underway), Here(game), playerMap, cache) /\ Planned(game, cache)
    BY OnItsWay
<1>2. Here(game') = Here(game)
    BY DEF Here
<1>3. Planned(game', cache')
    BY <1>1 DEF Planned
<1>4. AsksFor(game, game', {})
    BY AsksForNothing, UnderwayFacts
<1> QED
    BY <1>1, <1>2, <1>3, <1>4, AskingWay

LEMMA OnHandshakeWay == ASSUME IInv, WayInv, OnHandshake PROVE WayInv'
<1>1. Handle(Handshake) /\ Handshake # ConnectionFailed /\ cache' = cache
      /\ Handshake.kind = "Handshake"
    BY DEF OnHandshake, Handshake, ConnectionFailed
<1>2. game' = [game EXCEPT !.handshake = TRUE]
    BY DEF OnHandshake
<1>3. /\ game'.mode = game.mode /\ game'.link = game.link
      /\ game'.fromServer = game.fromServer /\ game'.toServer = game.toServer
      /\ game'.manifest = game.manifest /\ game'.ready = game.ready
      /\ game'.wanted = game.wanted /\ game'.applied = game.applied
      /\ game'.requests = game.requests
    BY <1>2, UnderwayFacts DEF Games
<1>4. game.link \in {"none", "connected"}
    BY <1>1, HandleFacts, UnderwayFacts DEF Games
<1> QED
    BY <1>1, <1>3, <1>4, IdleWay, NoSessionNoWay DEF Playing

LEMMA OnConnectionFailedWay == ASSUME IInv, WayInv, OnConnectionFailed PROVE WayInv'
<1>1. Handle(ConnectionFailed) /\ cache' = cache /\ ConnectionFailed.kind = "ConnectionFailed"
    BY DEF OnConnectionFailed, ConnectionFailed
<1>2. CASE game.mode = "Boot"
    BY <1>2, RetryWaitLink, UnderwayFacts, NoSessionNoWay DEF OnConnectionFailed
<1>3. CASE game.mode # "Boot"
  <2>1. game' = [game EXCEPT !.mode = "MainMenu"]
      BY <1>3 DEF OnConnectionFailed
  <2>2. /\ game'.mode = "MainMenu" /\ game'.link = game.link
        /\ game'.fromServer = game.fromServer /\ game'.toServer = game.toServer
        /\ game'.manifest = game.manifest /\ game'.ready = game.ready
        /\ game'.wanted = game.wanted /\ game'.applied = game.applied
        /\ game'.requests = game.requests
      BY <2>1, UnderwayFacts DEF Games
  <2>3. game.link # "connecting"
    <3>1. [Fresh EXCEPT !.link = "connecting"].mode = "Boot"
        BY DEF Fresh
    <3> QED
        BY <1>3, <3>1 DEF WayInv
  <2>4. game.link \in {"none", "connected"}
      BY <2>3, UnderwayFacts DEF Games
  <2>5. CASE game.link = "connected"
    <3>1. ~Playing(game)
        BY <1>1, <2>5, OnItsWay
    <3> QED
        BY <1>1, <2>2, <2>5, <3>1, IdleWay DEF Playing
  <2> QED
      BY <2>2, <2>4, <2>5, NoSessionNoWay
<1> QED
    BY <1>2, <1>3

LEMMA OnDisconnectedWay == ASSUME IInv, WayInv, OnDisconnected PROVE WayInv'
<1> DEFINE ended == [game EXCEPT !.handshake = FALSE, !.probed = FALSE, !.ready = FALSE,
                                 !.wanted = None, !.images = {}, !.requests = NoRequests]
<1>1. Handle(Disconnected) /\ Disconnected # ConnectionFailed
    BY DEF OnDisconnected, ConnectionFailed, Disconnected
<1>2. game.link = "none"
    BY <1>1, HandleFacts, OnItsWay, UnderwayFacts DEF Games
<1>3. NoRequests \in [Assets -> 0..Tries]
    BY ClientAssumption DEF NoRequests
<1>4. ended \in Games /\ ended.link = game.link
    <2> HIDE DEF NoRequests
    <2> QED
        BY <1>3, UnderwayFacts DEF Games
<1>5. game' = IF ended.mode = "Boot" THEN RetryWait(ended)
              ELSE [ended EXCEPT !.manifest = FALSE, !.mode = "MainMenu"]
    BY DEF OnDisconnected
<1> HIDE DEF ended
<1>6. game'.link = "none"
    BY <1>2, <1>4, <1>5, RetryWaitLink DEF Games
<1> QED
    BY <1>6, NoSessionNoWay

LEMMA OnConnectedWay == ASSUME IInv, WayInv, OnConnected PROVE WayInv'
<1>1. Handle(Connected) /\ Connected # ConnectionFailed /\ cache' = cache
      /\ Connected.kind = "Connected"
    BY DEF OnConnected, Connected, ConnectionFailed
<1>2. game.link \in {"none", "connected"}
    BY <1>1, HandleFacts, UnderwayFacts DEF Games
<1>3. CASE game.mode # "Boot"
  <2>1. game' = game
      BY <1>3 DEF OnConnected
  <2> QED
      BY <1>1, <1>2, <2>1, IdleWay, NoSessionNoWay
<1>4. CASE game.mode = "Boot" /\ game.link # "connected"
    BY <1>4, RetryWaitLink, UnderwayFacts, NoSessionNoWay DEF OnConnected
<1>5. CASE game.mode = "Boot" /\ game.link = "connected"
  <2>1. game' = [game EXCEPT !.probed = TRUE, !.toServer = Append(@, UpdateProbe)]
      BY <1>5 DEF OnConnected
  <2>2. /\ game'.mode = game.mode /\ game'.link = game.link
        /\ game'.fromServer = game.fromServer
        /\ game'.toServer = Append(game.toServer, UpdateProbe)
        /\ game'.manifest = game.manifest /\ game'.ready = game.ready
        /\ game'.wanted = game.wanted /\ game'.applied = game.applied
        /\ game'.requests = game.requests
      BY <2>1, UnderwayFacts DEF Games
  <2>3. Path(Tail(Underway), Here(game), playerMap, cache) /\ Planned(game, cache)
      BY <1>1, <1>5, OnItsWay
  <2>4. Here(game') = Here(game)
      BY <2>2 DEF Here
  <2>5. Planned(game', cache')
      BY <1>1, <2>2, <2>3 DEF Planned, Playing
  <2>6. Way(Underway, game, playerMap, cache)
      BY <1>5 DEF WayInv
  <2>7. Asks(game'.toServer, playerMap, cache')
      BY <1>1, <2>2, <2>6, AsksAppend, UnderwayFacts DEF Way, UpdateProbe
  <2>8. (\A k \in 1..Len(game.toServer) : game.toServer[k].kind # "Interact")
            => \A k \in 1..Len(game'.toServer) : game'.toServer[k].kind # "Interact"
    <3>1. /\ game.toServer \in Seq(ToServer)
          /\ UpdateProbe.kind # "Interact"
        BY UnderwayFacts DEF UpdateProbe
    <3> QED
        BY <2>2, <3>1
  <2>9. ProbedOnce(Tail(Underway), game'.toServer, game'.manifest)
    <3>1. /\ Underway \in Seq(Events) /\ Underway # <<>> /\ Underway[1] = Connected
          /\ game.toServer \in Seq(ToServer)
        BY <1>1, <2>2, UnderwayFacts, UnderwayTail
    <3>2. Probe(Connected)
        BY DEF Probe, Connected
    <3>3. Unprobed(Tail(Underway)) /\ ~Unprobed(Underway) /\ OneProbe(Tail(Underway))
        BY <2>6, <3>1, <3>2, ProbedTail DEF Way, ProbedOnce
    <3>4. OneProbe(game'.toServer)
        BY <2>2, <2>6, <3>1, <3>3, ProbedAppend DEF Way, ProbedOnce
    <3> QED
        BY <2>2, <2>6, <3>3, <3>4 DEF Way, ProbedOnce
  <2> QED
      BY <1>1, <1>5, <2>2, <2>3, <2>4, <2>5, <2>7, <2>8, <2>9, HandlerWay DEF Playing
<1> QED
    BY <1>2, <1>3, <1>4, <1>5

(* An answer finds the client where it asked. *)
LEMMA OnBlobWay == ASSUME TwoMaps, IInv, WayInv, NEW a \in Assets, OnBlob(a) PROVE WayInv'
<1> DEFINE done == [game EXCEPT !.requests[a] = 0]
<1>1. Handle(Blob(a)) /\ Blob(a) # ConnectionFailed /\ Blob(a).kind = "AssetBlob"
      /\ Blob(a).asset = a
    BY DEF OnBlob, Blob, ConnectionFailed
<1>2. /\ \A b \in Assets : cache'[b] = IF b = a THEN "whole" ELSE cache[b]
      /\ \A b \in Assets : cache[b] = "whole" => cache'[b] = "whole"
    BY DEF OnBlob, IInv, Files
<1>3. /\ done \in Games
      /\ done.requests[a] = 0 /\ \A b \in Assets \ {a} : done.requests[b] = game.requests[b]
      /\ done.mode = game.mode /\ done.link = game.link /\ done.toServer = game.toServer
      /\ done.fromServer = game.fromServer /\ done.manifest = game.manifest
      /\ done.ready = game.ready /\ done.wanted = game.wanted /\ done.applied = game.applied
  <2>1. game.requests \in [Assets -> 0..Tries]
      BY UnderwayFacts DEF Games
  <2>2. [game.requests EXCEPT ![a] = 0] \in [Assets -> 0..Tries]
      BY <2>1, ClientAssumption
  <2> QED
      BY <2>1, <2>2, UnderwayFacts DEF Games
<1>4. game' = CASE a \in Images -> Refresh(done, cache')
                [] a \in Maps -> ApplyMap(done, a, cache')
                [] OTHER -> done
    BY DEF OnBlob
<1> HIDE DEF done
<1>5. Images \subseteq Assets /\ Maps \subseteq Assets /\ Maps \cap Images = {}
      /\ \A m \in Maps : References[m] \subseteq Images
    BY ClientAssumption DEF Assets
<1>6. SameSession(done, game')
  <2>1. CASE a \in Images
      BY <1>3, <1>4, <1>5, <2>1, RefreshAdds
  <2>2. CASE a \in Maps
      BY <1>3, <1>4, <1>5, <2>2, ApplyMapAdds
  <2>3. CASE a \notin Images \cup Maps
      BY <1>4, <2>3 DEF SameSession
  <2> QED
      BY <2>1, <2>2, <2>3
<1>7. /\ game'.link = game.link /\ game'.manifest = game.manifest
      /\ game'.fromServer = game.fromServer /\ (Playing(game') <=> Playing(game))
    BY <1>3, <1>6 DEF SameSession, Playing
<1>8. game.link \in {"none", "connected"}
    BY <1>1, HandleFacts, UnderwayFacts DEF Games
<1>9. CASE game.link = "connected"
  <2>1. /\ Path(Tail(Underway), Here(game), playerMap, cache)
        /\ a \in Maps => Here(game) = a
        /\ a \in Images => cache[Here(game)] = "whole"
        /\ Planned(game, cache)
        /\ Playing(game) \/ (playerMap = DefaultMap /\ ~Leaves(game.toServer, playerMap))
      BY <1>1, <1>9, OnItsWay
  <2>2. Path(Tail(Underway), Here(game), playerMap, cache')
    <3>1. Tail(Underway) \in Seq(Events)
        BY <1>1, <1>7, UnderwayFacts, UnderwayTail
    <3> QED
        BY <1>2, <1>5, <2>1, <3>1, PathGrows
  <2>3. \/ Missing(cache', References[DefaultMap]) = {}
        \/ playerMap = DefaultMap /\ ~Leaves(game.toServer, playerMap)
    <3>1. CASE Playing(game)
      <4>1. Missing(cache, References[DefaultMap]) = {}
          BY <2>1, <3>1 DEF Planned
      <4>2. References[DefaultMap] \subseteq Assets
          BY <1>5, ClientAssumption
      <4> QED
          BY <1>2, <4>1, <4>2 DEF Missing
    <3> QED
        BY <2>1, <3>1
  <2>4. ASSUME NEW A \in SUBSET Images, \A b \in A : cache'[b] # "whole",
               \A i \in A : game'.applied # None
                  /\ cache'[playerMap] = "whole"
                  /\ (AllWhole(cache') \/ ~Leaves(game.toServer, playerMap))
                  /\ (i \in References[DefaultMap] \/ AllWhole(cache')),
               AsksFor(done, game', A),
               Here(game') = Here(game),
               \A m \in Maps : game'.requests[m] > 0 => game'.wanted = m,
               game.applied # None => game'.applied # None,
               game'.applied # None => cache'[game'.applied] = "whole" /\ cache'[DefaultMap] = "whole",
               game'.wanted # None => cache'[game'.wanted] # "whole" /\ ~game'.ready,
               ~Playing(game') => game'.wanted \in {None, DefaultMap}
                                  /\ game'.applied \in {None, DefaultMap}
        PROVE  WayInv'
    <3>1. AsksFor(game, game', A)
      <4>1. \A b \in Assets : done.requests[b] > 0 => game.requests[b] > 0
          BY <1>3
      <4> QED
          BY <1>3, <2>4, <4>1 DEF AsksFor
    <3>2. \A b \in Assets : game'.requests[b] > 0 =>
              (game.requests[b] > 0 /\ cache'[b] # "whole") \/ b \in A
      <4> SUFFICES ASSUME NEW b \in Assets, game'.requests[b] > 0, b \notin A
                   PROVE  game.requests[b] > 0 /\ cache'[b] # "whole"
          OBVIOUS
      <4>1. done.requests[b] > 0
          BY <2>4 DEF AsksFor
      <4>2. b # a /\ game.requests[b] > 0
          BY <1>3, <4>1
      <4> QED
          BY <1>2, <2>1, <4>2 DEF Planned
    <3>3. A \in SUBSET Assets /\ A \cap Maps = {}
        BY <1>5
    <3>4. Planned(game', cache')
        BY <1>2, <1>7, <2>1, <2>4, <3>2, <3>3, PlannedNext
    <3> QED
        BY <1>1, <1>2, <1>5, <1>7, <1>9, <2>2, <2>4, <3>1, <3>3, <3>4, AskingWay
  <2>5. CASE a \in Images
    <3> DEFINE A == IF done.applied = None THEN {} ELSE Missing(cache', References[done.applied])
    <3>1. game' = Refresh(done, cache')
        BY <1>4, <1>5, <2>5
    <3>2. /\ game'.wanted = done.wanted /\ game'.applied = done.applied
          /\ AsksFor(done, game', A)
        BY <1>3, <3>1, RefreshAdds
    <3>3. game.wanted = None
        BY <2>1, <2>5 DEF Planned, Here
    <3>4. game.applied # None => game.applied \in Maps
        BY UnderwayFacts DEF Games
    <3>5. A \in SUBSET Images /\ \A b \in A : cache'[b] # "whole"
        BY <1>3, <1>5, <3>4 DEF Missing
    <3>6. game.applied # None => cache'[game.applied] = "whole" /\ cache'[DefaultMap] = "whole"
        BY <1>2, <1>5, <2>1, <3>4, ClientAssumption DEF Planned
    <3>7. \A i \in A :
             /\ game'.applied # None
             /\ cache'[playerMap] = "whole"
             /\ AllWhole(cache') \/ ~Leaves(game.toServer, playerMap)
             /\ i \in References[DefaultMap] \/ AllWhole(cache')
        BY <1>3, <2>3, <3>2, <3>4, <3>6, ImagesAreAsked, UnderwayFacts
    <3> HIDE DEF A
    <3>8. \A m \in Maps : game'.requests[m] > 0 => game'.wanted = m
      <4> SUFFICES ASSUME NEW m \in Maps, game'.requests[m] > 0 PROVE game'.wanted = m
          OBVIOUS
      <4>1. m \in Assets /\ m \notin A
          BY <1>5, <3>5
      <4>2. done.requests[m] > 0
          BY <3>2, <4>1 DEF AsksFor
      <4>3. game.requests[m] > 0
          BY <1>3, <4>1, <4>2
      <4> QED
          BY <1>3, <2>1, <3>2, <4>3 DEF Planned
    <3>9. Here(game') = Here(game)
        BY <1>3, <3>2 DEF Here
    <3>10. game'.wanted = None /\ game'.applied = game.applied
        BY <1>3, <3>2, <3>3
    <3>11. game.applied # None => game'.applied # None
        BY <3>10
    <3>12. game'.applied # None => cache'[game'.applied] = "whole" /\ cache'[DefaultMap] = "whole"
        BY <3>6, <3>10
    <3>13. game'.wanted # None => cache'[game'.wanted] # "whole" /\ ~game'.ready
        BY <3>10
    <3>14. ~Playing(game') => game'.wanted \in {None, DefaultMap}
                              /\ game'.applied \in {None, DefaultMap}
        BY <1>7, <2>1, <3>10 DEF Planned
    <3>15. AsksFor(done, game', A)
        BY <3>2
    <3> QED
        BY <2>4, <3>5, <3>7, <3>8, <3>9, <3>11, <3>12, <3>13, <3>14, <3>15
  <2>6. CASE a \in Maps
    <3> DEFINE A == Missing(cache', References[a])
    <3>1. game' = ApplyMap(done, a, cache')
        BY <1>4, <1>5, <2>6
    <3>2. game'.wanted = None /\ game'.applied = a /\ AsksFor(done, game', A)
        BY <1>3, <2>6, <3>1, ApplyMapAdds
    <3>3. a # None /\ Here(game) = a
        BY <2>1, <2>6, NoMapIsNone
    <3>4. A \in SUBSET Images /\ \A b \in A : cache'[b] # "whole"
        BY <1>5, <2>6 DEF Missing
    <3>5. cache'[a] = "whole"
        BY <1>2
    <3>6. ~Playing(game) => a = DefaultMap
        BY <2>1, <3>3 DEF Planned, Here
    <3>7. cache'[DefaultMap] = "whole"
      <4>1. CASE game.applied # None
          BY <1>2, <1>5, <2>1, <4>1, ClientAssumption DEF Planned
      <4>2. CASE game.applied = None
          BY <2>1, <3>5, <3>6, <4>2 DEF Planned
      <4> QED
          BY <4>1, <4>2
    <3>8. \A i \in A :
             /\ game'.applied # None
             /\ cache'[playerMap] = "whole"
             /\ AllWhole(cache') \/ ~Leaves(game.toServer, playerMap)
             /\ i \in References[DefaultMap] \/ AllWhole(cache')
        BY <2>3, <2>6, <3>2, <3>3, <3>5, <3>7, ImagesAreAsked, UnderwayFacts
    <3> HIDE DEF A
    <3>9. \A m \in Maps : ~(game'.requests[m] > 0)
      <4> SUFFICES ASSUME NEW m \in Maps, game'.requests[m] > 0 PROVE FALSE
          OBVIOUS
      <4>1. m \in Assets /\ m \notin A
          BY <1>5, <3>4
      <4>2. done.requests[m] > 0
          BY <3>2, <4>1 DEF AsksFor
      <4>3. m # a /\ game.requests[m] > 0
          BY <1>3, <4>1, <4>2
      <4>4. game.wanted = m /\ m # None
          BY <2>1, <4>3, NoMapIsNone DEF Planned
      <4> QED
          BY <3>3, <4>3, <4>4 DEF Here
    <3>10. Here(game') = Here(game)
        BY <3>2, <3>3 DEF Here
    <3>11. \A m \in Maps : game'.requests[m] > 0 => game'.wanted = m
        BY <3>9
    <3>12. game.applied # None => game'.applied # None
        BY <3>2, <3>3
    <3>13. game'.applied # None => cache'[game'.applied] = "whole" /\ cache'[DefaultMap] = "whole"
        BY <3>2, <3>5, <3>7
    <3>14. game'.wanted # None => cache'[game'.wanted] # "whole" /\ ~game'.ready
        BY <3>2
    <3>15. ~Playing(game') => game'.wanted \in {None, DefaultMap}
                              /\ game'.applied \in {None, DefaultMap}
        BY <1>7, <3>2, <3>6
    <3>16. AsksFor(done, game', A)
        BY <3>2
    <3> QED
        BY <2>4, <3>4, <3>8, <3>10, <3>11, <3>12, <3>13, <3>14, <3>15, <3>16
  <2>7. CASE a \notin Images \cup Maps
    <3>1. game' = done
        BY <1>4, <2>7
    <3>2. AsksFor(done, game', {})
        BY <1>3, <3>1, AsksForNothing, UnderwayFacts
    <3>3. \A m \in Maps : game'.requests[m] > 0 => game'.wanted = m
        BY <1>3, <1>5, <2>1, <2>7, <3>1 DEF Planned
    <3>4. /\ game.applied # None => game.applied \in Maps
          /\ game.wanted # None => game.wanted \in Maps
        BY UnderwayFacts DEF Games
    <3>5. \A m \in Maps : cache'[m] = cache[m]
        BY <1>2, <1>5, <2>7
    <3>6. Here(game') = Here(game)
        BY <1>3, <3>1 DEF Here
    <3> QED
        BY <1>3, <1>7, <2>1, <2>4, <3>1, <3>2, <3>3, <3>4, <3>5, <3>6, ClientAssumption DEF Planned
  <2> QED
      BY <2>5, <2>6, <2>7
<1> QED
    BY <1>7, <1>8, <1>9, NoSessionNoWay

(* Only who has the map goes to another. *)
LEMMA OnMapTransferWay ==
    ASSUME TwoMaps, IInv, WayInv, NEW m \in Maps, OnMapTransfer(m)
    PROVE  WayInv'
<1> DEFINE start == [game EXCEPT !.images = {}]
<1>1. Handle(MapTransfer(m)) /\ MapTransfer(m) # ConnectionFailed
      /\ MapTransfer(m).kind = "MapTransfer" /\ MapTransfer(m).map = m
    BY DEF OnMapTransfer, MapTransfer, ConnectionFailed
<1>2. game' = Bootstrap(start, m, cache) /\ cache' = cache
    BY DEF OnMapTransfer
<1>3. /\ start \in Games /\ start.images = {}
      /\ start.mode = game.mode /\ start.link = game.link /\ start.toServer = game.toServer
      /\ start.fromServer = game.fromServer /\ start.manifest = game.manifest
      /\ start.requests = game.requests /\ start.applied = game.applied
    BY UnderwayFacts DEF Games
<1> HIDE DEF start
<1>4. Maps \subseteq Assets /\ Images \subseteq Assets /\ Maps \cap Images = {}
      /\ References[m] \subseteq Images
    BY ClientAssumption DEF Assets
<1>5. game'.link \in {game.link, "none"} /\ game.link # "connecting"
    BY <1>1, <1>2, <1>3, BootstrapSound, HandleFacts DEF Continues
<1>6. game.link \in {"none", "connecting", "connected"}
    BY UnderwayFacts DEF Games
<1>7. CASE game'.link = "connected"
  <2>1. game.link = "connected"
      BY <1>5, <1>7
  <2>2. /\ SameSession(start, game')
        /\ IF cache[m] = "whole"
           THEN /\ game'.wanted = None /\ game'.applied = m
                /\ AsksFor(start, game', Missing(cache, References[m]))
           ELSE /\ game'.wanted = m /\ game'.applied = start.applied /\ ~game'.ready
                /\ AsksFor(start, game', {m})
    <3> DEFINE r == Bootstrap(start, m, cache)
    <3>1. /\ SameSession(start, r)
          /\ IF cache[m] = "whole"
             THEN /\ r.wanted = None /\ r.applied = m
                  /\ AsksFor(start, r, Missing(cache, References[m]))
             ELSE /\ r.wanted = m /\ r.applied = start.applied /\ ~r.ready
                  /\ AsksFor(start, r, {m})
        BY <1>2, <1>3, <1>7, BootstrapAdds
    <3> QED
        BY <1>2, <3>1
  <2>3. /\ game'.manifest = game.manifest /\ game'.fromServer = game.fromServer
        /\ (Playing(game') <=> Playing(game))
      BY <1>3, <2>2 DEF SameSession, Playing
  <2>4. /\ Path(Tail(Underway), m, playerMap, cache)
        /\ cache[Here(game)] = "whole" /\ Playing(game) /\ Planned(game, cache)
      BY <1>1, <2>1, OnItsWay
  <2>5. /\ game.wanted = None /\ game.applied # None
        /\ cache[DefaultMap] = "whole" /\ Missing(cache, References[DefaultMap]) = {}
      BY <2>4 DEF Planned, Here
  <2>6. Playing(game')
      BY <2>3, <2>4
  <2>7. m # None
      BY NoMapIsNone
  <2>8. Tail(Underway) \in Seq(Events)
      BY <1>1, <2>3, UnderwayFacts, UnderwayTail
  <2>9. \A b \in Assets : cache[b] = "whole" => cache'[b] = "whole"
      BY <1>2
  <2>10. ASSUME NEW A \in SUBSET Assets, AsksFor(start, game', A), Here(game') = m,
                \A b \in A : cache[b] # "whole",
                \A b \in A \cap Maps : b = playerMap /\ game'.wanted = b,
                \A i \in A \cap Images :
                   /\ cache[playerMap] = "whole"
                   /\ AllWhole(cache) \/ ~Leaves(game.toServer, playerMap)
                   /\ i \in References[DefaultMap] \/ AllWhole(cache),
                game'.applied # None,
                cache[game'.applied] = "whole",
                game'.wanted # None => cache[game'.wanted] # "whole" /\ ~game'.ready
         PROVE  WayInv'
    <3>1. AsksFor(game, game', A)
        BY <1>3, <2>10 DEF AsksFor
    <3>2. \A b \in Assets : game'.requests[b] > 0 =>
              (game.requests[b] > 0 /\ cache[b] # "whole") \/ b \in A
        BY <2>4, <3>1 DEF AsksFor, Planned
    <3>3. \A x \in Maps : game'.requests[x] > 0 => game'.wanted = x
      <4> SUFFICES ASSUME NEW x \in Maps, game'.requests[x] > 0 PROVE game'.wanted = x
          OBVIOUS
      <4>1. x \in Assets /\ x # None
          BY <1>4, NoMapIsNone
      <4>2. CASE x \in A
          BY <2>10, <4>2
      <4>3. CASE game.requests[x] > 0
          BY <2>4, <2>5, <4>1, <4>3 DEF Planned
      <4> QED
          BY <3>2, <4>1, <4>2, <4>3
    <3>4. \A i \in A \cap Images :
              game'.applied # None /\ (i \in References[DefaultMap] \/ AllWhole(cache))
        BY <2>10
    <3>5. Planned(game', cache)
        BY <2>3, <2>4, <2>5, <2>6, <2>10, <3>2, <3>3, <3>4, PlannedNext
    <3>6. Path(Tail(Underway), Here(game'), playerMap, cache')
        BY <1>2, <2>4, <2>10
    <3>7. \A b \in A \cap Maps : b = playerMap /\ cache'[b] # "whole"
        BY <1>2, <2>10
    <3>8. \A i \in A \cap Images :
             /\ cache'[playerMap] = "whole"
             /\ AllWhole(cache') \/ ~Leaves(game.toServer, playerMap)
        BY <1>2, <2>10
    <3>9. \A x \in Maps : cache[x] = "whole" => cache'[x] = "whole"
        BY <1>2
    <3>10. Planned(game', cache')
        BY <1>2, <3>5
    <3> QED
        BY <1>1, <1>7, <2>1, <2>3, <3>1, <3>6, <3>7, <3>8, <3>9, <3>10, AskingWay
  <2>11. CASE cache[m] = "whole"
    <3> DEFINE A == Missing(cache, References[m])
    <3>1. game'.wanted = None /\ game'.applied = m /\ AsksFor(start, game', A)
        BY <2>2, <2>11
    <3>2. A \in SUBSET Assets /\ A \cap Maps = {} /\ \A b \in A : cache[b] # "whole"
        BY <1>4 DEF Missing
    <3>3. \A i \in A :
             /\ cache[playerMap] = "whole"
             /\ AllWhole(cache) \/ ~Leaves(game.toServer, playerMap)
             /\ i \in References[DefaultMap] \/ AllWhole(cache)
        BY <2>5, <2>11, UnderwayFacts, ImagesAreAsked
    <3>4. Here(game') = m
        BY <2>7, <3>1 DEF Here
    <3> HIDE DEF A
    <3>5. /\ \A b \in A \cap Maps : b = playerMap /\ game'.wanted = b
          /\ game'.applied # None /\ cache[game'.applied] = "whole"
        BY <2>7, <2>11, <3>1, <3>2
    <3> QED
        BY <2>10, <3>1, <3>2, <3>3, <3>4, <3>5
  <2>12. CASE cache[m] # "whole"
    <3>1. game'.wanted = m /\ game'.applied = game.applied /\ ~game'.ready
          /\ AsksFor(start, game', {m})
      <4>1. game'.wanted = m /\ game'.applied = start.applied /\ ~game'.ready
            /\ AsksFor(start, game', {m})
          BY <2>2, <2>12, Zenon
      <4> QED
          BY <1>3, <4>1
    <3>2. playerMap = m
      <4> DEFINE rest == Tail(Underway)
      <4>1. rest \in Seq(Events) /\ Path(rest, m, playerMap, cache)
          BY <2>4, <2>8
      <4> HIDE DEF rest
      <4> QED
          BY <2>12, <4>1, PathStays
    <3>3. Here(game') = m
        BY <2>7, <3>1 DEF Here
    <3>4. cache[game'.applied] = "whole" /\ game'.applied # None
        BY <2>4, <2>5, <3>1 DEF Planned
    <3>5. {m} \in SUBSET Assets /\ {m} \cap Images = {}
        BY <1>4
    <3> QED
        BY <2>10, <2>12, <3>1, <3>2, <3>3, <3>4, <3>5
  <2> QED
      BY <2>11, <2>12
<1> QED
    BY <1>5, <1>6, <1>7, NoSessionNoWay

LEMMA AsksForMore ==
    ASSUME NEW g, NEW r, NEW A, NEW B, A \subseteq B, AsksFor(g, r, A)
    PROVE  AsksFor(g, r, B)
<1>1. PICK row \in Seq({AssetRequest(a) : a \in A}) : r.toServer = g.toServer \o row
    BY DEF AsksFor
<1>2. {AssetRequest(a) : a \in A} \subseteq {AssetRequest(a) : a \in B}
    OBVIOUS
<1>3. row \in Seq({AssetRequest(a) : a \in B})
    BY <1>2
<1> QED
    BY <1>1, <1>3 DEF AsksFor

(* The manifest comes once, before anybody plays. *)
LEMMA OnManifestWay == ASSUME IInv, WayInv, OnManifest PROVE WayInv'
<1> DEFINE known == [game EXCEPT !.manifest = TRUE, !.probed = FALSE]
           docs == Missing(cache, Documents)
           asked == Request(known, docs)
           begun == Bootstrap(asked, DefaultMap, cache)
<1>1. Handle(Manifest) /\ Manifest # ConnectionFailed /\ Probe(Manifest)
      /\ Manifest.kind = "AssetManifest"
    BY DEF OnManifest, Manifest, ConnectionFailed, Probe
<1>2. /\ game' = [begun EXCEPT !.mode = IF begun.ready THEN "MainMenu" ELSE "Boot"]
      /\ cache' = cache
    BY DEF OnManifest
<1>3. /\ known \in Games
      /\ known.link = game.link /\ known.toServer = game.toServer
      /\ known.fromServer = game.fromServer /\ known.requests = game.requests
      /\ known.applied = game.applied /\ known.images = game.images
      /\ known.mode = game.mode
    BY UnderwayFacts DEF Games
<1>4. /\ docs \subseteq Assets /\ docs \subseteq Documents /\ \A b \in docs : cache[b] # "whole"
      /\ Maps \subseteq Assets /\ Images \subseteq Assets /\ Maps \cap Images = {}
      /\ Documents \cap Maps = {} /\ Documents \cap Images = {}
      /\ DefaultMap \in Maps /\ References[DefaultMap] \subseteq Images
    BY ClientAssumption DEF Assets, Missing
<1> HIDE DEF known, docs
<1>5. /\ AsksFor(known, asked, docs) /\ asked \in Games
      /\ asked.link = game.link /\ asked.fromServer = game.fromServer
      /\ asked.applied = game.applied /\ asked.images = game.images
      /\ asked.mode = game.mode
  <2>1. AsksFor(known, asked, docs)
      BY <1>3, <1>4, RequestAdds
  <2>2. asked \in Games /\ asked = [known EXCEPT !.requests = asked.requests,
                                               !.toServer = asked.toServer]
      BY <1>3, <1>4, RequestAsks
  <2> HIDE DEF asked
  <2> QED
      BY <1>3, <2>1, <2>2 DEF Games
<1> HIDE DEF asked
<1>6. begun \in Games /\ begun.link \in {game.link, "none"}
  <2>1. asked.applied = None => asked.images = {}
      BY <1>5 DEF IInv, Sound
  <2> QED
      BY <1>4, <1>5, <2>1, BootstrapSound DEF Sound, Continues
<1>7. CASE begun.link = "connected"
  <2>1. game.link = "connected"
      BY <1>1, <1>6, <1>7
  <2>2. /\ SameSession(asked, begun)
        /\ cache[DefaultMap] = "whole" =>
              /\ begun.wanted = None /\ begun.applied = DefaultMap
              /\ AsksFor(asked, begun, Missing(cache, References[DefaultMap]))
        /\ cache[DefaultMap] # "whole" =>
              /\ begun.wanted = DefaultMap /\ begun.applied = asked.applied /\ ~begun.ready
              /\ AsksFor(asked, begun, {DefaultMap})
    <3>1. /\ SameSession(asked, begun)
          /\ IF cache[DefaultMap] = "whole"
             THEN /\ begun.wanted = None /\ begun.applied = DefaultMap
                  /\ AsksFor(asked, begun, Missing(cache, References[DefaultMap]))
             ELSE /\ begun.wanted = DefaultMap /\ begun.applied = asked.applied /\ ~begun.ready
                  /\ AsksFor(asked, begun, {DefaultMap})
        BY <1>4, <1>5, <1>7, BootstrapAdds
    <3> HIDE DEF begun
    <3> QED
        BY <3>1
  <2> HIDE DEF begun
  <2>3. /\ game'.link = "connected" /\ game'.fromServer = game.fromServer
        /\ game'.toServer = begun.toServer /\ game'.requests = begun.requests
        /\ game'.wanted = begun.wanted /\ game'.applied = begun.applied
        /\ game'.ready = begun.ready /\ ~Playing(game')
      BY <1>2, <1>5, <1>6, <1>7, <2>2 DEF SameSession, Playing, Games
  <2>4. ~game.manifest
    <3>1. Underway[1] = Manifest /\ Underway # <<>> /\ Underway \in Seq(Events)
        BY <1>1, <2>3, UnderwayTail, UnderwayFacts
    <3>2. ~Unprobed(Underway)
        BY <1>1, <3>1, ProbedTail
    <3>3. ProbedOnce(Underway, game.toServer, game.manifest)
        BY <2>1 DEF WayInv, Way
    <3> QED
        BY <3>2, <3>3 DEF ProbedOnce
  <2>5. ~Playing(game)
      BY <2>4 DEF IInv, LiveSession
  <2>6. /\ Path(Tail(Underway), Here(game), playerMap, cache) /\ Planned(game, cache)
        /\ playerMap = DefaultMap /\ ~Leaves(game.toServer, playerMap)
      BY <1>1, <2>1, <2>5, OnItsWay
  <2>7. game.wanted \in {None, DefaultMap} /\ game.applied \in {None, DefaultMap}
        /\ Here(game) = DefaultMap /\ DefaultMap # None
      BY <1>4, <2>5, <2>6, NoMapIsNone DEF Planned, Here
  <2>8. ASSUME NEW B \in SUBSET Assets, AsksFor(asked, begun, B),
               \A b \in B : cache[b] # "whole",
               B \cap Maps \subseteq {DefaultMap},
               B \cap Maps # {} => game'.wanted = DefaultMap,
               \A i \in B \cap Images : game'.applied # None /\ cache[DefaultMap] = "whole"
                                        /\ i \in References[DefaultMap],
               game'.wanted \in {None, DefaultMap},
               game'.applied \in {None, DefaultMap},
               game.applied # None => game'.applied # None,
               game'.applied # None => cache[DefaultMap] = "whole",
               game'.wanted # None => cache[DefaultMap] # "whole" /\ ~game'.ready,
               game'.wanted = None => cache[DefaultMap] = "whole"
        PROVE  WayInv'
    <3> DEFINE A == docs \cup B
    <3>1. AsksFor(game, game', A)
      <4>1. AsksFor(known, asked, A) /\ AsksFor(asked, begun, A)
          BY <1>5, <2>8, AsksForMore
      <4>2. A \subseteq Assets /\ known.toServer \in Seq(ToServer)
          BY <1>3, <1>4, <2>8, UnderwayFacts
      <4>3. AsksFor(known, begun, A)
        <5> HIDE DEF A
        <5> QED
          BY <4>1, <4>2, AsksOn
      <4> HIDE DEF A
      <4> QED
          BY <1>3, <2>3, <4>3 DEF AsksFor
    <3>2. A \in SUBSET Assets /\ (\A b \in A : cache[b] # "whole")
          /\ A \cap Maps = B \cap Maps /\ A \cap Images = B \cap Images
        BY <1>4, <2>8
    <3> HIDE DEF A
    <3>3. \A b \in Assets : game'.requests[b] > 0 =>
              (game.requests[b] > 0 /\ cache[b] # "whole") \/ b \in A
        BY <2>6, <3>1 DEF AsksFor, Planned
    <3>4. \A x \in Maps : game'.requests[x] > 0 => game'.wanted = x
      <4> SUFFICES ASSUME NEW x \in Maps, game'.requests[x] > 0 PROVE game'.wanted = x
          OBVIOUS
      <4>1. x \in Assets /\ x # None
          BY <1>4, NoMapIsNone
      <4>2. CASE x \in A
          BY <2>8, <3>2, <4>2
      <4>3. CASE game.requests[x] > 0 /\ cache[x] # "whole"
        <5>1. game.wanted = x
            BY <2>6, <4>3 DEF Planned
        <5>2. x = DefaultMap
            BY <2>7, <4>1, <5>1
        <5> QED
            BY <2>8, <4>3, <5>2
      <4> QED
          BY <3>3, <4>1, <4>2, <4>3
    <3>5. \A i \in A \cap Images :
              game'.applied # None /\ (i \in References[DefaultMap] \/ AllWhole(cache))
        BY <2>8, <3>2
    <3>6. /\ game'.applied # None => cache[game'.applied] = "whole" /\ cache[DefaultMap] = "whole"
          /\ game'.wanted # None => cache[game'.wanted] # "whole" /\ ~game'.ready
        BY <2>8
    <3>7. Planned(game', cache')
      <4>1. Planned(game', cache)
          BY <2>3, <2>5, <2>6, <2>8, <3>2, <3>3, <3>4, <3>5, <3>6, PlannedNext
      <4> QED
          BY <1>2, <4>1
    <3>8. Path(Tail(Underway), Here(game'), playerMap, cache')
      <4>1. Here(game') = DefaultMap
          BY <2>7, <2>8 DEF Here
      <4> QED
          BY <1>2, <2>6, <2>7, <4>1
    <3>9. /\ \A b \in A \cap Maps : b = playerMap /\ cache'[b] # "whole"
          /\ \A i \in A \cap Images :
                /\ cache'[playerMap] = "whole"
                /\ AllWhole(cache') \/ ~Leaves(game.toServer, playerMap)
          /\ \A x \in Maps : cache[x] = "whole" => cache'[x] = "whole"
        BY <1>2, <2>6, <2>8, <3>2
    <3>10. game'.manifest => game.manifest \/ Probe(Manifest)
        BY <1>1
    <3> QED
        BY <1>1, <2>1, <2>3, <2>5, <3>1, <3>2, <3>7, <3>8, <3>9, <3>10, AskingWay
  <2>9. CASE cache[DefaultMap] = "whole"
    <3> DEFINE B == Missing(cache, References[DefaultMap])
    <3>1. game'.wanted = None /\ game'.applied = DefaultMap /\ AsksFor(asked, begun, B)
        BY <2>2, <2>3, <2>9
    <3>2. B \in SUBSET Assets /\ B \cap Maps = {} /\ (\A b \in B : cache[b] # "whole")
          /\ \A i \in B : i \in References[DefaultMap]
        BY <1>4 DEF Missing
    <3> HIDE DEF B
    <3>3. \A i \in B \cap Images : game'.applied # None /\ cache[DefaultMap] = "whole"
                                   /\ i \in References[DefaultMap]
        BY <2>7, <2>9, <3>1, <3>2
    <3> QED
        BY <2>7, <2>8, <2>9, <3>1, <3>2, <3>3
  <2>10. CASE cache[DefaultMap] # "whole"
    <3>1. game.applied = None
        BY <2>6, <2>7, <2>10 DEF Planned
    <3>2. game'.wanted = DefaultMap /\ game'.applied = None /\ ~game'.ready
          /\ AsksFor(asked, begun, {DefaultMap})
        BY <1>5, <2>2, <2>3, <2>10, <3>1
    <3>3. {DefaultMap} \in SUBSET Assets /\ {DefaultMap} \cap Images = {}
        BY <1>4
    <3> QED
        BY <2>7, <2>8, <2>10, <3>1, <3>2, <3>3
  <2> QED
      BY <2>9, <2>10
<1>8. CASE begun.link # "connected"
  <2> HIDE DEF begun
  <2>1. game'.link = begun.link
      BY <1>2, <1>6 DEF Games
  <2>2. game.link # "connecting"
      BY <1>1, HandleFacts
  <2>3. game.link \in {"none", "connecting", "connected"}
      BY UnderwayFacts DEF Games
  <2> QED
      BY <1>6, <1>8, <2>1, <2>2, <2>3, NoSessionNoWay
<1> QED
    BY <1>7, <1>8

LEMMA HandleEventWay == ASSUME TwoMaps, IInv, WayInv, HandleEvent PROVE WayInv'
    BY OnConnectedWay, OnConnectionFailedWay, OnDisconnectedWay, OnHandshakeWay,
       OnManifestWay, OnBlobWay, OnMapTransferWay DEF HandleEvent

(* Timers and keys *)

LEMMA BootWay == ASSUME NEW n, BootUpdateCheck(n) PROVE WayInv'
<1>1. CASE game' = [Fresh EXCEPT !.link = "connecting"]
  <2>1. game'.link = "connecting"
      BY <1>1 DEF Fresh
  <2> QED
      BY <1>1, <2>1 DEF WayInv
<1>2. CASE game' = RetryWait(Fresh)
  <2>1. game'.link = "none"
      BY <1>2 DEF RetryWait, Offline, Fresh
  <2> QED
      BY <2>1, NoSessionNoWay
<1> QED
    BY <1>1, <1>2 DEF BootUpdateCheck

(* A step of the client after which the same events are under way. *)
LEMMA SameEventsWay ==
    ASSUME IInv, WayInv, game.link = "connected", game'.link = "connected",
           Underway' = Underway, unheard' = 0, cache' = cache, playerMap' = playerMap,
           game'.manifest = game.manifest,
           game'.wanted = game.wanted, game'.applied = game.applied,
           Asks(game'.toServer, playerMap, cache),
           Planned(game', cache),
           Playing(game') \/ AtHome(Underway, game'.toServer, playerMap),
           Unbroken(Underway, Playing(game')),
           ProbedOnce(Underway, game'.toServer, game.manifest)
    PROVE  WayInv'
<1>1. Here(game') = Here(game)
    BY DEF Here
<1>2. Path(Underway, Here(game), playerMap, cache)
    BY DEF WayInv, Way
<1>3. Way(Underway, game', playerMap, cache)
    BY <1>1, <1>2 DEF Way
<1>4. Way(Underway', game', playerMap', cache')
    BY <1>3
<1> QED
    BY <1>4 DEF WayInv

LEMMA ClientStepWay ==
    ASSUME IInv, WayInv, game.link = "connected", game'.link = "connected",
           UNCHANGED <<batch, unheard, cache, playerMap>>,
           game'.fromServer = game.fromServer, game'.manifest = game.manifest,
           game'.wanted = game.wanted, game'.applied = game.applied,
           Asks(game'.toServer, playerMap, cache),
           Planned(game', cache),
           Playing(game') \/ AtHome(Underway, game'.toServer, playerMap),
           Unbroken(Underway, Playing(game')),
           ProbedOnce(Underway, game'.toServer, game.manifest)
    PROVE  WayInv'
<1>1. Underway' = Underway /\ cache' = cache /\ playerMap' = playerMap /\ unheard' = 0
    BY DEF Underway, WayInv
<1> QED
    BY <1>1, SameEventsWay

LEMMA ConnectTimeoutWay == ASSUME IInv, ConnectTimeout PROVE WayInv'
<1>1. game' = Offline(game) /\ game \in Games
    BY UnderwayFacts DEF ConnectTimeout
<1>2. game'.link = "none"
    BY <1>1, OfflineKeeps
<1> QED
    BY <1>2, NoSessionNoWay

LEMMA ManifestTimeoutWay == ASSUME IInv, ManifestTimeout PROVE WayInv'
<1>1. game' = RetryWait(game) /\ game \in Games
    BY UnderwayFacts DEF ManifestTimeout
<1>2. game'.link = "none"
    BY <1>1, RetryWaitLink
<1> QED
    BY <1>2, NoSessionNoWay

LEMMA RequestTimeoutWay ==
    ASSUME IInv, WayInv, NEW a \in Assets, RequestTimeout(a)
    PROVE  WayInv'
<1>1. game.link = "connected" /\ game.requests[a] > 0 /\ game \in Games
      /\ UNCHANGED <<batch, unheard, cache, playerMap>>
    BY UnderwayFacts DEF RequestTimeout
<1>2. CASE game' = RetryWait(game)
  <2>1. game'.link = "none"
      BY <1>1, <1>2, RetryWaitLink
  <2> QED
      BY <2>1, NoSessionNoWay
<1>3. CASE game' = [game EXCEPT !.requests[a] = @ + 1,
                               !.toServer = Append(@, AssetRequest(a))]
  <2> DEFINE row == <<AssetRequest(a)>>
  <2>1. /\ game'.link = "connected" /\ game'.fromServer = game.fromServer
        /\ game'.manifest = game.manifest /\ game'.ready = game.ready
        /\ game'.wanted = game.wanted /\ game'.applied = game.applied
        /\ game'.mode = game.mode
        /\ game'.toServer = Append(game.toServer, AssetRequest(a))
        /\ \A b \in Assets : game'.requests[b] > 0 => game.requests[b] > 0
      BY <1>1, <1>3 DEF Games
  <2>2. game'.toServer = game.toServer \o row /\ row \in Seq({AssetRequest(b) : b \in {a}})
      BY <2>1, UnderwayFacts
  <2> HIDE DEF row
  <2>3. Way(Underway, game, playerMap, cache)
      BY <1>1 DEF WayInv
  <2>4. /\ Planned(game, cache) /\ Asks(game.toServer, playerMap, cache)
        /\ Path(Underway, Here(game), playerMap, cache)
        /\ Playing(game) \/ AtHome(Underway, game.toServer, playerMap)
        /\ Unbroken(Underway, Playing(game))
        /\ ProbedOnce(Underway, game.toServer, game.manifest)
      BY <2>3 DEF Way
  <2>5. Playing(game') <=> Playing(game)
      BY <2>1 DEF Playing
  <2>6. Maps \subseteq Assets /\ Images \subseteq Assets /\ Maps \cap Images = {}
        /\ DefaultMap \in Maps /\ References[DefaultMap] \subseteq Images
      BY ClientAssumption DEF Assets
  <2>7. ASSUME a \in Maps
        PROVE  a = playerMap /\ ~Leaves(game.toServer, playerMap)
    <3>1. Here(game) = a /\ cache[a] # "whole"
        BY <1>1, <2>4, <2>6, <2>7, NoMapIsNone DEF Planned, Here
    <3>2. playerMap = a
        BY <2>4, <3>1, UnderwayFacts, PathStays
    <3>3. ~Leaves(game.toServer, a)
        BY <2>4, <3>1 DEF Leaves, Asks, Interact
    <3> QED
        BY <3>2, <3>3
  <2>8. ASSUME a \in Images
        PROVE  /\ cache[playerMap] = "whole"
               /\ AllWhole(cache) \/ ~Leaves(game.toServer, playerMap)
               /\ game.applied # None /\ (a \in References[DefaultMap] \/ AllWhole(cache))
    <3>1. /\ cache[a] # "whole" /\ game.applied # None
          /\ a \in References[DefaultMap] \/ AllWhole(cache)
          /\ cache[DefaultMap] = "whole"
        BY <1>1, <2>4, <2>6, <2>8 DEF Planned
    <3>2. CASE AllWhole(cache)
        BY <3>1, <3>2, UnderwayFacts DEF AllWhole
    <3>3. CASE a \in References[DefaultMap]
      <4>1. ~Playing(game)
          BY <2>4, <3>1, <3>3 DEF Planned, Missing
      <4>2. playerMap = DefaultMap /\ ~Leaves(game.toServer, playerMap)
          BY <2>4, <4>1 DEF AtHome, Leaves, Interact
      <4> QED
          BY <3>1, <4>2
    <3> QED
        BY <3>1, <3>2, <3>3
  <2>9. Asks(game'.toServer, playerMap, cache)
    <3>1. /\ \A b \in {a} \cap Maps : b = playerMap /\ ~Leaves(game.toServer, playerMap)
          /\ \A b \in {a} \cap Images :
                cache[playerMap] = "whole"
                /\ (AllWhole(cache) \/ ~Leaves(game.toServer, playerMap))
        BY <2>7, <2>8
    <3>2. {a} \in SUBSET Assets
        OBVIOUS
    <3> QED
        BY <2>2, <2>4, <3>1, <3>2, UnderwayFacts, AsksMore
  <2>10. Planned(game', cache)
    <3>1. \A b \in Assets : game'.requests[b] > 0 => cache[b] # "whole"
        BY <2>1, <2>4 DEF Planned
    <3>2. \A m \in Maps : game'.requests[m] > 0 => game'.wanted = m
        BY <2>1, <2>4, <2>6 DEF Planned
    <3>3. \A i \in Images : game'.requests[i] > 0 =>
             game'.applied # None /\ (i \in References[DefaultMap] \/ AllWhole(cache))
        BY <2>1, <2>4, <2>6 DEF Planned
    <3>4. /\ game'.applied # None => cache[game'.applied] = "whole" /\ cache[DefaultMap] = "whole"
          /\ game'.wanted # None => cache[game'.wanted] # "whole" /\ ~game'.ready
          /\ IF Playing(game') THEN /\ game'.applied # None
                                    /\ Missing(cache, References[DefaultMap]) = {}
             ELSE game'.wanted \in {None, DefaultMap} /\ game'.applied \in {None, DefaultMap}
        BY <2>1, <2>4, <2>5 DEF Planned
    <3> QED
        BY <3>1, <3>2, <3>3, <3>4 DEF Planned
  <2>11. /\ ProbedOnce(Underway, game'.toServer, game.manifest)
         /\ Playing(game') \/ AtHome(Underway, game'.toServer, playerMap)
    <3>1. {a} \in SUBSET Assets
        OBVIOUS
    <3>2. /\ OneProbe(game.toServer) => OneProbe(game.toServer \o row)
          /\ Unprobed(game.toServer) => Unprobed(game.toServer \o row)
          /\ (\A k \in 1..Len(game.toServer) : game.toServer[k].kind # "Interact")
                => \A k \in 1..Len(game.toServer \o row) : (game.toServer \o row)[k].kind # "Interact"
        BY <2>2, <3>1, UnderwayFacts, RowIsQuiet
    <3> QED
        BY <2>2, <2>4, <2>5, <3>2 DEF ProbedOnce, AtHome
  <2>12. Unbroken(Underway, Playing(game'))
      BY <2>4, <2>5 DEF Unbroken
  <2> QED
      BY <1>1, <2>1, <2>5, <2>9, <2>10, <2>11, <2>12, ClientStepWay
<1> QED
    BY <1>2, <1>3 DEF RequestTimeout

LEMMA EnterWorldWay == ASSUME IInv, WayInv, EnterWorld PROVE WayInv'
<1>1. game' = [game EXCEPT !.mode = "World"] /\ game.mode = "LoggingIn"
      /\ game.link = "connected" /\ UNCHANGED <<batch, unheard, cache, playerMap>>
    BY DEF EnterWorld
<1>2. /\ game'.link = game.link /\ game'.toServer = game.toServer /\ game'.fromServer = game.fromServer
      /\ game'.manifest = game.manifest /\ game'.ready = game.ready
      /\ game'.wanted = game.wanted /\ game'.applied = game.applied
      /\ game'.requests = game.requests /\ game'.mode = "World"
    BY <1>1, UnderwayFacts DEF Games
<1>3. Playing(game') /\ Playing(game)
    BY <1>1, <1>2 DEF Playing
<1>4. /\ Planned(game, cache) /\ Asks(game.toServer, playerMap, cache)
      /\ Unbroken(Underway, Playing(game))
      /\ ProbedOnce(Underway, game.toServer, game.manifest)
    BY <1>1 DEF WayInv, Way
<1>5. Planned(game', cache)
    BY <1>2, <1>3, <1>4 DEF Planned
<1>6. Unbroken(Underway, Playing(game'))
    BY <1>3, <1>4 DEF Unbroken
<1> QED
    BY <1>1, <1>2, <1>3, <1>4, <1>5, <1>6, ClientStepWay

(* Who logs in has the start map and its images. *)
LEMMA LoginWay == ASSUME IInv, WayInv, Login PROVE WayInv'
<1>1. CASE MayLogIn
  <2>1. game' = [game EXCEPT !.mode = "LoggingIn"] /\ game.mode = "MainMenu" /\ batch = <<>>
        /\ game.link = "connected" /\ game.ready
        /\ UNCHANGED <<batch, unheard, cache, playerMap>>
      BY <1>1 DEF Login, Between, MayLogIn
  <2>2. /\ game'.link = game.link /\ game'.toServer = game.toServer
        /\ game'.fromServer = game.fromServer
        /\ game'.manifest = game.manifest /\ game'.ready = game.ready
        /\ game'.wanted = game.wanted /\ game'.applied = game.applied
        /\ game'.requests = game.requests /\ game'.mode = "LoggingIn"
      BY <2>1, UnderwayFacts DEF Games
  <2>3. Playing(game') /\ ~Playing(game)
      BY <2>1, <2>2 DEF Playing
  <2>4. /\ Planned(game, cache) /\ Asks(game.toServer, playerMap, cache)
        /\ ProbedOnce(Underway, game.toServer, game.manifest)
      BY <2>1 DEF WayInv, Way
  <2>5. game.applied # None /\ Missing(cache, References[game.applied]) = {}
      BY <2>1 DEF IInv, Sound, Drawable
  <2>6. game.applied = DefaultMap
      BY <2>3, <2>4, <2>5 DEF Planned
  <2>7. Planned(game', cache)
      BY <2>2, <2>3, <2>4, <2>5, <2>6 DEF Planned
  <2>8. Unbroken(Underway, Playing(game'))
    <3>1. Underway = game.fromServer
        BY <2>1, UnderwayFacts DEF Underway
    <3>2. \A k \in 1..Len(game.fromServer) : game.fromServer[k] \in ToClient
        BY UnderwayFacts
    <3>3. Disconnected \notin ToClient /\ ConnectionFailed \notin ToClient
        BY DEF ToClient, Disconnected, ConnectionFailed, Handshake, Manifest, Blob, MapTransfer
    <3> QED
        BY <3>1, <3>2, <3>3 DEF Unbroken
  <2> QED
      BY <2>1, <2>2, <2>3, <2>4, <2>7, <2>8, ClientStepWay
<1>2. CASE ~MayLogIn
    BY <1>2, BootWay DEF Login
<1> QED
    BY <1>1, <1>2

(* A portal is on a map whose file is there. *)
LEMMA UsePortalWay == ASSUME IInv, WayInv, UsePortal PROVE WayInv'
<1> DEFINE e == Interact(game.applied)
<1>1. game' = [game EXCEPT !.toServer = Append(@, e)] /\ game.mode = "World"
      /\ game.link = "connected" /\ game.applied # None
      /\ UNCHANGED <<batch, unheard, cache, playerMap>>
    BY DEF UsePortal
<1>2. /\ game'.link = game.link /\ game'.toServer = Append(game.toServer, e)
      /\ game'.fromServer = game.fromServer
      /\ game'.manifest = game.manifest /\ game'.ready = game.ready
      /\ game'.wanted = game.wanted /\ game'.applied = game.applied
      /\ game'.requests = game.requests /\ game'.mode = game.mode
    BY <1>1, UnderwayFacts DEF Games
<1>3. Playing(game') /\ Playing(game)
    BY <1>1, <1>2 DEF Playing
<1>4. /\ Planned(game, cache) /\ Asks(game.toServer, playerMap, cache)
      /\ Unbroken(Underway, Playing(game))
      /\ ProbedOnce(Underway, game.toServer, game.manifest)
    BY <1>1 DEF WayInv, Way
<1>5. Planned(game', cache)
    BY <1>2, <1>3, <1>4 DEF Planned
<1>6. Unbroken(Underway, Playing(game'))
    BY <1>3, <1>4 DEF Unbroken
<1>7. e.kind = "Interact" /\ cache[e.map] = "whole" /\ ~Probe(e)
    BY <1>1, <1>4 DEF Planned, Interact, Probe
<1> HIDE DEF e
<1>8. Asks(game'.toServer, playerMap, cache)
    BY <1>2, <1>4, <1>7, UnderwayFacts, AsksAppend
<1>9. ProbedOnce(Underway, game'.toServer, game.manifest)
    BY <1>2, <1>4, <1>7, UnderwayFacts, ProbedAppend DEF ProbedOnce
<1> QED
    BY <1>1, <1>2, <1>3, <1>5, <1>6, <1>8, <1>9, ClientStepWay

(* What arrives *)

LEMMA NewSessionWay ==
    ASSUME NEW n \in 0..1, IInv, game = [Fresh EXCEPT !.link = "connecting"],
           game' = [game EXCEPT !.link = "connected", !.fromServer = SubSeq(<<Handshake>>, n + 1, 1)],
           batch' = Left \o <<Connected>> \o SubSeq(<<Handshake>>, 1, n) \o <<>>,
           unheard' = 0, playerMap' = DefaultMap, cache' = cache
    PROVE  WayInv'
<1> DEFINE c == Underway'
           count == Len(Left)
<1>1. Left \in Seq(Events) /\ (\A k \in 1..Len(Left) : Left[k] = ConnectionFailed)
      /\ count \in Nat
    BY LeftIsFailures DEF IInv
<1>2. game'.fromServer = SubSeq(<<Handshake>>, n + 1, 1)
    BY DEF Fresh
<1>3. Connected \in Events /\ Handshake \in Events
    BY DEF Events, ToClient
<1>15. /\ SubSeq(<<Handshake>>, 1, 0) = <<>> /\ SubSeq(<<Handshake>>, 2, 1) = <<>>
       /\ SubSeq(<<Handshake>>, 1, 1) = <<Handshake>>
  <2> DEFINE one == <<Handshake>>
  <2>1. one \in Seq({Handshake}) /\ Len(one) = 1
      OBVIOUS
  <2> HIDE DEF one
  <2>2. SubSeq(one, 1, Len(one)) = one
      BY <2>1, SubSeqFull
  <2>3. SubSeq(one, 1, 0) = <<>>
      BY SubSeqEmpty
  <2>4. SubSeq(one, 2, 1) = <<>>
      BY SubSeqEmpty
  <2> QED
      BY <2>1, <2>2, <2>3, <2>4 DEF one
<1>4. /\ Len(c) = count + 2
      /\ \A k \in 1..(count + 2) :
            c[k] = IF k <= count THEN ConnectionFailed
                   ELSE IF k = count + 1 THEN Connected ELSE Handshake
  <2>1. CASE n = 0
    <3>1. SubSeq(<<Handshake>>, 1, 0) = <<>> /\ SubSeq(<<Handshake>>, 1, 1) = <<Handshake>>
        BY <1>15
    <3>2. c = (Left \o <<Connected>> \o <<>> \o <<>>) \o <<Handshake>>
        BY <1>2, <2>1, <3>1 DEF Underway
    <3> HIDE DEF c
    <3> QED
        BY <1>1, <1>3, <3>2
  <2>2. CASE n = 1
    <3>1. SubSeq(<<Handshake>>, 1, 1) = <<Handshake>> /\ SubSeq(<<Handshake>>, 2, 1) = <<>>
        BY <1>15
    <3>2. c = (Left \o <<Connected>> \o <<Handshake>> \o <<>>) \o <<>>
        BY <1>2, <2>2, <3>1 DEF Underway
    <3> HIDE DEF c
    <3> QED
        BY <1>1, <1>3, <3>2
  <2> QED
      BY <2>1, <2>2
<1> HIDE DEF c, count
<1>5. /\ game'.link = "connected" /\ game'.toServer = <<>> /\ ~game'.manifest
      /\ game'.wanted = None /\ game'.applied = None
      /\ (\A a \in Assets : game'.requests[a] = 0)
      /\ ~Playing(game')
    BY DEF Fresh, NoRequests, Playing
<1>6. \A k \in 1..Len(c) :
         /\ c[k].kind \in {"ConnectionFailed", "Connected", "Handshake"}
         /\ c[k] # Disconnected
         /\ Probe(c[k]) <=> k = count + 1
    BY <1>1, <1>4 DEF ConnectionFailed, Connected, Handshake, Disconnected, Probe
<1>7. Path(c, Here(game'), DefaultMap, cache)
  <2> DEFINE h == [k \in 0..Len(c) |-> DefaultMap]
  <2>1. Here(game') = DefaultMap
      BY <1>5 DEF Here
  <2>2. Len(c) \in Nat
      BY <1>1, <1>4
  <2>3. IsPath(h, c, DefaultMap, DefaultMap, cache)
    <3>1. \A k \in 0..Len(c) : h[k] = DefaultMap
        OBVIOUS
    <3>2. \A k \in 1..Len(c) : /\ k \in 0..Len(c) /\ k - 1 \in 0..Len(c)
                               /\ c[k].kind # "MapTransfer" /\ c[k].kind # "AssetBlob"
      <4>1. \A k \in 1..Len(c) : k \in 0..Len(c) /\ k - 1 \in 0..Len(c)
          BY <2>2
      <4>2. \A k \in 1..Len(c) : c[k].kind # "MapTransfer" /\ c[k].kind # "AssetBlob"
          BY <1>6
      <4> QED
          BY <4>1, <4>2
    <3>3. 0 \in 0..Len(c) /\ Len(c) \in 0..Len(c)
        BY <2>2
    <3> HIDE DEF h
    <3>4. h[0] = DefaultMap /\ h[Len(c)] = DefaultMap
        BY <3>1, <3>3
    <3>5. \A k \in 1..Len(c) : h[k] = DefaultMap /\ h[k - 1] = DefaultMap
        BY <3>1, <3>2
    <3> QED
      <4>1. \A k \in 1..Len(c) :
               /\ h[k] = IF c[k].kind = "MapTransfer" THEN c[k].map ELSE h[k - 1]
               /\ c[k].kind = "MapTransfer" => cache[h[k - 1]] = "whole"
               /\ c[k].kind = "AssetBlob" =>
                     /\ c[k].asset \in Maps => h[k - 1] = c[k].asset
                     /\ c[k].asset \in Images => cache[h[k - 1]] = "whole"
        <5> SUFFICES ASSUME NEW k \in 1..Len(c)
                     PROVE  /\ h[k] = IF c[k].kind = "MapTransfer" THEN c[k].map ELSE h[k - 1]
                            /\ c[k].kind = "MapTransfer" => cache[h[k - 1]] = "whole"
                            /\ c[k].kind = "AssetBlob" =>
                                  /\ c[k].asset \in Maps => h[k - 1] = c[k].asset
                                  /\ c[k].asset \in Images => cache[h[k - 1]] = "whole"
            OBVIOUS
        <5>1. c[k].kind # "MapTransfer" /\ c[k].kind # "AssetBlob"
            BY <3>2
        <5>2. h[k] = h[k - 1]
            BY <3>5
        <5> QED
            BY <5>1, <5>2
      <4> QED
          BY <3>4, <4>1 DEF IsPath
  <2>4. h \in [0..Len(c) -> Maps]
      BY ClientAssumption
  <2> QED
      BY <2>1, <2>3, <2>4 DEF Path
<1>8. Asks(game'.toServer, DefaultMap, cache)
    BY <1>5 DEF Asks
<1>9. Planned(game', cache)
  <2>1. \A a \in Assets : ~(game'.requests[a] > 0)
      BY <1>5
  <2>2. Maps \subseteq Assets /\ Images \subseteq Assets
      BY DEF Assets
  <2> QED
      BY <1>5, <2>1, <2>2 DEF Planned
<1>10. AtHome(c, game'.toServer, DefaultMap)
  <2>1. \A k \in 1..Len(game'.toServer) : FALSE
      BY <1>5
  <2>2. \A k \in 1..Len(c) : c[k].kind # "MapTransfer"
      BY <1>6
  <2> QED
      BY <2>1, <2>2 DEF AtHome
<1>11. Unbroken(c, Playing(game'))
    BY <1>5, <1>6 DEF Unbroken
<1>12. ProbedOnce(c, game'.toServer, game'.manifest)
    BY <1>5, <1>6 DEF ProbedOnce, OneProbe, Unprobed
<1>13. Way(c, game', DefaultMap, cache)
    BY <1>7, <1>8, <1>9, <1>10, <1>11, <1>12 DEF Way
<1>14. Way(Underway', game', playerMap', cache')
    BY <1>13 DEF c
<1> QED
    BY <1>5, <1>14 DEF WayInv

LEMMA ReceiveWay == ASSUME IInv, WayInv, Receive PROVE WayInv'
<1>1. batch = <<>> /\ unheard' = 0 /\ cache' = cache
    BY DEF Receive, Between
<1>2. PICK up \in BOOLEAN, down \in BOOLEAN, n \in 0..(Len(game.fromServer) + 1) :
          /\ up => game.link = "connecting"
          /\ n > 0 => up \/ game.link = "connected"
          /\ down => game.link # "none"
          /\ Arrives(up, n, down)
    BY DEF Receive
<1>3. game \in Games /\ game.fromServer \in Seq(ToClient)
    BY UnderwayFacts
<1>4. CASE down
  <2> DEFINE now == [game EXCEPT !.link = IF up THEN "connected" ELSE @,
                                 !.fromServer = SubSeq(IF up THEN <<Handshake>> ELSE game.fromServer,
                                                       n + 1,
                                                       Len(IF up THEN <<Handshake>> ELSE game.fromServer))]
  <2>1. game' = Offline(now)
      BY <1>2, <1>4 DEF Arrives
  <2>2. now = [game EXCEPT !.link = now.link, !.fromServer = now.fromServer]
      BY <1>3 DEF Games
  <2> HIDE DEF now
  <2>3. game'.link = "none"
      BY <1>3, <2>1, <2>2 DEF Offline, Games
  <2> QED
      BY <2>3, NoSessionNoWay
<1>5. CASE ~down /\ up
  <2>1. n \in 0..1 /\ game = [Fresh EXCEPT !.link = "connecting"]
    <3>1. n \in 0..Len(<<Handshake>>)
        BY <1>2, <1>5 DEF Arrives
    <3> QED
        BY <1>2, <1>5, <3>1 DEF WayInv
  <2>2. /\ game' = [game EXCEPT !.link = "connected", !.fromServer = SubSeq(<<Handshake>>, n + 1, 1)]
        /\ batch' = Left \o <<Connected>> \o SubSeq(<<Handshake>>, 1, n) \o <<>>
        /\ playerMap' = DefaultMap
      BY <1>2, <1>5 DEF Arrives
  <2> QED
      BY <1>1, <2>1, <2>2, NewSessionWay
<1>6. CASE ~down /\ ~up
  <2> DEFINE s == game.fromServer
  <2>1. /\ n \in 0..Len(s)
        /\ game' = [game EXCEPT !.link = @, !.fromServer = SubSeq(s, n + 1, Len(s))]
        /\ batch' = Left \o <<>> \o SubSeq(s, 1, n) \o <<>>
        /\ playerMap' = playerMap
      BY <1>2, <1>6 DEF Arrives
  <2>2. /\ game'.link = game.link /\ game'.fromServer = SubSeq(s, n + 1, Len(s))
        /\ game'.toServer = game.toServer /\ game'.requests = game.requests
        /\ game'.manifest = game.manifest /\ game'.ready = game.ready
        /\ game'.wanted = game.wanted /\ game'.applied = game.applied /\ game'.mode = game.mode
      BY <1>3, <2>1 DEF Games
  <2>3. CASE game.link = "none"
      BY <2>2, <2>3, NoSessionNoWay
  <2>4. CASE game.link = "connecting"
    <3>1. s = <<>> /\ game = [Fresh EXCEPT !.link = "connecting"]
        BY <2>4 DEF WayInv, Fresh
    <3>2. SubSeq(s, n + 1, Len(s)) = s
        BY <2>1, <3>1
    <3>3. game' = [game EXCEPT !.link = @, !.fromServer = s]
        BY <2>1, <3>2
    <3>4. game' = game
        BY <1>3, <3>3 DEF Games
    <3> QED
        BY <2>4, <3>1, <3>4 DEF WayInv
  <2>5. CASE game.link = "connected"
    <3>1. unheard = 0 /\ Way(Underway, game, playerMap, cache)
        BY <2>5 DEF WayInv
    <3>2. Left = <<>>
        BY <3>1 DEF Left
    <3>3. s \in Seq(ToClient) /\ s \in Seq(Events)
        BY <1>3, UnderwayFacts
    <3> HIDE DEF s
    <3>4. batch' = SubSeq(s, 1, n)
        BY <2>1, <3>2, <3>3
    <3>5. SubSeq(s, 1, n) \o SubSeq(s, n + 1, Len(s)) = s
      <4>1. /\ 1 \in 1..(Len(s) + 1) /\ n \in (1 - 1)..Len(s)
            /\ Len(s) \in n..Len(s)
          BY <2>1, <3>3
      <4>2. SubSeq(s, 1, n) \o SubSeq(s, n + 1, Len(s)) = SubSeq(s, 1, Len(s))
          BY <3>3, <4>1, ConcatAdjacentSubSeq, Zenon
      <4> QED
          BY <3>3, <4>2, SubSeqFull
    <3>6. Underway' = s
        BY <2>2, <3>4, <3>5 DEF Underway
    <3>7. Underway = s
        BY <1>1, <3>3 DEF Underway, s
    <3>8. (Playing(game') <=> Playing(game)) /\ Planned(game', cache)
      <4>1. Playing(game') <=> Playing(game)
          BY <2>2 DEF Playing
      <4> QED
          BY <2>2, <3>1, <4>1 DEF Way, Planned
    <3>9. /\ Asks(game'.toServer, playerMap, cache)
          /\ Playing(game') \/ AtHome(Underway, game'.toServer, playerMap)
          /\ Unbroken(Underway, Playing(game'))
          /\ ProbedOnce(Underway, game'.toServer, game.manifest)
        BY <2>2, <3>1, <3>8 DEF Way, Unbroken
    <3> QED
        BY <1>1, <2>1, <2>2, <2>5, <3>6, <3>7, <3>8, <3>9, SameEventsWay
  <2> QED
      BY <1>3, <2>3, <2>4, <2>5 DEF Games
<1> QED
    BY <1>4, <1>5, <1>6

LEMMA TimersWay == ASSUME IInv, WayInv, Timers PROVE WayInv'
    BY ConnectTimeoutWay, ManifestTimeoutWay, RequestTimeoutWay, EnterWorldWay, BootWay
       DEF Timers, Retry

LEMMA KeysWay == ASSUME IInv, WayInv, Keys PROVE WayInv'
    BY LoginWay, UsePortalWay, BootWay DEF Keys, Reconnect

LEMMA CrashWay == ASSUME Crash PROVE WayInv'
    BY BootWay DEF Crash

(* The server *)

LEMMA SentWay ==
    ASSUME IInv, WayInv, NEW packet, Take(packet), NEW packets \in Seq(ToClient),
           Answer(packets),
           game.link = "connected" =>
              /\ Path(Underway \o packets, Here(game), playerMap', cache)
              /\ Asks(Tail(game.toServer), playerMap', cache)
              /\ \/ Playing(game)
                 \/ playerMap' = playerMap
                    /\ \A k \in 1..Len(packets) : packets[k].kind # "MapTransfer"
              /\ ProbedOnce(Underway \o packets, Tail(game.toServer), game.manifest)
    PROVE  WayInv'
<1> DEFINE c == Underway \o packets
           d == Tail(game.toServer)
<1>1. game.toServer # <<>> /\ UNCHANGED <<batch, unheard, cache>>
    BY DEF Take
<1>2. /\ game'.link = game.link /\ game'.mode = game.mode /\ game'.manifest = game.manifest
      /\ game'.ready = game.ready /\ game'.wanted = game.wanted
      /\ game'.applied = game.applied /\ game'.requests = game.requests
      /\ game'.toServer = d /\ game'.fromServer = game.fromServer \o packets
    BY UnderwayFacts DEF Answer, Games
<1>3. Underway' = c
  <2>1. packets \in Seq(Events) /\ batch \in Seq(Events) /\ game.fromServer \in Seq(Events)
    <3>1. ToClient \subseteq Events
        BY DEF Events
    <3> QED
        BY <3>1, UnderwayFacts
  <2>2. (batch \o game.fromServer) \o packets = batch \o (game.fromServer \o packets)
    <3>1. \A x, y, z \in Seq(Events) : (x \o y) \o z = x \o (y \o z)
        BY Joined
    <3> QED
        BY <2>1, <3>1, Zenon
  <2> QED
      BY <1>1, <1>2, <2>2 DEF Underway
<1>4. CASE game.link = "none"
    BY <1>2, <1>4, NoSessionNoWay
<1>5. game.link # "connecting"
    BY <1>1 DEF WayInv, Fresh
<1>6. CASE game.link = "connected"
  <2>1. Way(Underway, game, playerMap, cache) /\ unheard = 0
      BY <1>6 DEF WayInv
  <2>2. Here(game') = Here(game) /\ (Playing(game') <=> Playing(game))
      BY <1>2 DEF Here, Playing
  <2>3. Planned(game', cache)
      BY <1>2, <2>1, <2>2 DEF Way, Planned
  <2>4. /\ Len(Underway) \in Nat /\ Len(packets) \in Nat /\ Len(c) = Len(Underway) + Len(packets)
        /\ \A k \in 1..Len(c) :
              \/ k \in 1..Len(Underway) /\ c[k] = Underway[k]
              \/ \E j \in 1..Len(packets) : c[k] = packets[j]
    <3>1. Underway \in Seq(Events) /\ packets \in Seq(Events)
      <4>1. ToClient \subseteq Events
          BY DEF Events
      <4> QED
          BY <4>1, UnderwayFacts
    <3>2. \A k \in 1..Len(c) : k > Len(Underway) =>
             k - Len(Underway) \in 1..Len(packets) /\ c[k] = packets[k - Len(Underway)]
        BY <3>1
    <3> QED
        BY <3>1, <3>2
  <2>5. Unbroken(c, Playing(game'))
    <3>1. Disconnected \notin ToClient /\ ConnectionFailed \notin ToClient
        BY DEF ToClient, Disconnected, ConnectionFailed, Handshake, Manifest, Blob, MapTransfer
    <3>2. \A j \in 1..Len(packets) : packets[j] \in ToClient
        OBVIOUS
    <3>3. Unbroken(Underway, Playing(game))
        BY <2>1 DEF Way
    <3> HIDE DEF c
    <3> QED
        BY <2>2, <2>4, <3>1, <3>2, <3>3 DEF Unbroken
  <2>6. Playing(game') \/ AtHome(c, d, playerMap')
    <3> SUFFICES ASSUME ~Playing(game) PROVE AtHome(c, d, playerMap')
        BY <2>2
    <3>1. AtHome(Underway, game.toServer, playerMap)
        BY <2>1 DEF Way
    <3>2. \A k \in 1..Len(d) : d[k].kind # "Interact"
      <4>1. game.toServer \in Seq(ToServer)
          BY UnderwayFacts
      <4>2. \A k \in 1..Len(d) : k + 1 \in 1..Len(game.toServer) /\ d[k] = game.toServer[k + 1]
          BY <1>1, <4>1
      <4> QED
          BY <3>1, <4>2 DEF AtHome
    <3>3. \A k \in 1..Len(c) : c[k].kind # "MapTransfer"
      <4> HIDE DEF c
      <4> QED
          BY <1>6, <2>4, <3>1 DEF AtHome
    <3> QED
        BY <1>6, <3>1, <3>2, <3>3 DEF AtHome
  <2> HIDE DEF c, d
  <2>7. /\ Path(c, Here(game), playerMap', cache) /\ Asks(d, playerMap', cache)
        /\ ProbedOnce(c, d, game.manifest)
      BY <1>6 DEF c, d
  <2>8. Way(c, game', playerMap', cache)
      BY <1>2, <2>2, <2>3, <2>5, <2>6, <2>7 DEF Way
  <2>9. Way(Underway', game', playerMap', cache')
      BY <1>1, <1>3, <2>8
  <2> QED
      BY <1>1, <1>2, <1>6, <2>1, <2>9 DEF WayInv
<1> QED
    BY <1>4, <1>5, <1>6, UnderwayFacts DEF Games

LEMMA TakeFacts ==
    ASSUME IInv, WayInv, NEW packet, Take(packet), game.link = "connected"
    PROVE  /\ game.toServer # <<>> /\ game.toServer[1] = packet /\ 1 \in 1..Len(game.toServer)
           /\ Path(Underway, Here(game), playerMap, cache)
           /\ Asks(game.toServer, playerMap, cache)
           /\ Asks(Tail(game.toServer), playerMap, cache)
           /\ Playing(game) \/ (\A k \in 1..Len(game.toServer) : game.toServer[k].kind # "Interact")
           /\ ProbedOnce(Underway, Tail(game.toServer), game.manifest)
           /\ Probe(packet) => Unprobed(Underway) /\ Unprobed(Tail(game.toServer)) /\ ~game.manifest
<1>1. game.toServer \in Seq(ToServer) /\ game.toServer # <<>> /\ Head(game.toServer) = packet
    BY UnderwayFacts DEF Take
<1>2. game.toServer[1] = packet /\ 1 \in 1..Len(game.toServer)
    BY <1>1
<1>3. Way(Underway, game, playerMap, cache)
    BY DEF WayInv
<1>4. Asks(game.toServer, playerMap, cache) /\ ProbedOnce(Underway, game.toServer, game.manifest)
      /\ Path(Underway, Here(game), playerMap, cache)
    BY <1>3 DEF Way
<1>5. Asks(Tail(game.toServer), playerMap, cache)
    BY <1>1, <1>4, AsksTail
<1>6. /\ OneProbe(game.toServer) => OneProbe(Tail(game.toServer))
                                    /\ (Probe(packet) => Unprobed(Tail(game.toServer)))
      /\ Unprobed(game.toServer) => Unprobed(Tail(game.toServer)) /\ ~Probe(packet)
    BY <1>1, <1>2, ProbedTail
<1>7. /\ ProbedOnce(Underway, Tail(game.toServer), game.manifest)
      /\ Probe(packet) => Unprobed(Underway) /\ Unprobed(Tail(game.toServer)) /\ ~game.manifest
    BY <1>4, <1>6 DEF ProbedOnce
<1>8. Playing(game) \/ (\A k \in 1..Len(game.toServer) : game.toServer[k].kind # "Interact")
    BY <1>3 DEF Way, AtHome
<1> QED
    BY <1>1, <1>2, <1>4, <1>5, <1>7, <1>8

LEMMA ServeProbeWay == ASSUME IInv, WayInv, ServeProbe PROVE WayInv'
<1> DEFINE packets == <<Handshake, Manifest>>
<1>1. Take(UpdateProbe) /\ Answer(packets) /\ playerMap' = playerMap /\ Probe(UpdateProbe)
    BY DEF ServeProbe, Probe, UpdateProbe
<1>2. /\ Handshake.kind = "Handshake" /\ Manifest.kind = "AssetManifest"
      /\ ~Probe(Handshake)
      /\ Handshake \in ToClient /\ Manifest \in ToClient
      /\ Handshake \in Events /\ Manifest \in Events
    BY DEF Handshake, Manifest, Probe, ToClient, Events
<1>3. packets \in Seq(ToClient) /\ \A k \in 1..Len(packets) : packets[k].kind # "MapTransfer"
    BY <1>2
<1>4. ASSUME game.link = "connected"
      PROVE  /\ Path(Underway \o packets, Here(game), playerMap, cache)
             /\ ProbedOnce(Underway \o packets, Tail(game.toServer), game.manifest)
  <2>1. Underway \in Seq(Events) /\ playerMap \in Maps
      BY UnderwayFacts
  <2>2. /\ Path(Underway, Here(game), playerMap, cache)
        /\ Unprobed(Underway) /\ Unprobed(Tail(game.toServer)) /\ ~game.manifest
        /\ ProbedOnce(Underway, Tail(game.toServer), game.manifest)
      BY <1>1, <1>4, TakeFacts
  <2> DEFINE first == Append(Underway, Handshake)
  <2>3. first \in Seq(Events)
      BY <1>2, <2>1
  <2>4. Underway \o packets = Append(first, Manifest)
      BY <1>2, <2>1
  <2>5. Path(first, Here(game), playerMap, cache)
      BY <1>2, <2>1, <2>2, PathAppend
  <2>6. Unprobed(first)
      BY <1>2, <2>1, <2>2, ProbedAppend
  <2> HIDE DEF first
  <2>7. Path(Append(first, Manifest), Here(game), playerMap, cache)
      BY <1>2, <2>1, <2>3, <2>5, PathAppend
  <2>8. OneProbe(Append(first, Manifest))
      BY <2>3, <2>6, ProbedAppend
  <2> QED
      BY <2>2, <2>4, <2>7, <2>8 DEF ProbedOnce
<1> HIDE DEF packets
<1>5. game.link = "connected" => Asks(Tail(game.toServer), playerMap', cache)
    BY <1>1, TakeFacts
<1> QED
    BY <1>1, <1>3, <1>4, <1>5, SentWay

(* An answer without a packet. *)
LEMMA NoAnswerWay ==
    ASSUME IInv, WayInv, NEW packet, Take(packet), Answer(<<>>), playerMap' = playerMap
    PROVE  WayInv'
<1>1. Underway \o <<>> = Underway /\ <<>> \in Seq(ToClient)
    BY UnderwayFacts
<1>2. \A k \in 1..Len(<<>>) : <<>>[k].kind # "MapTransfer"
    OBVIOUS
<1> QED
    BY <1>1, <1>2, TakeFacts, SentWay

LEMMA OneAnswerWay ==
    ASSUME IInv, WayInv, NEW packet, Take(packet), NEW e \in ToClient, ~Probe(e),
           Answer(<<e>>), playerMap' \in Maps,
           game.link = "connected" =>
              /\ playerMap' = IF e.kind = "MapTransfer" THEN e.map ELSE playerMap
              /\ e.kind = "MapTransfer" => cache[playerMap] = "whole" /\ Playing(game)
              /\ e.kind = "AssetBlob" =>
                    /\ e.asset \in Maps => playerMap = e.asset
                    /\ e.asset \in Images => cache[playerMap] = "whole"
              /\ Asks(Tail(game.toServer), playerMap', cache)
    PROVE  WayInv'
<1>1. Underway \in Seq(Events) /\ Underway \o <<e>> = Append(Underway, e)
      /\ <<e>> \in Seq(ToClient) /\ \A k \in 1..Len(<<e>>) : <<e>>[k] = e
    BY UnderwayFacts DEF Events
<1>2. ASSUME game.link = "connected"
      PROVE  /\ Path(Append(Underway, e), Here(game), playerMap', cache)
             /\ ProbedOnce(Append(Underway, e), Tail(game.toServer), game.manifest)
  <2>1. /\ Path(Underway, Here(game), playerMap, cache)
        /\ ProbedOnce(Underway, Tail(game.toServer), game.manifest)
      BY <1>2, TakeFacts
  <2>2. Path(Append(Underway, e), Here(game), playerMap', cache)
      BY <1>1, <1>2, <2>1, PathAppend
  <2> QED
      BY <1>1, <2>1, <2>2, ProbedAppend DEF ProbedOnce
<1>3. game.link = "connected" =>
         \/ Playing(game)
         \/ playerMap' = playerMap /\ \A k \in 1..Len(<<e>>) : <<e>>[k].kind # "MapTransfer"
    BY <1>1
<1> QED
    BY <1>1, <1>2, <1>3, SentWay

(* The player is still on the map whose file is asked for. *)
LEMMA ServeAssetWay == ASSUME IInv, WayInv, NEW a \in Assets, ServeAsset(a) PROVE WayInv'
<1>1. Take(AssetRequest(a)) /\ playerMap' = playerMap /\ (Answer(<<Blob(a)>>) \/ Answer(<<>>))
    BY DEF ServeAsset
<1>2. /\ Blob(a).kind = "AssetBlob" /\ Blob(a).asset = a /\ ~Probe(Blob(a))
      /\ Blob(a) \in ToClient
      /\ AssetRequest(a).kind = "AssetRequest" /\ AssetRequest(a).asset = a
    BY DEF Blob, Probe, ToClient, AssetRequest
<1>3. game.link = "connected" =>
         /\ a \in Maps => playerMap = a
         /\ a \in Images => cache[playerMap] = "whole"
         /\ Asks(Tail(game.toServer), playerMap', cache)
    BY <1>1, <1>2, TakeFacts DEF Asks
<1>4. playerMap' \in Maps
    BY <1>1, UnderwayFacts
<1>5. CASE Answer(<<Blob(a)>>)
    BY <1>1, <1>2, <1>3, <1>4, <1>5, OneAnswerWay
<1>6. CASE Answer(<<>>)
    BY <1>1, <1>6, NoAnswerWay
<1> QED
    BY <1>1, <1>5, <1>6

(* Whoever leaves a map has its file, and asks for no map any more. *)
LEMMA ServePortalWay == ASSUME IInv, WayInv, NEW m \in Maps, ServePortal(m) PROVE WayInv'
<1>1. /\ Take(Interact(m)) /\ Interact(m).kind = "Interact" /\ Interact(m).map = m
      /\ cache' = cache
    BY DEF ServePortal, Interact, Take
<1>2. CASE playerMap = m /\ Portals[m] # {}
  <2>1. PICK to \in Portals[m] : playerMap' = to /\ Answer(<<MapTransfer(to)>>)
      BY <1>2 DEF ServePortal
  <2> DEFINE e == MapTransfer(to)
             d == Tail(game.toServer)
  <2>2. to \in Maps
      BY <2>1, ClientAssumption
  <2>3. e.kind = "MapTransfer" /\ e.map = to /\ ~Probe(e) /\ e \in ToClient
      BY <2>2 DEF MapTransfer, Probe, ToClient
  <2>4. ASSUME game.link = "connected"
        PROVE  cache[m] = "whole" /\ Playing(game) /\ Asks(d, to, cache)
    <3>1. /\ game.toServer # <<>> /\ game.toServer[1] = Interact(m) /\ 1 \in 1..Len(game.toServer)
          /\ Asks(game.toServer, m, cache)
          /\ Playing(game) \/ (\A k \in 1..Len(game.toServer) : game.toServer[k].kind # "Interact")
        BY <1>1, <1>2, <2>4, TakeFacts
    <3>2. cache[m] = "whole" /\ Playing(game)
        BY <1>1, <3>1 DEF Asks
    <3>3. \A k \in 1..Len(d) : /\ k + 1 \in 1..Len(game.toServer) /\ d[k] = game.toServer[k + 1]
                               /\ 1 \in 1..((k + 1) - 1)
        BY <3>1, UnderwayFacts
    <3>4. \A k \in 1..Len(d) :
             /\ d[k].kind = "Interact" => cache[d[k].map] = "whole"
             /\ d[k].kind = "AssetRequest" =>
                   /\ d[k].asset \notin Maps
                   /\ d[k].asset \in Images => AllWhole(cache)
        BY <3>1, <3>3 DEF Asks
    <3> HIDE DEF d
    <3>5. AllWhole(cache) => cache[to] = "whole"
        BY <2>2 DEF AllWhole
    <3> QED
        BY <3>2, <3>4, <3>5 DEF Asks
  <2> HIDE DEF e, d
  <2>5. /\ Answer(<<e>>) /\ playerMap' = e.map /\ playerMap' \in Maps
        /\ game.link = "connected" => /\ cache[playerMap] = "whole" /\ Playing(game)
                                      /\ Asks(Tail(game.toServer), playerMap', cache)
      BY <1>2, <2>1, <2>2, <2>3, <2>4 DEF e, d
  <2>6. e.kind = "MapTransfer" /\ e.kind # "AssetBlob"
      BY <2>3
  <2> QED
      BY <1>1, <2>3, <2>5, <2>6, OneAnswerWay
<1>3. CASE ~(playerMap = m /\ Portals[m] # {})
    BY <1>1, <1>3, NoAnswerWay DEF ServePortal
<1> QED
    BY <1>2, <1>3

LEMMA ServerWay == ASSUME IInv, WayInv, Server PROVE WayInv'
    BY ServeProbeWay, ServeAssetWay, ServePortalWay DEF Server

-----------------------------------------------------------------------------

LEMMA InitWay == Init => WayInv
<1>1. CASE game = [Fresh EXCEPT !.link = "connecting"]
  <2>1. game.link = "connecting"
      BY <1>1 DEF Fresh
  <2> QED
      BY <1>1, <2>1 DEF WayInv
<1>2. CASE game = RetryWait(Fresh)
  <2>1. game.link = "none"
      BY <1>2 DEF RetryWait, Offline, Fresh
  <2> QED
      BY <2>1 DEF WayInv
<1> QED
    BY <1>1, <1>2 DEF Init

LEMMA NextWay == TwoMaps /\ IInv /\ WayInv /\ [Next]_vars => WayInv'
<1> SUFFICES ASSUME TwoMaps, IInv, WayInv, [Next]_vars PROVE WayInv'
    OBVIOUS
<1>1. CASE UNCHANGED vars
  <2>1. Underway' = Underway /\ game' = game /\ playerMap' = playerMap /\ cache' = cache
        /\ unheard' = unheard
      BY <1>1 DEF vars, Underway
  <2> QED
      BY <2>1 DEF WayInv
<1> QED
    BY <1>1, ReceiveWay, HandleEventWay, TimersWay, KeysWay, CrashWay, ServerWay DEF Next

(* No map is on its way: the client shows the server's. *)
LEMMA WayLeads == ASSUME IInv, WayInv PROVE WalksOnTheServersMap
<1> SUFFICES ASSUME game.ready, game.link = "connected", ~TransferUnderWay
             PROVE  game.applied = playerMap
    BY DEF WalksOnTheServersMap
<1>1. Path(Underway, Here(game), playerMap, cache) /\ Planned(game, cache)
    BY DEF WayInv, Way
<1>2. game.applied # None
    BY DEF IInv, Sound, Drawable
<1>3. Here(game) = game.applied
    BY <1>1, <1>2 DEF Planned, Here
<1>4. \A k \in 1..Len(Underway) : Underway[k].kind # "MapTransfer"
  <2> SUFFICES ASSUME NEW k \in 1..Len(Underway), Underway[k].kind = "MapTransfer" PROVE FALSE
      OBVIOUS
  <2>1. Underway \in Seq(Events)
      BY UnderwayFacts
  <2>2. Underway[k] \in Events
      BY <2>1
  <2>3. PICK m \in Maps : Underway[k] = MapTransfer(m)
      BY <2>2 DEF Events, ToClient, Connected, ConnectionFailed, Disconnected, Handshake,
                  Manifest, Blob
  <2>4. MapTransfer(m) \in ToSet(Underway)
      BY <2>1, <2>3 DEF ToSet
  <2> QED
      BY <2>4 DEF TransferUnderWay, Underway
<1> QED
    BY <1>1, <1>3, <1>4, UnderwayFacts, PathStays

(* UpdateNetwork sends positions on the map the server has the player on,  *)
(* whatever was lost, late or made again before, when portals lead from    *)
(* the start map to at most one more: so it is for each map of the         *)
(* repository that a server may start on.                                  *)
THEOREM WalksOnItsMap == TwoMaps => (Spec => []WalksOnTheServersMap)
<1> SUFFICES ASSUME TwoMaps PROVE Spec => []WalksOnTheServersMap
    OBVIOUS
<1>1. Init => WayInv
    BY InitWay
<1>2. IInv /\ WayInv /\ [Next]_vars => WayInv'
    BY NextWay
<1>3. IInv /\ WayInv => WalksOnTheServersMap
    BY WayLeads
<1> QED
    BY <1>1, <1>2, <1>3, IInvHolds, PTL DEF Spec
=============================================================================
