------------------------------- MODULE Ground -------------------------------
(***************************************************************************)
(* Where a player may stand.  The server (MapData::isWalkable) and the     *)
(* client (World::IsWalkable) answer that question for every step of a     *)
(* player, each from an index of its own: the solid things of a map are    *)
(* filed by the chunks their bounds touch, and a query looks only at the   *)
(* chunks under the player's body.  A query marks what it has looked at    *)
(* with a token that it counts up and that wraps.                          *)
(*                                                                         *)
(* Lengths are half pixels, so that the centring of a sprite on its tile   *)
(* stays an integer.  An optional value is a set with at most one element. *)
(***************************************************************************)
EXTENDS Integers, Sequences

CONSTANTS
    MapDocs,     \* the maps that may be loaded: [stamps, objects]
    TileSize,    \* tileSize_
    ChunkTiles,  \* kSpatialChunkTiles
    Width,       \* width_, in tiles
    Height,      \* height_, in tiles
    Radius,      \* the player's radius
    TokenMod,    \* the number of values of stampQueryToken_: 2^32 in the code
    Places,      \* the positions asked about
    Views        \* the areas the camera shows

Rect == [x : Int, y : Int, w : Int, h : Int]

\* A sprite of an atlas: its size, and what the .atlas file says of it.  An
\* invalid reference has no size.
Asset == [valid : BOOLEAN, w : Nat, h : Nat,
          meta : SUBSET [blocks : BOOLEAN, collider : SUBSET Rect]]
Stamp == [x : Int, y : Int, asset : Asset]
Object == [bounds : Rect, collision : {"absent", "blocks", "disables"},
           sprite : SUBSET Asset, collider : SUBSET Rect]

ASSUME GroundAssumption ==
    /\ TileSize \in Nat \ {0}
    /\ ChunkTiles \in Nat \ {0}
    /\ Width \in Nat \ {0}
    /\ Height \in Nat \ {0}
    /\ Radius \in Nat \ {0}
    /\ TokenMod \in Nat \ {0, 1}
    /\ Places \subseteq Int \X Int
    /\ Views \subseteq {v \in Rect : v.w > 0 /\ v.h > 0}
    /\ \A m \in MapDocs :
          /\ m = [stamps |-> m.stamps, objects |-> m.objects]
          /\ m.stamps \in Seq(Stamp)
          /\ m.objects \in Seq(Object)

VARIABLES
    map,           \* the map both ends have loaded
    atlasKnown,    \* the client has the .atlas file of the map's sprites
    serverIndex,   \* MapData's buckets: what is filed under which chunk
    clientIndex,   \* World's buckets
    serverSeen,    \* MapData's query token and marks of the stamps
    clientSeen,    \* World's query token and marks of the stamps
    objectsSeen    \* World's query token and marks of the objects

vars == <<map, atlasKnown, serverIndex, clientIndex, serverSeen, clientSeen,
          objectsSeen>>
-----------------------------------------------------------------------------
Larger(a, b) == IF a >= b THEN a ELSE b

rectsOverlap(a, b) ==
    /\ a.x < b.x + b.w
    /\ a.x + a.w > b.x
    /\ a.y < b.y + b.h
    /\ a.y + a.h > b.y

hasArea(r) == r.w > 0 /\ r.h > 0

chunkWorldSize == 2 * TileSize * ChunkTiles

\* Mutant: only the chunk of the rectangle's corner.
ChunksAtCorner(r) == {<<r.x \div chunkWorldSize, r.y \div chunkWorldSize>>}

\* The chunks a rectangle touches.
ChunksUnder(r) ==
    ((r.x \div chunkWorldSize) .. ((r.x + r.w) \div chunkWorldSize))
        \X ((r.y \div chunkWorldSize) .. ((r.y + r.h) \div chunkWorldSize))

\* What is filed: pairs of a chunk and the index of a thing whose bounds
\* touch it.
Filed(bounds) ==
    UNION {ChunksUnder(bounds[i]) \X {i} :
               i \in {j \in DOMAIN bounds : hasArea(bounds[j])}}

\* What a query finds in the chunks under an area.
InReach(index, area) ==
    {e[2] : e \in {f \in index : f[1] \in ChunksUnder(area)}}
-----------------------------------------------------------------------------
\* The size of a sprite in the world, and where a stamp stands: centred on
\* its tile, its foot on the tile's lower edge.
SpriteWidth(asset) == 2 * (IF asset.valid THEN Larger(1, asset.w) ELSE TileSize)
SpriteHeight(asset) == 2 * (IF asset.valid THEN Larger(1, asset.h) ELSE TileSize)

stampBounds(s) ==
    [x |-> 2 * s.x * TileSize + (2 * TileSize - SpriteWidth(s.asset)) \div 2,
     y |-> 2 * (s.y + 1) * TileSize - SpriteHeight(s.asset),
     w |-> SpriteWidth(s.asset),
     h |-> SpriteHeight(s.asset)]

\* What is known of a sprite: known is whether its .atlas file was read.
metaForAsset(asset, known) == IF asset.valid /\ known THEN asset.meta ELSE {}

\* A collider given in the pixels of a sprite of w by h, on the bounds the
\* sprite is drawn to.
Stretched(c, bounds, w, h) ==
    [x |-> bounds.x + (2 * c.x * bounds.w) \div w,
     y |-> bounds.y + (2 * c.y * bounds.h) \div h,
     w |-> (2 * c.w * bounds.w) \div w,
     h |-> (2 * c.h * bounds.h) \div h]

\* What of a stamp blocks movement: nothing, its collider or all of it.
stampCollisionRect(s, known) ==
    LET meta == {m \in metaForAsset(s.asset, known) : m.blocks}
        colliders == UNION {m.collider : m \in meta}
    IN  IF meta = {} THEN {}
        ELSE IF colliders = {} THEN {stampBounds(s)}
        ELSE {Stretched(c, stampBounds(s), SpriteWidth(s.asset), SpriteHeight(s.asset)) :
                  c \in colliders}

\* What of an object blocks movement.  Its own property decides before what
\* is known of its sprite, and its own collider counts from its corner.
objectCollisionRect(o, known) ==
    LET meta == UNION {metaForAsset(a, known) : a \in o.sprite}
        colliders == UNION {m.collider : m \in meta}
        blocks == \/ o.collision = "blocks"
                  \/ o.collision = "absent" /\ \E m \in meta : m.blocks
    IN  IF ~blocks \/ ~hasArea(o.bounds) THEN {}
        ELSE IF o.collider # {}
        THEN {[x |-> o.bounds.x + 2 * c.x, y |-> o.bounds.y + 2 * c.y,
               w |-> 2 * c.w, h |-> 2 * c.h] : c \in o.collider}
        ELSE IF colliders # {}
        THEN UNION {{Stretched(c, o.bounds, SpriteWidth(a), SpriteHeight(a)) :
                         c \in colliders} : a \in o.sprite}
        ELSE {o.bounds}

StampBounds(m) == [i \in DOMAIN m.stamps |-> stampBounds(m.stamps[i])]
ObjectBounds(m) == [i \in DOMAIN m.objects |-> m.objects[i].bounds]
-----------------------------------------------------------------------------
(* Queries.  A query takes the next token; when the token wraps to 0 all   *)
(* marks are cleared first.  A thing already marked with the token is      *)
(* skipped, so that each is looked at once.                                *)

Fresh(n) == [token |-> 1, marks |-> [i \in 1 .. n |-> 0]]

\* Mutant: the token is never wrapped.
CountedForever(seen) == [seen EXCEPT !.token = seen.token + 1]

\* Mutant: the token wraps and the marks stay.
CountedUncleared(seen) == [seen EXCEPT !.token = (seen.token % (TokenMod - 1)) + 1]

Counted(seen) ==
    IF (seen.token + 1) % TokenMod = 0
    THEN [token |-> 1, marks |-> [i \in DOMAIN seen.marks |-> 0]]
    ELSE [seen EXCEPT !.token = seen.token + 1]

\* What a query of an area looks at.
LookedAt(index, seen, area) ==
    {i \in InReach(index, area) : Counted(seen).marks[i] # Counted(seen).token}

\* The marks it leaves.
Marked(index, seen, area) ==
    LET now == Counted(seen) IN
    IF index = {} \/ ~hasArea(area) THEN seen
    ELSE [now EXCEPT !.marks = [i \in DOMAIN now.marks |->
              IF i \in LookedAt(index, seen, area) THEN now.token ELSE now.marks[i]]]

Body(p) == [x |-> p[1] - 2 * Radius, y |-> p[2] - 2 * Radius,
            w |-> 4 * Radius, h |-> 4 * Radius]

\* The body does not reach out of the map.
InsideMap(body) ==
    /\ body.x >= 0
    /\ body.y >= 0
    /\ body.x + body.w <= 2 * Width * TileSize
    /\ body.y + body.h <= 2 * Height * TileSize

\* MapData::collectStampCandidates and collectObjectCandidates.
collectStampCandidates(area) ==
    {i \in LookedAt(serverIndex.stamps, serverSeen, area) :
         rectsOverlap(stampBounds(map.stamps[i]), area)}

collectObjectCandidates(area) == InReach(serverIndex.objects, area)

\* MapData::isWalkable
isWalkable(p) ==
    /\ InsideMap(Body(p))
    /\ \A i \in collectStampCandidates(Body(p)) :
          \A r \in stampCollisionRect(map.stamps[i], TRUE) : ~rectsOverlap(Body(p), r)
    /\ \A i \in collectObjectCandidates(Body(p)) :
          \A r \in objectCollisionRect(map.objects[i], TRUE) : ~rectsOverlap(Body(p), r)

\* World::CollectVisibleStampIndices and CollectVisibleObjects.
CollectVisibleStampIndices(area) ==
    {i \in LookedAt(clientIndex.stamps, clientSeen, area) :
         rectsOverlap(stampBounds(map.stamps[i]), area)}

\* Mutant: an object is found by its corner.
CollectVisibleObjectsByCorner(area) ==
    {i \in LookedAt(clientIndex.objects, objectsSeen, area) :
         rectsOverlap([map.objects[i].bounds EXCEPT !.w = 1, !.h = 1], area)}

CollectVisibleObjects(area) ==
    {i \in LookedAt(clientIndex.objects, objectsSeen, area) :
         rectsOverlap(map.objects[i].bounds, area)}

\* What of the view lies on the map: World::DrawDecorations draws no more.
Least(a, b) == IF a <= b THEN a ELSE b
ClampRectToBounds(r) ==
    LET x == Larger(r.x, 0)
        y == Larger(r.y, 0)
        w == Least(r.x + r.w, 2 * Width * TileSize) - x
        h == Least(r.y + r.h, 2 * Height * TileSize) - y
    IN  IF w <= 0 \/ h <= 0 THEN [x |-> 0, y |-> 0, w |-> 0, h |-> 0]
        ELSE [x |-> x, y |-> y, w |-> w, h |-> h]

\* World::IsWalkable
IsWalkable(p) ==
    /\ InsideMap(Body(p))
    /\ \A i \in CollectVisibleStampIndices(Body(p)) :
          \A r \in stampCollisionRect(map.stamps[i], atlasKnown) :
             ~rectsOverlap(Body(p), r)
    /\ \A i \in CollectVisibleObjects(Body(p)) :
          \A r \in objectCollisionRect(map.objects[i], atlasKnown) :
             ~rectsOverlap(Body(p), r)
-----------------------------------------------------------------------------
IndexOf(m) == [stamps |-> Filed(StampBounds(m)), objects |-> Filed(ObjectBounds(m))]

\* Both ends load a map: everything of the last one is replaced.  The client
\* may have the .atlas files in its cache or not.
Loaded(m, known) ==
    /\ map' = m
    /\ atlasKnown' = known
    /\ serverIndex' = IndexOf(m)
    /\ clientIndex' = IndexOf(m)
    /\ serverSeen' = Fresh(Len(m.stamps))
    /\ clientSeen' = Fresh(Len(m.stamps))
    /\ objectsSeen' = Fresh(Len(m.objects))

Init ==
    /\ map \in MapDocs
    /\ atlasKnown \in BOOLEAN
    /\ serverIndex = IndexOf(map)
    /\ clientIndex = IndexOf(map)
    /\ serverSeen = Fresh(Len(map.stamps))
    /\ clientSeen = Fresh(Len(map.stamps))
    /\ objectsSeen = Fresh(Len(map.objects))

LoadFromMapAsset(m, known) == Loaded(m, known)

\* World::ReloadAtlasMetadata, once the files have come.
ReloadAtlasMetadata ==
    /\ ~atlasKnown
    /\ atlasKnown' = TRUE
    /\ UNCHANGED <<map, serverIndex, clientIndex, serverSeen, clientSeen, objectsSeen>>

\* The server checks a position: the marks it leaves.  Outside the map it
\* does not come to a query.
ServerAsks(p) ==
    /\ InsideMap(Body(p))
    /\ serverSeen' = Marked(serverIndex.stamps, serverSeen, Body(p))
    /\ UNCHANGED <<map, atlasKnown, serverIndex, clientIndex, clientSeen, objectsSeen>>

\* The client checks a position; a blocking stamp ends the check before the
\* objects are queried.
ClientAsks(p) ==
    /\ InsideMap(Body(p))
    /\ clientSeen' = Marked(clientIndex.stamps, clientSeen, Body(p))
    /\ objectsSeen' =
          IF \A i \in CollectVisibleStampIndices(Body(p)) :
                \A r \in stampCollisionRect(map.stamps[i], atlasKnown) :
                   ~rectsOverlap(Body(p), r)
          THEN Marked(clientIndex.objects, objectsSeen, Body(p))
          ELSE objectsSeen
    /\ UNCHANGED <<map, atlasKnown, serverIndex, clientIndex, serverSeen>>

\* A frame draws the stamps and outlines the triggers of what the camera
\* shows of the map (World::DrawDecorations), then the objects of the whole
\* view (Game::DrawWorld): three queries that use the marks a walk uses.
ClientDraws(view) ==
    LET area == ClampRectToBounds(view)
        outlined == Marked(clientIndex.objects, objectsSeen, area)
    IN  /\ clientSeen' = Marked(clientIndex.stamps, clientSeen, area)
        /\ objectsSeen' = Marked(clientIndex.objects, outlined, view)
        /\ UNCHANGED <<map, atlasKnown, serverIndex, clientIndex, serverSeen>>

Next ==
    \/ \E m \in MapDocs, known \in BOOLEAN : LoadFromMapAsset(m, known)
    \/ ReloadAtlasMetadata
    \/ \E p \in Places : ServerAsks(p) \/ ClientAsks(p)
    \/ \E view \in Views : ClientDraws(view)

Spec == Init /\ [][Next]_vars
-----------------------------------------------------------------------------
TypeOK ==
    /\ map \in MapDocs
    /\ atlasKnown \in BOOLEAN
    /\ serverIndex = IndexOf(map)
    /\ clientIndex = IndexOf(map)
    /\ serverSeen \in [token : 1 .. TokenMod - 1, marks : [1 .. Len(map.stamps) -> Nat]]
    /\ clientSeen \in [token : 1 .. TokenMod - 1, marks : [1 .. Len(map.stamps) -> Nat]]
    /\ objectsSeen \in [token : 1 .. TokenMod - 1, marks : [1 .. Len(map.objects) -> Nat]]

\* a lies within b.
Within(a, b) ==
    /\ b.x <= a.x
    /\ b.y <= a.y
    /\ a.x + a.w <= b.x + b.w
    /\ a.y + a.h <= b.y + b.h

\* Whatever blocks lies within the bounds it is filed by.
CollidersWithinBounds(m) ==
    /\ \A i \in DOMAIN m.stamps : \A r \in stampCollisionRect(m.stamps[i], TRUE) :
          Within(r, stampBounds(m.stamps[i]))
    /\ \A i \in DOMAIN m.objects : \A r \in objectCollisionRect(m.objects[i], TRUE) :
          Within(r, m.objects[i].bounds)

\* What every walkable place must be, by a look at everything on the map.
Clear(p) ==
    /\ InsideMap(Body(p))
    /\ \A i \in DOMAIN map.stamps : \A r \in stampCollisionRect(map.stamps[i], TRUE) :
          ~rectsOverlap(Body(p), r)
    /\ \A i \in DOMAIN map.objects : \A r \in objectCollisionRect(map.objects[i], TRUE) :
          ~rectsOverlap(Body(p), r)

\* The server lets a player stand exactly where nothing on the map blocks
\* the body, whatever was asked before and however often: the chunks under
\* the body hold everything that reaches it, and no stale mark hides a wall.
ServerAnswersExactly ==
    CollidersWithinBounds(map) => \A p \in Places : isWalkable(p) <=> Clear(p)

\* With the .atlas files read, nothing stops a client that does not stop the
\* server as well, so that a client is never held where the server would let
\* it pass; and where all colliders are within their bounds it also stops
\* wherever the server would refuse the step.
ClientAgrees ==
    atlasKnown => \A p \in Places :
        /\ isWalkable(p) => IsWalkable(p)
        /\ CollidersWithinBounds(map) => (IsWalkable(p) => isWalkable(p))

\* A frame shows every stamp that lies in the part of the map the camera sees,
\* and every object in its view, and nothing else, whatever was looked for
\* before: none is missing because a step or an earlier frame marked it.
DrawsWhatIsThere ==
    \A view \in Views :
        /\ hasArea(ClampRectToBounds(view)) =>
              CollectVisibleStampIndices(ClampRectToBounds(view)) =
                  {i \in DOMAIN map.stamps :
                      rectsOverlap(stampBounds(map.stamps[i]), ClampRectToBounds(view))}
        /\ CollectVisibleObjects(view) =
              {i \in DOMAIN map.objects :
                  hasArea(map.objects[i].bounds) /\ rectsOverlap(map.objects[i].bounds, view)}
=============================================================================
