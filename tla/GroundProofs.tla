---------------------------- MODULE GroundProofs ----------------------------
(***************************************************************************)
(* Proofs about Ground, for any maps, sizes of tiles, chunks and bodies,   *)
(* and any number of values of the query token.                            *)
(*                                                                         *)
(* The argument: no mark is ever above its token, so that a query's token  *)
(* is a new one and the query looks at all that is in its reach; and two   *)
(* rectangles that overlap touch a chunk in common, so that all that can   *)
(* block is in reach.                                                      *)
(***************************************************************************)
EXTENDS Ground, TLAPS

Seens(n) == [token : 1 .. TokenMod - 1, marks : [1 .. n -> Nat]]

NotAhead(seen) == \A i \in DOMAIN seen.marks : seen.marks[i] <= seen.token

IInv ==
    /\ TypeOK
    /\ NotAhead(serverSeen)
    /\ NotAhead(clientSeen)
    /\ NotAhead(objectsSeen)
-----------------------------------------------------------------------------
(* Chunks.                                                                 *)

LEMMA DivIsFloor ==
    ASSUME NEW a \in Int, NEW d \in Nat \ {0}
    PROVE  /\ a \div d \in Int
           /\ d * (a \div d) <= a
           /\ a < d * (a \div d) + d
OBVIOUS

LEMMA DivIsMonotonic ==
    ASSUME NEW a \in Int, NEW b \in Int, a <= b, NEW d \in Nat \ {0}
    PROVE  a \div d <= b \div d
<1> DEFINE q == a \div d
           r == b \div d
<1>1. q \in Int /\ r \in Int /\ d * q <= a /\ b < d * r + d
    BY DivIsFloor
<1> HIDE DEF q, r
<1>2. SUFFICES ASSUME q >= r + 1 PROVE FALSE
    BY <1>1 DEF q, r
<1>3. d * (q - (r + 1)) >= 0
    BY <1>1, <1>2
<1>4. d * (q - (r + 1)) = d * q - d * r - d
    BY <1>1
<1>5. d * q \in Int /\ d * r \in Int
    BY <1>1
<1> QED
    BY <1>1, <1>3, <1>4, <1>5

LEMMA DivBetween ==
    ASSUME NEW a \in Int, NEW b \in Int, NEW c \in Int, a <= b, b <= c,
           NEW d \in Nat \ {0}
    PROVE  b \div d \in (a \div d) .. (c \div d)
<1>1. a \div d <= b \div d /\ b \div d <= c \div d
    BY DivIsMonotonic
<1>2. a \div d \in Int /\ b \div d \in Int /\ c \div d \in Int
    BY DivIsFloor
<1> QED
    BY <1>1, <1>2

LEMMA ChunksHaveSize == chunkWorldSize \in Nat \ {0}
BY GroundAssumption DEF chunkWorldSize

(* Overlapping rectangles touch a chunk in common. *)
LEMMA OverlapSharesChunk ==
    ASSUME NEW a \in Rect, NEW b \in Rect, a.w >= 0, a.h >= 0, b.w >= 0, b.h >= 0,
           rectsOverlap(a, b)
    PROVE  \E c \in ChunksUnder(a) : c \in ChunksUnder(b)
<1> DEFINE d == chunkWorldSize
           x == Larger(a.x, b.x)
           y == Larger(a.y, b.y)
<1>1. /\ a.x \in Int /\ a.y \in Int /\ a.w \in Int /\ a.h \in Int
      /\ b.x \in Int /\ b.y \in Int /\ b.w \in Int /\ b.h \in Int
    BY DEF Rect
<1>2. /\ x \in Int /\ a.x <= x /\ x <= a.x + a.w /\ b.x <= x /\ x <= b.x + b.w
      /\ y \in Int /\ a.y <= y /\ y <= a.y + a.h /\ b.y <= y /\ y <= b.y + b.h
    BY <1>1 DEF rectsOverlap, Larger
<1>3. d \in Nat \ {0}
    BY ChunksHaveSize
<1> HIDE DEF d, x, y
<1>4. /\ x \div d \in (a.x \div d) .. ((a.x + a.w) \div d)
      /\ x \div d \in (b.x \div d) .. ((b.x + b.w) \div d)
  <2>1. a.x + a.w \in Int /\ b.x + b.w \in Int
      BY <1>1
  <2> QED
      BY <1>1, <1>2, <1>3, <2>1, DivBetween
<1>5. /\ y \div d \in (a.y \div d) .. ((a.y + a.h) \div d)
      /\ y \div d \in (b.y \div d) .. ((b.y + b.h) \div d)
  <2>1. a.y + a.h \in Int /\ b.y + b.h \in Int
      BY <1>1
  <2> QED
      BY <1>1, <1>2, <1>3, <2>1, DivBetween
<1>6. <<x \div d, y \div d>> \in ChunksUnder(a) /\ <<x \div d, y \div d>> \in ChunksUnder(b)
    BY <1>4, <1>5 DEF ChunksUnder, d
<1> QED
    BY <1>6

(* What overlaps an area is in its reach, and what is in reach was filed. *)
LEMMA FiledIsInReach ==
    ASSUME NEW bounds, NEW i \in DOMAIN bounds, bounds[i] \in Rect, hasArea(bounds[i]),
           NEW area \in Rect, area.w >= 0, area.h >= 0, rectsOverlap(bounds[i], area)
    PROVE  i \in InReach(Filed(bounds), area)
<1>1. bounds[i].w >= 0 /\ bounds[i].h >= 0
    BY DEF hasArea, Rect
<1>2. PICK c \in ChunksUnder(bounds[i]) : c \in ChunksUnder(area)
    BY <1>1, OverlapSharesChunk
<1>3. <<c, i>> \in Filed(bounds)
    BY <1>2 DEF Filed
<1> QED
    BY <1>2, <1>3 DEF InReach

LEMMA InReachIsFiled ==
    ASSUME NEW bounds, NEW area, NEW i \in InReach(Filed(bounds), area)
    PROVE  i \in DOMAIN bounds /\ hasArea(bounds[i])
<1>1. PICK e \in Filed(bounds) : i = e[2]
    BY DEF InReach
<1>2. PICK j \in DOMAIN bounds : hasArea(bounds[j]) /\ e \in ChunksUnder(bounds[j]) \X {j}
    BY <1>1 DEF Filed
<1> QED
    BY <1>1, <1>2
-----------------------------------------------------------------------------
(* Marks.                                                                  *)

LEMMA WholeIsNoRest == ASSUME NEW m \in Nat \ {0} PROVE m % m = 0
OBVIOUS

LEMMA CountedIsNew ==
    ASSUME NEW n \in Nat, NEW seen \in Seens(n), NotAhead(seen)
    PROVE  /\ Counted(seen) \in Seens(n)
           /\ \A i \in 1 .. n : Counted(seen).marks[i] < Counted(seen).token
<1>1. TokenMod \in Nat /\ TokenMod >= 2
    BY GroundAssumption
<1>2. /\ seen.token \in 1 .. TokenMod - 1
      /\ seen.marks \in [1 .. n -> Nat]
      /\ seen = [token |-> seen.token, marks |-> seen.marks]
    BY DEF Seens
<1>3. \A i \in 1 .. n : seen.marks[i] <= seen.token
    BY <1>2 DEF NotAhead
<1>4. CASE (seen.token + 1) % TokenMod = 0
  <2>1. Counted(seen) = [token |-> 1, marks |-> [i \in 1 .. n |-> 0]]
      BY <1>2, <1>4 DEF Counted
  <2> QED
      BY <2>1, <1>1 DEF Seens
<1>5. CASE (seen.token + 1) % TokenMod # 0
  <2>1. seen.token + 1 # TokenMod
      BY <1>1, <1>5, WholeIsNoRest
  <2>2. Counted(seen) = [token |-> seen.token + 1, marks |-> seen.marks]
      BY <1>2, <1>5 DEF Counted
  <2>3. seen.token + 1 \in 1 .. TokenMod - 1
      BY <1>1, <1>2, <2>1
  <2> QED
      BY <2>2, <2>3, <1>2, <1>3 DEF Seens
<1> QED
    BY <1>4, <1>5

(* A query looks at all that is in its reach. *)
LEMMA LookedAtAll ==
    ASSUME NEW n \in Nat, NEW seen \in Seens(n), NotAhead(seen), NEW index, NEW area,
           InReach(index, area) \subseteq 1 .. n
    PROVE  LookedAt(index, seen, area) = InReach(index, area)
<1>1. \A i \in 1 .. n : Counted(seen).marks[i] # Counted(seen).token
  <2>1. Counted(seen).token \in Int /\ \A i \in 1 .. n : Counted(seen).marks[i] \in Int
      BY CountedIsNew, GroundAssumption DEF Seens
  <2> QED
      BY <2>1, CountedIsNew
<1> QED
    BY <1>1 DEF LookedAt

LEMMA MarkedIsNotAhead ==
    ASSUME NEW n \in Nat, NEW seen \in Seens(n), NotAhead(seen), NEW index, NEW area
    PROVE  Marked(index, seen, area) \in Seens(n) /\ NotAhead(Marked(index, seen, area))
<1> DEFINE now == Counted(seen)
           marks == [i \in DOMAIN now.marks |->
                        IF i \in LookedAt(index, seen, area) THEN now.token ELSE now.marks[i]]
<1>1. CASE index = {} \/ ~hasArea(area)
    BY <1>1 DEF Marked
<1>2. CASE ~(index = {} \/ ~hasArea(area))
  <2>1. now \in Seens(n) /\ \A i \in 1 .. n : now.marks[i] < now.token
      BY CountedIsNew
  <2>2. /\ now.token \in 1 .. TokenMod - 1
        /\ now.marks \in [1 .. n -> Nat]
        /\ now = [token |-> now.token, marks |-> now.marks]
      BY <2>1 DEF Seens
  <2>3. Marked(index, seen, area) = [token |-> now.token, marks |-> marks]
      BY <1>2, <2>2 DEF Marked
  <2> HIDE DEF now
  <2>4. now.token \in Nat
      BY <2>2, GroundAssumption
  <2>5. marks \in [1 .. n -> Nat] /\ \A i \in 1 .. n : marks[i] <= now.token
      BY <2>1, <2>2, <2>4
  <2> HIDE DEF marks
  <2> QED
      BY <2>2, <2>3, <2>5 DEF Seens, NotAhead
<1> QED
    BY <1>1, <1>2

LEMMA FreshIsNotAhead ==
    ASSUME NEW n \in Nat
    PROVE  Fresh(n) \in Seens(n) /\ NotAhead(Fresh(n))
BY GroundAssumption DEF Fresh, Seens, NotAhead
-----------------------------------------------------------------------------
(* The invariant.                                                          *)

LEMMA DocsAreTyped ==
    ASSUME NEW m \in MapDocs
    PROVE  /\ m.stamps \in Seq(Stamp) /\ m.objects \in Seq(Object)
           /\ Len(m.stamps) \in Nat /\ Len(m.objects) \in Nat
           /\ DOMAIN m.stamps = 1 .. Len(m.stamps)
           /\ DOMAIN m.objects = 1 .. Len(m.objects)
BY GroundAssumption

LEMMA InitIInv == Init => IInv
<1> SUFFICES ASSUME Init PROVE IInv
    OBVIOUS
<1>1. map \in MapDocs
    BY DEF Init
<1>2. /\ Fresh(Len(map.stamps)) \in Seens(Len(map.stamps))
      /\ NotAhead(Fresh(Len(map.stamps)))
      /\ Fresh(Len(map.objects)) \in Seens(Len(map.objects))
      /\ NotAhead(Fresh(Len(map.objects)))
    BY <1>1, DocsAreTyped, FreshIsNotAhead
<1> QED
    BY <1>1, <1>2 DEF Init, IInv, TypeOK, Seens

LEMMA LoadIInv ==
    ASSUME NEW m \in MapDocs, NEW known \in BOOLEAN, LoadFromMapAsset(m, known)
    PROVE  IInv'
<1>1. /\ map' = m /\ atlasKnown' = known
      /\ serverIndex' = IndexOf(m) /\ clientIndex' = IndexOf(m)
      /\ serverSeen' = Fresh(Len(m.stamps)) /\ clientSeen' = Fresh(Len(m.stamps))
      /\ objectsSeen' = Fresh(Len(m.objects))
    BY DEF LoadFromMapAsset, Loaded
<1>2. /\ Fresh(Len(m.stamps)) \in Seens(Len(m.stamps))
      /\ NotAhead(Fresh(Len(m.stamps)))
      /\ Fresh(Len(m.objects)) \in Seens(Len(m.objects))
      /\ NotAhead(Fresh(Len(m.objects)))
    BY DocsAreTyped, FreshIsNotAhead
<1>3. TypeOK'
    BY <1>1, <1>2 DEF TypeOK, Seens, IndexOf, Filed, StampBounds, ObjectBounds
<1>4. NotAhead(serverSeen)' /\ NotAhead(clientSeen)' /\ NotAhead(objectsSeen)'
    BY <1>1, <1>2 DEF NotAhead
<1> QED
    BY <1>3, <1>4 DEF IInv

(* Whatever a query marks, the map and what is filed stay. *)
LEMMA QueryIInv ==
    ASSUME IInv, map' = map, atlasKnown' \in BOOLEAN,
           serverIndex' = serverIndex, clientIndex' = clientIndex,
           serverSeen' \in Seens(Len(map.stamps)), NotAhead(serverSeen'),
           clientSeen' \in Seens(Len(map.stamps)), NotAhead(clientSeen'),
           objectsSeen' \in Seens(Len(map.objects)), NotAhead(objectsSeen')
    PROVE  IInv'
<1>1. IndexOf(map)' = IndexOf(map)
    BY DEF IndexOf, Filed, StampBounds, ObjectBounds, ChunksUnder, stampBounds,
           SpriteWidth, SpriteHeight, hasArea, Larger, chunkWorldSize
<1>2. TypeOK'
    BY <1>1 DEF IInv, TypeOK, Seens
<1> QED
    BY <1>2 DEF IInv, NotAhead

LEMMA NextIInv == IInv /\ [Next]_vars => IInv'
<1> SUFFICES ASSUME IInv, [Next]_vars PROVE IInv'
    OBVIOUS
<1> DEFINE stamps == Len(map.stamps)
           objects == Len(map.objects)
<1>1. stamps \in Nat /\ objects \in Nat
    BY DocsAreTyped DEF IInv, TypeOK
<1>2. /\ serverSeen \in Seens(stamps) /\ NotAhead(serverSeen)
      /\ clientSeen \in Seens(stamps) /\ NotAhead(clientSeen)
      /\ objectsSeen \in Seens(objects) /\ NotAhead(objectsSeen)
      /\ atlasKnown \in BOOLEAN
    BY DEF IInv, TypeOK, Seens
<1> HIDE DEF stamps, objects
<1>3. ASSUME NEW m \in MapDocs, NEW known \in BOOLEAN, LoadFromMapAsset(m, known)
      PROVE  IInv'
    BY <1>3, LoadIInv
<1>4. CASE ReloadAtlasMetadata
    BY <1>2, <1>4, QueryIInv DEF ReloadAtlasMetadata, stamps, objects
<1>5. ASSUME NEW p \in Places, ServerAsks(p) PROVE IInv'
  <2>1. /\ serverSeen' \in Seens(stamps) /\ NotAhead(serverSeen')
        /\ UNCHANGED <<map, atlasKnown, serverIndex, clientIndex, clientSeen, objectsSeen>>
      BY <1>1, <1>2, <1>5, MarkedIsNotAhead DEF ServerAsks
  <2> QED
      BY <1>2, <2>1, QueryIInv DEF stamps, objects
<1>6. ASSUME NEW p \in Places, ClientAsks(p) PROVE IInv'
  <2>1. /\ clientSeen' \in Seens(stamps) /\ NotAhead(clientSeen')
        /\ objectsSeen' \in Seens(objects) /\ NotAhead(objectsSeen')
        /\ UNCHANGED <<map, atlasKnown, serverIndex, clientIndex, serverSeen>>
      BY <1>1, <1>2, <1>6, MarkedIsNotAhead DEF ClientAsks
  <2> QED
      BY <1>2, <2>1, QueryIInv DEF stamps, objects
<1>7. ASSUME NEW view \in Views, ClientDraws(view) PROVE IInv'
  <2> DEFINE area == ClampRectToBounds(view)
             outlined == Marked(clientIndex.objects, objectsSeen, area)
  <2>1. /\ clientSeen' = Marked(clientIndex.stamps, clientSeen, area)
        /\ objectsSeen' = Marked(clientIndex.objects, outlined, view)
        /\ UNCHANGED <<map, atlasKnown, serverIndex, clientIndex, serverSeen>>
      BY <1>7 DEF ClientDraws
  <2>2. clientSeen' \in Seens(stamps) /\ NotAhead(clientSeen')
      BY <1>1, <1>2, <2>1, MarkedIsNotAhead
  <2>3. outlined \in Seens(objects) /\ NotAhead(outlined)
      BY <1>1, <1>2, MarkedIsNotAhead
  <2>4. objectsSeen' \in Seens(objects) /\ NotAhead(objectsSeen')
      BY <1>1, <2>1, <2>3, MarkedIsNotAhead
  <2> QED
      BY <1>2, <2>1, <2>2, <2>4, QueryIInv DEF stamps, objects
<1>8. CASE UNCHANGED vars
    BY <1>2, <1>8, QueryIInv DEF vars, stamps, objects
<1> QED
    BY <1>3, <1>4, <1>5, <1>6, <1>7, <1>8 DEF Next

LEMMA Inductive == Spec => []IInv
BY InitIInv, NextIInv, PTL DEF Spec

(* Type correctness of both indexes, for any maps. *)
THEOREM TypeCorrect == Spec => []TypeOK
<1>1. IInv => TypeOK
    BY DEF IInv
<1> QED
    BY <1>1, Inductive, PTL
-----------------------------------------------------------------------------
(* Rectangles.                                                             *)

LEMMA BodyIsRect ==
    ASSUME NEW p \in Places
    PROVE  Body(p) \in Rect /\ Body(p).w > 0 /\ Body(p).h > 0
<1>1. p[1] \in Int /\ p[2] \in Int
    BY GroundAssumption
<1>2. Radius \in Nat \ {0}
    BY GroundAssumption
<1> QED
    BY <1>1, <1>2 DEF Body, Rect

LEMMA SpriteHasSize ==
    ASSUME NEW asset \in Asset
    PROVE  SpriteWidth(asset) \in Nat \ {0} /\ SpriteHeight(asset) \in Nat \ {0}
BY GroundAssumption DEF Asset, SpriteWidth, SpriteHeight, Larger

LEMMA StampBoundsAreRects ==
    ASSUME NEW s \in Stamp
    PROVE  stampBounds(s) \in Rect /\ hasArea(stampBounds(s))
<1>1. s.x \in Int /\ s.y \in Int /\ s.asset \in Asset
    BY DEF Stamp
<1>2. SpriteWidth(s.asset) \in Nat \ {0} /\ SpriteHeight(s.asset) \in Nat \ {0}
    BY <1>1, SpriteHasSize
<1>3. TileSize \in Nat \ {0}
    BY GroundAssumption
<1>4. 2 * s.x * TileSize + (2 * TileSize - SpriteWidth(s.asset)) \div 2 \in Int
    BY <1>1, <1>2, <1>3
<1>5. 2 * (s.y + 1) * TileSize - SpriteHeight(s.asset) \in Int
    BY <1>1, <1>2, <1>3
<1> QED
    BY <1>2, <1>4, <1>5 DEF stampBounds, Rect, hasArea

LEMMA StretchedIsRect ==
    ASSUME NEW c \in Rect, NEW b \in Rect, NEW w \in Nat \ {0}, NEW h \in Nat \ {0}
    PROVE  Stretched(c, b, w, h) \in Rect
<1>1. /\ c.x \in Int /\ c.y \in Int /\ c.w \in Int /\ c.h \in Int
      /\ b.x \in Int /\ b.y \in Int /\ b.w \in Int /\ b.h \in Int
    BY DEF Rect
<1>2. /\ 2 * c.x * b.w \in Int /\ 2 * c.y * b.h \in Int
      /\ 2 * c.w * b.w \in Int /\ 2 * c.h * b.h \in Int
    BY <1>1
<1>3. /\ (2 * c.x * b.w) \div w \in Int /\ (2 * c.y * b.h) \div h \in Int
      /\ (2 * c.w * b.w) \div w \in Int /\ (2 * c.h * b.h) \div h \in Int
    BY <1>2, DivIsFloor
<1> QED
    BY <1>1, <1>3 DEF Stretched, Rect

LEMMA MetaIsTyped ==
    ASSUME NEW a \in Asset, NEW known, NEW m \in metaForAsset(a, known)
    PROVE  m.collider \subseteq Rect
BY DEF metaForAsset, Asset

LEMMA StampCollisionsAreRects ==
    ASSUME NEW s \in Stamp, NEW known, NEW r \in stampCollisionRect(s, known)
    PROVE  r \in Rect
<1> DEFINE meta == {m \in metaForAsset(s.asset, known) : m.blocks}
           colliders == UNION {m.collider : m \in meta}
<1>1. s.asset \in Asset
    BY DEF Stamp
<1>2. colliders \subseteq Rect
    BY <1>1, MetaIsTyped
<1>3. \/ r = stampBounds(s)
      \/ \E c \in colliders :
            r = Stretched(c, stampBounds(s), SpriteWidth(s.asset), SpriteHeight(s.asset))
    BY DEF stampCollisionRect
<1>4. /\ stampBounds(s) \in Rect
      /\ SpriteWidth(s.asset) \in Nat \ {0} /\ SpriteHeight(s.asset) \in Nat \ {0}
    BY <1>1, StampBoundsAreRects, SpriteHasSize
<1> HIDE DEF colliders
<1> QED
    BY <1>2, <1>3, <1>4, StretchedIsRect

LEMMA ObjectCollisionsAreRects ==
    ASSUME NEW o \in Object, NEW known, NEW r \in objectCollisionRect(o, known)
    PROVE  r \in Rect /\ hasArea(o.bounds)
<1> DEFINE meta == UNION {metaForAsset(a, known) : a \in o.sprite}
           colliders == UNION {m.collider : m \in meta}
<1>1. o.bounds \in Rect /\ o.sprite \subseteq Asset /\ o.collider \subseteq Rect
    BY DEF Object
<1>2. colliders \subseteq Rect
    BY <1>1, MetaIsTyped
<1>3. hasArea(o.bounds)
    BY DEF objectCollisionRect
<1>4. \/ r = o.bounds
      \/ \E c \in o.collider :
            r = [x |-> o.bounds.x + 2 * c.x, y |-> o.bounds.y + 2 * c.y,
                 w |-> 2 * c.w, h |-> 2 * c.h]
      \/ \E a \in o.sprite, c \in colliders :
            r = Stretched(c, o.bounds, SpriteWidth(a), SpriteHeight(a))
    BY DEF objectCollisionRect
<1>5. CASE r = o.bounds
    BY <1>1, <1>3, <1>5
<1>6. CASE \E c \in o.collider :
            r = [x |-> o.bounds.x + 2 * c.x, y |-> o.bounds.y + 2 * c.y,
                 w |-> 2 * c.w, h |-> 2 * c.h]
    BY <1>1, <1>3, <1>6 DEF Rect
<1>7. CASE \E a \in o.sprite, c \in colliders :
            r = Stretched(c, o.bounds, SpriteWidth(a), SpriteHeight(a))
  <2> HIDE DEF colliders
  <2>1. PICK a \in o.sprite, c \in colliders :
            r = Stretched(c, o.bounds, SpriteWidth(a), SpriteHeight(a))
      BY <1>7
  <2>2. c \in Rect /\ a \in Asset
      BY <1>1, <1>2
  <2>3. SpriteWidth(a) \in Nat \ {0} /\ SpriteHeight(a) \in Nat \ {0}
      BY <2>2, SpriteHasSize
  <2> QED
      BY <1>1, <1>3, <2>1, <2>2, <2>3, StretchedIsRect
<1> QED
    BY <1>4, <1>5, <1>6, <1>7

LEMMA OverlapIsSymmetric ==
    ASSUME NEW a \in Rect, NEW b \in Rect
    PROVE  rectsOverlap(a, b) <=> rectsOverlap(b, a)
BY DEF rectsOverlap, Rect

LEMMA WithinOverlaps ==
    ASSUME NEW a \in Rect, NEW b \in Rect, NEW c \in Rect, Within(a, b), rectsOverlap(c, a)
    PROVE  rectsOverlap(b, c)
BY DEF Within, rectsOverlap, Rect
-----------------------------------------------------------------------------
(* What the queries find.                                                  *)

LEMMA StampsFound ==
    ASSUME IInv, NEW area \in Rect, area.w >= 0, area.h >= 0
    PROVE  /\ collectStampCandidates(area) =
                  {i \in DOMAIN map.stamps : rectsOverlap(stampBounds(map.stamps[i]), area)}
           /\ CollectVisibleStampIndices(area) =
                  {i \in DOMAIN map.stamps : rectsOverlap(stampBounds(map.stamps[i]), area)}
<1> DEFINE bounds == StampBounds(map)
           n == Len(map.stamps)
           reach == InReach(Filed(bounds), area)
<1>1. n \in Nat /\ DOMAIN map.stamps = 1 .. n /\ DOMAIN bounds = 1 .. n
      /\ \A i \in 1 .. n : map.stamps[i] \in Stamp /\ bounds[i] = stampBounds(map.stamps[i])
    BY DocsAreTyped DEF IInv, TypeOK, StampBounds
<1>2. \A i \in 1 .. n : bounds[i] \in Rect /\ hasArea(bounds[i])
    BY <1>1, StampBoundsAreRects
<1>3. reach \subseteq 1 .. n
    BY <1>1, InReachIsFiled
<1>4. \A i \in 1 .. n : rectsOverlap(bounds[i], area) => i \in reach
    BY <1>1, <1>2, FiledIsInReach
<1>5. /\ serverSeen \in Seens(n) /\ NotAhead(serverSeen)
      /\ clientSeen \in Seens(n) /\ NotAhead(clientSeen)
      /\ serverIndex.stamps = Filed(bounds) /\ clientIndex.stamps = Filed(bounds)
    BY DEF IInv, TypeOK, Seens, IndexOf
<1> HIDE DEF bounds, n
<1>6. /\ LookedAt(serverIndex.stamps, serverSeen, area) = reach
      /\ LookedAt(clientIndex.stamps, clientSeen, area) = reach
    BY <1>1, <1>3, <1>5, LookedAtAll
<1> HIDE DEF reach
<1>7. {i \in reach : rectsOverlap(stampBounds(map.stamps[i]), area)}
          = {i \in 1 .. n : rectsOverlap(stampBounds(map.stamps[i]), area)}
    BY <1>1, <1>3, <1>4
<1> QED
    BY <1>1, <1>6, <1>7 DEF collectStampCandidates, CollectVisibleStampIndices

LEMMA ObjectsFound ==
    ASSUME IInv, NEW area \in Rect, area.w >= 0, area.h >= 0
    PROVE  /\ CollectVisibleObjects(area) =
                  {i \in DOMAIN map.objects :
                      hasArea(map.objects[i].bounds) /\ rectsOverlap(map.objects[i].bounds, area)}
           /\ collectObjectCandidates(area) \subseteq DOMAIN map.objects
           /\ CollectVisibleObjects(area) \subseteq collectObjectCandidates(area)
<1> DEFINE bounds == ObjectBounds(map)
           n == Len(map.objects)
           reach == InReach(Filed(bounds), area)
<1>1. n \in Nat /\ DOMAIN map.objects = 1 .. n /\ DOMAIN bounds = 1 .. n
      /\ \A i \in 1 .. n : map.objects[i] \in Object /\ bounds[i] = map.objects[i].bounds
    BY DocsAreTyped DEF IInv, TypeOK, ObjectBounds
<1>2. \A i \in 1 .. n : bounds[i] \in Rect
    BY <1>1 DEF Object
<1>3. reach \subseteq 1 .. n /\ \A i \in reach : hasArea(bounds[i])
    BY <1>1, InReachIsFiled
<1>4. \A i \in 1 .. n : hasArea(bounds[i]) /\ rectsOverlap(bounds[i], area) => i \in reach
    BY <1>1, <1>2, FiledIsInReach
<1>5. /\ objectsSeen \in Seens(n) /\ NotAhead(objectsSeen)
      /\ serverIndex.objects = Filed(bounds) /\ clientIndex.objects = Filed(bounds)
    BY DEF IInv, TypeOK, Seens, IndexOf
<1> HIDE DEF bounds, n
<1>6. LookedAt(clientIndex.objects, objectsSeen, area) = reach
    BY <1>1, <1>3, <1>5, LookedAtAll
<1>7. collectObjectCandidates(area) = reach
    BY <1>5 DEF collectObjectCandidates
<1> HIDE DEF reach
<1>8. {i \in reach : rectsOverlap(map.objects[i].bounds, area)}
          = {i \in 1 .. n : hasArea(map.objects[i].bounds)
                            /\ rectsOverlap(map.objects[i].bounds, area)}
    BY <1>1, <1>3, <1>4
<1>9. CollectVisibleObjects(area) = {i \in reach : rectsOverlap(map.objects[i].bounds, area)}
    BY <1>6 DEF CollectVisibleObjects
<1> QED
    BY <1>1, <1>3, <1>7, <1>8, <1>9

(* What blocks the body within its bounds is found by both ends. *)
LEMMA BlockingIsFound ==
    ASSUME IInv, CollidersWithinBounds(map), NEW p \in Places
    PROVE  /\ \A i \in DOMAIN map.stamps : \A r \in stampCollisionRect(map.stamps[i], TRUE) :
                 rectsOverlap(Body(p), r) =>
                     i \in collectStampCandidates(Body(p))
           /\ \A i \in DOMAIN map.objects : \A r \in objectCollisionRect(map.objects[i], TRUE) :
                 rectsOverlap(Body(p), r) =>
                     /\ i \in collectObjectCandidates(Body(p))
                     /\ i \in CollectVisibleObjects(Body(p))
<1>1. Body(p) \in Rect /\ Body(p).w >= 0 /\ Body(p).h >= 0
    BY BodyIsRect DEF Rect
<1>2. /\ \A i \in DOMAIN map.stamps : map.stamps[i] \in Stamp
      /\ \A i \in DOMAIN map.objects : map.objects[i] \in Object
    BY DocsAreTyped DEF IInv, TypeOK
<1>3. ASSUME NEW i \in DOMAIN map.stamps, NEW r \in stampCollisionRect(map.stamps[i], TRUE),
             rectsOverlap(Body(p), r)
      PROVE  i \in collectStampCandidates(Body(p))
  <2>1. r \in Rect /\ stampBounds(map.stamps[i]) \in Rect
      BY <1>2, StampCollisionsAreRects, StampBoundsAreRects
  <2>2. Within(r, stampBounds(map.stamps[i]))
      BY DEF CollidersWithinBounds
  <2>3. rectsOverlap(stampBounds(map.stamps[i]), Body(p))
      BY <1>1, <1>3, <2>1, <2>2, WithinOverlaps
  <2> QED
      BY <1>1, <2>3, StampsFound
<1>4. ASSUME NEW i \in DOMAIN map.objects, NEW r \in objectCollisionRect(map.objects[i], TRUE),
             rectsOverlap(Body(p), r)
      PROVE  /\ i \in collectObjectCandidates(Body(p))
             /\ i \in CollectVisibleObjects(Body(p))
  <2>1. r \in Rect /\ hasArea(map.objects[i].bounds) /\ map.objects[i].bounds \in Rect
      BY <1>2, ObjectCollisionsAreRects DEF Object
  <2>2. Within(r, map.objects[i].bounds)
      BY DEF CollidersWithinBounds
  <2>3. rectsOverlap(map.objects[i].bounds, Body(p))
      BY <1>1, <1>4, <2>1, <2>2, WithinOverlaps
  <2> QED
      BY <1>1, <2>1, <2>3, ObjectsFound
<1> QED
    BY <1>3, <1>4
-----------------------------------------------------------------------------
(* For any map and after any queries the server's answer for a place is    *)
(* that of a look at everything on the map.                                *)
THEOREM ServerAlwaysAnswersExactly == Spec => []ServerAnswersExactly
<1>1. IInv => ServerAnswersExactly
  <2> SUFFICES ASSUME IInv, CollidersWithinBounds(map), NEW p \in Places
               PROVE  isWalkable(p) <=> Clear(p)
      BY DEF ServerAnswersExactly
  <2>1. Body(p) \in Rect /\ Body(p).w >= 0 /\ Body(p).h >= 0
      BY BodyIsRect DEF Rect
  <2>2. /\ collectStampCandidates(Body(p)) \subseteq DOMAIN map.stamps
        /\ collectObjectCandidates(Body(p)) \subseteq DOMAIN map.objects
      BY <2>1, StampsFound, ObjectsFound
  <2>3. Clear(p) => isWalkable(p)
      BY <2>2 DEF Clear, isWalkable
  <2>4. isWalkable(p) => Clear(p)
      BY BlockingIsFound DEF Clear, isWalkable
  <2> QED
      BY <2>3, <2>4
<1> QED
    BY <1>1, Inductive, PTL

(* With the images' collision data, the client goes wherever the server    *)
(* lets it, and, with colliders within their bounds, nowhere else.         *)
THEOREM ClientAlwaysAgrees == Spec => []ClientAgrees
<1>1. IInv => ClientAgrees
  <2> SUFFICES ASSUME IInv, atlasKnown, NEW p \in Places
               PROVE  /\ isWalkable(p) => IsWalkable(p)
                      /\ CollidersWithinBounds(map) => (IsWalkable(p) => isWalkable(p))
      BY DEF ClientAgrees
  <2>1. atlasKnown = TRUE
      BY DEF IInv, TypeOK
  <2>2. Body(p) \in Rect /\ Body(p).w >= 0 /\ Body(p).h >= 0
      BY BodyIsRect DEF Rect
  <2>3. /\ CollectVisibleStampIndices(Body(p)) = collectStampCandidates(Body(p))
        /\ CollectVisibleObjects(Body(p)) \subseteq collectObjectCandidates(Body(p))
        /\ collectObjectCandidates(Body(p)) \subseteq DOMAIN map.objects
      BY <2>2, StampsFound, ObjectsFound
  <2>4. isWalkable(p) => IsWalkable(p)
      BY <2>1, <2>3 DEF isWalkable, IsWalkable
  <2>5. CollidersWithinBounds(map) => (IsWalkable(p) => isWalkable(p))
      BY <2>1, <2>3, BlockingIsFound DEF isWalkable, IsWalkable
  <2> QED
      BY <2>4, <2>5
<1> QED
    BY <1>1, Inductive, PTL

(* A frame misses nothing and shows nothing out of its view, whatever was  *)
(* asked before.                                                           *)
THEOREM FramesDrawWhatIsThere == Spec => []DrawsWhatIsThere
<1>1. IInv => DrawsWhatIsThere
  <2> SUFFICES ASSUME IInv, NEW view \in Views
               PROVE  /\ hasArea(ClampRectToBounds(view)) =>
                            CollectVisibleStampIndices(ClampRectToBounds(view)) =
                                {i \in DOMAIN map.stamps :
                                    rectsOverlap(stampBounds(map.stamps[i]),
                                                 ClampRectToBounds(view))}
                      /\ CollectVisibleObjects(view) =
                            {i \in DOMAIN map.objects :
                                hasArea(map.objects[i].bounds)
                                /\ rectsOverlap(map.objects[i].bounds, view)}
      BY DEF DrawsWhatIsThere
  <2>1. /\ view \in Rect /\ view.x \in Int /\ view.y \in Int
        /\ view.w \in Int /\ view.h \in Int /\ view.w >= 0 /\ view.h >= 0
      BY GroundAssumption DEF Rect
  <2>2. 2 * Width * TileSize \in Int /\ 2 * Height * TileSize \in Int
      BY GroundAssumption
  <2>3. /\ ClampRectToBounds(view) \in Rect
        /\ ClampRectToBounds(view).w >= 0 /\ ClampRectToBounds(view).h >= 0
      BY <2>1, <2>2 DEF ClampRectToBounds, Larger, Least, Rect
  <2> QED
      BY <2>1, <2>3, StampsFound, ObjectsFound
<1> QED
    BY <1>1, Inductive, PTL
=============================================================================
