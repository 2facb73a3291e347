----------------------------- MODULE MapFormat -----------------------------
(***************************************************************************)
(* The map files: the text format of old, which is still read, the Tiled   *)
(* (.tmx) format, the references to images in either, and where stamps     *)
(* are drawn.  Server and client read maps with the same code.             *)
(*                                                                         *)
(* A text is a sequence of lines already split at their separators, a .tmx *)
(* file a tree of elements.  An optional value is a set with at most one   *)
(* element.  The empty string is the code's own "nothing" for a name.      *)
(***************************************************************************)
EXTENDS Integers, Sequences, SequencesExt

CONSTANTS
    Pngs,         \* the file names that end in .png
    Numerals,     \* the texts of numbers among the values of properties
    MinTile,      \* the least tile size, 16
    MaxTile,      \* the largest, 128
    MinSide,      \* the least width and height in tiles, 8
    Parts         \* places in a .tmx file are in parts of half a pixel

\* The empty text is no number.
ASSUME MapFormatAssumption ==
    /\ Numerals \subseteq STRING \ {""}
    /\ MinTile \in Nat \ {0}
    /\ MaxTile \in Nat
    /\ MinSide \in Nat \ {0}
    /\ Parts \in Nat \ {0}
-----------------------------------------------------------------------------
(* References to images: prefix:file@x@y@w@h.  area is the rectangle; a    *)
(* reference that is not of five parts has none.                           *)

Domains == {"map", "character"}

Refs == [prefix : STRING, file : STRING, area : SUBSET [x : Int, y : Int, w : Int, h : Int]]

\* ParseAtlasRef: the reference names a file and a rectangle with an area.
Valid(ref) == ref.file # "" /\ \E a \in ref.area : a.w > 0 /\ a.h > 0

PrefixDomain(ref) == IF ref.prefix = "character" THEN "character" ELSE "map"

\* AssetDomainForRef: a reference that names no domain belongs to the map's
\* images, unless it is not valid either.
AssetDomainForRef(ref, fallback) ==
    IF ref.prefix = "" /\ ~Valid(ref) THEN fallback ELSE PrefixDomain(ref)

\* The name of a file: what is left of a reference that cannot be read is
\* taken as a name whole.
FileName(prefix, file, rest) == [prefix |-> prefix, file |-> file, rest |-> rest]

\* AssetFileName
AssetFileName(ref) ==
    IF Valid(ref) THEN FileName("", ref.file, {}) ELSE FileName("", ref.file, ref.area)

\* ResolveAssetRef: the alias of an asset line is replaced by its file; the
\* fallback domain reaches only a reference that names a .png and no valid
\* rectangle.
ResolveAssetRef(ref, fallback, assets) ==
    IF ref.area # {} /\ ref.prefix = "" /\ ref.file \in DOMAIN assets
    THEN {[prefix |-> assets[ref.file].domain, file |-> assets[ref.file].file,
           area |-> ref.area]}
    ELSE IF Valid(ref) THEN {ref}
    ELSE IF ref.area # {} /\ ref.file \in Pngs
    THEN {[ref EXCEPT !.prefix = fallback]}
    ELSE {}

\* CollectReferencedAssets: the files a map needs of a domain.
Referenced(doc) ==
    {[ref |-> r, fallback |-> "map"] :
        r \in UNION {doc.layers[i].asset : i \in {j \in DOMAIN doc.layers :
                                                     doc.layers[j].kind = "image"}}
              \union UNION {doc.objects[i].sprite : i \in DOMAIN doc.objects}
              \union {doc.stamps[i].asset : i \in DOMAIN doc.stamps}}
    \union
    {[ref |-> doc.playerSprites[d], fallback |-> "character"] :
        d \in DOMAIN doc.playerSprites}

CollectReferencedAssets(doc, domain) ==
    {AssetFileName(n.ref) :
        n \in {m \in Referenced(doc) : /\ AssetDomainForRef(m.ref, m.fallback) = domain
                                       /\ m.ref.file # ""}}
-----------------------------------------------------------------------------
Collisions == {"block", "solid", "wall", "none", "pass", "passable", "false", "off"}

NoProperties == [k \in {} |-> ""]

\* A function with one more value, or another.
With(f, key, value) ==
    [k \in DOMAIN f \union {key} |-> IF k = key THEN value ELSE f[k]]

EmptyDocument ==
    [mapId |-> "", worldName |-> "", tileSize |-> 32, width |-> 0, height |-> 0,
     spawn |-> <<"96", "96">>, properties |-> NoProperties,
     playerSprites |-> NoProperties, layers |-> <<>>, stamps |-> <<>>,
     objects |-> <<>>]

\* The checks both readers end with.
Sized(doc) ==
    /\ doc.mapId # ""
    /\ doc.tileSize \in MinTile .. MaxTile
    /\ doc.width >= MinSide
    /\ doc.height >= MinSide
-----------------------------------------------------------------------------
(* The old text, line by line.  A reader is the document so far, the       *)
(* aliases, whether the format was named, and whether all went well.       *)

\* What the lines of each key give.  A line whose parts are missing, or are
\* no numbers, is one of an unknown key.
LineForms ==
    [key : {"comment"}]
    \union [key : {"map_format"}, version : Int]
    \union [key : {"map_id", "world_name"}, value : STRING]
    \union [key : {"tile_size"}, size : Int]
    \union [key : {"size"}, width : Int, height : Int]
    \union [key : {"spawn"}, x : STRING, y : STRING]
    \union [key : {"property"}, name : STRING, value : STRING]
    \union [key : {"player_sprite"}, facing : STRING, ref : Refs]
    \union [key : {"asset"}, alias : STRING, domain : STRING, file : STRING]
    \union [key : {"layer"}, name : STRING, kind : STRING, asset : SUBSET Refs,
            tint : SUBSET STRING, parallax : SUBSET STRING]
    \union [key : {"tile"}, layer : STRING, x : Int, y : Int, ref : Refs]
    \union [key : {"line"}, layer : STRING, x : Int, y : Int, x2 : Int, y2 : Int, ref : Refs]
    \union [key : {"fill"}, layer : STRING, x : Int, y : Int, w : Int, h : Int, ref : Refs]
    \union [key : {"tiles"}, layer : STRING, ref : Refs, cells : Seq(Int \X Int)]
    \union [key : {"entity"}, kind : STRING, id : STRING,
            bounds : [x : Int, y : Int, w : Int, h : Int]]
    \union [key : {"sprite"}, id : STRING, ref : Refs]
    \union [key : {"prop"}, id : STRING, name : STRING, value : STRING]
    \union [key : {"unknown"}]

Fail(r) == [r EXCEPT !.ok = FALSE]

\* AppendTile for every cell: a layer without a name takes none.
AppendTiles(r, layer, cells, ref) ==
    IF layer = "" THEN r
    ELSE [r EXCEPT !.doc.stamps = @ \o
             [i \in DOMAIN cells |->
                 [layer |-> layer, x |-> cells[i][1], y |-> cells[i][2], asset |-> ref]]]

\* The cells of a rectangle, row by row.
Block(x, y, w, h) ==
    [i \in 1 .. w * h |-> <<x + ((i - 1) % w), y + ((i - 1) \div w)>>]

LeastOf(a, b) == IF a <= b THEN a ELSE b
Distance(a, b) == IF a <= b THEN b - a ELSE a - b

ReadFormat(r, line) ==
    IF line.version # 2 THEN Fail(r) ELSE [r EXCEPT !.hasFormat = TRUE]

ReadTileSize(r, line) ==
    IF line.size <= 0 THEN Fail(r) ELSE [r EXCEPT !.doc.tileSize = line.size]

ReadSize(r, line) ==
    IF line.width <= 0 \/ line.height <= 0 THEN Fail(r)
    ELSE [r EXCEPT !.doc.width = line.width, !.doc.height = line.height]

ReadSpawn(r, line) ==
    IF {line.x, line.y} \subseteq Numerals THEN [r EXCEPT !.doc.spawn = <<line.x, line.y>>]
    ELSE Fail(r)

ReadProperty(r, line) ==
    [r EXCEPT !.doc.properties = With(@, line.name, line.value)]

\* A property called player_sprite_<facing>.
ReadPlayerSprite(r, line) ==
    LET ref == ResolveAssetRef(line.ref, "character", r.assets)
    IN  IF ref = {} THEN Fail(r)
        ELSE [r EXCEPT !.doc.playerSprites = With(@, line.facing, CHOOSE x \in ref : TRUE)]

ReadAsset(r, line) ==
    IF line.alias = "" \/ line.file = "" \/ line.domain \notin Domains THEN Fail(r)
    ELSE [r EXCEPT !.assets = With(@, line.alias, [domain |-> line.domain, file |-> line.file])]

White == "#FFFFFFFF"

\* The value that is given, or another.
Given(optional, default) == IF optional = {} THEN default ELSE CHOOSE v \in optional : TRUE

\* A layer with an image is of the kind "image" whatever the line says.
ReadLayer(r, line) ==
    LET ref == UNION {ResolveAssetRef(a, "map", r.assets) : a \in line.asset}
    IN  IF (line.asset # {} /\ ref = {}) \/ ~(line.parallax \subseteq Numerals) THEN Fail(r)
        ELSE [r EXCEPT !.doc.layers = Append(@,
                 [name |-> line.name, asset |-> ref,
                  kind |-> IF ref # {} THEN "image" ELSE line.kind,
                  tint |-> Given(line.tint, White), parallax |-> Given(line.parallax, "1")])]

\* Only a single tile minds a layer without a name.
ReadTile(r, line) ==
    LET ref == ResolveAssetRef(line.ref, "map", r.assets)
    IN  IF ref = {} \/ line.layer = "" THEN Fail(r)
        ELSE AppendTiles(r, line.layer, <<<<line.x, line.y>>>>, CHOOSE x \in ref : TRUE)

ReadLine(r, line) ==
    LET ref == ResolveAssetRef(line.ref, "map", r.assets)
    IN  IF ref = {} \/ (line.x # line.x2 /\ line.y # line.y2) THEN Fail(r)
        ELSE AppendTiles(r, line.layer,
                 Block(LeastOf(line.x, line.x2), LeastOf(line.y, line.y2),
                       Distance(line.x, line.x2) + 1, Distance(line.y, line.y2) + 1),
                 CHOOSE x \in ref : TRUE)

ReadFill(r, line) ==
    LET ref == ResolveAssetRef(line.ref, "map", r.assets)
    IN  IF ref = {} \/ line.w <= 0 \/ line.h <= 0 THEN Fail(r)
        ELSE AppendTiles(r, line.layer, Block(line.x, line.y, line.w, line.h),
                         CHOOSE x \in ref : TRUE)

ReadTiles(r, line) ==
    LET ref == ResolveAssetRef(line.ref, "map", r.assets)
    IN  IF ref = {} THEN Fail(r)
        ELSE AppendTiles(r, line.layer, line.cells, CHOOSE x \in ref : TRUE)

HasObject(doc, id) == \E i \in DOMAIN doc.objects : doc.objects[i].id = id

ReadEntity(r, line) ==
    IF line.bounds.w < 0 \/ line.bounds.h < 0 \/ HasObject(r.doc, line.id) THEN Fail(r)
    ELSE [r EXCEPT !.doc.objects = Append(@,
             [kind |-> line.kind, id |-> line.id, bounds |-> line.bounds,
              sprite |-> {}, properties |-> NoProperties])]

\* The object of a prop line, changed.
OnObject(r, id, Change(_)) ==
    [r EXCEPT !.doc.objects = [i \in DOMAIN @ |-> IF @[i].id = id THEN Change(@[i]) ELSE @[i]]]

ReadSprite(r, line) ==
    LET ref == ResolveAssetRef(line.ref, "map", r.assets)
        Dressed(o) == [o EXCEPT !.sprite = ref]
    IN  IF ref = {} \/ ~HasObject(r.doc, line.id) THEN Fail(r)
        ELSE OnObject(r, line.id, Dressed)

ReadProp(r, line) ==
    LET Told(o) == [o EXCEPT !.properties = With(@, line.name, line.value)]
    IN  IF \/ ~HasObject(r.doc, line.id)
           \/ line.name = "collision" /\ line.value \notin Collisions
        THEN Fail(r)
        ELSE OnObject(r, line.id, Told)

\* One line: an unknown key, or a line whose parts cannot be read, fails.
Read(r, line) ==
    IF ~r.ok THEN r ELSE
    CASE line.key = "comment" -> r
      [] line.key = "map_format" -> ReadFormat(r, line)
      [] line.key = "map_id" -> [r EXCEPT !.doc.mapId = line.value]
      [] line.key = "world_name" -> [r EXCEPT !.doc.worldName = line.value]
      [] line.key = "tile_size" -> ReadTileSize(r, line)
      [] line.key = "size" -> ReadSize(r, line)
      [] line.key = "spawn" -> ReadSpawn(r, line)
      [] line.key = "property" -> ReadProperty(r, line)
      [] line.key = "player_sprite" -> ReadPlayerSprite(r, line)
      [] line.key = "asset" -> ReadAsset(r, line)
      [] line.key = "layer" -> ReadLayer(r, line)
      [] line.key = "tile" -> ReadTile(r, line)
      [] line.key = "line" -> ReadLine(r, line)
      [] line.key = "fill" -> ReadFill(r, line)
      [] line.key = "tiles" -> ReadTiles(r, line)
      [] line.key = "entity" -> ReadEntity(r, line)
      [] line.key = "sprite" -> ReadSprite(r, line)
      [] line.key = "prop" -> ReadProp(r, line)
      [] OTHER -> Fail(r)

\* What was read: no document, or one.
ParseLegacyDocument(text) ==
    LET read[n \in 0 .. Len(text)] ==
            IF n = 0 THEN [doc |-> EmptyDocument, assets |-> NoProperties,
                           hasFormat |-> FALSE, ok |-> TRUE]
            ELSE Read(read[n - 1], text[n])
        r == read[Len(text)]
    IN  IF r.ok /\ r.hasFormat /\ Sized(r.doc) THEN {r.doc} ELSE {}
-----------------------------------------------------------------------------
(* Where stamps are drawn, and the tile a .tmx file's stamp is taken to    *)
(* stand on.                                                               *)

\* Pixels, in parts.  A sprite centred on its tile may need half of one.
Pixels(n) == n * (2 * Parts)

Width(ref, tile) == IF Valid(ref) THEN (CHOOSE a \in ref.area : TRUE).w ELSE tile
Height(ref, tile) == IF Valid(ref) THEN (CHOOSE a \in ref.area : TRUE).h ELSE tile

\* A sprite is centred on its tile.
Inset(ref, tile) == (tile - Width(ref, tile)) * Parts

\* StampBounds: the left upper corner of a stamp, which stands on the lower
\* edge of its tile.
StampBounds(s, tile) ==
    <<Pixels(s.x * tile) + Inset(s.asset, tile),
      Pixels((s.y + 1) * tile - Height(s.asset, tile))>>

\* std::lround of n over d.
Round(n, d) == IF n >= 0 THEN (2 * n + d) \div (2 * d) ELSE -((d - 2 * n) \div (2 * d))

\* Mutant: the height of the sprite is forgotten.
StampGridByCorner(place, ref, tile) ==
    <<Round(place[1] - Inset(ref, tile), Pixels(tile)), Round(place[2], Pixels(tile))>>

\* StampGridFromObject: the tile nearest to the place a stamp was saved at.
StampGrid(place, ref, tile) ==
    <<Round(place[1] - Inset(ref, tile), Pixels(tile)),
      Round(place[2] + Pixels(Height(ref, tile) - tile), Pixels(tile))>>
-----------------------------------------------------------------------------
(* The .tmx file.  An object that has no place or no size, or one that is  *)
(* no number, stands with a negative width.                                *)

Reserved == {"nganu_format", "map_id", "world_name", "spawn_x", "spawn_y"}

\* What the elements hold, as far as their order and the places of stamps go.
Optional(S, values) == values \subseteq S /\ \A a, b \in values : a = b

NodeForm(node) ==
    /\ Optional(Refs, node.asset_ref)
    /\ Optional(Int \X Int, node.place)
    /\ Optional(Int \X Int, node.grid)

Sequential(s) == s \in Seq({s[i] : i \in DOMAIN s})

TreeForm(tree) ==
    /\ {tree.width, tree.height, tree.tilewidth, tree.tileheight} \subseteq Int
    /\ Sequential(tree.groups)
    /\ \A i \in DOMAIN tree.groups :
          /\ Sequential(tree.groups[i].stamps) /\ Sequential(tree.groups[i].objects)
          /\ \A j \in DOMAIN tree.groups[i].stamps : NodeForm(tree.groups[i].stamps[j])

\* The elements of a sequence whose places are among some, in their order.
Picked(s, places) ==
    LET picked[n \in 0 .. Len(s)] ==
            IF n = 0 THEN <<>>
            ELSE IF n \in places THEN Append(picked[n - 1], s[n])
            ELSE picked[n - 1]
    IN  picked[Len(s)]

Property(tree, key) == IF key \in DOMAIN tree.properties THEN tree.properties[key] ELSE ""

\* A spawn that is given by half is not given.
Spawn(tree) ==
    IF Property(tree, "spawn_x") = "" \/ Property(tree, "spawn_y") = ""
    THEN EmptyDocument.spawn
    ELSE <<Property(tree, "spawn_x"), Property(tree, "spawn_y")>>

SpawnReads(tree) ==
    {Property(tree, "spawn_x"), Property(tree, "spawn_y")} \subseteq Numerals \union {""}

NamesGiven(properties) == "" \notin DOMAIN properties

\* A stamp's own place decides before its grid properties.
StampReads(node) == node.asset_ref # {} /\ (node.place # {} \/ node.grid # {})

StampOf(node, layer, tile) ==
    LET ref == CHOOSE r \in node.asset_ref : TRUE
        cell == IF node.place # {} THEN StampGrid(CHOOSE p \in node.place : TRUE, ref, tile)
                ELSE CHOOSE g \in node.grid : TRUE
    IN  [layer |-> layer, x |-> cell[1], y |-> cell[2], asset |-> ref]

ObjectReads(o) ==
    /\ o.id # "" /\ o.kind # ""
    /\ o.bounds.w >= 0 /\ o.bounds.h >= 0
    /\ NamesGiven(o.properties)
    /\ "collision" \in DOMAIN o.properties => o.properties["collision"] \in Collisions

\* Ids are told apart within a group.
GroupReads(g) ==
    CASE g.role = "map_layer" ->
            /\ g.parallax \in Numerals \union {""}
            /\ \A i \in DOMAIN g.stamps : StampReads(g.stamps[i])
      [] g.role = "map_objects" ->
            /\ \A i \in DOMAIN g.objects : ObjectReads(g.objects[i])
            /\ \A i, j \in DOMAIN g.objects : g.objects[i].id = g.objects[j].id => i = j
      [] OTHER -> TRUE

GroupsOf(tree, role) ==
    Picked(tree.groups, {i \in DOMAIN tree.groups : tree.groups[i].role = role})

\* A value that is left out is empty.
Unless(value, default) == IF value = "" THEN default ELSE value

LayerOf(g) ==
    [name |-> g.name, asset |-> g.asset, kind |-> Unless(g.kind, "tilemap"),
     tint |-> Unless(g.tint, White), parallax |-> Unless(g.parallax, "1")]

\* The stamps of a layer's group, and of no other.
StampsOf(g, tile) == [j \in DOMAIN g.stamps |-> StampOf(g.stamps[j], g.name, tile)]

DocumentOf(tree) ==
    LET layers == GroupsOf(tree, "map_layer")
        objects == GroupsOf(tree, "map_objects")
    IN  [mapId |-> Property(tree, "map_id"), worldName |-> Property(tree, "world_name"),
         tileSize |-> tree.tilewidth, width |-> tree.width, height |-> tree.height,
         spawn |-> Spawn(tree),
         properties |-> [k \in DOMAIN tree.properties \ (Reserved \ {"nganu_format"}) |->
                            tree.properties[k]],
         playerSprites |-> tree.playerSprites,
         layers |-> [i \in DOMAIN layers |-> LayerOf(layers[i])],
         stamps |-> FlattenSeq([i \in DOMAIN layers |-> StampsOf(layers[i], tree.tilewidth)]),
         objects |-> FlattenSeq([i \in DOMAIN objects |-> objects[i].objects])]

\* What was read: no document, or one.  A dimension that is missing or no
\* number is 0.
ParseTmxDocument(tree) ==
    IF /\ tree.width > 0 /\ tree.height > 0 /\ tree.tilewidth > 0
       /\ tree.tileheight = tree.tilewidth
       /\ NamesGiven(tree.properties)
       /\ Property(tree, "nganu_format") = "tmx_v1"
       /\ SpawnReads(tree)
       /\ \A i \in DOMAIN tree.groups : GroupReads(tree.groups[i])
       /\ Sized(DocumentOf(tree))
    THEN {DocumentOf(tree)} ELSE {}

\* ParseDocument: a file that begins with a bracket is a tree, any other the
\* old text, whatever its name.
ParseDocument(file) ==
    IF "tree" \in DOMAIN file THEN ParseTmxDocument(file.tree)
    ELSE ParseLegacyDocument(file.lines)
=============================================================================
