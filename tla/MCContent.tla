----------------------------- MODULE MCContent -----------------------------
EXTENDS Content

Area(w, h) == {[x |-> 0, y |-> 0, w |-> w, h |-> h]}
Ref(prefix, file, area) == [prefix |-> prefix, file |-> file, area |-> area]
Box(x, y, w, h) == [x |-> x, y |-> y, w |-> w, h |-> h]

\* Sizes of 1 and 2 with a tile of 2: a sprite narrower than its tile, one as
\* wide, one taller.
Grass == Ref("map", "land.png", Area(2, 2))
Shrub == Ref("map", "land.png", Area(1, 2))
Tall  == Ref("map", "land.png", Area(2, 5))
Alias == Ref("", "t", Area(2, 2))
Hero  == Ref("character", "hero.png", Area(2, 2))
Whole == Ref("", "land.png", {})
Empty == Ref("", "land.png", Area(0, 0))
Other == Ref("", "other", Area(0, 2))

LayerLine(name, kind, asset, tint, parallax) ==
    [key |-> "layer", name |-> name, kind |-> kind, asset |-> asset, tint |-> tint,
     parallax |-> parallax]

Preamble ==
    <<[key |-> "comment"], [key |-> "map_format", version |-> 2],
      [key |-> "map_id", value |-> "field"], [key |-> "world_name", value |-> "Field"],
      [key |-> "tile_size", size |-> 2], [key |-> "size", width |-> 3, height |-> 3],
      [key |-> "spawn", x |-> "96", y |-> "97"],
      [key |-> "asset", alias |-> "t", domain |-> "map", file |-> "land.png"],
      LayerLine("ground", "tilemap", {}, {}, {}),
      [key |-> "entity", kind |-> "npc", id |-> "luna", bounds |-> Box(4, 4, 2, 2)]>>

Tile(layer, x, y, ref) == [key |-> "tile", layer |-> layer, x |-> x, y |-> y, ref |-> ref]

\* A line of each key.
Body ==
    <<Tile("ground", -1, 0, Alias),
      [key |-> "line", layer |-> "ground", x |-> 2, y |-> 1, x2 |-> 0, y2 |-> 1, ref |-> Shrub],
      LayerLine("road", "tilemap", {Grass}, {"#FF"}, {"97"}),
      [key |-> "fill", layer |-> "road", x |-> 0, y |-> 1, w |-> 2, h |-> 2, ref |-> Alias],
      [key |-> "fill", layer |-> "", x |-> 0, y |-> 1, w |-> 2, h |-> 2, ref |-> Alias],
      [key |-> "tiles", layer |-> "ground", ref |-> Tall, cells |-> <<<<0, 2>>, <<1, -1>>>>],
      [key |-> "entity", kind |-> "", id |-> "post", bounds |-> Box(0, 0, 0, 0)],
      [key |-> "sprite", id |-> "luna", ref |-> Hero],
      [key |-> "prop", id |-> "luna", name |-> "collision", value |-> "block"],
      [key |-> "property", name |-> "music", value |-> "96"],
      [key |-> "player_sprite", facing |-> "south", ref |-> Hero]>>

\* Lines that fail.
LastLines == {
    Tile("", 0, 0, Grass), Tile("ground", 1, 1, Empty),
    [key |-> "line", layer |-> "ground", x |-> 0, y |-> 0, x2 |-> 1, y2 |-> 1, ref |-> Shrub],
    [key |-> "fill", layer |-> "ground", x |-> 0, y |-> 1, w |-> 0, h |-> 2, ref |-> Grass],
    LayerLine("sky", "", {Whole}, {}, {}), LayerLine("sky", "color", {}, {}, {"slow"}),
    [key |-> "entity", kind |-> "npc", id |-> "luna", bounds |-> Box(0, 0, 2, 2)],
    [key |-> "sprite", id |-> "luna", ref |-> Other],
    [key |-> "prop", id |-> "luna", name |-> "collision", value |-> "maybe"],
    [key |-> "prop", id |-> "rock", name |-> "title", value |-> "Rock"],
    [key |-> "unknown"]}

\* A whole text, with a line more or a line of the preamble less.
MCTexts ==
    {p \o Body : p \in {Preamble} \union {RemoveAt(Preamble, i) : i \in 2 .. Len(Preamble)}}
    \union {Preamble \o Body \o <<a>> : a \in LastLines}

Node(place, ref) == [place |-> place, asset_ref |-> ref, grid |-> {<<1, 2>>}]

Layer(name, stamps, parallax) ==
    [role |-> "map_layer", name |-> name, kind |-> "", asset |-> {}, tint |-> "",
     parallax |-> parallax, stamps |-> stamps, objects |-> <<>>]

Group(role, objects) ==
    [role |-> role, name |-> "objects", kind |-> "", asset |-> {}, tint |-> "",
     parallax |-> "", stamps |-> <<>>, objects |-> objects]

Thing(id, sprite) ==
    [kind |-> "npc", id |-> id, bounds |-> Box(4, 4, 2, 2), sprite |-> sprite,
     properties |-> NoProperties]

Tree(id, side, groups, player) ==
    [width |-> side, height |-> side, tilewidth |-> 2, tileheight |-> 2,
     properties |-> [k \in {"nganu_format", "map_id", "spawn_x"} |->
         CASE k = "nganu_format" -> "tmx_v1" [] k = "map_id" -> id [] OTHER -> "97"],
     playerSprites |-> [d \in {"south"} |-> player],
     groups |-> groups]

Luna(sprite) == Group("map_objects", <<Thing("luna", sprite)>>)

\* A tile is 8 parts wide, and a stamp may stand on the edge of two, outside
\* the map, or without a place; layers with stamps of their own about one
\* without any.
Stamped == <<
    Layer("ground", <<Node({<<-16, 8>>}, {Grass}), Node({}, {Tall}), Node({<<4, -4>>}, {Grass})>>, ""),
    Layer("bare", <<>>, "96"),
    Layer("road", <<Node({<<3, -5>>}, {Shrub}), Node({<<-2, -12>>}, {Tall})>>, ""),
    Luna({Hero})>>

MCTrees == {
    Tree("field", 3, Stamped, Hero),
    Tree("field", 3, <<Group("notes", <<Thing("luna", {})>>)>>, Hero),
    Tree("field", 3, <<Luna({}), Luna({})>>, Hero),
    Tree("field", 3, <<Group("map_objects", <<Thing("luna", {}), Thing("luna", {})>>)>>, Hero),
    Tree("road", 3, <<Group("map_objects", <<Thing("post", {}), Thing("luna", {Grass})>>)>>, Hero),
    Tree("road", 2, <<Luna({})>>, Hero),
    Tree("road", 3, <<Layer("ground", <<Node({}, {Whole})>>, ""), Luna({Grass})>>, Hero),
    Tree("road", 3, <<Layer("ground", <<Node({}, {})>>, "")>>, Hero),
    Tree("road", 3, <<Layer("ground", <<>>, "slow")>>, Hero),
    Tree("road", 3, <<Luna({Empty})>>, Hero),
    Tree("road", 3, <<Luna({})>>, Grass)}
MCPaths == {<<"map_images", "land.png">>, <<"map_atlases", "land.png">>,
            <<"characters", "hero.png">>, <<"data", "items">>}
MCNumerals == {"96", "97"}
=============================================================================
