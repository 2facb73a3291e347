------------------------------ MODULE MCGround ------------------------------
(* A map of 4 by 4 tiles of 2 pixels in chunks of 2 by 2 tiles: a body of   *)
(* 2 pixels reaches over one chunk, over two and over four.                 *)
EXTENDS Ground

Rectangle(x, y, w, h) == [x |-> x, y |-> y, w |-> w, h |-> h]
Meta(blocks, collider) == [blocks |-> blocks, collider |-> collider]
Sprite(w, h, meta) == [valid |-> TRUE, w |-> w, h |-> h, meta |-> meta]

\* A whole image, a tile that blocks, grass, and a tree: its crown, as tall as
\* three tiles, may be walked under.
WholeImage == [valid |-> FALSE, w |-> 0, h |-> 0, meta |-> {}]
Rock  == Sprite(2, 2, {Meta(TRUE, {})})
Grass == Sprite(2, 2, {Meta(FALSE, {})})
Tree  == Sprite(3, 6, {Meta(TRUE, {Rectangle(1, 4, 1, 2)})})

Stamps == {[x |-> x, y |-> y, asset |-> a] :
              x \in {0, 2}, y \in {1, 2}, a \in {Rock, Tree}}
          \union {[x |-> 1, y |-> 1, asset |-> a] : a \in {WholeImage, Grass}}

Thing(bounds, collision, sprite, collider) ==
    [bounds |-> bounds, collision |-> collision, sprite |-> sprite, collider |-> collider]

Objects == {
    Thing(Rectangle(6, 6, 6, 4), "blocks", {}, {}),
    Thing(Rectangle(6, 6, 6, 4), "disables", {Rock}, {}),
    Thing(Rectangle(4, 8, 6, 12), "absent", {Tree}, {}),
    Thing(Rectangle(4, 8, 6, 12), "blocks", {Tree}, {Rectangle(1, 1, 1, 1)}),
    \* a collider that stands out of the bounds
    Thing(Rectangle(4, 4, 2, 2), "blocks", {}, {Rectangle(1, 0, 2, 1)}),
    \* a point, like a spawn or an inspection
    Thing(Rectangle(8, 8, 0, 0), "blocks", {}, {})}

MCMapDocs ==
    {[stamps |-> s, objects |-> <<>>] :
        s \in {<<a, b>> : a \in {x \in Stamps : x.asset = Tree},
                         b \in {x \in Stamps : x.asset \in {Rock, Grass} /\ x.x # 0}}}
    \union
    {[stamps |-> s, objects |-> <<o>>] :
        s \in {<<>>} \union {<<a>> : a \in {x \in Stamps : x.x # 0 /\ x.y = 1}},
        o \in Objects}

MCPlaces == {<<2, 2>>, <<6, 5>>, <<8, 8>>, <<10, 6>>, <<13, 12>>, <<15, 15>>}

\* A corner of the map, and more than all of it.
MCViews == {Rectangle(-2, 3, 9, 6), Rectangle(-3, -3, 22, 22)}
=============================================================================
