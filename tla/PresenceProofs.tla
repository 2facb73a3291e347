--------------------------- MODULE PresenceProofs ---------------------------
(***************************************************************************)
(* Proofs about Presence, for any number of players, maps, places and      *)
(* names, and channels of any length.                                      *)
(*                                                                         *)
(* The argument: what a client will have made of another player when it    *)
(* has heard everything is what the server says of that player now.  A     *)
(* story is the sequence of what the client makes of the player between    *)
(* the packets on its way; every handler of the server lengthens the       *)
(* stories at their end, every packet heard or lost shortens them at their *)
(* beginning.                                                              *)
(***************************************************************************)
EXTENDS Presence, TLAPS, SequenceTheorems

(* What a client may make of a player: whether it shows the player, where  *)
(* and under which name.                                                   *)
Statuses == [here: BOOLEAN, name: Names \cup {Unnamed}, pos: Places \cup {Origin}]

(* The packets that would make up a player where none is shown, or take    *)
(* one away.                                                               *)
About(packet, q) ==
    \/ packet.type \in {"PLAYER_MOVE", "walk", "PLAYER_LEAVE"} /\ packet.id = q
    \/ packet.type = "PLAYER_NAME" /\ q \in DOMAIN packet.of

NameOr(s) == IF s.here THEN s.name ELSE Unnamed
PosOr(s) == IF s.here THEN s.pos ELSE Origin

(* What a packet makes of it. *)
After(s, packet, q) ==
    CASE packet.type = "MAP_TRANSFER" -> [s EXCEPT !.here = FALSE]
      [] packet.type = "PLAYER_LEAVE" /\ packet.id = q -> [s EXCEPT !.here = FALSE]
      [] packet.type = "SNAPSHOT" /\ q \in DOMAIN packet.of ->
            [here |-> TRUE, name |-> packet.of[q].name, pos |-> packet.of[q].pos]
      [] packet.type \in {"PLAYER_JOIN", "PLAYER_MOVE", "walk"} /\ packet.id = q ->
            [here |-> TRUE, name |-> NameOr(s), pos |-> packet.pos]
      [] packet.type = "PLAYER_NAME" /\ q \in DOMAIN packet.of ->
            [here |-> TRUE, name |-> packet.of[q], pos |-> PosOr(s)]
      [] OTHER -> s

(* A view shows what s says, but for the place of whoever was missed. *)
Like(view, lost, q, s) ==
    /\ s.here <=> q \in DOMAIN view
    /\ s.here => /\ view[q].name = s.name
                 /\ q \notin lost => view[q].pos = s.pos

(* What a client makes of q is what the server says of q. *)
Fits(s, t) ==
    /\ s.here <=> t.here
    /\ t.here => s.name \in {Unnamed, t.name} /\ s.pos = t.pos

IsStory(h, c, view, lost, q, t) ==
    /\ Like(view, lost, q, h[0])
    /\ \A k \in 1..Len(c) :
          /\ About(c[k], q) => h[k - 1].here
          /\ h[k] = After(h[k - 1], c[k], q)
    /\ Fits(h[Len(c)], t)

Story(c, view, lost, q, t) ==
    \E h \in [0..Len(c) -> Statuses] : IsStory(h, c, view, lost, q, t)

(* What the server says of q to the client of p. *)
Truth(p, q) == [here |-> q \in On(mapOf[p]), name |-> name[q], pos |-> pos[q]]

(* Nothing is on its way to, or shown by, whoever is not followed or not   *)
(* online.                                                                 *)
Silence ==
    \A p \in Players \ (online \cap Watched) : chan[p] = <<>> /\ shown[p] = Nobody

(* No client hears of its own player's walks and leaves, or shows it. *)
NotAbout(p, c) ==
    \A k \in 1..Len(c) :
        c[k].type \in {"PLAYER_MOVE", "walk", "PLAYER_LEAVE"} => c[k].id # p

NotOfOneself == \A p \in Players : p \notin DOMAIN shown[p] /\ NotAbout(p, chan[p])

(* The story of q at the client of p ends with the truth, or, for a client *)
(* that is told nothing more, with what was the truth.                     *)
Told(p, q) ==
    \E t \in Statuses :
        /\ Story(chan[p], shown[p], missed[p], q, t)
        /\ p \notin closing => t = Truth(p, q)

StoriesFit == \A p \in online \cap Watched : \A q \in Players \ {p} : Told(p, q)

IInv == TypeOK /\ Silence /\ NotOfOneself /\ StoriesFit

-----------------------------------------------------------------------------
(* Packets *)

Named == Names \cup {Unnamed}

(* What each type of packet carries. *)
LEMMA PacketFacts ==
    ASSUME NEW k \in Packets
    PROVE  /\ k.type \in {"HANDSHAKE", "MAP_TRANSFER", "PLAYER_LEAVE", "PLAYER_JOIN",
                          "PLAYER_MOVE", "walk", "SNAPSHOT", "PLAYER_NAME"}
           /\ k.type \in {"PLAYER_LEAVE", "PLAYER_JOIN", "PLAYER_MOVE", "walk"} => k.id \in Players
           /\ k.type \in {"PLAYER_JOIN", "PLAYER_MOVE", "walk"} => k.pos \in Places
           /\ k.type = "SNAPSHOT" =>
                 /\ DOMAIN k.of \subseteq Players
                 /\ k.of \in [DOMAIN k.of -> Looks]
           /\ k.type = "PLAYER_NAME" =>
                 /\ DOMAIN k.of \subseteq Players
                 /\ k.of \in [DOMAIN k.of -> Named]
<1>1. CASE k \in [type: {"HANDSHAKE", "MAP_TRANSFER"}]
    BY <1>1
<1>2. CASE k \in [type: {"PLAYER_LEAVE"}, id: Players]
    BY <1>2
<1>3. CASE k \in [type: {"PLAYER_JOIN", "PLAYER_MOVE", "walk"}, id: Players, pos: Places]
    BY <1>3
<1>4. CASE k \in [type: {"SNAPSHOT"}, of: UNION {[S -> Looks] : S \in SUBSET Players}]
  <2>1. k.type = "SNAPSHOT" /\ \E S \in SUBSET Players : k.of \in [S -> Looks]
      BY <1>4
  <2> QED
      BY <2>1
<1>5. CASE k \in [type: {"PLAYER_NAME"}, of: UNION {[S -> Names \cup {Unnamed}] : S \in SUBSET Players}]
  <2>1. k.type = "PLAYER_NAME" /\ \E S \in SUBSET Players : k.of \in [S -> Named]
      BY <1>5 DEF Named
  <2> QED
      BY <2>1
<1> QED
    BY <1>1, <1>2, <1>3, <1>4, <1>5 DEF Packets

(* The packets the handlers send are packets. *)
LEMMA PacketsOfAPlayer ==
    ASSUME NEW p \in Players, NEW x \in Places
    PROVE  /\ Join(p, x) \in Packets
           /\ Leave(p) \in Packets
           /\ Moved(p, x) \in Packets
           /\ Walked(p, x) \in Packets
BY DEF Join, Leave, Moved, Walked, Packets

LEMMA PacketsOfAMap ==
    ASSUME NEW S \in SUBSET Players,
           NEW f \in [S -> Looks], NEW g \in [S -> Named]
    PROVE  /\ [type |-> "SNAPSHOT", of |-> f] \in Packets
           /\ [type |-> "PLAYER_NAME", of |-> g] \in Packets
           /\ Handshake \in Packets
           /\ MapTransfer \in Packets
<1>1. /\ f \in UNION {[T -> Looks] : T \in SUBSET Players}
      /\ g \in UNION {[T -> Names \cup {Unnamed}] : T \in SUBSET Players}
    BY DEF Named
<1> QED
    BY <1>1 DEF Handshake, MapTransfer, Packets

-----------------------------------------------------------------------------
(* Stories *)

LEMMA AfterTyped ==
    ASSUME NEW s \in Statuses, NEW k \in Packets, NEW q \in Players
    PROVE  After(s, k, q) \in Statuses
<1>1. /\ k.type \in {"PLAYER_JOIN", "PLAYER_MOVE", "walk"} => k.pos \in Places
      /\ k.type = "SNAPSHOT" /\ q \in DOMAIN k.of => k.of[q] \in Looks
      /\ k.type = "PLAYER_NAME" /\ q \in DOMAIN k.of => k.of[q] \in Named
    BY PacketFacts
<1>2. NameOr(s) \in Named /\ PosOr(s) \in Places \cup {Origin}
    BY DEF NameOr, PosOr, Statuses, Named
<1> QED
    BY <1>1, <1>2 DEF After, Statuses, Looks, Named

(* A packet more lengthens a story by what it makes of its end. *)
LEMMA OneMore ==
    ASSUME NEW c \in Seq(Packets), NEW view, NEW lost, NEW q \in Players, NEW t,
           Story(c, view, lost, q, t),
           NEW k \in Packets, NEW u,
           About(k, q) => t.here,
           \A s \in Statuses : Fits(s, t) => Fits(After(s, k, q), u)
    PROVE  Story(Append(c, k), view, lost, q, u)
<1>1. PICK h \in [0..Len(c) -> Statuses] : IsStory(h, c, view, lost, q, t)
    BY DEF Story
<1> DEFINE d == Append(c, k)
           n == Len(c)
           g == [j \in 0..(n + 1) |-> IF j <= n THEN h[j] ELSE After(h[n], k, q)]
<1>2. n \in Nat /\ Len(d) = n + 1 /\ d[n + 1] = k /\ \A j \in 1..n : d[j] = c[j]
    BY AppendProperties
<1>3. h[n] \in Statuses /\ Fits(h[n], t)
    BY <1>1, <1>2 DEF IsStory
<1>4. g \in [0..Len(d) -> Statuses]
    BY <1>2, <1>3, AfterTyped
<1>5. g[0] = h[0] /\ g[n] = h[n] /\ g[n + 1] = After(h[n], k, q)
    BY <1>2
<1>6. \A j \in 1..n : g[j - 1] = h[j - 1] /\ g[j] = h[j]
    BY <1>2
<1>7. ASSUME NEW j \in 1..Len(d)
      PROVE  (About(d[j], q) => g[j - 1].here) /\ g[j] = After(g[j - 1], d[j], q)
  <2>1. CASE j \in 1..n
      BY <1>1, <1>2, <1>6, <2>1 DEF IsStory
  <2>2. CASE j = n + 1
    <3>1. j - 1 = n
        BY <1>2, <2>2
    <3>2. About(k, q) => h[n].here
        BY <1>3 DEF Fits
    <3> QED
        BY <1>2, <1>5, <2>2, <3>1, <3>2
  <2> QED
      BY <1>2, <2>1, <2>2
<1>8. Fits(g[Len(d)], u)
    BY <1>2, <1>3, <1>5
<1>9. Like(view, lost, q, g[0])
    BY <1>1, <1>5 DEF IsStory
<1> HIDE DEF g, d, n
<1> QED
    BY <1>4, <1>7, <1>8, <1>9 DEF Story, IsStory, d

(* The end of a story may be told in other words. *)
LEMMA Retold ==
    ASSUME NEW c \in Seq(Packets), NEW view, NEW lost, NEW q, NEW t,
           Story(c, view, lost, q, t),
           NEW u, \A s \in Statuses : Fits(s, t) => Fits(s, u)
    PROVE  Story(c, view, lost, q, u)
<1>1. PICK h \in [0..Len(c) -> Statuses] : IsStory(h, c, view, lost, q, t)
    BY DEF Story
<1>2. Len(c) \in Nat /\ h[Len(c)] \in Statuses
    BY <1>1
<1> QED
    BY <1>1, <1>2 DEF Story, IsStory

(* A client that is told nothing starts with nobody. *)
LEMMA NoStory ==
    ASSUME NEW lost, NEW q, NEW t, t.here = FALSE
    PROVE  Story(<<>>, Nobody, lost, q, t)
<1> DEFINE s == [here |-> FALSE, name |-> Unnamed, pos |-> Origin]
           h == [j \in 0..0 |-> s]
<1>1. s \in Statuses
    BY DEF Statuses
<1>2. h \in [0..0 -> Statuses] /\ h[0] = s
    BY <1>1
<1>3. Like(Nobody, lost, q, s)
    BY DEF Like, Nobody
<1>4. Fits(s, t)
    BY DEF Fits
<1>5. IsStory(h, <<>>, Nobody, lost, q, t)
    BY <1>2, <1>3, <1>4 DEF IsStory
<1> QED
    BY <1>2, <1>5 DEF Story

(* Hearing, or missing, a packet shortens a story at its beginning. *)
LEMMA OneLess ==
    ASSUME NEW c \in Seq(Packets), c # <<>>, NEW view, NEW lost, NEW q, NEW t,
           Story(c, view, lost, q, t),
           NEW view2, NEW lost2,
           \A s \in Statuses :
              Like(view, lost, q, s) /\ (About(Head(c), q) => s.here)
                 => Like(view2, lost2, q, After(s, Head(c), q))
    PROVE  Story(Tail(c), view2, lost2, q, t)
<1>1. PICK h \in [0..Len(c) -> Statuses] : IsStory(h, c, view, lost, q, t)
    BY DEF Story
<1> DEFINE d == Tail(c)
           n == Len(c)
           g == [j \in 0..(n - 1) |-> h[j + 1]]
<1>2. /\ n \in Nat /\ n > 0
      /\ Len(d) = n - 1
      /\ Head(c) = c[1]
      /\ \A j \in 1..(n - 1) : d[j] = c[j + 1]
    BY HeadTailProperties
<1>3. g \in [0..Len(d) -> Statuses]
    BY <1>2
<1>4. h[0] \in Statuses
    BY <1>2
<1>5. Like(view, lost, q, h[0]) /\ (About(c[1], q) => h[0].here) /\ h[1] = After(h[0], c[1], q)
    BY <1>1, <1>2 DEF IsStory
<1>6. Like(view2, lost2, q, g[0])
    BY <1>2, <1>4, <1>5
<1>7. ASSUME NEW j \in 1..Len(d)
      PROVE  (About(d[j], q) => g[j - 1].here) /\ g[j] = After(g[j - 1], d[j], q)
  <2>1. j + 1 \in 1..n /\ g[j] = h[j + 1] /\ g[j - 1] = h[j] /\ d[j] = c[j + 1]
      BY <1>2
  <2> QED
      BY <1>1, <2>1 DEF IsStory
<1>8. Fits(g[Len(d)], t)
    BY <1>1, <1>2 DEF IsStory
<1> HIDE DEF g, d, n
<1> QED
    BY <1>3, <1>6, <1>7, <1>8 DEF Story, IsStory, d

-----------------------------------------------------------------------------
(* What each packet makes of a player. *)

LEMMA AfterJoin ==
    ASSUME NEW s, NEW p, NEW x, NEW q
    PROVE  /\ After(s, Join(p, x), q) =
                 IF p = q THEN [here |-> TRUE, name |-> NameOr(s), pos |-> x] ELSE s
           /\ ~About(Join(p, x), q)
BY DEF After, About, Join

LEMMA AfterMoved ==
    ASSUME NEW s, NEW p, NEW x, NEW q
    PROVE  /\ After(s, Moved(p, x), q) =
                 IF p = q THEN [here |-> TRUE, name |-> NameOr(s), pos |-> x] ELSE s
           /\ About(Moved(p, x), q) <=> p = q
BY DEF After, About, Moved

LEMMA AfterWalked ==
    ASSUME NEW s, NEW p, NEW x, NEW q
    PROVE  /\ After(s, Walked(p, x), q) =
                 IF p = q THEN [here |-> TRUE, name |-> NameOr(s), pos |-> x] ELSE s
           /\ About(Walked(p, x), q) <=> p = q
BY DEF After, About, Walked

LEMMA AfterLeave ==
    ASSUME NEW s, NEW p, NEW q
    PROVE  /\ After(s, Leave(p), q) = IF p = q THEN [s EXCEPT !.here = FALSE] ELSE s
           /\ About(Leave(p), q) <=> p = q
BY DEF After, About, Leave

LEMMA AfterRenamed ==
    ASSUME NEW s, NEW p, NEW n, NEW q
    PROVE  /\ After(s, Renamed(p, n), q) =
                 IF p = q THEN [here |-> TRUE, name |-> n, pos |-> PosOr(s)] ELSE s
           /\ About(Renamed(p, n), q) <=> p = q
BY DEF After, About, Renamed

LEMMA AfterHandshake ==
    ASSUME NEW s, NEW q
    PROVE  After(s, Handshake, q) = s /\ ~About(Handshake, q)
BY DEF After, About, Handshake

LEMMA AfterTransfer ==
    ASSUME NEW s, NEW q
    PROVE  After(s, MapTransfer, q) = [s EXCEPT !.here = FALSE] /\ ~About(MapTransfer, q)
BY DEF After, About, MapTransfer

LEMMA AfterSnapshot ==
    ASSUME NEW s, NEW f, NEW q
    PROVE  /\ After(s, [type |-> "SNAPSHOT", of |-> f], q) =
                 IF q \in DOMAIN f THEN [here |-> TRUE, name |-> f[q].name, pos |-> f[q].pos] ELSE s
           /\ ~About([type |-> "SNAPSHOT", of |-> f], q)
BY DEF After, About

LEMMA AfterNames ==
    ASSUME NEW s, NEW f, NEW q
    PROVE  /\ After(s, [type |-> "PLAYER_NAME", of |-> f], q) =
                 IF q \in DOMAIN f THEN [here |-> TRUE, name |-> f[q], pos |-> PosOr(s)] ELSE s
           /\ About([type |-> "PLAYER_NAME", of |-> f], q) <=> q \in DOMAIN f
BY DEF After, About

-----------------------------------------------------------------------------
(* Channels *)

LEMMA NotAboutBoth ==
    ASSUME NEW p, NEW c \in Seq(Packets), NEW d \in Seq(Packets),
           NotAbout(p, c), NotAbout(p, d)
    PROVE  NotAbout(p, c \o d)
BY ConcatProperties DEF NotAbout

LEMMA NotAboutTail ==
    ASSUME NEW p, NEW c \in Seq(Packets), c # <<>>, NotAbout(p, c)
    PROVE  NotAbout(p, Tail(c))
BY HeadTailProperties DEF NotAbout

LEMMA OneMoreTold ==
    ASSUME NEW c \in Seq(Packets), NEW view, NEW lost, NEW q \in Players, NEW t,
           Story(c, view, lost, q, t),
           NEW k \in Packets, NEW u,
           About(k, q) => t.here,
           \A s \in Statuses : Fits(s, t) => Fits(After(s, k, q), u)
    PROVE  Story(c \o <<k>>, view, lost, q, u)
<1>1. Story(Append(c, k), view, lost, q, u)
    BY OneMore
<1> QED
    BY <1>1, AppendIsConcat

(* The players of a map and their names, told to a client that shows       *)
(* nobody, whatever it has shown before.                                   *)
LEMMA Introduced ==
    ASSUME NEW c \in Seq(Packets), NEW view, NEW lost, NEW q \in Players, NEW t,
           Story(c, view, lost, q, t), t.here = FALSE,
           NEW f, [type |-> "SNAPSHOT", of |-> f] \in Packets,
           NEW g, [type |-> "PLAYER_NAME", of |-> g] \in Packets,
           NEW u \in Statuses,
           u.here <=> q \in DOMAIN f,
           u.here => f[q] = [pos |-> u.pos, name |-> u.name],
           q \in DOMAIN g => u.here /\ g[q] = u.name
    PROVE  Story((c \o <<[type |-> "SNAPSHOT", of |-> f]>>) \o <<[type |-> "PLAYER_NAME", of |-> g]>>,
                 view, lost, q, u)
<1> DEFINE all == [type |-> "SNAPSHOT", of |-> f]
           them == [type |-> "PLAYER_NAME", of |-> g]
<1>1. c \o <<all>> \in Seq(Packets)
    OBVIOUS
<1>2. Story(c \o <<all>>, view, lost, q, u)
  <2>1. ASSUME NEW s \in Statuses, Fits(s, t)
        PROVE  Fits(After(s, all, q), u)
    <3>1. s.here = FALSE
        BY <2>1 DEF Fits, Statuses
    <3>2. CASE q \in DOMAIN f
      <4>1. After(s, all, q) = [here |-> TRUE, name |-> u.name, pos |-> u.pos]
          BY <3>2, AfterSnapshot
      <4> QED
          BY <3>2, <4>1 DEF Fits
    <3>3. CASE q \notin DOMAIN f
      <4>1. After(s, all, q) = s
          BY <3>3, AfterSnapshot
      <4> QED
          BY <3>1, <3>3, <4>1 DEF Fits
    <3> QED
        BY <3>2, <3>3
  <2>2. ~About(all, q)
      BY AfterSnapshot
  <2> HIDE DEF all
  <2> QED
      BY <2>1, <2>2, OneMoreTold DEF all
<1>3. ASSUME NEW s \in Statuses, Fits(s, u)
      PROVE  Fits(After(s, them, q), u)
  <2>1. CASE q \in DOMAIN g
    <3>1. After(s, them, q) = [here |-> TRUE, name |-> u.name, pos |-> PosOr(s)]
        BY <2>1, AfterNames
    <3> QED
        BY <1>3, <2>1, <3>1 DEF Fits, PosOr
  <2>2. CASE q \notin DOMAIN g
    <3>1. After(s, them, q) = s
        BY <2>2, AfterNames
    <3> QED
        BY <1>3, <3>1
  <2> QED
      BY <2>1, <2>2
<1>4. About(them, q) => u.here
    BY AfterNames
<1>5. them \in Packets
    OBVIOUS
<1> HIDE DEF all, them
<1>6. Story((c \o <<all>>) \o <<them>>, view, lost, q, u)
    BY <1>1, <1>2, <1>3, <1>4, <1>5, OneMoreTold
<1> QED
    BY <1>6 DEF all, them

(* Who is told nothing keeps the story.                                    *)
LEMMA Untold ==
    ASSUME NEW r \in Players, NEW q \in Players, TypeOK,
           Told(r, q),
           chan'[r] = chan[r], shown'[r] = shown[r], missed'[r] = missed[r],
           r \in closing => r \in closing',
           r \notin closing' => \A s \in Statuses : Fits(s, Truth(r, q)) => Fits(s, Truth(r, q)'),
           Truth(r, q)' \in Statuses
    PROVE  Told(r, q)'
<1>1. PICK t \in Statuses :
         Story(chan[r], shown[r], missed[r], q, t) /\ (r \notin closing => t = Truth(r, q))
    BY DEF Told
<1>2. chan[r] \in Seq(Packets)
    BY DEF TypeOK
<1>3. CASE r \in closing'
    BY <1>1, <1>3 DEF Told
<1>4. CASE r \notin closing'
  <2>1. Story(chan[r], shown[r], missed[r], q, Truth(r, q)')
      BY <1>1, <1>2, <1>4, Retold
  <2> QED
      BY <2>1 DEF Told
<1> QED
    BY <1>3, <1>4

LEMMA TruthTyped ==
    ASSUME pos' \in [Players -> Places], name' \in [Players -> Names \cup {Unnamed}],
           NEW p \in Players, NEW q \in Players
    PROVE  Truth(p, q)' \in Statuses
BY DEF Truth, Statuses

-----------------------------------------------------------------------------
(* The server *)

(* What Tell leaves alone, whatever is told: types, whoever is not         *)
(* followed, and the clients' own players.                                 *)
LEMMA TellKeeps ==
    ASSUME TypeOK, Silence, NotOfOneself,
           NEW what \in [Players -> Seq(Packets)], Tell(what),
           UNCHANGED <<closing, shown, missed>>,
           online \subseteq online',
           \A r \in Players \ online' : what[r] = <<>>,
           \A r \in Players : NotAbout(r, what[r])
    PROVE  /\ chan' \in [Players -> Seq(Packets)]
           /\ Silence'
           /\ NotOfOneself'
<1>1. \A r \in Players : chan[r] \in Seq(Packets) /\ what[r] \in Seq(Packets)
    BY DEF TypeOK
<1>2. \A r \in Players :
         chan'[r] = IF r \in Watched \ closing THEN chan[r] \o what[r] ELSE chan[r]
    BY DEF Tell
<1>3. chan' \in [Players -> Seq(Packets)]
  <2>1. \A r \in Players : chan[r] \o what[r] \in Seq(Packets)
      BY <1>1, ConcatProperties
  <2> QED
      BY <1>1, <2>1 DEF Tell
<1>4. Silence'
  <2>1. ASSUME NEW r \in Players \ (online' \cap Watched)
        PROVE  chan'[r] = <<>> /\ shown'[r] = Nobody
    <3>1. chan[r] = <<>> /\ shown[r] = Nobody
        BY <2>1 DEF Silence
    <3>2. CASE r \notin Watched
        BY <1>2, <3>1, <3>2
    <3>3. CASE r \notin online'
      <4>1. chan[r] \o what[r] = <<>>
          BY <3>1, <3>3, <1>1, ConcatEmptySeq
      <4> QED
          BY <1>2, <3>1, <4>1
    <3> QED
        BY <2>1, <3>2, <3>3
  <2> QED
      BY <2>1 DEF Silence, Nobody
<1>5. NotOfOneself'
  <2>1. \A r \in Players : NotAbout(r, chan'[r])
      BY <1>1, <1>2, NotAboutBoth DEF NotOfOneself
  <2> QED
      BY <2>1 DEF NotOfOneself, NotAbout
<1> QED
    BY <1>3, <1>4, <1>5

(* Stories go on when every client is told what lengthens them to what is  *)
(* now the truth.                                                          *)
LEMMA TellStories ==
    ASSUME TypeOK, StoriesFit,
           NEW what \in [Players -> Seq(Packets)], Tell(what),
           UNCHANGED <<closing, shown, missed>>,
           pos' \in [Players -> Places], name' \in [Players -> Names \cup {Unnamed}],
           NEW r \in online \cap Watched, NEW q \in Players \ {r},
           ASSUME r \notin closing,
                  Story(chan[r], shown[r], missed[r], q, Truth(r, q))
           PROVE  Story(chan[r] \o what[r], shown[r], missed[r], q, Truth(r, q)')
    PROVE  Told(r, q)'
<1>1. r \in Players /\ Told(r, q) /\ Truth(r, q)' \in Statuses
    BY TruthTyped DEF TypeOK, StoriesFit
<1>2. CASE r \in closing
  <2>1. chan'[r] = chan[r]
      BY <1>1, <1>2 DEF Tell
  <2> QED
      BY <1>1, <1>2, <2>1 DEF Told
<1>3. CASE r \notin closing
  <2>1. chan'[r] = chan[r] \o what[r]
      BY <1>1, <1>3 DEF Tell
  <2>2. Story(chan[r], shown[r], missed[r], q, Truth(r, q))
      BY <1>1, <1>3 DEF Told
  <2>3. Story(chan[r] \o what[r], shown[r], missed[r], q, Truth(r, q)')
      BY <1>3, <2>2
  <2> QED
      BY <1>1, <2>1, <2>3 DEF Told
<1> QED
    BY <1>2, <1>3

(* A packet, or none, for everybody on a map but one. *)
LEMMA ToOthersTyped ==
    ASSUME NEW m, NEW p, NEW k \in Packets
    PROVE  ToOthersOn(m, p, k) \in [Players -> Seq(Packets)]
BY DEF ToOthersOn

LEMMA WalkIInv ==
    ASSUME IInv, NEW p \in Players, NEW x \in Places, Walk(p, x)
    PROVE  IInv'
<1> DEFINE what == ToOthersOn(mapOf[p], p, Walked(p, x))
<1>1. Walked(p, x) \in Packets /\ Tell(what)
    BY PacketsOfAPlayer DEF Walk
<1>2. what \in [Players -> Seq(Packets)]
    BY <1>1, ToOthersTyped
<1>3. /\ p \in online /\ p \notin closing
      /\ pos' \in [Players -> Places]
      /\ UNCHANGED <<online, closing, mapOf, name, shown, missed>>
    BY DEF Walk, Acts, IInv, TypeOK
<1>4. \A r \in Players \ online' : what[r] = <<>>
    BY <1>3 DEF ToOthersOn, On
<1>5. \A r \in Players : NotAbout(r, what[r])
    BY DEF NotAbout, ToOthersOn, Walked
<1> HIDE DEF what
<1>6. chan' \in [Players -> Seq(Packets)] /\ Silence' /\ NotOfOneself'
    BY <1>1, <1>2, <1>3, <1>4, <1>5, TellKeeps DEF IInv
<1>7. TypeOK'
    BY <1>3, <1>6 DEF IInv, TypeOK
<1>8. ASSUME NEW r \in online \cap Watched, NEW q \in Players \ {r}
      PROVE  Told(r, q)'
  <2>1. r \in Players /\ q \in Players /\ chan[r] \in Seq(Packets)
      BY DEF IInv, TypeOK
  <2>2. ASSUME r \notin closing, Story(chan[r], shown[r], missed[r], q, Truth(r, q))
        PROVE  Story(chan[r] \o what[r], shown[r], missed[r], q, Truth(r, q)')
    <3>1. /\ Truth(r, q)'.here = Truth(r, q).here
          /\ Truth(r, q)'.name = Truth(r, q).name
          /\ Truth(r, q)'.pos = IF q = p THEN x ELSE Truth(r, q).pos
        BY <1>3, <2>1 DEF Truth, On, Walk, IInv, TypeOK
    <3>2. CASE r \in On(mapOf[p]) \ {p}
      <4>1. what[r] = <<Walked(p, x)>>
          BY <2>1, <3>2 DEF what, ToOthersOn
      <4>2. q = p => Truth(r, q).here
          BY <1>3, <3>2 DEF Truth, On
      <4>3. About(Walked(p, x), q) => Truth(r, q).here
          BY <4>2, AfterWalked
      <4>4. \A s \in Statuses :
               Fits(s, Truth(r, q)) => Fits(After(s, Walked(p, x), q), Truth(r, q)')
          BY <3>1, <4>2, AfterWalked DEF Fits, NameOr
      <4> QED
          BY <1>1, <2>1, <2>2, <4>1, <4>3, <4>4, OneMoreTold
    <3>3. CASE r \notin On(mapOf[p]) \ {p}
      <4>1. chan[r] \o what[r] = chan[r]
          BY <2>1, <3>3, ConcatEmptySeq DEF what, ToOthersOn
      <4>2. q = p => ~Truth(r, q).here
        <5>1. mapOf[r] # mapOf[p] \/ r = p
            BY <3>3 DEF On
        <5> QED
            BY <5>1 DEF Truth, On
      <4>3. \A s \in Statuses : Fits(s, Truth(r, q)) => Fits(s, Truth(r, q)')
          BY <3>1, <4>2 DEF Fits
      <4> QED
          BY <2>1, <2>2, <4>1, <4>3, Retold
    <3> QED
        BY <3>2, <3>3
  <2> QED
      BY <1>1, <1>2, <1>3, <2>2, TellStories DEF IInv, TypeOK
<1>9. StoriesFit'
    BY <1>3, <1>8 DEF StoriesFit
<1> QED
    BY <1>6, <1>7, <1>9 DEF IInv

LEMMA RenameIInv ==
    ASSUME IInv, NEW p \in Players, NEW n \in Names, Rename(p, n)
    PROVE  IInv'
<1> DEFINE what == ToOthersOn(mapOf[p], 0, Renamed(p, n))
<1>1. Renamed(p, n) \in Packets /\ Tell(what)
  <2>1. [q \in {p} |-> n] \in [{p} -> Named] /\ {p} \in SUBSET Players
      BY DEF Named
  <2>2. [q \in {p} |-> n] \in UNION {[T -> Names \cup {Unnamed}] : T \in SUBSET Players}
      BY <2>1 DEF Named
  <2>3. Renamed(p, n) \in Packets
      BY <2>2 DEF Renamed, Packets
  <2> QED
      BY <2>3 DEF Rename
<1>2. what \in [Players -> Seq(Packets)]
    BY <1>1, ToOthersTyped
<1>3. /\ p \in online /\ p \notin closing
      /\ name' \in [Players -> Names \cup {Unnamed}]
      /\ UNCHANGED <<online, closing, mapOf, pos, shown, missed>>
    BY DEF Rename, Acts, IInv, TypeOK
<1>4. \A r \in Players \ online' : what[r] = <<>>
    BY <1>3 DEF ToOthersOn, On
<1>5. \A r \in Players : NotAbout(r, what[r])
    BY DEF NotAbout, ToOthersOn, Renamed
<1> HIDE DEF what
<1>6. chan' \in [Players -> Seq(Packets)] /\ Silence' /\ NotOfOneself'
    BY <1>1, <1>2, <1>3, <1>4, <1>5, TellKeeps DEF IInv
<1>7. TypeOK'
    BY <1>3, <1>6 DEF IInv, TypeOK
<1>8. ASSUME NEW r \in online \cap Watched, NEW q \in Players \ {r}
      PROVE  Told(r, q)'
  <2>1. r \in Players /\ q \in Players /\ chan[r] \in Seq(Packets)
      BY DEF IInv, TypeOK
  <2>2. ASSUME r \notin closing, Story(chan[r], shown[r], missed[r], q, Truth(r, q))
        PROVE  Story(chan[r] \o what[r], shown[r], missed[r], q, Truth(r, q)')
    <3>1. /\ Truth(r, q)'.here = Truth(r, q).here
          /\ Truth(r, q)'.name = IF q = p THEN n ELSE Truth(r, q).name
          /\ Truth(r, q)'.pos = Truth(r, q).pos
        BY <1>3, <2>1 DEF Truth, On, Rename, IInv, TypeOK
    <3>2. CASE r \in On(mapOf[p])
      <4>1. what[r] = <<Renamed(p, n)>>
          BY <2>1, <3>2 DEF what, ToOthersOn, Players
      <4>2. q = p => Truth(r, q).here
          BY <1>3, <3>2 DEF Truth, On
      <4>3. About(Renamed(p, n), q) => Truth(r, q).here
          BY <4>2, AfterRenamed
      <4>4. \A s \in Statuses :
               Fits(s, Truth(r, q)) => Fits(After(s, Renamed(p, n), q), Truth(r, q)')
          BY <3>1, <4>2, AfterRenamed DEF Fits, PosOr
      <4> QED
          BY <1>1, <2>1, <2>2, <4>1, <4>3, <4>4, OneMoreTold
    <3>3. CASE r \notin On(mapOf[p])
      <4>1. chan[r] \o what[r] = chan[r]
          BY <2>1, <3>3, ConcatEmptySeq DEF what, ToOthersOn
      <4>2. q = p => ~Truth(r, q).here
        <5>1. mapOf[r] # mapOf[p]
            BY <3>3 DEF On
        <5> QED
            BY <5>1 DEF Truth, On
      <4>3. \A s \in Statuses : Fits(s, Truth(r, q)) => Fits(s, Truth(r, q)')
          BY <3>1, <4>2 DEF Fits
      <4> QED
          BY <2>1, <2>2, <4>1, <4>3, Retold
    <3> QED
        BY <3>2, <3>3
  <2> QED
      BY <1>1, <1>2, <1>3, <2>2, TellStories DEF IInv, TypeOK
<1>9. StoriesFit'
    BY <1>3, <1>8 DEF StoriesFit
<1> QED
    BY <1>6, <1>7, <1>9 DEF IInv

LEMMA TeleportIInv ==
    ASSUME IInv, NEW p \in Players, NEW x \in Places, Teleport(p, x)
    PROVE  IInv'
<1> DEFINE what == [r \in Players |->
                       IF r = p THEN <<Join(p, x)>>
                       ELSE IF r \in On(mapOf[p]) THEN <<Moved(p, x)>>
                       ELSE <<>>]
<1>1. Join(p, x) \in Packets /\ Moved(p, x) \in Packets /\ Tell(what)
    BY PacketsOfAPlayer DEF Teleport
<1>2. what \in [Players -> Seq(Packets)]
    BY <1>1
<1>3. /\ p \in online /\ p \notin closing
      /\ pos' \in [Players -> Places]
      /\ UNCHANGED <<online, closing, mapOf, name, shown, missed>>
    BY DEF Teleport, Acts, IInv, TypeOK
<1>4. \A r \in Players \ online' : what[r] = <<>>
    BY <1>3 DEF On
<1>5. \A r \in Players : NotAbout(r, what[r])
    BY DEF NotAbout, Join, Moved
<1> HIDE DEF what
<1>6. chan' \in [Players -> Seq(Packets)] /\ Silence' /\ NotOfOneself'
    BY <1>1, <1>2, <1>3, <1>4, <1>5, TellKeeps DEF IInv
<1>7. TypeOK'
    BY <1>3, <1>6 DEF IInv, TypeOK
<1>8. ASSUME NEW r \in online \cap Watched, NEW q \in Players \ {r}
      PROVE  Told(r, q)'
  <2>1. r \in Players /\ q \in Players /\ chan[r] \in Seq(Packets)
      BY DEF IInv, TypeOK
  <2>2. ASSUME r \notin closing, Story(chan[r], shown[r], missed[r], q, Truth(r, q))
        PROVE  Story(chan[r] \o what[r], shown[r], missed[r], q, Truth(r, q)')
    <3>1. /\ Truth(r, q)'.here = Truth(r, q).here
          /\ Truth(r, q)'.name = Truth(r, q).name
          /\ Truth(r, q)'.pos = IF q = p THEN x ELSE Truth(r, q).pos
        BY <1>3, <2>1 DEF Truth, On, Teleport, IInv, TypeOK
    <3>2. CASE r = p
      <4>1. what[r] = <<Join(p, x)>>
          BY <2>1, <3>2 DEF what
      <4>2. ~About(Join(p, x), q)
          BY AfterJoin
      <4>3. \A s \in Statuses :
               Fits(s, Truth(r, q)) => Fits(After(s, Join(p, x), q), Truth(r, q)')
          BY <3>1, <3>2, AfterJoin DEF Fits
      <4> QED
          BY <1>1, <2>1, <2>2, <4>1, <4>2, <4>3, OneMoreTold
    <3>3. CASE r # p /\ r \in On(mapOf[p])
      <4>1. what[r] = <<Moved(p, x)>>
          BY <2>1, <3>3 DEF what
      <4>2. q = p => Truth(r, q).here
          BY <1>3, <3>3 DEF Truth, On
      <4>3. About(Moved(p, x), q) => Truth(r, q).here
          BY <4>2, AfterMoved
      <4>4. \A s \in Statuses :
               Fits(s, Truth(r, q)) => Fits(After(s, Moved(p, x), q), Truth(r, q)')
          BY <3>1, <4>2, AfterMoved DEF Fits, NameOr
      <4> QED
          BY <1>1, <2>1, <2>2, <4>1, <4>3, <4>4, OneMoreTold
    <3>4. CASE r # p /\ r \notin On(mapOf[p])
      <4>1. chan[r] \o what[r] = chan[r]
          BY <2>1, <3>4, ConcatEmptySeq DEF what
      <4>2. q = p => ~Truth(r, q).here
        <5>1. mapOf[r] # mapOf[p]
            BY <3>4 DEF On
        <5> QED
            BY <5>1 DEF Truth, On
      <4>3. \A s \in Statuses : Fits(s, Truth(r, q)) => Fits(s, Truth(r, q)')
          BY <3>1, <4>2 DEF Fits
      <4> QED
          BY <2>1, <2>2, <4>1, <4>3, Retold
    <3> QED
        BY <3>2, <3>3, <3>4
  <2> QED
      BY <1>1, <1>2, <1>3, <2>2, TellStories DEF IInv, TypeOK
<1>9. StoriesFit'
    BY <1>3, <1>8 DEF StoriesFit
<1> QED
    BY <1>6, <1>7, <1>9 DEF IInv

LEMMA InTwoParts ==
    ASSUME NEW c \in Seq(Packets), NEW d \in Seq(Packets), NEW e \in Seq(Packets)
    PROVE  c \o (d \o e) = (c \o d) \o e
<1>1. \A S : \A s, t, u \in Seq(S) : (s \o t) \o u = s \o (t \o u)
    BY ConcatAssociative
<1> QED
    BY <1>1

LEMMA ThreePackets ==
    ASSUME NEW c \in Seq(Packets), NEW a \in Packets, NEW b \in Packets, NEW d \in Packets
    PROVE  c \o <<a, b, d>> = ((c \o <<a>>) \o <<b>>) \o <<d>>
<1> DEFINE n == Len(c)
           l == c \o <<a, b, d>>
           r == ((c \o <<a>>) \o <<b>>) \o <<d>>
<1>1. n \in Nat /\ <<a, b, d>> \in Seq(Packets) /\ Len(<<a, b, d>>) = 3
    OBVIOUS
<1>2. l \in Seq(Packets) /\ Len(l) = n + 3
    BY <1>1, ConcatProperties
<1>3. \A i \in 1..(n + 3) : l[i] = IF i <= n THEN c[i] ELSE <<a, b, d>>[i - n]
    BY <1>1, ConcatProperties
<1>4. c \o <<a>> = Append(c, a)
    BY AppendIsConcat
<1>5. /\ Append(c, a) \in Seq(Packets) /\ Len(Append(c, a)) = n + 1
      /\ Append(c, a)[n + 1] = a /\ \A i \in 1..n : Append(c, a)[i] = c[i]
    BY AppendProperties
<1> DEFINE e == Append(c, a)
<1> HIDE DEF e
<1>6. e \o <<b>> = Append(e, b)
    BY <1>5, AppendIsConcat DEF e
<1>7. /\ Append(e, b) \in Seq(Packets) /\ Len(Append(e, b)) = n + 2
      /\ Append(e, b)[n + 2] = b /\ \A i \in 1..(n + 1) : Append(e, b)[i] = e[i]
    BY <1>5, AppendProperties DEF e
<1> DEFINE h == Append(e, b)
<1> HIDE DEF h
<1>8. h \o <<d>> = Append(h, d)
    BY <1>7, AppendIsConcat DEF h
<1>9. /\ Append(h, d) \in Seq(Packets) /\ Len(Append(h, d)) = n + 3
      /\ Append(h, d)[n + 3] = d /\ \A i \in 1..(n + 2) : Append(h, d)[i] = h[i]
    BY <1>7, AppendProperties DEF h
<1>10. r = Append(h, d)
    BY <1>4, <1>6, <1>8 DEF e, h
<1>11. l[n + 1] = a /\ l[n + 2] = b /\ l[n + 3] = d /\ \A i \in 1..n : l[i] = c[i]
    BY <1>1, <1>3
<1> HIDE DEF l, r, n
<1>12. r[n + 1] = a /\ r[n + 2] = b /\ r[n + 3] = d /\ \A i \in 1..n : r[i] = c[i]
  <2>1. \A i \in 1..(n + 2) : r[i] = h[i]
      BY <1>9, <1>10
  <2>2. \A i \in 1..(n + 1) : r[i] = e[i]
      BY <1>1, <1>7, <2>1 DEF h
  <2>3. \A i \in 1..n : r[i] = c[i]
      BY <1>1, <1>5, <2>2 DEF e
  <2>4. r[n + 3] = d /\ r[n + 2] = h[n + 2] /\ r[n + 1] = e[n + 1]
      BY <1>1, <1>9, <1>10, <2>1, <2>2
  <2> QED
      BY <1>5, <1>7, <2>3, <2>4 DEF e, h
<1>13. \A i \in 1..Len(l) : l[i] = r[i]
    BY <1>1, <1>2, <1>11, <1>12
<1>14. l = r
    BY <1>2, <1>9, <1>10, <1>13, SeqEqual
<1> QED
    BY <1>14 DEF l, r

(* What a player is introduced to a map with after a step. *)
LEMMA MapPackets ==
    ASSUME online' \subseteq Players,
           pos' \in [Players -> Places], name' \in [Players -> Names \cup {Unnamed}],
           NEW p \in Players, NEW m
    PROVE  Snapshot(m)' \in Packets /\ NamesOn(m, p)' \in Packets
<1> DEFINE f == [q \in On(m)' |-> [pos |-> pos'[q], name |-> name'[q]]]
           g == [q \in On(m)' \ {p} |-> name'[q]]
<1>1. /\ Snapshot(m)' = [type |-> "SNAPSHOT", of |-> f]
      /\ NamesOn(m, p)' = [type |-> "PLAYER_NAME", of |-> g]
    BY DEF Snapshot, NamesOn
<1>2. On(m)' \in SUBSET Players /\ On(m)' \ {p} \in SUBSET Players
    BY DEF On
<1>3. f \in [On(m)' -> Looks] /\ g \in [On(m)' \ {p} -> Names \cup {Unnamed}]
    BY <1>2 DEF Looks
<1> HIDE DEF f, g
<1>4. /\ f \in UNION {[T -> Looks] : T \in SUBSET Players}
      /\ g \in UNION {[T -> Names \cup {Unnamed}] : T \in SUBSET Players}
    BY <1>2, <1>3
<1> QED
    BY <1>1, <1>4 DEF Packets

(* The introduction of a player to the map it is on then. *)
LEMMA IntroducedToMap ==
    ASSUME online' \subseteq Players,
           pos' \in [Players -> Places], name' \in [Players -> Names \cup {Unnamed}],
           NEW p \in Players, NEW m, mapOf'[p] = m,
           NEW c \in Seq(Packets), NEW view, NEW lost, NEW q \in Players \ {p},
           NEW t, Story(c, view, lost, q, t), t.here = FALSE
    PROVE  Story((c \o <<Snapshot(m)'>>) \o <<NamesOn(m, p)'>>, view, lost, q, Truth(p, q)')
<1> DEFINE f == [r \in On(m)' |-> [pos |-> pos'[r], name |-> name'[r]]]
           g == [r \in On(m)' \ {p} |-> name'[r]]
           u == Truth(p, q)'
<1>1. /\ Snapshot(m)' = [type |-> "SNAPSHOT", of |-> f]
      /\ NamesOn(m, p)' = [type |-> "PLAYER_NAME", of |-> g]
    BY DEF Snapshot, NamesOn
<1>2. Snapshot(m)' \in Packets /\ NamesOn(m, p)' \in Packets
    BY MapPackets
<1>3. u = [here |-> q \in On(m)', name |-> name'[q], pos |-> pos'[q]]
    BY DEF Truth, On
<1>4. u \in Statuses
    BY TruthTyped
<1>5. /\ DOMAIN f = On(m)' /\ DOMAIN g = On(m)' \ {p}
      /\ \A r \in On(m)' : f[r] = [pos |-> pos'[r], name |-> name'[r]]
      /\ \A r \in On(m)' \ {p} : g[r] = name'[r]
    OBVIOUS
<1> HIDE DEF f, g, u
<1>6. u.here <=> q \in DOMAIN f
    BY <1>3, <1>5
<1>7. q \in DOMAIN f => f[q] = [pos |-> u.pos, name |-> u.name]
    BY <1>3, <1>5
<1>8. q \in DOMAIN g => q \in DOMAIN f /\ g[q] = u.name
    BY <1>3, <1>5
<1>9. Story((c \o <<[type |-> "SNAPSHOT", of |-> f]>>) \o <<[type |-> "PLAYER_NAME", of |-> g]>>,
            view, lost, q, u)
    BY <1>1, <1>2, <1>4, <1>6, <1>7, <1>8, Introduced
<1> QED
    BY <1>1, <1>9 DEF u

LEMMA ConnectIInv ==
    ASSUME IInv, NEW p \in Players, Connect(p)
    PROVE  IInv'
<1> DEFINE D == DefaultMap
           what == [r \in Players |->
                       IF r = p THEN <<Handshake, Snapshot(D)', NamesOn(D, p)'>>
                       ELSE IF r \in On(D) THEN <<Join(p, Spawn)>>
                       ELSE <<>>]
<1>1. /\ p \notin online /\ p \notin closing
      /\ online' = online \cup {p} /\ online' \subseteq Players
      /\ mapOf' \in [Players -> Maps] /\ mapOf'[p] = D
      /\ pos' \in [Players -> Places] /\ pos'[p] = Spawn
      /\ name' \in [Players -> Names \cup {Unnamed}] /\ name'[p] = Unnamed
      /\ \A r \in Players \ {p} : mapOf'[r] = mapOf[r] /\ pos'[r] = pos[r] /\ name'[r] = name[r]
      /\ UNCHANGED <<closing, shown, missed>>
    BY PresenceAssumption DEF Connect, IInv, TypeOK
<1>2. /\ Handshake \in Packets /\ Join(p, Spawn) \in Packets
      /\ Snapshot(D)' \in Packets /\ NamesOn(D, p)' \in Packets
      /\ Tell(what)
    BY <1>1, MapPackets, PacketsOfAPlayer, PresenceAssumption DEF Connect, Handshake, Packets
<1>3. what \in [Players -> Seq(Packets)]
    BY <1>2
<1>4. \A r \in Players \ online' : what[r] = <<>>
    BY <1>1 DEF On
<1>5. \A r \in Players : NotAbout(r, what[r])
    BY DEF NotAbout, Join, Handshake, Snapshot, NamesOn
<1>6. /\ what[p] = <<Handshake, Snapshot(D)', NamesOn(D, p)'>>
      /\ \A r \in Players \ {p} : what[r] = IF r \in On(D) THEN <<Join(p, Spawn)>> ELSE <<>>
    OBVIOUS
<1> HIDE DEF what, D
<1>7. chan' \in [Players -> Seq(Packets)] /\ Silence' /\ NotOfOneself'
    BY <1>1, <1>2, <1>3, <1>4, <1>5, TellKeeps DEF IInv
<1>8. TypeOK'
    BY <1>1, <1>7 DEF IInv, TypeOK
<1>9. ASSUME NEW r \in online \cap Watched, NEW q \in Players \ {r}
      PROVE  Told(r, q)'
  <2>1. r \in Players /\ q \in Players /\ chan[r] \in Seq(Packets) /\ r # p
      BY <1>1 DEF IInv, TypeOK
  <2>2. ASSUME r \notin closing, Story(chan[r], shown[r], missed[r], q, Truth(r, q))
        PROVE  Story(chan[r] \o what[r], shown[r], missed[r], q, Truth(r, q)')
    <3>1. q # p => Truth(r, q)' = Truth(r, q)
        BY <1>1, <2>1 DEF Truth, On
    <3>2. q = p => /\ ~Truth(r, q).here
                   /\ Truth(r, q)'.here <=> mapOf[r] = D
                   /\ Truth(r, q)'.pos = Spawn
                   /\ Truth(r, q)'.name = Unnamed
        BY <1>1, <2>1 DEF Truth, On
    <3>3. CASE mapOf[r] = D
      <4>1. what[r] = <<Join(p, Spawn)>>
          BY <1>6, <2>1, <3>3 DEF On
      <4>2. ~About(Join(p, Spawn), q)
          BY AfterJoin
      <4>3. \A s \in Statuses :
               Fits(s, Truth(r, q)) => Fits(After(s, Join(p, Spawn), q), Truth(r, q)')
        <5>1. CASE q = p
          <6>1. \A s \in Statuses :
                   After(s, Join(p, Spawn), q) = [here |-> TRUE, name |-> NameOr(s), pos |-> Spawn]
              BY <5>1, AfterJoin
          <6> QED
              BY <3>2, <3>3, <5>1, <6>1 DEF Fits, NameOr
        <5>2. CASE q # p
          <6>1. \A s \in Statuses : After(s, Join(p, Spawn), q) = s
              BY <5>2, AfterJoin
          <6> QED
              BY <3>1, <5>2, <6>1
        <5> QED
            BY <5>1, <5>2
      <4> QED
          BY <1>2, <2>1, <2>2, <4>1, <4>2, <4>3, OneMoreTold
    <3>4. CASE mapOf[r] # D
      <4>1. chan[r] \o what[r] = chan[r]
        <5>1. what[r] = <<>>
            BY <1>6, <2>1, <3>4 DEF On
        <5> QED
            BY <2>1, <5>1, ConcatEmptySeq
      <4>2. \A s \in Statuses : Fits(s, Truth(r, q)) => Fits(s, Truth(r, q)')
          BY <3>1, <3>2, <3>4 DEF Fits
      <4> QED
          BY <2>1, <2>2, <4>1, <4>2, Retold
    <3> QED
        BY <3>3, <3>4
  <2> QED
      BY <1>1, <1>2, <1>3, <2>2, TellStories DEF IInv, TypeOK
<1>10. ASSUME p \in Watched, NEW q \in Players \ {p}
       PROVE  Told(p, q)'
  <2> DEFINE t == [here |-> FALSE, name |-> Unnamed, pos |-> Origin]
             hello == <<>> \o <<Handshake>>
  <2>1. chan[p] = <<>> /\ shown'[p] = Nobody
      BY <1>1 DEF IInv, Silence
  <2>2. Story(<<>>, Nobody, missed[p], q, t)
      BY NoStory
  <2>3. Story(hello, Nobody, missed[p], q, t)
    <3>1. ~About(Handshake, q) /\ \A s \in Statuses : After(s, Handshake, q) = s
        BY AfterHandshake
    <3>2. <<>> \in Seq(Packets)
        OBVIOUS
    <3> HIDE DEF t
    <3> QED
        BY <1>2, <2>2, <3>1, <3>2, OneMoreTold
  <2>4. hello \in Seq(Packets) /\ t.here = FALSE
      BY <1>2
  <2>5. chan'[p] = (hello \o <<Snapshot(D)'>>) \o <<NamesOn(D, p)'>>
    <3>1. <<>> \in Seq(Packets)
        OBVIOUS
    <3>2. <<>> \o <<Handshake, Snapshot(D)', NamesOn(D, p)'>>
             = (hello \o <<Snapshot(D)'>>) \o <<NamesOn(D, p)'>>
        BY <1>2, <3>1, ThreePackets
    <3>3. chan'[p] = chan[p] \o what[p]
        BY <1>1, <1>2, <1>10 DEF Tell
    <3> QED
        BY <1>6, <2>1, <3>2, <3>3
  <2> HIDE DEF t, hello
  <2>6. Story((hello \o <<Snapshot(D)'>>) \o <<NamesOn(D, p)'>>, Nobody, missed[p], q, Truth(p, q)')
      BY <1>1, <2>3, <2>4, IntroducedToMap
  <2>7. Truth(p, q)' \in Statuses
      BY <1>1, TruthTyped
  <2> QED
      BY <1>1, <2>1, <2>5, <2>6, <2>7 DEF Told
<1>11. StoriesFit'
    BY <1>1, <1>9, <1>10 DEF StoriesFit
<1> QED
    BY <1>7, <1>8, <1>11 DEF IInv

LEMMA TransferIInv ==
    ASSUME IInv, NEW p \in Players, NEW m \in Maps, NEW x \in Places, Transfer(p, m, x)
    PROVE  IInv'
<1> DEFINE leave(r) == IF r \in On(mapOf[p]) THEN <<Leave(p)>> ELSE <<>>
           join(r) == IF r \in On(m) THEN <<Join(p, x)>> ELSE <<>>
           what == [r \in Players |->
                       IF r = p THEN <<MapTransfer, Snapshot(m)', NamesOn(m, p)'>>
                       ELSE leave(r) \o join(r)]
<1>1. /\ p \in online /\ p \notin closing
      /\ mapOf' \in [Players -> Maps] /\ mapOf'[p] = m
      /\ pos' \in [Players -> Places] /\ pos'[p] = x
      /\ \A r \in Players \ {p} : mapOf'[r] = mapOf[r] /\ pos'[r] = pos[r]
      /\ UNCHANGED <<online, closing, name, shown, missed>>
    BY DEF Transfer, Acts, IInv, TypeOK
<1>2. online' \subseteq Players /\ name' \in [Players -> Names \cup {Unnamed}]
    BY <1>1 DEF IInv, TypeOK
<1>3. /\ MapTransfer \in Packets /\ Join(p, x) \in Packets /\ Leave(p) \in Packets
      /\ Snapshot(m)' \in Packets /\ NamesOn(m, p)' \in Packets
      /\ Tell(what)
    BY <1>1, <1>2, MapPackets, PacketsOfAPlayer DEF Transfer, MapTransfer, Packets
<1>4. \A r \in Players : leave(r) \in Seq(Packets) /\ join(r) \in Seq(Packets)
    BY <1>3
<1>5. what \in [Players -> Seq(Packets)]
  <2>1. \A r \in Players : leave(r) \o join(r) \in Seq(Packets)
      BY <1>4, ConcatProperties
  <2>2. <<MapTransfer, Snapshot(m)', NamesOn(m, p)'>> \in Seq(Packets)
      BY <1>3
  <2> HIDE DEF leave, join
  <2> QED
      BY <2>1, <2>2
<1>6. /\ what[p] = <<MapTransfer, Snapshot(m)', NamesOn(m, p)'>>
      /\ \A r \in Players \ {p} : what[r] = leave(r) \o join(r)
  <2> HIDE DEF leave, join
  <2> QED
      OBVIOUS
<1>7. \A r \in Players \ online' : what[r] = <<>>
    BY <1>1, <1>6 DEF On
<1>8. ASSUME NEW r \in Players PROVE NotAbout(r, what[r])
  <2>1. CASE r = p
      BY <1>6, <2>1 DEF NotAbout, MapTransfer, Snapshot, NamesOn
  <2>2. CASE r # p
    <3>1. NotAbout(r, leave(r)) /\ NotAbout(r, join(r))
        BY <2>2 DEF NotAbout, Leave, Join
    <3> HIDE DEF leave, join, what
    <3> QED
        BY <1>4, <1>6, <2>2, <3>1, NotAboutBoth
  <2> QED
      BY <2>1, <2>2
<1> HIDE DEF what, leave, join
<1>9. chan' \in [Players -> Seq(Packets)] /\ Silence' /\ NotOfOneself'
    BY <1>1, <1>3, <1>5, <1>7, <1>8, TellKeeps DEF IInv
<1>10. TypeOK'
    BY <1>1, <1>9 DEF IInv, TypeOK
<1>11. ASSUME NEW r \in (online \cap Watched) \ {p}, NEW q \in Players \ {r}
       PROVE  Told(r, q)'
  <2>1. r \in Players /\ q \in Players /\ chan[r] \in Seq(Packets)
      BY DEF IInv, TypeOK
  <2>2. ASSUME r \notin closing, Story(chan[r], shown[r], missed[r], q, Truth(r, q))
        PROVE  Story(chan[r] \o what[r], shown[r], missed[r], q, Truth(r, q)')
    <3> DEFINE t == IF q = p THEN [Truth(r, q) EXCEPT !.here = FALSE] ELSE Truth(r, q)
               c == chan[r] \o leave(r)
    <3>1. q # p => Truth(r, q)' = Truth(r, q)
        BY <1>1, <2>1 DEF Truth, On
    <3>2. q = p => /\ Truth(r, q).here <=> mapOf[r] = mapOf[p]
                   /\ Truth(r, q)'.here <=> mapOf[r] = m
                   /\ Truth(r, q)'.pos = x
                   /\ Truth(r, q)'.name = Truth(r, q).name
        BY <1>1, <2>1 DEF Truth, On
    <3>3. q = p => ~t.here /\ t.name = Truth(r, q).name
        BY DEF Truth
    <3>4. q # p => t = Truth(r, q)
        OBVIOUS
    <3> HIDE DEF t
    <3>5. c \in Seq(Packets)
        BY <1>4, <2>1, ConcatProperties
    <3>6. Story(c, shown[r], missed[r], q, t)
      <4>1. CASE mapOf[r] = mapOf[p]
        <5>1. leave(r) = <<Leave(p)>>
            BY <4>1 DEF leave, On
        <5>2. About(Leave(p), q) => Truth(r, q).here
            BY <3>2, <4>1, AfterLeave
        <5>3. \A s \in Statuses : Fits(s, Truth(r, q)) => Fits(After(s, Leave(p), q), t)
          <6>1. CASE q = p
            <7>1. \A s \in Statuses : After(s, Leave(p), q).here = FALSE
                BY <6>1, AfterLeave DEF Statuses
            <7> QED
                BY <3>3, <6>1, <7>1 DEF Fits
          <6>2. CASE q # p
              BY <3>4, <6>2, AfterLeave
          <6> QED
              BY <6>1, <6>2
        <5> QED
            BY <1>3, <2>1, <2>2, <5>1, <5>2, <5>3, OneMoreTold
      <4>2. CASE mapOf[r] # mapOf[p]
        <5>1. c = chan[r]
          <6>1. leave(r) = <<>>
              BY <4>2 DEF leave, On
          <6> QED
              BY <2>1, <6>1, ConcatEmptySeq
        <5>2. \A s \in Statuses : Fits(s, Truth(r, q)) => Fits(s, t)
            BY <3>2, <3>3, <3>4, <4>2 DEF Fits
        <5> QED
            BY <2>1, <2>2, <5>1, <5>2, Retold
      <4> QED
          BY <4>1, <4>2
    <3>7. chan[r] \o what[r] = c \o join(r)
      <4>1. leave(r) \in Seq(Packets) /\ join(r) \in Seq(Packets)
          BY <1>4, <2>1
      <4>2. (chan[r] \o leave(r)) \o join(r) = chan[r] \o (leave(r) \o join(r))
          BY <2>1, <4>1, InTwoParts
      <4> QED
          BY <1>6, <2>1, <4>2
    <3> HIDE DEF c
    <3>8. CASE mapOf[r] = m
      <4>1. join(r) = <<Join(p, x)>>
          BY <3>8 DEF join, On
      <4>2. ~About(Join(p, x), q)
          BY AfterJoin
      <4>3. \A s \in Statuses : Fits(s, t) => Fits(After(s, Join(p, x), q), Truth(r, q)')
        <5>1. CASE q = p
          <6>1. \A s \in Statuses :
                   After(s, Join(p, x), q) = [here |-> TRUE, name |-> NameOr(s), pos |-> x]
              BY <5>1, AfterJoin
          <6> QED
              BY <3>2, <3>3, <3>8, <5>1, <6>1 DEF Fits, NameOr
        <5>2. CASE q # p
          <6>1. \A s \in Statuses : After(s, Join(p, x), q) = s
              BY <5>2, AfterJoin
          <6> QED
              BY <3>1, <3>4, <5>2, <6>1
        <5> QED
            BY <5>1, <5>2
      <4> QED
          BY <1>3, <2>1, <3>5, <3>6, <3>7, <4>1, <4>2, <4>3, OneMoreTold
    <3>9. CASE mapOf[r] # m
      <4>1. c \o join(r) = c
        <5>1. join(r) = <<>>
            BY <3>9 DEF join, On
        <5> QED
            BY <3>5, <5>1, ConcatEmptySeq
      <4>2. \A s \in Statuses : Fits(s, t) => Fits(s, Truth(r, q)')
          BY <3>1, <3>2, <3>3, <3>4, <3>9 DEF Fits
      <4> QED
          BY <3>5, <3>6, <3>7, <4>1, <4>2, Retold
    <3> QED
        BY <3>8, <3>9
  <2> QED
      BY <1>1, <1>2, <1>3, <1>5, <2>2, TellStories DEF IInv, TypeOK
<1>12. ASSUME p \in Watched, NEW q \in Players \ {p}
       PROVE  Told(p, q)'
  <2>1. chan[p] \in Seq(Packets)
      BY DEF IInv, TypeOK
  <2>2. ASSUME Story(chan[p], shown[p], missed[p], q, Truth(p, q))
        PROVE  Story(chan[p] \o what[p], shown[p], missed[p], q, Truth(p, q)')
    <3> DEFINE t == [Truth(p, q) EXCEPT !.here = FALSE]
               c == chan[p] \o <<MapTransfer>>
    <3>1. t.here = FALSE
        BY DEF Truth
    <3> HIDE DEF t
    <3>2. \A s \in Statuses : Fits(After(s, MapTransfer, q), t)
      <4>1. \A s \in Statuses : After(s, MapTransfer, q).here = FALSE
          BY AfterTransfer DEF Statuses
      <4> QED
          BY <3>1, <4>1 DEF Fits
    <3>3. ~About(MapTransfer, q)
        BY AfterTransfer
    <3>4. Story(c, shown[p], missed[p], q, t)
        BY <1>3, <2>1, <2>2, <3>2, <3>3, OneMoreTold
    <3>5. c \in Seq(Packets)
        BY <1>3, <2>1, ConcatProperties
    <3>6. chan[p] \o what[p] = (c \o <<Snapshot(m)'>>) \o <<NamesOn(m, p)'>>
      <4>1. chan[p] \o <<MapTransfer, Snapshot(m)', NamesOn(m, p)'>>
               = ((chan[p] \o <<MapTransfer>>) \o <<Snapshot(m)'>>) \o <<NamesOn(m, p)'>>
          BY <1>3, <2>1, ThreePackets
      <4> QED
          BY <1>6, <4>1
    <3> HIDE DEF c
    <3>7. Story((c \o <<Snapshot(m)'>>) \o <<NamesOn(m, p)'>>, shown[p], missed[p], q, Truth(p, q)')
        BY <1>1, <1>2, <3>1, <3>4, <3>5, IntroducedToMap
    <3> QED
        BY <3>6, <3>7
  <2> QED
      BY <1>1, <1>2, <1>3, <1>5, <1>12, <2>2, TellStories DEF IInv, TypeOK
<1>13. StoriesFit'
    BY <1>1, <1>11, <1>12 DEF StoriesFit
<1> QED
    BY <1>9, <1>10, <1>13 DEF IInv

LEMMA DisconnectIInv ==
    ASSUME IInv, NEW p \in Players, Disconnect(p)
    PROVE  IInv'
<1>1. /\ p \in online /\ online' = online \ {p} /\ closing' = closing \ {p}
      /\ mapOf' \in [Players -> Maps]
      /\ pos' \in [Players -> Places]
      /\ name' \in [Players -> Names \cup {Unnamed}]
      /\ \A r \in Players \ {p} :
            /\ mapOf'[r] = mapOf[r] /\ pos'[r] = pos[r] /\ name'[r] = name[r]
            /\ shown'[r] = shown[r] /\ missed'[r] = missed[r]
      /\ shown'[p] = Nobody
    BY PresenceAssumption DEF Disconnect, IInv, TypeOK
<1>2. /\ shown' \in [Players -> UNION {[S -> Looks] : S \in SUBSET Players}]
      /\ missed' \in [Players -> SUBSET Players]
  <2>1. Nobody \in [{} -> Looks] /\ {} \in SUBSET Players
      BY DEF Nobody
  <2>2. Nobody \in UNION {[S -> Looks] : S \in SUBSET Players}
      BY <2>1
  <2> QED
      BY <2>2 DEF Disconnect, IInv, TypeOK
<1>3. Leave(p) \in Packets
    BY PresenceAssumption, PacketsOfAPlayer
<1>4. /\ chan'[p] = <<>>
      /\ \A r \in Players \ {p} :
            chan'[r] = IF r \in (On(mapOf[p]) \cap Watched) \ closing
                          THEN Append(chan[r], Leave(p)) ELSE chan[r]
    BY DEF Disconnect
<1>5. \A r \in Players : chan[r] \in Seq(Packets)
    BY DEF IInv, TypeOK
<1>6. chan' \in [Players -> Seq(Packets)]
  <2>1. \A r \in Players : Append(chan[r], Leave(p)) \in Seq(Packets)
      BY <1>3, <1>5, AppendProperties
  <2> QED
      BY <1>5, <2>1 DEF Disconnect
<1>7. TypeOK'
    BY <1>1, <1>2, <1>6 DEF IInv, TypeOK
<1>8. Silence'
  <2>1. ASSUME NEW r \in Players \ (online' \cap Watched)
        PROVE  chan'[r] = <<>> /\ shown'[r] = Nobody
    <3>1. CASE r = p
        BY <1>1, <1>4, <3>1
    <3>2. CASE r # p
      <4>1. r \notin online \cap Watched
          BY <1>1, <2>1, <3>2
      <4>2. chan[r] = <<>> /\ shown[r] = Nobody
          BY <4>1 DEF IInv, Silence
      <4> QED
          BY <1>1, <1>4, <3>2, <4>1, <4>2 DEF On
    <3> QED
        BY <3>1, <3>2
  <2> QED
      BY <2>1 DEF Silence, Nobody
<1>9. NotOfOneself'
  <2>1. ASSUME NEW r \in Players PROVE r \notin DOMAIN shown'[r] /\ NotAbout(r, chan'[r])
    <3>1. CASE r = p
        BY <1>1, <1>4, <3>1 DEF Nobody, NotAbout
    <3>2. CASE r # p
      <4>1. r \notin DOMAIN shown[r] /\ NotAbout(r, chan[r])
          BY DEF IInv, NotOfOneself
      <4>2. NotAbout(r, Append(chan[r], Leave(p)))
          BY <1>3, <1>5, <3>2, <4>1, AppendProperties DEF NotAbout, Leave
      <4> QED
          BY <1>1, <1>4, <3>2, <4>1, <4>2
    <3> QED
        BY <3>1, <3>2
  <2> QED
      BY <2>1 DEF NotOfOneself, NotAbout
<1>10. ASSUME NEW r \in (online \cap Watched) \ {p}, NEW q \in Players \ {r}
       PROVE  Told(r, q)'
  <2>1. r \in Players /\ q \in Players /\ chan[r] \in Seq(Packets) /\ Told(r, q)
      BY <1>5 DEF IInv, TypeOK, StoriesFit
  <2>2. Truth(r, q)' \in Statuses
      BY <1>1, <2>1, TruthTyped
  <2>3. q # p => Truth(r, q)' = Truth(r, q)
      BY <1>1, <2>1 DEF Truth, On
  <2>4. q = p => ~Truth(r, q)'.here /\ (Truth(r, q).here <=> mapOf[r] = mapOf[p])
      BY <1>1, <2>1 DEF Truth, On
  <2>5. CASE r \in (On(mapOf[p]) \cap Watched) \ closing
    <3>1. Story(chan[r], shown[r], missed[r], q, Truth(r, q))
        BY <2>1, <2>5 DEF Told
    <3>2. About(Leave(p), q) => Truth(r, q).here
        BY <2>3, <2>4, <2>5, AfterLeave DEF On
    <3>3. \A s \in Statuses : Fits(s, Truth(r, q)) => Fits(After(s, Leave(p), q), Truth(r, q)')
      <4>1. CASE q = p
        <5>1. \A s \in Statuses : After(s, Leave(p), q).here = FALSE
            BY <4>1, AfterLeave DEF Statuses
        <5> QED
            BY <2>3, <2>4, <4>1, <5>1 DEF Fits
      <4>2. CASE q # p
          BY <2>3, <2>4, <4>2, AfterLeave
      <4> QED
          BY <4>1, <4>2
    <3>4. Story(Append(chan[r], Leave(p)), shown[r], missed[r], q, Truth(r, q)')
        BY <1>3, <2>1, <3>1, <3>2, <3>3, OneMore
    <3> QED
        BY <1>1, <1>4, <2>1, <2>2, <2>5, <3>4 DEF Told
  <2>6. CASE r \notin (On(mapOf[p]) \cap Watched) \ closing
    <3>1. r \notin closing => mapOf[r] # mapOf[p]
        BY <2>6 DEF On
    <3>2. r \notin closing' => \A s \in Statuses : Fits(s, Truth(r, q)) => Fits(s, Truth(r, q)')
        BY <1>1, <2>3, <2>4, <3>1 DEF Fits
    <3>3. r \in closing => r \in closing'
        BY <1>1
    <3>4. chan'[r] = chan[r]
        BY <1>4, <2>1, <2>6
    <3> QED
        BY <1>1, <2>1, <2>2, <3>2, <3>3, <3>4, Untold DEF IInv
  <2> QED
      BY <2>5, <2>6
<1>11. StoriesFit'
    BY <1>1, <1>10 DEF StoriesFit
<1> QED
    BY <1>7, <1>8, <1>9, <1>11 DEF IInv

LEMMA ClosesIInv ==
    ASSUME IInv, NEW p \in Players, Closes(p)
    PROVE  IInv'
<1>1. /\ closing' = closing \cup {p} /\ p \in online
      /\ UNCHANGED <<online, mapOf, pos, name, chan, shown, missed>>
    BY DEF Closes
<1>2. TypeOK' /\ Silence' /\ NotOfOneself'
    BY <1>1 DEF IInv, TypeOK, Silence, NotOfOneself, Nobody, NotAbout
<1>3. StoriesFit'
    BY <1>1 DEF IInv, StoriesFit, Told, Truth, On
<1> QED
    BY <1>2, <1>3 DEF IInv

-----------------------------------------------------------------------------
(* The client *)

Views == UNION {[S -> Looks] : S \in SUBSET Players}

LEMMA ViewFacts ==
    ASSUME NEW v \in Views
    PROVE  DOMAIN v \in SUBSET Players /\ v \in [DOMAIN v -> Looks]
<1>1. PICK S \in SUBSET Players : v \in [S -> Looks]
    BY DEF Views
<1> QED
    BY <1>1

LEMMA IsView ==
    ASSUME NEW S \in SUBSET Players, NEW v \in [S -> Looks]
    PROVE  v \in Views
BY DEF Views

LEMMA OverlayFacts ==
    ASSUME NEW p \in Players, NEW view \in Views,
           NEW news, DOMAIN news \in SUBSET Players, news \in [DOMAIN news -> Looks]
    PROVE  /\ Overlay(p, view, news) \in Views
           /\ DOMAIN Overlay(p, view, news) = (DOMAIN view \cup DOMAIN news) \ {p}
           /\ \A q \in (DOMAIN view \cup DOMAIN news) \ {p} :
                 Overlay(p, view, news)[q] = IF q \in DOMAIN news THEN news[q] ELSE view[q]
<1> DEFINE S == DOMAIN news
           T == (DOMAIN view \cup S) \ {p}
           o == [q \in T |-> IF q \in S THEN news[q] ELSE view[q]]
<1>1. DOMAIN view \in SUBSET Players /\ view \in [DOMAIN view -> Looks]
    BY ViewFacts
<1>2. Overlay(p, view, news) = o
    BY <1>1 DEF Overlay
<1>3. T \in SUBSET Players
    BY <1>1
<1>4. o \in [T -> Looks]
    BY <1>1
<1>5. o \in Views
  <2> HIDE DEF o, T
  <2> QED
      BY <1>3, <1>4, IsView
<1> QED
    BY <1>2, <1>5

(* A packet heard, or missed, changes what a client shows as it changes    *)
(* the stories' beginnings.                                                *)
LEMMA HearsIInv ==
    ASSUME IInv, NEW p \in Players, NEW types, Hears(p, types),
           NEW view \in Views, shown' = [shown EXCEPT ![p] = view],
           NEW lost \in SUBSET Players, missed' = [missed EXCEPT ![p] = lost],
           p \notin DOMAIN view,
           \A q \in Players \ {p} : \A s \in Statuses :
              Like(shown[p], missed[p], q, s) /\ (About(Head(chan[p]), q) => s.here)
                 => Like(view, lost, q, After(s, Head(chan[p]), q))
    PROVE  IInv'
<1>1. /\ chan[p] # <<>>
      /\ chan' = [chan EXCEPT ![p] = Tail(chan[p])]
      /\ UNCHANGED <<online, closing, mapOf, pos, name>>
    BY DEF Hears
<1>2. /\ chan \in [Players -> Seq(Packets)] /\ chan[p] \in Seq(Packets)
      /\ shown \in [Players -> Views] /\ missed \in [Players -> SUBSET Players]
    BY DEF IInv, TypeOK, Views
<1>3. p \in online \cap Watched
    BY <1>1 DEF IInv, Silence
<1>4. Tail(chan[p]) \in Seq(Packets)
    BY <1>1, <1>2, HeadTailProperties
<1>5. /\ chan'[p] = Tail(chan[p]) /\ shown'[p] = view /\ missed'[p] = lost
      /\ \A r \in Players \ {p} :
            chan'[r] = chan[r] /\ shown'[r] = shown[r] /\ missed'[r] = missed[r]
    BY <1>1, <1>2
<1>6. TypeOK'
  <2>1. /\ chan' \in [Players -> Seq(Packets)]
        /\ shown' \in [Players -> Views] /\ missed' \in [Players -> SUBSET Players]
      BY <1>1, <1>2, <1>4
  <2> QED
      BY <1>1, <2>1 DEF IInv, TypeOK, Views
<1>7. Silence'
    BY <1>1, <1>3, <1>5 DEF IInv, Silence, Nobody
<1>8. NotOfOneself'
  <2>1. \A r \in Players : r \notin DOMAIN shown[r] /\ NotAbout(r, chan[r])
      BY DEF IInv, NotOfOneself
  <2>2. NotAbout(p, Tail(chan[p]))
      BY <1>1, <1>2, <2>1, NotAboutTail
  <2>3. \A r \in Players : r \notin DOMAIN shown'[r] /\ NotAbout(r, chan'[r])
      BY <1>5, <2>1, <2>2
  <2> QED
      BY <2>3 DEF NotOfOneself, NotAbout
<1>9. ASSUME NEW q \in Players \ {p} PROVE Told(p, q)'
  <2>1. PICK t \in Statuses :
           /\ Story(chan[p], shown[p], missed[p], q, t)
           /\ p \notin closing => t = Truth(p, q)
      BY <1>3 DEF IInv, StoriesFit, Told
  <2>2. Story(Tail(chan[p]), view, lost, q, t)
      BY <1>1, <1>2, <2>1, OneLess
  <2>3. Truth(p, q)' = Truth(p, q)
      BY <1>1 DEF Truth, On
  <2> QED
      BY <1>1, <1>5, <2>1, <2>2, <2>3 DEF Told
<1>10. ASSUME NEW r \in (online \cap Watched) \ {p}, NEW q \in Players \ {r} PROVE Told(r, q)'
  <2>1. r \in Players /\ Told(r, q)
      BY DEF IInv, TypeOK, StoriesFit
  <2>2. Truth(r, q)' = Truth(r, q)
      BY <1>1 DEF Truth, On
  <2> QED
      BY <1>1, <1>5, <2>1, <2>2 DEF Told
<1>11. StoriesFit'
    BY <1>1, <1>9, <1>10 DEF StoriesFit
<1> QED
    BY <1>6, <1>7, <1>8, <1>11 DEF IInv

(* What a client that hears something knows. *)
LEMMA HearerFacts ==
    ASSUME IInv, NEW p \in Players, NEW types, Hears(p, types)
    PROVE  /\ Head(chan[p]) \in Packets
           /\ Head(chan[p]).type \in types
           /\ shown \in [Players -> Views] /\ shown[p] \in Views
           /\ missed \in [Players -> SUBSET Players] /\ missed[p] \in SUBSET Players
           /\ p \notin DOMAIN shown[p]
<1>1. chan[p] \in Seq(Packets) /\ chan[p] # <<>> /\ Head(chan[p]).type \in types
    BY DEF Hears, IInv, TypeOK
<1>2. Head(chan[p]) \in Packets
    BY <1>1, HeadTailProperties
<1>3. p \notin DOMAIN shown[p]
    BY DEF IInv, NotOfOneself
<1>4. shown \in [Players -> Views] /\ missed \in [Players -> SUBSET Players]
    BY DEF IInv, TypeOK, Views
<1> QED
    BY <1>1, <1>2, <1>3, <1>4

LEMMA HearsHandshakeIInv ==
    ASSUME IInv, NEW p \in Players, HearsHandshake(p)
    PROVE  IInv'
<1> DEFINE k == Head(chan[p])
<1>1. Hears(p, {"HANDSHAKE"}) /\ UNCHANGED <<shown, missed>>
    BY DEF HearsHandshake
<1>2. /\ k \in Packets /\ k.type = "HANDSHAKE"
      /\ shown[p] \in Views /\ missed[p] \in SUBSET Players /\ p \notin DOMAIN shown[p]
      /\ shown' = [shown EXCEPT ![p] = shown[p]] /\ missed' = [missed EXCEPT ![p] = missed[p]]
    BY <1>1, HearerFacts
<1> HIDE DEF k
<1>3. \A s, q : After(s, k, q) = s
    BY <1>2 DEF After
<1>4. \A q \in Players \ {p} : \A s \in Statuses :
         Like(shown[p], missed[p], q, s) => Like(shown[p], missed[p], q, After(s, k, q))
    BY <1>3
<1> QED
    BY <1>1, <1>2, <1>4, HearsIInv DEF k

LEMMA HearsTransferIInv ==
    ASSUME IInv, NEW p \in Players, HearsTransfer(p)
    PROVE  IInv'
<1> DEFINE k == Head(chan[p])
<1>1. /\ Hears(p, {"MAP_TRANSFER"})
      /\ shown' = [shown EXCEPT ![p] = Nobody]
      /\ missed' = [missed EXCEPT ![p] = {}]
    BY DEF HearsTransfer
<1>2. k \in Packets /\ k.type = "MAP_TRANSFER"
    BY <1>1, HearerFacts
<1>3. Nobody \in Views /\ DOMAIN Nobody = {}
  <2>1. Nobody \in [{} -> Looks] /\ {} \in SUBSET Players
      BY DEF Nobody
  <2> QED
      BY <2>1, IsView
<1> HIDE DEF k
<1>4. ASSUME NEW q \in Players \ {p}, NEW s \in Statuses
      PROVE  Like(Nobody, {}, q, After(s, k, q))
  <2>1. After(s, k, q) = [s EXCEPT !.here = FALSE]
      BY <1>2 DEF After
  <2>2. After(s, k, q).here = FALSE
      BY <2>1 DEF Statuses
  <2> QED
      BY <1>3, <2>2 DEF Like
<1> QED
    BY <1>1, <1>3, <1>4, HearsIInv DEF k

LEMMA HearsSnapshotIInv ==
    ASSUME IInv, NEW p \in Players, HearsSnapshot(p)
    PROVE  IInv'
<1> DEFINE k == Head(chan[p])
           view == Overlay(p, shown[p], k.of)
           lost == missed[p] \ DOMAIN k.of
<1>1. /\ Hears(p, {"SNAPSHOT"})
      /\ shown' = [shown EXCEPT ![p] = view]
      /\ missed' = [missed EXCEPT ![p] = lost]
    BY DEF HearsSnapshot
<1>2. /\ k \in Packets /\ k.type = "SNAPSHOT"
      /\ shown[p] \in Views /\ missed[p] \in SUBSET Players /\ p \notin DOMAIN shown[p]
    BY <1>1, HearerFacts
<1> HIDE DEF k
<1>3. DOMAIN k.of \in SUBSET Players /\ k.of \in [DOMAIN k.of -> Looks]
    BY <1>2, PacketFacts
<1>4. /\ view \in Views
      /\ DOMAIN view = (DOMAIN shown[p] \cup DOMAIN k.of) \ {p}
      /\ \A q \in DOMAIN view : view[q] = IF q \in DOMAIN k.of THEN k.of[q] ELSE shown[p][q]
  <2> DEFINE news == k.of
  <2>1. /\ shown[p] \in Views
        /\ DOMAIN news \in SUBSET Players /\ news \in [DOMAIN news -> Looks]
      BY <1>2, <1>3
  <2> HIDE DEF news
  <2>2. /\ Overlay(p, shown[p], news) \in Views
        /\ DOMAIN Overlay(p, shown[p], news) = (DOMAIN shown[p] \cup DOMAIN news) \ {p}
        /\ \A q \in (DOMAIN shown[p] \cup DOMAIN news) \ {p} :
              Overlay(p, shown[p], news)[q] = IF q \in DOMAIN news THEN news[q] ELSE shown[p][q]
      BY <2>1, OverlayFacts
  <2> QED
      BY <2>2 DEF news
<1>5. lost \in SUBSET Players
    BY <1>2
<1> HIDE DEF view
<1>6. ASSUME NEW q \in Players \ {p}, NEW s \in Statuses, Like(shown[p], missed[p], q, s)
      PROVE  Like(view, lost, q, After(s, k, q))
  <2>1. CASE q \in DOMAIN k.of
    <3>1. After(s, k, q) = [here |-> TRUE, name |-> k.of[q].name, pos |-> k.of[q].pos]
        BY <1>2, <2>1 DEF After
    <3> QED
        BY <1>4, <2>1, <3>1 DEF Like
  <2>2. CASE q \notin DOMAIN k.of
    <3>1. After(s, k, q) = s
        BY <1>2, <2>2 DEF After
    <3> QED
        BY <1>4, <1>6, <2>2, <3>1 DEF Like
  <2> QED
      BY <2>1, <2>2
<1> HIDE DEF lost
<1>7. p \notin DOMAIN view
    BY <1>4
<1> QED
    BY <1>1, <1>4, <1>5, <1>6, <1>7, HearsIInv DEF k

LEMMA SeenFacts ==
    ASSUME NEW view \in Views, NEW q
    PROVE  Seen(view, q) \in Looks
<1>1. view \in [DOMAIN view -> Looks]
    BY ViewFacts
<1>2. [pos |-> Origin, name |-> Unnamed] \in Looks
    BY DEF Looks
<1> QED
    BY <1>1, <1>2 DEF Seen

LEMMA HearsPositionIInv ==
    ASSUME IInv, NEW p \in Players, HearsPosition(p)
    PROVE  IInv'
<1> DEFINE k == Head(chan[p])
           news == Placed(shown[p], k.id, k.pos)
           view == Overlay(p, shown[p], news)
           lost == missed[p] \ {k.id}
<1>1. /\ Hears(p, {"PLAYER_JOIN", "PLAYER_MOVE", "walk"})
      /\ shown' = [shown EXCEPT ![p] = view]
      /\ missed' = [missed EXCEPT ![p] = lost]
    BY DEF HearsPosition
<1>2. /\ k \in Packets /\ k.type \in {"PLAYER_JOIN", "PLAYER_MOVE", "walk"}
      /\ shown[p] \in Views /\ missed[p] \in SUBSET Players /\ p \notin DOMAIN shown[p]
    BY <1>1, HearerFacts
<1> HIDE DEF k
<1>3. k.id \in Players /\ k.pos \in Places
    BY <1>2, PacketFacts
<1>4. /\ DOMAIN news = {k.id} /\ DOMAIN news \in SUBSET Players
      /\ news[k.id] = [Seen(shown[p], k.id) EXCEPT !.pos = k.pos]
    BY <1>3 DEF Placed
<1>5. /\ news[k.id].pos = k.pos
      /\ news[k.id].name = Seen(shown[p], k.id).name
      /\ news[k.id] \in Looks
  <2>1. Seen(shown[p], k.id) \in Looks
      BY <1>2, SeenFacts
  <2> QED
      BY <1>3, <1>4, <2>1 DEF Looks
<1>6. news \in [DOMAIN news -> Looks]
    BY <1>4, <1>5 DEF Placed
<1> HIDE DEF news
<1>7. /\ view \in Views
      /\ DOMAIN view = (DOMAIN shown[p] \cup {k.id}) \ {p}
      /\ \A q \in DOMAIN view : view[q] = IF q = k.id THEN news[q] ELSE shown[p][q]
  <2>1. /\ Overlay(p, shown[p], news) \in Views
        /\ DOMAIN Overlay(p, shown[p], news) = (DOMAIN shown[p] \cup DOMAIN news) \ {p}
        /\ \A q \in (DOMAIN shown[p] \cup DOMAIN news) \ {p} :
              Overlay(p, shown[p], news)[q] = IF q \in DOMAIN news THEN news[q] ELSE shown[p][q]
      BY <1>2, <1>4, <1>6, OverlayFacts
  <2>2. DOMAIN news = {k.id}
      BY <1>4
  <2> QED
      BY <2>1, <2>2
<1>8. lost \in SUBSET Players
    BY <1>2
<1> HIDE DEF view
<1>9. ASSUME NEW q \in Players \ {p}, NEW s \in Statuses, Like(shown[p], missed[p], q, s)
      PROVE  Like(view, lost, q, After(s, k, q))
  <2>1. CASE q = k.id
    <3>1. After(s, k, q) = [here |-> TRUE, name |-> NameOr(s), pos |-> k.pos]
        BY <1>2, <2>1 DEF After
    <3>2. Seen(shown[p], q).name = NameOr(s)
        BY <1>9 DEF Seen, NameOr, Like
    <3>3. q \in DOMAIN view /\ view[q] = news[q]
        BY <1>7, <2>1
    <3> QED
        BY <1>5, <2>1, <3>1, <3>2, <3>3 DEF Like
  <2>2. CASE q # k.id
    <3>1. After(s, k, q) = s
        BY <1>2, <2>2 DEF After
    <3> QED
        BY <1>7, <1>9, <2>2, <3>1 DEF Like
  <2> QED
      BY <2>1, <2>2
<1> HIDE DEF lost
<1>10. p \notin DOMAIN view
    BY <1>7
<1> QED
    BY <1>1, <1>7, <1>8, <1>9, <1>10, HearsIInv DEF k

LEMMA HearsLeaveIInv ==
    ASSUME IInv, NEW p \in Players, HearsLeave(p)
    PROVE  IInv'
<1> DEFINE k == Head(chan[p])
           S == DOMAIN shown[p] \ {k.id}
           view == Restrict(shown[p], S)
           lost == missed[p] \ {k.id}
<1>1. /\ Hears(p, {"PLAYER_LEAVE"})
      /\ shown' = [shown EXCEPT ![p] = view]
      /\ missed' = [missed EXCEPT ![p] = lost]
    BY DEF HearsLeave
<1>2. /\ k \in Packets /\ k.type = "PLAYER_LEAVE"
      /\ shown[p] \in Views /\ missed[p] \in SUBSET Players /\ p \notin DOMAIN shown[p]
    BY <1>1, HearerFacts
<1> HIDE DEF k
<1>3. DOMAIN view = S /\ \A q \in S : view[q] = shown[p][q]
    BY DEF Restrict
<1>4. view \in Views
  <2>1. DOMAIN shown[p] \in SUBSET Players /\ shown[p] \in [DOMAIN shown[p] -> Looks]
      BY <1>2, ViewFacts
  <2>2. S \in SUBSET Players /\ view \in [S -> Looks]
      BY <2>1 DEF Restrict
  <2> HIDE DEF view, S
  <2> QED
      BY <2>2, IsView
<1>5. lost \in SUBSET Players
    BY <1>2
<1> HIDE DEF view
<1>6. ASSUME NEW q \in Players \ {p}, NEW s \in Statuses, Like(shown[p], missed[p], q, s)
      PROVE  Like(view, lost, q, After(s, k, q))
  <2>1. CASE q = k.id
    <3>1. After(s, k, q) = [s EXCEPT !.here = FALSE]
        BY <1>2, <2>1 DEF After
    <3>2. After(s, k, q).here = FALSE
        BY <3>1 DEF Statuses
    <3>3. q \notin DOMAIN view
        BY <1>3, <2>1
    <3> QED
        BY <3>2, <3>3 DEF Like
  <2>2. CASE q # k.id
    <3>1. After(s, k, q) = s
        BY <1>2, <2>2 DEF After
    <3>2. /\ q \in DOMAIN view <=> q \in DOMAIN shown[p]
          /\ q \in DOMAIN view => view[q] = shown[p][q]
          /\ q \in lost <=> q \in missed[p]
        BY <1>3, <2>2
    <3> QED
        BY <1>6, <3>1, <3>2 DEF Like
  <2> QED
      BY <2>1, <2>2
<1>7. p \notin DOMAIN view
    BY <1>2, <1>3
<1> HIDE DEF lost, S
<1> QED
    BY <1>1, <1>4, <1>5, <1>6, <1>7, HearsIInv DEF k

LEMMA HearsNamesIInv ==
    ASSUME IInv, NEW p \in Players, HearsNames(p)
    PROVE  IInv'
<1> DEFINE k == Head(chan[p])
           names == k.of
           news == Called(shown[p], names)
           view == Overlay(p, shown[p], news)
<1>1. /\ Hears(p, {"PLAYER_NAME"})
      /\ shown' = [shown EXCEPT ![p] = view]
      /\ UNCHANGED missed
    BY DEF HearsNames
<1>2. /\ k \in Packets /\ k.type = "PLAYER_NAME"
      /\ shown[p] \in Views /\ missed[p] \in SUBSET Players /\ p \notin DOMAIN shown[p]
      /\ missed' = [missed EXCEPT ![p] = missed[p]]
    BY <1>1, HearerFacts
<1> HIDE DEF k
<1>3. DOMAIN names \in SUBSET Players /\ names \in [DOMAIN names -> Named]
    BY <1>2, PacketFacts
<1>4. /\ DOMAIN news = DOMAIN names
      /\ \A r \in DOMAIN names : news[r] = [Seen(shown[p], r) EXCEPT !.name = names[r]]
    BY DEF Called
<1>5. \A r \in DOMAIN names :
         /\ news[r].name = names[r]
         /\ news[r].pos = Seen(shown[p], r).pos
         /\ news[r] \in Looks
  <2> TAKE r \in DOMAIN names
  <2>1. Seen(shown[p], r) \in Looks
      BY <1>2, SeenFacts
  <2>2. names[r] \in Names \cup {Unnamed}
      BY <1>3 DEF Named
  <2>3. news[r] = [Seen(shown[p], r) EXCEPT !.name = names[r]]
      BY <1>4
  <2> HIDE DEF news, names
  <2> QED
      BY <2>1, <2>2, <2>3 DEF Looks
<1>6. news \in [DOMAIN news -> Looks]
    BY <1>4, <1>5 DEF Called
<1>7. DOMAIN news \in SUBSET Players
    BY <1>3, <1>4
<1> HIDE DEF news, names
<1>8. /\ view \in Views
      /\ DOMAIN view = (DOMAIN shown[p] \cup DOMAIN names) \ {p}
      /\ \A q \in DOMAIN view : view[q] = IF q \in DOMAIN names THEN news[q] ELSE shown[p][q]
  <2>1. /\ Overlay(p, shown[p], news) \in Views
        /\ DOMAIN Overlay(p, shown[p], news) = (DOMAIN shown[p] \cup DOMAIN news) \ {p}
        /\ \A q \in (DOMAIN shown[p] \cup DOMAIN news) \ {p} :
              Overlay(p, shown[p], news)[q] = IF q \in DOMAIN news THEN news[q] ELSE shown[p][q]
      BY <1>2, <1>6, <1>7, OverlayFacts
  <2>2. DOMAIN news = DOMAIN names
      BY <1>4
  <2> QED
      BY <2>1, <2>2
<1> HIDE DEF view
<1>9. ASSUME NEW q \in Players \ {p}, NEW s \in Statuses, Like(shown[p], missed[p], q, s)
      PROVE  Like(view, missed[p], q, After(s, k, q))
  <2>1. CASE q \in DOMAIN names
    <3>1. After(s, k, q) = [here |-> TRUE, name |-> names[q], pos |-> PosOr(s)]
        BY <1>2, <2>1 DEF After, names
    <3>2. q \notin missed[p] => Seen(shown[p], q).pos = PosOr(s)
        BY <1>9 DEF Seen, PosOr, Like
    <3>3. q \in DOMAIN view /\ view[q] = news[q]
        BY <1>8, <2>1
    <3> QED
        BY <1>5, <2>1, <3>1, <3>2, <3>3 DEF Like
  <2>2. CASE q \notin DOMAIN names
    <3>1. After(s, k, q) = s
        BY <1>2, <2>2 DEF After, names
    <3> QED
        BY <1>8, <1>9, <2>2, <3>1 DEF Like
  <2> QED
      BY <2>1, <2>2
<1>10. p \notin DOMAIN view
    BY <1>8
<1> QED
    BY <1>1, <1>2, <1>8, <1>9, <1>10, HearsIInv DEF k

LEMMA LostIInv ==
    ASSUME IInv, NEW p \in Players, Lost(p)
    PROVE  IInv'
<1> DEFINE k == Head(chan[p])
           lost == missed[p] \cup {k.id}
<1>1. /\ Hears(p, {"walk"})
      /\ missed' = [missed EXCEPT ![p] = lost]
      /\ UNCHANGED shown
    BY DEF Lost
<1>2. /\ k \in Packets /\ k.type = "walk"
      /\ shown[p] \in Views /\ missed[p] \in SUBSET Players /\ p \notin DOMAIN shown[p]
      /\ shown' = [shown EXCEPT ![p] = shown[p]]
    BY <1>1, HearerFacts
<1> HIDE DEF k
<1>3. k.id \in Players
    BY <1>2, PacketFacts
<1>4. lost \in SUBSET Players
    BY <1>2, <1>3
<1>5. ASSUME NEW q \in Players \ {p}, NEW s \in Statuses,
             Like(shown[p], missed[p], q, s), About(k, q) => s.here
      PROVE  Like(shown[p], lost, q, After(s, k, q))
  <2>1. CASE q = k.id
    <3>1. After(s, k, q) = [here |-> TRUE, name |-> NameOr(s), pos |-> k.pos]
        BY <1>2, <2>1 DEF After
    <3>2. s.here
        BY <1>2, <1>5, <2>1 DEF About
    <3> QED
        BY <1>5, <2>1, <3>1, <3>2 DEF Like, NameOr
  <2>2. CASE q # k.id
    <3>1. After(s, k, q) = s
        BY <1>2, <2>2 DEF After
    <3> QED
        BY <1>5, <2>2, <3>1 DEF Like
  <2> QED
      BY <2>1, <2>2
<1> HIDE DEF lost
<1> QED
    BY <1>1, <1>2, <1>4, <1>5, HearsIInv DEF k

-----------------------------------------------------------------------------

LEMMA InitIInv == Init => IInv
<1> SUFFICES ASSUME Init PROVE IInv
    OBVIOUS
<1>1. Nobody \in Views /\ DOMAIN Nobody = {}
  <2>1. Nobody \in [{} -> Looks] /\ {} \in SUBSET Players
      BY DEF Nobody
  <2> QED
      BY <2>1, IsView
<1>2. TypeOK
  <2>1. shown \in [Players -> Views]
      BY <1>1 DEF Init
  <2> QED
      BY <2>1, PresenceAssumption DEF Init, TypeOK, Views
<1>3. Silence
    BY DEF Init, Silence
<1>4. NotOfOneself
    BY <1>1 DEF Init, NotOfOneself, NotAbout
<1>5. StoriesFit
    BY DEF Init, StoriesFit
<1> QED
    BY <1>2, <1>3, <1>4, <1>5 DEF IInv

LEMMA NextIInv == IInv /\ [Next]_vars => IInv'
<1> SUFFICES ASSUME IInv, [Next]_vars PROVE IInv'
    OBVIOUS
<1>1. CASE UNCHANGED vars
  <2>1. TypeOK' /\ Silence' /\ NotOfOneself'
      BY <1>1 DEF vars, IInv, TypeOK, Silence, NotOfOneself, NotAbout, Nobody
  <2>2. StoriesFit'
      BY <1>1 DEF vars, IInv, StoriesFit, Told, Truth, On
  <2> QED
      BY <2>1, <2>2 DEF IInv
<1>2. ASSUME NEW p \in Players, Server(p) PROVE IInv'
    BY <1>2, ConnectIInv, DisconnectIInv, ClosesIInv, WalkIInv, RenameIInv, TeleportIInv,
       TransferIInv DEF Server
<1>3. ASSUME NEW p \in Players, Client(p) PROVE IInv'
    BY <1>3, HearsHandshakeIInv, HearsTransferIInv, HearsSnapshotIInv, HearsPositionIInv,
       HearsLeaveIInv, HearsNamesIInv, LostIInv DEF Client
<1> QED
    BY <1>1, <1>2, <1>3 DEF Next

(* Every reachable state satisfies the invariant. *)
THEOREM Invariance == Spec => []IInv
BY InitIInv, NextIInv, PTL DEF Spec

(* Type correctness: players, what the server knows of them, the packets   *)
(* on their way and what clients show.                                     *)
THEOREM TypeCorrect == Spec => []TypeOK
<1>1. IInv => TypeOK
    BY DEF IInv
<1> QED
    BY <1>1, Invariance, PTL

(* When nothing is on its way, what a client shows of another is the truth *)
(* about that player.                                                      *)
LEMMA SettledShowsTruth ==
    ASSUME IInv, NEW p \in Players, Settled(p), NEW q \in Players \ {p}
    PROVE  /\ q \in DOMAIN shown[p] <=> q \in On(mapOf[p])
           /\ q \in DOMAIN shown[p] =>
                 /\ shown[p][q].name \in {Unnamed, name[q]}
                 /\ q \notin missed[p] => shown[p][q].pos = pos[q]
<1> DEFINE t == Truth(p, q)
<1>1. p \in (online \cap Watched) \ closing /\ chan[p] = <<>>
    BY DEF Settled
<1>2. Story(<<>>, shown[p], missed[p], q, t)
    BY <1>1 DEF IInv, StoriesFit, Told
<1>3. PICK h \in [0..Len(<<>>) -> Statuses] : IsStory(h, <<>>, shown[p], missed[p], q, t)
    BY <1>2 DEF Story
<1>4. Len(<<>>) = 0
    OBVIOUS
<1>5. Like(shown[p], missed[p], q, h[0]) /\ Fits(h[0], t)
    BY <1>3, <1>4 DEF IsStory
<1>6. (t.here <=> q \in On(mapOf[p])) /\ t.name = name[q] /\ t.pos = pos[q]
    BY DEF Truth
<1> HIDE DEF t
<1> QED
    BY <1>5, <1>6 DEF Like, Fits

(* A client that has heard everything shows exactly the others on its map, *)
(* whatever they and it have done since, and whoever's id they have.       *)
THEOREM ClientsShowTheirMap == Spec => []ShowsItsMap
<1>1. IInv => ShowsItsMap
  <2> SUFFICES ASSUME IInv, NEW p \in Players, Settled(p)
               PROVE  DOMAIN shown[p] = On(mapOf[p]) \ {p}
      BY DEF ShowsItsMap
  <2>1. DOMAIN shown[p] \in SUBSET Players
    <3>1. shown[p] \in Views
        BY DEF IInv, TypeOK, Views
    <3> QED
        BY <3>1, ViewFacts
  <2>2. p \notin DOMAIN shown[p] /\ On(mapOf[p]) \subseteq Players
      BY DEF IInv, NotOfOneself, TypeOK, On
  <2>3. \A q \in Players \ {p} : q \in DOMAIN shown[p] <=> q \in On(mapOf[p])
      BY SettledShowsTruth
  <2> QED
      BY <2>1, <2>2, <2>3
<1> QED
    BY <1>1, Invariance, PTL

(* A settled client shows everybody where they are, but for those whose    *)
(* last position it missed.                                                *)
THEOREM ShownWhereTheyAlwaysAre == Spec => []ShownWhereTheyAre
<1>1. IInv => ShownWhereTheyAre
  <2> SUFFICES ASSUME IInv, NEW p \in Players, Settled(p), NEW q \in DOMAIN shown[p] \ missed[p]
               PROVE  shown[p][q].pos = pos[q]
      BY DEF ShownWhereTheyAre
  <2>1. shown[p] \in Views /\ p \notin DOMAIN shown[p]
      BY DEF IInv, TypeOK, NotOfOneself, Views
  <2>2. q \in Players \ {p}
      BY <2>1, ViewFacts
  <2> QED
      BY <2>2, SettledShowsTruth
<1> QED
    BY <1>1, Invariance, PTL

(* A settled client shows nobody under the name of another player, or of   *)
(* an earlier holder of the id.                                            *)
THEOREM NamesStayOwn == Spec => []NamesAreOwn
<1>1. IInv => NamesAreOwn
  <2> SUFFICES ASSUME IInv, NEW p \in Players, Settled(p), NEW q \in DOMAIN shown[p]
               PROVE  shown[p][q].name \in {Unnamed, name[q]}
      BY DEF NamesAreOwn
  <2>1. shown[p] \in Views /\ p \notin DOMAIN shown[p]
      BY DEF IInv, TypeOK, NotOfOneself, Views
  <2>2. q \in Players \ {p}
      BY <2>1, ViewFacts
  <2> QED
      BY <2>2, SettledShowsTruth
<1> QED
    BY <1>1, Invariance, PTL

(* Nobody's walk, name or farewell reaches a client that does not show     *)
(* that player then.                                                       *)
THEOREM NewsIsOfTheShown == Spec => []NewsOfTheShown
<1>1. IInv => NewsOfTheShown
  <2> SUFFICES ASSUME IInv, NEW p \in online, chan[p] # <<>>
               PROVE  /\ Head(chan[p]).type \in {"PLAYER_MOVE", "walk", "PLAYER_LEAVE"} =>
                            Head(chan[p]).id \in DOMAIN shown[p]
                      /\ Head(chan[p]).type = "PLAYER_NAME" =>
                            DOMAIN Head(chan[p]).of \subseteq DOMAIN shown[p] \cup {p}
      BY DEF NewsOfTheShown
  <2> DEFINE k == Head(chan[p])
  <2>1. p \in Players /\ chan[p] \in Seq(Packets)
      BY DEF IInv, TypeOK
  <2>2. k \in Packets /\ k = chan[p][1] /\ Len(chan[p]) \in Nat /\ Len(chan[p]) >= 1
      BY <2>1, HeadTailProperties
  <2>3. p \in online \cap Watched
      BY <2>1 DEF IInv, Silence
  <2>4. ASSUME NEW q \in Players \ {p}, About(k, q) PROVE q \in DOMAIN shown[p]
    <3>1. PICK t \in Statuses : Story(chan[p], shown[p], missed[p], q, t)
        BY <2>3 DEF IInv, StoriesFit, Told
    <3>2. PICK h \in [0..Len(chan[p]) -> Statuses] :
             IsStory(h, chan[p], shown[p], missed[p], q, t)
        BY <3>1 DEF Story
    <3>3. Like(shown[p], missed[p], q, h[0]) /\ (About(chan[p][1], q) => h[0].here)
        BY <2>2, <3>2 DEF IsStory
    <3> QED
        BY <2>2, <2>4, <3>3 DEF Like
  <2>5. k.type \in {"PLAYER_MOVE", "walk", "PLAYER_LEAVE"} => k.id \in DOMAIN shown[p]
    <3> SUFFICES ASSUME k.type \in {"PLAYER_MOVE", "walk", "PLAYER_LEAVE"}
                 PROVE  k.id \in DOMAIN shown[p]
        OBVIOUS
    <3>1. k.id \in Players
        BY <2>2, PacketFacts
    <3>2. k.id # p
        BY <2>1, <2>2 DEF IInv, NotOfOneself, NotAbout
    <3>3. About(k, k.id)
        BY DEF About
    <3> HIDE DEF k
    <3> QED
        BY <2>4, <3>1, <3>2, <3>3
  <2>6. k.type = "PLAYER_NAME" => DOMAIN k.of \subseteq DOMAIN shown[p] \cup {p}
    <3> SUFFICES ASSUME k.type = "PLAYER_NAME", NEW q \in DOMAIN k.of, q # p
                 PROVE  q \in DOMAIN shown[p]
        OBVIOUS
    <3>1. q \in Players
        BY <2>2, PacketFacts
    <3>2. About(k, q)
        BY DEF About
    <3> QED
        BY <2>4, <3>1, <3>2
  <2> QED
      BY <2>5, <2>6
<1> QED
    BY <1>1, Invariance, PTL
=============================================================================
