------------------------------ MODULE Content ------------------------------
(***************************************************************************)
(* What the players see of the files of a server: authors save maps, of    *)
(* either format, and images; the server reads the maps at its start,      *)
(* lists the files its clients may ask for, refuses to start when one of   *)
(* them is not sound, and names the whole by a revision; clients ask for   *)
(* the files a map refers to and keep them, by revision, across restarts   *)
(* of the server.                                                          *)
(***************************************************************************)
EXTENDS MapFormat, FiniteSets

CONSTANTS
    Texts,       \* maps in the old format
    Trees,       \* maps made in Tiled
    Files,       \* the names of the map files, which end in .tmx
    WorldMap,    \* the one the configuration names
    Paths,       \* the other files: <<directory, name>>
    LiveEdits,   \* files are changed while the server runs
    MaxEdits,    \* bound: changes of files
    MaxDownloads \* bound: files kept by clients

ASSUME ContentAssumption ==
    /\ Texts \subseteq Seq(LineForms)
    /\ \A tree \in Trees : TreeForm(tree)
    /\ WorldMap \in Files
    /\ LiveEdits \in BOOLEAN
    /\ MaxEdits \in Nat
    /\ MaxDownloads \in Nat

VARIABLES
    maps,        \* assets/maps: the map files
    files,       \* the files of the other directories and their versions: 0
                 \* is one that is empty or no .png
    server,      \* what the server made of the files at its start
    cache,       \* what clients keep, by revision and key
    edits        \* changes so far

vars == <<maps, files, server, cache, edits>>
-----------------------------------------------------------------------------
(* Keys of the manifest: <<kind, name>>.                                   *)

Plain(file) == FileName("", file, {})

\* The file a key of an image or of data stands for.
PathOf(key) ==
    CASE key[1] = "map_image" -> <<"map_images", key[2].file>>
      [] key[1] = "map_meta" -> <<"map_atlases", key[2].file>>
      [] key[1] = "character_image" -> <<"characters", key[2].file>>
      [] OTHER -> <<"data", key[2].file>>

\* What a file that can be read is read as.
Loaded(file) == CHOOSE doc \in ParseDocument(file) : TRUE

IdOf(name) == Loaded(maps[name]).mapId

\* addAssetKeysFromDirectory: a key for every file of the data directory.
DataKeys == {<<"data", Plain(p[2])>> : p \in {q \in DOMAIN files : q[1] = "data"}}

\* Mutant: the characters' images are left out.
AllowedKeysOfMaps(loaded) ==
    LET docs == {loaded[id] : id \in DOMAIN loaded}
        mapImages == UNION {CollectReferencedAssets(d, "map") : d \in docs}
    IN  DataKeys
        \union {<<"map", Plain(id)>> : id \in DOMAIN loaded}
        \union {<<"map_image", n>> : n \in mapImages}
        \union {<<"map_meta", n>> :
                   n \in {m \in mapImages : <<"map_atlases", m.file>> \in DOMAIN files}}

\* Server::rebuildAllowedAssetKeys
AllowedKeys(loaded) ==
    LET docs == {loaded[id] : id \in DOMAIN loaded}
        mapImages == UNION {CollectReferencedAssets(d, "map") : d \in docs}
    IN  DataKeys
        \union {<<"map", Plain(id)>> : id \in DOMAIN loaded}
        \union {<<"map_image", n>> : n \in mapImages}
        \union {<<"map_meta", n>> :
                   n \in {m \in mapImages : <<"map_atlases", m.file>> \in DOMAIN files}}
        \union {<<"character_image", n>> :
                   n \in UNION {CollectReferencedAssets(d, "character") : d \in docs}}

\* isSafeManifestAssetKey: a key is of the allowed letters, which a reference
\* taken for a name is not.
SafeKey(key) == key[2].prefix = "" /\ key[2].rest = {}

\* fileHasPngHeader, and the file's size.
SoundFile(path) == path \in DOMAIN files /\ files[path] # 0

\* Server::validateContentAssets: a key may be named, and its file is sound.
Sound(key, loaded) ==
    /\ SafeKey(key)
    /\ IF key[1] = "map" THEN key[2].file \in DOMAIN loaded
       ELSE SoundFile(PathOf(key))

\* Mutant: of the images only the names are hashed.
RevisionOfNames(loaded, paths, keys) ==
    [texts |-> [id \in DOMAIN loaded |-> maps[paths[id]]],
     bytes |-> {<<PathOf(k), 0>> : k \in {j \in keys : j[1] # "map"}}]

\* Server::computeContentRevision: all that is hashed into the name.
Revision(loaded, paths, keys) ==
    [texts |-> [id \in DOMAIN loaded |-> maps[paths[id]]],
     bytes |-> {<<PathOf(k), files[PathOf(k)]>> :
                   k \in {j \in keys : j[1] # "map"}}]

\* What a key stands for now.
Bytes(key, paths) ==
    IF key[1] = "map" THEN [map |-> {maps[paths[key[2].file]]}, version |-> 0]
    ELSE [map |-> {}, version |-> files[PathOf(key)]]

Down == [up |-> FALSE, maps |-> NoProperties, paths |-> NoProperties, keys |-> {},
         revision |-> [texts |-> NoProperties, bytes |-> {}]]
-----------------------------------------------------------------------------
(* What the client asks for once it has a map.                             *)

\* The references a client looks through for files of a domain: only those
\* of its characters include the player's own sprites.
Looked(doc, domain) ==
    {n.ref : n \in {m \in Referenced(doc) : m.fallback = "map" \/ domain = "character"}}

\* World::referencedMapImageFiles and referencedCharacterImageFiles: what
\* cannot be read as a reference is asked for whole, in both.
ReferencedFiles(doc, domain) ==
    {IF Valid(r) THEN Plain(r.file) ELSE FileName(r.prefix, r.file, r.area) :
        r \in {s \in Looked(doc, domain) :
                  s.file # "" /\ (Valid(s) => PrefixDomain(s) = domain)}}

\* Game::EnsureReferencedImagesRequested: the map is not ready before all of
\* them have come.
Wanted(doc, keys) ==
    {<<"map_image", n>> : n \in ReferencedFiles(doc, "map")}
    \union ({<<"map_meta", n>> : n \in ReferencedFiles(doc, "map")} \intersect keys)
    \union {<<"character_image", n>> : n \in ReferencedFiles(doc, "character")}

\* World::PreloadReferencedTextures: nor before all these can be drawn.
Preloaded(doc) ==
    {<<IF PrefixDomain(n.ref) = "map" THEN "map_image" ELSE "character_image",
       Plain(n.ref.file)>> : n \in {m \in Referenced(doc) : Valid(m.ref)}}
-----------------------------------------------------------------------------
\* A map file holds what its author saved, whatever it is called.
MapFiles == {[tree |-> t] : t \in Trees} \union {[lines |-> t] : t \in Texts}

Init ==
    /\ maps \in UNION {[{WorldMap} -> {f}] : f \in MapFiles}
    /\ files = [p \in Paths |-> 1]
    /\ server = Down
    /\ cache = <<>>
    /\ edits = 0

MayEdit == edits < MaxEdits /\ (LiveEdits \/ ~server.up)

\* An author saves a map, or a new version of another file.
SaveMap(name, file) ==
    /\ MayEdit
    /\ maps' = With(maps, name, file)
    /\ edits' = edits + 1
    /\ UNCHANGED <<files, server, cache>>

SaveFile(path, version) ==
    /\ MayEdit
    /\ files' = [files EXCEPT ![path] = version]
    /\ edits' = edits + 1
    /\ UNCHANGED <<maps, server, cache>>

\* Server::loadMaps: of two files with one id the directory's order decides,
\* but the configured one stands before all.
Loads(paths) ==
    /\ \A id \in DOMAIN paths : IdOf(paths[id]) = id
    /\ paths[IdOf(WorldMap)] = WorldMap

\* Server::startup, as far as the content goes: one map that cannot be read,
\* or one file that is not sound, and the server does not start.
Start ==
    /\ ~server.up
    /\ \A f \in DOMAIN maps : ParseDocument(maps[f]) # {}
    /\ \E paths \in [{IdOf(f) : f \in DOMAIN maps} -> DOMAIN maps] :
          LET loaded == [id \in DOMAIN paths |-> Loaded(maps[paths[id]])]
              keys == AllowedKeys(loaded)
          IN  /\ Loads(paths)
              /\ \A k \in keys : Sound(k, loaded)
              /\ server' = [up |-> TRUE, maps |-> loaded, paths |-> paths, keys |-> keys,
                            revision |-> Revision(loaded, paths, keys)]
    /\ UNCHANGED <<maps, files, cache, edits>>

Stop ==
    /\ server.up
    /\ server' = Down
    /\ UNCHANGED <<maps, files, cache, edits>>

\* A client asks for a file it does not keep under the server's revision, and
\* keeps what the server reads from its disk.
Download(key) ==
    /\ server.up /\ key \in server.keys
    /\ <<server.revision, key>> \notin DOMAIN cache
    /\ Cardinality(DOMAIN cache) < MaxDownloads
    /\ cache' = With(cache, <<server.revision, key>>, Bytes(key, server.paths))
    /\ UNCHANGED <<maps, files, server, edits>>

Next ==
    \/ \E name \in Files, file \in MapFiles : SaveMap(name, file)
    \/ \E path \in DOMAIN files, version \in 0 .. 2 : SaveFile(path, version)
    \/ Start
    \/ Stop
    \/ \E key \in server.keys : Download(key)

Spec == Init /\ [][Next]_vars
-----------------------------------------------------------------------------
\* MapData::objectIndexById: the first object with the id a client named.
objectIndexById(doc, id) ==
    CHOOSE i \in DOMAIN doc.objects :
        doc.objects[i].id = id /\ \A j \in 1 .. (i - 1) : doc.objects[j].id # id

\* The reader tells ids apart within a group, and in the old text.
OneGroup(file) == "tree" \in DOMAIN file => Len(GroupsOf(file.tree, "map_objects")) <= 1

\* The object a client names is the one the server finds.
ObjectsAreFound(doc) ==
    \A i \in DOMAIN doc.objects : objectIndexById(doc, doc.objects[i].id) = i

\* The stamps of a .tmx file and their layers, in the file's order.
SavedStamps(tree) ==
    LET layers == GroupsOf(tree, "map_layer")
    IN  FlattenSeq([i \in DOMAIN layers |->
            [j \in DOMAIN layers[i].stamps |->
                [layer |-> layers[i].name, node |-> layers[i].stamps[j]]]])

\* A stamp is drawn at most half a tile from where it was saved, with the
\* same image, on the same layer.  One that was saved without a place stands
\* on the tile it names.
Stands(s, saved, tile) ==
    /\ s.layer = saved.layer /\ saved.node.asset_ref = {s.asset}
    /\ \A place \in saved.node.place, k \in 1 .. 2 :
          2 * Distance(StampBounds(s, tile)[k], place[k]) <= Pixels(tile)
    /\ saved.node.place = {} => saved.node.grid = {<<s.x, s.y>>}

StampsStand(doc, tree) ==
    LET saved == SavedStamps(tree)
    IN  /\ Len(doc.stamps) = Len(saved)
        /\ \A n \in DOMAIN doc.stamps : Stands(doc.stamps[n], saved[n], doc.tileSize)

\* The maps of a server are those its authors saved, for as long as it runs:
\* no stamp is lost, made up, or drawn elsewhere than on the tile nearest to
\* where it was put in Tiled, though the reader computes the tile from the
\* place and MapData and World, each on their own, the place from the tile;
\* and each object can be named by its id.
MapsAreAsSaved ==
    \A id \in DOMAIN server.maps :
        LET file == server.revision.texts[id]
        IN  /\ OneGroup(file) => ObjectsAreFound(server.maps[id])
            /\ "tree" \in DOMAIN file => StampsStand(server.maps[id], file.tree)

\* What the client's two searches for files and the server's list agree on:
\* references to a rectangle of an image, the player's of the characters.
WellReferenced(doc) ==
    /\ \A n \in Referenced(doc) : Valid(n.ref)
    /\ \A d \in DOMAIN doc.playerSprites : PrefixDomain(doc.playerSprites[d]) = "character"

\* A server that has started can give its clients every file that they will
\* wait for on any of its maps, and a client that has got them can draw all
\* the map refers to: no client hangs before a map that is never ready.
ClientsGetWhatTheyNeed ==
    \A id \in DOMAIN server.maps :
        WellReferenced(server.maps[id]) =>
            /\ Wanted(server.maps[id], server.keys) \subseteq server.keys
            /\ Preloaded(server.maps[id]) \subseteq Wanted(server.maps[id], server.keys)

\* What a client keeps under the name of the server's revision is what the server has, from
\* whatever run of the server it got it, and the server's maps are those on
\* its disk.  It takes authors who change files only while the server is down.
CacheIsCurrent ==
    server.up =>
        /\ \A id \in DOMAIN server.maps :
              ParseDocument(maps[server.paths[id]]) = {server.maps[id]}
        /\ \A e \in DOMAIN cache :
              e[1] = server.revision => e[2] \in server.keys
                                        /\ cache[e] = Bytes(e[2], server.paths)
=============================================================================
