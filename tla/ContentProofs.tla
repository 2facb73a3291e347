--------------------------- MODULE ContentProofs ---------------------------
(***************************************************************************)
(* Proofs about Content, for any maps, texts, files and images: what a     *)
(* client waits for is always on the server's list; when files change only *)
(* while the server is down, whatever a client keeps under the server's    *)
(* revision is what the server has; and the maps of a server are those     *)
(* its authors saved, stamp by stamp and object by object.                 *)
(***************************************************************************)
EXTENDS Content, TLAPS, SequenceTheorems, WellFoundedInduction

(* The list is made from the maps the server has, and there is none        *)
(* without a server.                                                       *)
ListFits ==
    /\ server.up => server.keys = AllowedKeys(server.maps)
    /\ ~server.up => server = Down

LEMMA InitListFits == Init => ListFits
BY DEF Init, ListFits, Down

(* Edits add no file and remove none that the list looks for. *)
LEMMA EditListFits ==
    ASSUME ListFits, server' = server, DOMAIN files' = DOMAIN files
    PROVE  ListFits'
<1>1. AllowedKeys(server.maps)' = AllowedKeys(server.maps)
    BY DEF AllowedKeys, DataKeys
<1> QED
    BY <1>1 DEF ListFits

LEMMA StartListFits == Start => ListFits'
<1> SUFFICES ASSUME Start PROVE ListFits'
    OBVIOUS
<1>1. PICK paths : LET loaded == [id \in DOMAIN paths |-> Loaded(maps[paths[id]])]
                       keys == AllowedKeys(loaded)
                   IN  server' = [up |-> TRUE, maps |-> loaded, paths |-> paths,
                                  keys |-> keys,
                                  revision |-> Revision(loaded, paths, keys)]
    BY DEF Start
<1> DEFINE loaded == [id \in DOMAIN paths |-> Loaded(maps[paths[id]])]
<1>2. server'.up = TRUE /\ server'.maps = loaded /\ server'.keys = AllowedKeys(loaded)
    BY <1>1
<1>3. files' = files
    BY DEF Start
<1> HIDE DEF loaded
<1>4. AllowedKeys(server.maps)' = AllowedKeys(loaded)
    BY <1>2, <1>3 DEF AllowedKeys, DataKeys
<1> QED
    BY <1>2, <1>4 DEF ListFits

LEMMA NextListFits == ListFits /\ [Next]_vars => ListFits'
<1> SUFFICES ASSUME ListFits, [Next]_vars PROVE ListFits'
    OBVIOUS
<1>2. ASSUME NEW name, NEW file, SaveMap(name, file) PROVE ListFits'
    BY <1>2, EditListFits DEF SaveMap
<1>3. ASSUME NEW path, NEW version, SaveFile(path, version)
      PROVE  ListFits'
  <2>1. DOMAIN files' = DOMAIN files /\ server' = server
      BY <1>3 DEF SaveFile
  <2> QED
      BY <2>1, EditListFits
<1>4. CASE Start
    BY <1>4, StartListFits
<1>5. CASE Stop
    BY <1>5 DEF Stop, ListFits, Down
<1>6. ASSUME NEW key, Download(key) PROVE ListFits'
    BY <1>6, EditListFits DEF Download
<1>7. CASE UNCHANGED vars
    BY <1>7, EditListFits DEF vars
<1> QED
    BY <1>2, <1>3, <1>4, <1>5, <1>6, <1>7 DEF Next

(* The client's two searches find what the server's search finds.          *)
LEMMA SearchesAgree ==
    ASSUME NEW doc, WellReferenced(doc), NEW domain \in Domains
    PROVE  ReferencedFiles(doc, domain) \subseteq CollectReferencedAssets(doc, domain)
<1> SUFFICES ASSUME NEW n \in ReferencedFiles(doc, domain)
             PROVE  n \in CollectReferencedAssets(doc, domain)
    OBVIOUS
<1>1. PICK r \in Looked(doc, domain) :
          /\ r.file # "" /\ (Valid(r) => PrefixDomain(r) = domain)
          /\ n = IF Valid(r) THEN Plain(r.file) ELSE FileName(r.prefix, r.file, r.area)
    BY DEF ReferencedFiles
<1>2. PICK m \in Referenced(doc) : m.ref = r
    BY DEF Looked
<1>3. Valid(r)
    BY <1>2 DEF WellReferenced
<1>4. AssetDomainForRef(r, m.fallback) = domain
    BY <1>1, <1>3 DEF AssetDomainForRef
<1>5. n = AssetFileName(m.ref)
    BY <1>1, <1>2, <1>3 DEF AssetFileName, Plain
<1> QED
    BY <1>1, <1>2, <1>4, <1>5 DEF CollectReferencedAssets

(* What a map refers to, its own images and the characters', is searched   *)
(* for by the client.                                                      *)
LEMMA PreloadedAreWanted ==
    ASSUME NEW doc, WellReferenced(doc), NEW keys
    PROVE  Preloaded(doc) \subseteq Wanted(doc, keys)
<1> SUFFICES ASSUME NEW n \in Referenced(doc), Valid(n.ref)
             PROVE  <<IF PrefixDomain(n.ref) = "map" THEN "map_image" ELSE "character_image",
                      Plain(n.ref.file)>> \in Wanted(doc, keys)
    BY DEF Preloaded
<1>1. n.ref.file # ""
    BY DEF Valid
<1>2. CASE PrefixDomain(n.ref) = "map"
  <2>1. n.fallback = "map"
    <3>1. CASE n.fallback = "map"
        BY <3>1
    <3>2. CASE n.fallback # "map"
      <4>1. PICK d \in DOMAIN doc.playerSprites :
                n = [ref |-> doc.playerSprites[d], fallback |-> "character"]
          BY <3>2 DEF Referenced
      <4>2. PrefixDomain(n.ref) = "character"
          BY <4>1 DEF WellReferenced
      <4> QED
          BY <4>2, <1>2
    <3> QED
        BY <3>1, <3>2
  <2>2. n.ref \in Looked(doc, "map")
      BY <2>1 DEF Looked
  <2>3. Plain(n.ref.file) \in ReferencedFiles(doc, "map")
      BY <2>2, <1>1, <1>2 DEF ReferencedFiles
  <2> QED
      BY <2>3, <1>2 DEF Wanted
<1>3. CASE PrefixDomain(n.ref) # "map"
  <2>1. PrefixDomain(n.ref) = "character"
      BY <1>3 DEF PrefixDomain
  <2>2. n.ref \in Looked(doc, "character")
      BY DEF Looked
  <2>3. Plain(n.ref.file) \in ReferencedFiles(doc, "character")
      BY <2>1, <2>2, <1>1 DEF ReferencedFiles
  <2> QED
      BY <2>3, <1>3 DEF Wanted
<1> QED
    BY <1>2, <1>3

LEMMA WantedAreAllowed ==
    ASSUME NEW loaded, NEW id \in DOMAIN loaded, WellReferenced(loaded[id])
    PROVE  Wanted(loaded[id], AllowedKeys(loaded)) \subseteq AllowedKeys(loaded)
<1> DEFINE doc == loaded[id]
           docs == {loaded[i] : i \in DOMAIN loaded}
<1>1. doc \in docs
    OBVIOUS
<1>2. ASSUME NEW n \in ReferencedFiles(doc, "map")
      PROVE  <<"map_image", n>> \in AllowedKeys(loaded)
  <2>1. n \in CollectReferencedAssets(doc, "map")
      BY SearchesAgree DEF Domains
  <2>2. n \in UNION {CollectReferencedAssets(d, "map") : d \in docs}
      BY <2>1, <1>1
  <2> QED
      BY <2>2 DEF AllowedKeys
<1>3. ASSUME NEW n \in ReferencedFiles(doc, "character")
      PROVE  <<"character_image", n>> \in AllowedKeys(loaded)
  <2>1. n \in CollectReferencedAssets(doc, "character")
      BY SearchesAgree DEF Domains
  <2>2. n \in UNION {CollectReferencedAssets(d, "character") : d \in docs}
      BY <2>1, <1>1
  <2> QED
      BY <2>2 DEF AllowedKeys
<1> QED
    BY <1>2, <1>3 DEF Wanted

(* Whatever the maps and whatever is edited when: what a client waits for  *)
(* on a map of the server is on the server's list, and enough to draw it.  *)
THEOREM ClientsAlwaysGetWhatTheyNeed == Spec => []ClientsGetWhatTheyNeed
<1>1. ListFits => ClientsGetWhatTheyNeed
  <2> SUFFICES ASSUME ListFits, NEW id \in DOMAIN server.maps,
                      WellReferenced(server.maps[id])
               PROVE  /\ Wanted(server.maps[id], server.keys) \subseteq server.keys
                      /\ Preloaded(server.maps[id]) \subseteq
                             Wanted(server.maps[id], server.keys)
      BY DEF ClientsGetWhatTheyNeed
  <2>1. server.up
      BY DEF ListFits, Down, NoProperties
  <2> QED
      BY <2>1, WantedAreAllowed, PreloadedAreWanted DEF ListFits
<1> QED
    BY <1>1, InitListFits, NextListFits, PTL DEF Spec
-----------------------------------------------------------------------------
(* The caches of clients, when files change only while the server is down. *)

Kinds == {"map", "map_image", "map_meta", "character_image", "data"}

Clean(key) == key[1] \in Kinds /\ key = <<key[1], Plain(key[2].file)>>

(* What is kept under a revision is what the revision names: this needs no *)
(* server, so that it survives every edit and every restart.               *)
Held(e) ==
    /\ Clean(e[2])
    /\ e[2][1] = "map" =>
          /\ e[2][2].file \in DOMAIN e[1].texts
          /\ cache[e] = [map |-> {e[1].texts[e[2][2].file]}, version |-> 0]
    /\ e[2][1] # "map" =>
          \E v : <<PathOf(e[2]), v>> \in e[1].bytes
                 /\ cache[e] = [map |-> {}, version |-> v]

CachesHold == \A e \in DOMAIN cache : Held(e)

(* The server's list names files, and the server's revision names what is  *)
(* in them, for as long as it runs.                                        *)
ListIsClean ==
    /\ \A k \in server.keys : Clean(k)
    /\ \A k \in server.keys : k[1] = "map" => k[2].file \in DOMAIN server.maps

RevisionFits ==
    server.up =>
        /\ ListIsClean
        /\ DOMAIN server.paths = DOMAIN server.maps
        /\ server.revision = Revision(server.maps, server.paths, server.keys)
        /\ \A id \in DOMAIN server.maps :
              ParseDocument(maps[server.paths[id]]) = {server.maps[id]}

IInv == ListFits /\ CachesHold /\ RevisionFits

(* Two keys of files name the same file only when they are the same key.   *)
LEMMA PathsTellKeysApart ==
    ASSUME NEW k, NEW j, Clean(k), Clean(j), k[1] # "map", j[1] # "map",
           PathOf(k) = PathOf(j)
    PROVE  k = j
<1>1. \A i : Clean(i) /\ i[1] # "map" =>
         PathOf(i) = <<CASE i[1] = "map_image" -> "map_images"
                         [] i[1] = "map_meta" -> "map_atlases"
                         [] i[1] = "character_image" -> "characters"
                         [] OTHER -> "data", i[2].file>>
    BY DEF PathOf, Clean, Kinds
<1>2. k[1] = j[1] /\ k[2].file = j[2].file
    BY <1>1 DEF Clean, Kinds
<1> QED
    BY <1>2 DEF Clean

LEMMA SafeKeysAreClean ==
    ASSUME NEW loaded, NEW k \in AllowedKeys(loaded), SafeKey(k)
    PROVE  Clean(k) /\ (k[1] = "map" => k[2].file \in DOMAIN loaded)
<1>1. ASSUME NEW d, NEW domain, NEW n \in CollectReferencedAssets(d, domain)
      PROVE  n = FileName(n.prefix, n.file, n.rest)
  <2>1. PICK m : n = AssetFileName(m.ref)
      BY <1>1 DEF CollectReferencedAssets
  <2> QED
      BY <2>1 DEF AssetFileName, FileName
<1>2. CASE k \in DataKeys
  <2>1. PICK f : k = <<"data", Plain(f)>>
      BY <1>2 DEF DataKeys
  <2>2. k[1] = "data" /\ k[2] = Plain(f) /\ k[2].file = f
      BY <2>1 DEF Plain, FileName
  <2> QED
      BY <2>1, <2>2 DEF Clean, Kinds
<1>3. CASE \E id \in DOMAIN loaded : k = <<"map", Plain(id)>>
  <2>1. PICK id \in DOMAIN loaded : k = <<"map", Plain(id)>>
      BY <1>3
  <2>2. k[1] = "map" /\ k[2] = Plain(id) /\ k[2].file = id
      BY <2>1 DEF Plain, FileName
  <2> QED
      BY <2>1, <2>2 DEF Clean, Kinds
<1>4. CASE \E kind, d, domain :
              /\ kind \in {"map_image", "map_meta", "character_image"}
              /\ \E n \in CollectReferencedAssets(d, domain) : k = <<kind, n>>
  <2>1. PICK kind, d, domain :
              /\ kind \in {"map_image", "map_meta", "character_image"}
              /\ \E n \in CollectReferencedAssets(d, domain) : k = <<kind, n>>
      BY <1>4
  <2>2. PICK n \in CollectReferencedAssets(d, domain) : k = <<kind, n>>
      BY <2>1
  <2>3. k[1] = kind /\ k[2] = n
      BY <2>2
  <2>4. n = FileName(n.prefix, n.file, n.rest)
      BY <2>2, <1>1
  <2>5. n = Plain(n.file)
      BY <2>3, <2>4 DEF SafeKey, Plain
  <2> QED
      BY <2>1, <2>2, <2>3, <2>5 DEF Clean, Kinds
<1>5. \/ k \in DataKeys
      \/ \E id \in DOMAIN loaded : k = <<"map", Plain(id)>>
      \/ \E kind, d, domain :
              /\ kind \in {"map_image", "map_meta", "character_image"}
              /\ \E n \in CollectReferencedAssets(d, domain) : k = <<kind, n>>
  <2> DEFINE docs == {loaded[id] : id \in DOMAIN loaded}
             mapImages == UNION {CollectReferencedAssets(d, "map") : d \in docs}
  <2>1. CASE k \in {<<"map_image", n>> : n \in mapImages}
      BY <2>1
  <2>2. CASE k \in {<<"map_meta", n>> :
                        n \in {m \in mapImages : <<"map_atlases", m.file>> \in DOMAIN files}}
    <3>1. PICK n \in mapImages : k = <<"map_meta", n>>
        BY <2>2
    <3>2. PICK d \in docs : n \in CollectReferencedAssets(d, "map")
        BY <3>1
    <3> QED
        BY <3>1, <3>2
  <2>3. CASE k \in {<<"character_image", n>> :
                        n \in UNION {CollectReferencedAssets(d, "character") : d \in docs}}
      BY <2>3
  <2> QED
      BY <2>1, <2>2, <2>3 DEF AllowedKeys
<1> QED
    BY <1>2, <1>3, <1>4, <1>5

LEMMA InitIInv == Init => IInv
<1> SUFFICES ASSUME Init PROVE IInv
    OBVIOUS
<1>1. ListFits
    BY InitListFits
<1>2. CachesHold
    BY DEF Init, CachesHold
<1>3. RevisionFits
    BY DEF Init, Down, RevisionFits
<1> QED
    BY <1>1, <1>2, <1>3 DEF IInv

(* An edit, without a server to notice it. *)
LEMMA EditIInv ==
    ASSUME IInv, ~LiveEdits, MayEdit, server' = server, cache' = cache, ListFits'
    PROVE  IInv'
<1>1. ~server'.up
    BY DEF MayEdit
<1>2. RevisionFits'
    BY <1>1 DEF RevisionFits
<1>3. CachesHold'
    BY DEF IInv, CachesHold, Held, Clean, PathOf
<1> QED
    BY <1>2, <1>3 DEF IInv

(* A file is read as one document. *)
LEMMA ReadAsOne ==
    ASSUME NEW file, ParseDocument(file) # {}
    PROVE  ParseDocument(file) = {Loaded(file)}
<1>1. \E doc : ParseDocument(file) = {doc}
    BY DEF ParseDocument, ParseTmxDocument, ParseLegacyDocument
<1> QED
    BY <1>1 DEF Loaded

LEMMA StartIInv == IInv /\ Start => IInv'
<1> SUFFICES ASSUME IInv, Start PROVE IInv'
    OBVIOUS
<1>1. /\ \A f \in DOMAIN maps : ParseDocument(maps[f]) # {}
      /\ UNCHANGED <<maps, files, cache>>
    BY DEF Start
<1>2. PICK paths \in [{IdOf(f) : f \in DOMAIN maps} -> DOMAIN maps] :
          LET loaded == [id \in DOMAIN paths |-> Loaded(maps[paths[id]])]
              keys == AllowedKeys(loaded)
          IN  /\ \A k \in keys : Sound(k, loaded)
              /\ server' = [up |-> TRUE, maps |-> loaded, paths |-> paths, keys |-> keys,
                            revision |-> Revision(loaded, paths, keys)]
    BY DEF Start
<1> DEFINE loaded == [id \in DOMAIN paths |-> Loaded(maps[paths[id]])]
           keys == AllowedKeys(loaded)
<1>3. /\ server'.maps = loaded /\ server'.paths = paths /\ server'.keys = keys
      /\ server'.revision = Revision(loaded, paths, keys)
    BY <1>2
<1>4. DOMAIN loaded = DOMAIN paths
    OBVIOUS
<1>5. \A id \in DOMAIN loaded : ParseDocument(maps[paths[id]]) = {loaded[id]}
  <2> SUFFICES ASSUME NEW id \in DOMAIN loaded
               PROVE  ParseDocument(maps[paths[id]]) = {loaded[id]}
      OBVIOUS
  <2>1. ParseDocument(maps[paths[id]]) # {}
      BY <1>1, <1>2
  <2> QED
      BY <2>1, ReadAsOne
<1>6. \A k \in keys : Clean(k) /\ (k[1] = "map" => k[2].file \in DOMAIN loaded)
    BY <1>2, SafeKeysAreClean DEF Sound
<1> HIDE DEF loaded, keys
<1>7. ListIsClean'
    BY <1>3, <1>6 DEF ListIsClean, Clean
<1>8. Revision(server.maps, server.paths, server.keys)' = Revision(loaded, paths, keys)
    BY <1>1, <1>3 DEF Revision, PathOf
<1>9. RevisionFits'
    BY <1>1, <1>3, <1>4, <1>5, <1>7, <1>8 DEF RevisionFits
<1>10. CachesHold'
    BY <1>1 DEF IInv, CachesHold, Held, Clean, PathOf
<1>11. ListFits'
    BY StartListFits
<1> QED
    BY <1>9, <1>10, <1>11 DEF IInv

(* What the server sends is what its revision names. *)
LEMMA DownloadIInv ==
    ASSUME IInv, NEW key \in server.keys, Download(key)
    PROVE  IInv'
<1>1. PICK e : e = <<server.revision, key>>
    OBVIOUS
<1>2. /\ server.up
      /\ cache' = With(cache, e, Bytes(key, server.paths))
      /\ UNCHANGED <<maps, files, server>>
    BY <1>1 DEF Download
<1>3. ListFits'
    BY <1>2, EditListFits DEF IInv
<1>4. RevisionFits'
  <2>1. ListIsClean' = ListIsClean
      BY <1>2 DEF ListIsClean, Clean
  <2>2. Revision(server.maps, server.paths, server.keys)'
            = Revision(server.maps, server.paths, server.keys)
      BY <1>2 DEF Revision, PathOf
  <2> QED
      BY <1>2, <2>1, <2>2 DEF IInv, RevisionFits
<1>5. Clean(key) /\ (key[1] = "map" => key[2].file \in DOMAIN server.maps)
    BY <1>2 DEF IInv, RevisionFits, ListIsClean
<1>6. /\ server.revision = Revision(server.maps, server.paths, server.keys)
      /\ DOMAIN server.paths = DOMAIN server.maps
    BY <1>2 DEF IInv, RevisionFits
<1>7. DOMAIN cache' = DOMAIN cache \union {e}
      /\ \A f \in DOMAIN cache' :
            cache'[f] = IF f = e THEN Bytes(key, server.paths) ELSE cache[f]
    BY <1>2 DEF With
<1>8. Held(e)'
  <2>1. cache'[e] = Bytes(key, server.paths)
      BY <1>7
  <2>2. CASE key[1] = "map"
    <3>1. server.revision.texts = [id \in DOMAIN server.maps |-> maps[server.paths[id]]]
        BY <1>6 DEF Revision
    <3>2. /\ key[2].file \in DOMAIN server.revision.texts
          /\ server.revision.texts[key[2].file] = maps[server.paths[key[2].file]]
        BY <3>1, <1>5, <2>2
    <3>3. cache'[e] = [map |-> {maps[server.paths[key[2].file]]}, version |-> 0]
        BY <2>1, <2>2 DEF Bytes
    <3> QED
        BY <1>1, <2>2, <3>2, <3>3, <1>5 DEF Held
  <2>3. CASE key[1] # "map"
    <3>1. <<PathOf(key), files[PathOf(key)]>> \in server.revision.bytes
        BY <1>6, <2>3 DEF Revision
    <3>2. cache'[e] = [map |-> {}, version |-> files[PathOf(key)]]
        BY <2>1, <2>3 DEF Bytes
    <3> QED
        BY <1>1, <2>3, <3>1, <3>2, <1>5 DEF Held
  <2> QED
      BY <2>2, <2>3
<1>9. \A f \in DOMAIN cache' \ {e} : Held(f)'
  <2> SUFFICES ASSUME NEW f \in DOMAIN cache' \ {e} PROVE Held(f)'
      OBVIOUS
  <2>1. f \in DOMAIN cache /\ cache'[f] = cache[f]
      BY <1>7
  <2>2. Held(f)
      BY <2>1 DEF IInv, CachesHold
  <2> QED
      BY <2>1, <2>2 DEF Held, Clean, PathOf
<1>20. CachesHold'
    BY <1>8, <1>9 DEF CachesHold
<1> QED
    BY <1>3, <1>4, <1>20 DEF IInv

LEMMA NextIInv ==
    ASSUME ~LiveEdits, IInv, [Next]_vars
    PROVE  IInv'
<1>1. ListFits'
    BY NextListFits DEF IInv
<1>3. ASSUME NEW name, NEW file, SaveMap(name, file) PROVE IInv'
    BY <1>1, <1>3, EditIInv DEF SaveMap
<1>4. ASSUME NEW path, NEW version, SaveFile(path, version) PROVE IInv'
    BY <1>1, <1>4, EditIInv DEF SaveFile
<1>5. CASE Start
    BY <1>5, StartIInv
<1>6. CASE Stop
  <2>1. ~server'.up /\ cache' = cache
      BY <1>6 DEF Stop, Down
  <2>2. RevisionFits' /\ CachesHold'
      BY <2>1 DEF RevisionFits, IInv, CachesHold, Held, Clean, PathOf
  <2> QED
      BY <1>1, <2>2 DEF IInv
<1>7. ASSUME NEW key \in server.keys, Download(key) PROVE IInv'
    BY <1>7, DownloadIInv
<1>8. CASE UNCHANGED vars
  <2>1. server' = server /\ cache' = cache /\ maps' = maps /\ files' = files
      BY <1>8 DEF vars
  <2>2. RevisionFits'
    <3>1. ListIsClean' = ListIsClean
        BY <2>1 DEF ListIsClean, Clean
    <3>2. Revision(server.maps, server.paths, server.keys)'
              = Revision(server.maps, server.paths, server.keys)
        BY <2>1 DEF Revision, PathOf
    <3> QED
        BY <2>1, <3>1, <3>2 DEF IInv, RevisionFits
  <2>3. CachesHold'
      BY <2>1 DEF IInv, CachesHold, Held, Clean, PathOf
  <2> QED
      BY <1>1, <2>2, <2>3 DEF IInv
<1> QED
    BY <1>3, <1>4, <1>5, <1>6, <1>7, <1>8 DEF Next

LEMMA HeldIsCurrent == IInv => CacheIsCurrent
<1> SUFFICES ASSUME IInv, server.up PROVE CacheIsCurrent
    BY DEF CacheIsCurrent
<1>1. /\ ListIsClean
      /\ server.revision = Revision(server.maps, server.paths, server.keys)
      /\ \A id \in DOMAIN server.maps :
            ParseDocument(maps[server.paths[id]]) = {server.maps[id]}
    BY DEF IInv, RevisionFits
<1>2. ASSUME NEW e \in DOMAIN cache, e[1] = server.revision
      PROVE  e[2] \in server.keys /\ cache[e] = Bytes(e[2], server.paths)
  <2>1. Held(e)
      BY DEF IInv, CachesHold
  <2>2. CASE e[2][1] = "map"
    <3>1. e[1].texts = [id \in DOMAIN server.maps |-> maps[server.paths[id]]]
        BY <1>1, <1>2 DEF Revision
    <3>2. /\ e[2][2].file \in DOMAIN server.maps
          /\ cache[e] = [map |-> {maps[server.paths[e[2][2].file]]}, version |-> 0]
        BY <2>1, <2>2, <3>1 DEF Held
    <3>3. e[2] = <<"map", Plain(e[2][2].file)>>
        BY <2>1, <2>2 DEF Held, Clean
    <3>4. e[2] \in AllowedKeys(server.maps)
        BY <3>2, <3>3 DEF AllowedKeys
    <3> QED
        BY <2>2, <3>2, <3>4 DEF Bytes, IInv, ListFits
  <2>3. CASE e[2][1] # "map"
    <3>1. PICK v : <<PathOf(e[2]), v>> \in e[1].bytes
                   /\ cache[e] = [map |-> {}, version |-> v]
        BY <2>1, <2>3 DEF Held
    <3>2. PICK k \in server.keys :
              k[1] # "map" /\ <<PathOf(e[2]), v>> = <<PathOf(k), files[PathOf(k)]>>
        BY <3>1, <1>1, <1>2 DEF Revision
    <3>3. e[2] = k
        BY <3>2, <2>1, <2>3, <1>1, PathsTellKeysApart DEF Held, ListIsClean
    <3> QED
        BY <3>1, <3>2, <3>3, <2>3 DEF Bytes
  <2> QED
      BY <2>2, <2>3
<1> QED
    BY <1>1, <1>2 DEF CacheIsCurrent

(* Where authors change files only while the server is down, a client that *)
(* keeps a file under the server's revision keeps what the server has, for *)
(* any number of edits, restarts and maps.                                 *)
THEOREM CachesStayCurrent ==
    ASSUME ~LiveEdits
    PROVE  Spec => []CacheIsCurrent
<1>1. IInv /\ [Next]_vars => IInv'
    BY NextIInv
<1> QED
    BY <1>1, InitIInv, HeldIsCurrent, PTL DEF Spec
-----------------------------------------------------------------------------
(* What is read of a text of the old format.                               *)

(* The strings: the provers do not know of a literal that it is one. *)
Names == STRING \union {"", "map", "character", "image", "96", White, "1"}

Tables(S) == UNION {[D -> S] : D \in SUBSET Names}
Aliases == Tables([domain : Names, file : Names])
Bounds == [x : Int, y : Int, w : Int, h : Int]
References == [prefix : Names, file : Names, area : SUBSET Bounds]
LayerTypes ==
    [name : Names, asset : SUBSET References, kind : Names, tint : Names, parallax : Names]
StampTypes == [layer : Names, x : Int, y : Int, asset : References]
ObjectTypes ==
    [kind : Names, id : Names, bounds : Bounds, sprite : SUBSET References,
     properties : Tables(Names)]
Documents ==
    [mapId : Names, worldName : Names, tileSize : Int, width : Int, height : Int,
     spawn : Names \X Names, properties : Tables(Names),
     playerSprites : Tables(References), layers : Seq(LayerTypes), stamps : Seq(StampTypes),
     objects : Seq(ObjectTypes)]
Readers == [doc : Documents, assets : Aliases, hasFormat : BOOLEAN, ok : BOOLEAN]

(* An object has a size and blocks in a way that is known. *)
Placeable(o) ==
    /\ o.bounds.w >= 0 /\ o.bounds.h >= 0
    /\ "collision" \in DOMAIN o.properties => o.properties["collision"] \in Collisions

ObjectsSound(objects) ==
    /\ \A i \in DOMAIN objects : Placeable(objects[i])
    /\ \A i, j \in DOMAIN objects : objects[i].id = objects[j].id => i = j

Sane(r) == r \in Readers /\ ObjectsSound(r.doc.objects)

LEMMA WithIsTable ==
    ASSUME NEW S, NEW f \in Tables(S), NEW key \in Names, NEW value \in S
    PROVE  With(f, key, value) \in Tables(S)
<1>1. PICK D \in SUBSET Names : f \in [D -> S]
    BY DEF Tables
<1>2. With(f, key, value) \in [D \union {key} -> S]
    BY <1>1 DEF With
<1> QED
    BY <1>1, <1>2 DEF Tables

LEMMA TableGives ==
    ASSUME NEW S, NEW f \in Tables(S), NEW key \in DOMAIN f
    PROVE  f[key] \in S
<1>1. PICK D \in SUBSET Names : f \in [D -> S]
    BY DEF Tables
<1> QED
    BY <1>1

LEMMA NoTable ==
    ASSUME NEW S
    PROVE  NoProperties \in Tables(S)
<1>1. NoProperties \in [{} -> S]
    BY DEF NoProperties
<1> QED
    BY <1>1 DEF Tables

(* A reference that is resolved is a reference. *)
LEMMA ResolvedAreRefs ==
    ASSUME NEW ref \in References, NEW fallback \in Domains, NEW assets \in Aliases
    PROVE  ResolveAssetRef(ref, fallback, assets) \subseteq References
<1>1. ASSUME ref.file \in DOMAIN assets
      PROVE  [prefix |-> assets[ref.file].domain, file |-> assets[ref.file].file,
              area |-> ref.area] \in References
  <2>1. assets[ref.file] \in [domain : Names, file : Names]
      BY <1>1, TableGives DEF Aliases
  <2> QED
      BY <2>1 DEF References
<1>2. [ref EXCEPT !.prefix = fallback] \in References
  <2>1. fallback \in Names
      BY DEF Domains, Names
  <2> QED
      BY <2>1 DEF References
<1> QED
    BY <1>1, <1>2 DEF ResolveAssetRef

LEMMA FailIsSane ==
    ASSUME NEW r, Sane(r)
    PROVE  Sane(Fail(r))
BY DEF Fail, Sane, Readers

(* Stamps change nothing but the stamps. *)
LEMMA StampedIsSane ==
    ASSUME NEW r, Sane(r), NEW layer \in Names, NEW ref \in References,
           NEW cells \in Seq(Int \X Int)
    PROVE  Sane(AppendTiles(r, layer, cells, ref))
<1> DEFINE new == [i \in DOMAIN cells |->
                      [layer |-> layer, x |-> cells[i][1], y |-> cells[i][2], asset |-> ref]]
<1>1. r.doc \in Documents /\ r \in Readers
    BY DEF Sane, Readers
<1>2. new \in Seq(StampTypes)
  <2>1. \A i \in 1..Len(cells) : cells[i] \in Int \X Int
      OBVIOUS
  <2>2. \A i \in 1..Len(cells) : cells[i][1] \in Int /\ cells[i][2] \in Int
      BY <2>1
  <2>3. new \in [1..Len(cells) -> StampTypes]
      BY <2>2 DEF StampTypes
  <2> QED
      BY <2>3
<1> HIDE DEF new
<1>3. r.doc.stamps \in Seq(StampTypes)
    BY <1>1 DEF Documents
<1>4. r.doc.stamps \o new \in Seq(StampTypes)
    BY <1>2, <1>3
<1>5. [r EXCEPT !.doc.stamps = @ \o new] \in Readers
    BY <1>1, <1>4 DEF Readers, Documents
<1>6. [r EXCEPT !.doc.stamps = @ \o new].doc.objects = r.doc.objects
    BY <1>1 DEF Readers, Documents
<1>7. Sane([r EXCEPT !.doc.stamps = @ \o new])
    BY <1>5, <1>6 DEF Sane
<1> QED
    BY <1>7 DEF AppendTiles, new

LEMMA RefsAreReferences == Refs \subseteq References /\ STRING \subseteq Names
<1>1. STRING \subseteq Names
    BY DEF Names
<1> QED
    BY <1>1 DEF Refs, References, Bounds

LEMMA SomeReference ==
    ASSUME NEW ref \in SUBSET References, ref # {}
    PROVE  (CHOOSE x \in ref : TRUE) \in References
OBVIOUS

LEMMA BlocksAreCells ==
    ASSUME NEW x \in Int, NEW y \in Int, NEW w \in Nat \ {0}, NEW h \in Nat \ {0}
    PROVE  Block(x, y, w, h) \in Seq(Int \X Int)
<1>1. w * h \in Nat
    OBVIOUS
<1>2. \A i \in Int : i % w \in Int /\ i \div w \in Int
    OBVIOUS
<1>3. \A i \in 1 .. w * h : <<x + ((i - 1) % w), y + ((i - 1) \div w)>> \in Int \X Int
  <2> SUFFICES ASSUME NEW i \in 1 .. w * h
               PROVE  <<x + ((i - 1) % w), y + ((i - 1) \div w)>> \in Int \X Int
      OBVIOUS
  <2>1. i - 1 \in Int
      BY <1>1
  <2>2. (i - 1) % w \in Int /\ (i - 1) \div w \in Int
      BY <1>2, <2>1
  <2> QED
      BY <2>2
<1> DEFINE n == w * h
           cell(i) == <<x + ((i - 1) % w), y + ((i - 1) \div w)>>
<1>4. n \in Nat /\ \A i \in 1 .. n : cell(i) \in Int \X Int
    BY <1>1, <1>3
<1>5. Block(x, y, w, h) = [i \in 1 .. n |-> cell(i)]
    BY DEF Block
<1> HIDE DEF n, cell
<1> QED
    BY <1>4, <1>5

(* Parts of the document that are set to a value. *)
LEMMA SettingIsSane ==
    ASSUME NEW r, Sane(r)
    PROVE  /\ \A v \in Names : Sane([r EXCEPT !.doc.mapId = v])
           /\ \A v \in Names : Sane([r EXCEPT !.doc.worldName = v])
           /\ \A v \in Int : Sane([r EXCEPT !.doc.tileSize = v])
           /\ \A v, w \in Int : Sane([r EXCEPT !.doc.width = v, !.doc.height = w])
           /\ \A v, w \in Names : Sane([r EXCEPT !.doc.spawn = <<v, w>>])
           /\ \A v \in Tables(Names) : Sane([r EXCEPT !.doc.properties = v])
           /\ \A v \in Tables(References) : Sane([r EXCEPT !.doc.playerSprites = v])
           /\ \A v \in Seq(LayerTypes) : Sane([r EXCEPT !.doc.layers = v])
           /\ \A v \in Aliases : Sane([r EXCEPT !.assets = v])
           /\ Sane([r EXCEPT !.hasFormat = TRUE])
<1>1. r \in Readers /\ r.doc \in Documents /\ ObjectsSound(r.doc.objects)
    BY DEF Sane, Readers
<1>2. ASSUME NEW v \in Names
      PROVE  Sane([r EXCEPT !.doc.mapId = v]) /\ Sane([r EXCEPT !.doc.worldName = v])
    BY <1>1 DEF Sane, Readers, Documents
<1>3. ASSUME NEW v \in Int
      PROVE  Sane([r EXCEPT !.doc.tileSize = v])
    BY <1>1 DEF Sane, Readers, Documents
<1>4. ASSUME NEW v \in Int, NEW w \in Int
      PROVE  Sane([r EXCEPT !.doc.width = v, !.doc.height = w])
    BY <1>1 DEF Sane, Readers, Documents
<1>5. ASSUME NEW v \in Names, NEW w \in Names
      PROVE  Sane([r EXCEPT !.doc.spawn = <<v, w>>])
    BY <1>1 DEF Sane, Readers, Documents
<1>6. ASSUME NEW v \in Tables(Names)
      PROVE  Sane([r EXCEPT !.doc.properties = v])
    BY <1>1 DEF Sane, Readers, Documents
<1>7. ASSUME NEW v \in Tables(References)
      PROVE  Sane([r EXCEPT !.doc.playerSprites = v])
    BY <1>1 DEF Sane, Readers, Documents
<1>8. ASSUME NEW v \in Seq(LayerTypes)
      PROVE  Sane([r EXCEPT !.doc.layers = v])
    BY <1>1 DEF Sane, Readers, Documents
<1>9. (\A v \in Aliases : Sane([r EXCEPT !.assets = v])) /\ Sane([r EXCEPT !.hasFormat = TRUE])
    BY <1>1 DEF Sane, Readers
<1> QED
    BY <1>2, <1>3, <1>4, <1>5, <1>6, <1>7, <1>8, <1>9

LEMMA PropertyLineIsSane ==
    ASSUME NEW r, Sane(r), NEW line, line.name \in STRING, line.value \in STRING
    PROVE  Sane(ReadProperty(r, line))
<1>1. line.name \in Names /\ line.value \in Names
    BY RefsAreReferences
<1>2. r.doc.properties \in Tables(Names)
    BY DEF Sane, Readers, Documents
<1>3. With(r.doc.properties, line.name, line.value) \in Tables(Names)
    BY <1>1, <1>2, WithIsTable
<1> QED
    BY <1>3, SettingIsSane DEF ReadProperty

LEMMA PlayerSpriteLineIsSane ==
    ASSUME NEW r, Sane(r), NEW line, line.facing \in STRING, line.ref \in Refs
    PROVE  Sane(ReadPlayerSprite(r, line))
<1> DEFINE ref == ResolveAssetRef(line.ref, "character", r.assets)
<1>1. r.assets \in Aliases /\ r.doc.playerSprites \in Tables(References)
    BY DEF Sane, Readers, Documents
<1>2. ref \subseteq References
    BY <1>1, ResolvedAreRefs, RefsAreReferences DEF Domains
<1>3. ASSUME ref # {}
      PROVE  With(r.doc.playerSprites, line.facing, CHOOSE x \in ref : TRUE) \in Tables(References)
  <2>1. (CHOOSE x \in ref : TRUE) \in References
      BY <1>2, <1>3, SomeReference
  <2> HIDE DEF ref
  <2> QED
      BY <1>1, <2>1, WithIsTable, RefsAreReferences
<1> DEFINE read == [r EXCEPT !.doc.playerSprites = With(@, line.facing, CHOOSE x \in ref : TRUE)]
<1>4. ref # {} => Sane(read)
    BY <1>3, SettingIsSane
<1>5. ReadPlayerSprite(r, line) = IF ref = {} THEN Fail(r) ELSE read
    BY DEF ReadPlayerSprite
<1> HIDE DEF ref, read
<1> QED
    BY <1>4, <1>5, FailIsSane

LEMMA AssetLineIsSane ==
    ASSUME NEW r, Sane(r), NEW line,
           line.alias \in STRING, line.domain \in STRING, line.file \in STRING
    PROVE  Sane(ReadAsset(r, line))
<1> DEFINE S == [domain : Names, file : Names]
           value == [domain |-> line.domain, file |-> line.file]
<1>1. r.assets \in Tables(S)
    BY DEF Sane, Readers, Aliases
<1>2. value \in S /\ line.alias \in Names
    BY RefsAreReferences
<1> HIDE DEF S, value
<1>3. With(r.assets, line.alias, value) \in Tables(S)
    BY <1>1, <1>2, WithIsTable
<1>4. With(r.assets, line.alias, value) \in Aliases
    BY <1>3 DEF Aliases, S
<1>5. Sane([r EXCEPT !.assets = With(@, line.alias, value)])
    BY <1>4, SettingIsSane
<1> QED
    BY <1>5, FailIsSane DEF ReadAsset, value

LEMMA LayerLineIsSane ==
    ASSUME NEW r, Sane(r), NEW line,
           line.name \in STRING, line.kind \in STRING, line.asset \in SUBSET Refs,
           line.tint \in SUBSET STRING, line.parallax \in SUBSET STRING
    PROVE  Sane(ReadLayer(r, line))
<1> DEFINE ref == UNION {ResolveAssetRef(a, "map", r.assets) : a \in line.asset}
           layer == [name |-> line.name, asset |-> ref,
                     kind |-> IF ref # {} THEN "image" ELSE line.kind,
                     tint |-> Given(line.tint, White), parallax |-> Given(line.parallax, "1")]
<1>1. r.assets \in Aliases /\ r.doc.layers \in Seq(LayerTypes)
    BY DEF Sane, Readers, Documents
<1>2. ref \subseteq References
  <2>1. \A a \in line.asset : ResolveAssetRef(a, "map", r.assets) \subseteq References
      BY <1>1, ResolvedAreRefs, RefsAreReferences DEF Domains
  <2> QED
      BY <2>1
<1> HIDE DEF ref
<1>3. layer \in LayerTypes
  <2>1. line.name \in Names /\ line.kind \in Names /\ "image" \in Names
      BY RefsAreReferences DEF Names
  <2>2. (IF ref # {} THEN "image" ELSE line.kind) \in Names
      BY <2>1
  <2>3. Given(line.tint, White) \in Names /\ Given(line.parallax, "1") \in Names
      BY RefsAreReferences DEF Given, Names
  <2> QED
      BY <2>1, <2>2, <2>3, <1>2 DEF LayerTypes
<1> HIDE DEF layer
<1>4. Append(r.doc.layers, layer) \in Seq(LayerTypes)
    BY <1>1, <1>3
<1>5. Sane([r EXCEPT !.doc.layers = Append(@, layer)])
    BY <1>4, SettingIsSane
<1>6. ReadLayer(r, line) = IF (line.asset # {} /\ ref = {}) \/ ~(line.parallax \subseteq Numerals)
                           THEN Fail(r) ELSE [r EXCEPT !.doc.layers = Append(@, layer)]
    BY DEF ReadLayer, ref, layer
<1> QED
    BY <1>5, <1>6, FailIsSane

(* What the four kinds of lines that place stamps have in common. *)
LEMMA PlacingIsSane ==
    ASSUME NEW r, Sane(r), NEW line, line.layer \in STRING, line.ref \in Refs,
           NEW cells \in Seq(Int \X Int),
           ResolveAssetRef(line.ref, "map", r.assets) # {}
    PROVE  Sane(AppendTiles(r, line.layer, cells,
                            CHOOSE x \in ResolveAssetRef(line.ref, "map", r.assets) : TRUE))
<1> DEFINE ref == ResolveAssetRef(line.ref, "map", r.assets)
<1>1. r.assets \in Aliases /\ line.layer \in Names
    BY RefsAreReferences DEF Sane, Readers
<1>2. ref \subseteq References
    BY <1>1, ResolvedAreRefs, RefsAreReferences DEF Domains
<1>3. (CHOOSE x \in ref : TRUE) \in References
    BY <1>2, SomeReference
<1> QED
    BY <1>1, <1>3, StampedIsSane

LEMMA TileLineIsSane ==
    ASSUME NEW r, Sane(r), NEW line, line.layer \in STRING, line.ref \in Refs,
           line.x \in Int, line.y \in Int
    PROVE  Sane(ReadTile(r, line))
<1>1. <<<<line.x, line.y>>>> \in Seq(Int \X Int)
    OBVIOUS
<1> QED
    BY <1>1, PlacingIsSane, FailIsSane DEF ReadTile

LEMMA TilesLineIsSane ==
    ASSUME NEW r, Sane(r), NEW line, line.layer \in STRING, line.ref \in Refs,
           line.cells \in Seq(Int \X Int)
    PROVE  Sane(ReadTiles(r, line))
BY PlacingIsSane, FailIsSane DEF ReadTiles

LEMMA FillLineIsSane ==
    ASSUME NEW r, Sane(r), NEW line, line.layer \in STRING, line.ref \in Refs,
           line.x \in Int, line.y \in Int, line.w \in Int, line.h \in Int
    PROVE  Sane(ReadFill(r, line))
<1> DEFINE block == Block(line.x, line.y, line.w, line.h)
<1>1. ASSUME line.w > 0, line.h > 0 PROVE block \in Seq(Int \X Int)
  <2>1. line.w \in Nat \ {0} /\ line.h \in Nat \ {0}
      BY <1>1
  <2> QED
      BY <2>1, BlocksAreCells
<1> HIDE DEF block
<1>2. ReadFill(r, line) =
         IF ResolveAssetRef(line.ref, "map", r.assets) = {} \/ line.w <= 0 \/ line.h <= 0
         THEN Fail(r)
         ELSE AppendTiles(r, line.layer, block,
                          CHOOSE x \in ResolveAssetRef(line.ref, "map", r.assets) : TRUE)
    BY DEF ReadFill, block
<1>3. line.w <= 0 \/ line.h <= 0 \/ block \in Seq(Int \X Int)
    BY <1>1
<1> QED
    BY <1>2, <1>3, PlacingIsSane, FailIsSane

LEMMA LineLineIsSane ==
    ASSUME NEW r, Sane(r), NEW line, line.layer \in STRING, line.ref \in Refs,
           line.x \in Int, line.y \in Int, line.x2 \in Int, line.y2 \in Int
    PROVE  Sane(ReadLine(r, line))
<1> DEFINE block == Block(LeastOf(line.x, line.x2), LeastOf(line.y, line.y2),
                          Distance(line.x, line.x2) + 1, Distance(line.y, line.y2) + 1)
<1>1. \A a, b \in Int : LeastOf(a, b) \in Int /\ Distance(a, b) + 1 \in Nat \ {0}
    BY DEF LeastOf, Distance
<1>2. block \in Seq(Int \X Int)
    BY <1>1, BlocksAreCells
<1> HIDE DEF block
<1>3. ReadLine(r, line) =
         IF ResolveAssetRef(line.ref, "map", r.assets) = {}
               \/ (line.x # line.x2 /\ line.y # line.y2) THEN Fail(r)
         ELSE AppendTiles(r, line.layer, block,
                          CHOOSE x \in ResolveAssetRef(line.ref, "map", r.assets) : TRUE)
    BY DEF ReadLine, block
<1> QED
    BY <1>2, <1>3, PlacingIsSane, FailIsSane

(* New objects, as long as they are sound.                                 *)
LEMMA ObjectsAreSane ==
    ASSUME NEW r, Sane(r), NEW objects \in Seq(ObjectTypes), ObjectsSound(objects)
    PROVE  Sane([r EXCEPT !.doc.objects = objects])
<1>1. r \in Readers /\ r.doc \in Documents
    BY DEF Sane, Readers
<1>2. [r EXCEPT !.doc.objects = objects] \in Readers
    BY <1>1 DEF Readers, Documents
<1>3. [r EXCEPT !.doc.objects = objects].doc.objects = objects
    BY <1>1 DEF Readers, Documents
<1> QED
    BY <1>2, <1>3 DEF Sane

LEMMA EntityLineIsSane ==
    ASSUME NEW r, Sane(r), NEW line, line.kind \in STRING, line.id \in STRING,
           line.bounds \in Bounds
    PROVE  Sane(ReadEntity(r, line))
<1> DEFINE new == [kind |-> line.kind, id |-> line.id, bounds |-> line.bounds,
                   sprite |-> {}, properties |-> NoProperties]
           old == r.doc.objects
<1>1. old \in Seq(ObjectTypes) /\ ObjectsSound(old)
    BY DEF Sane, Readers, Documents
<1>2. new \in ObjectTypes
  <2>1. line.kind \in Names /\ line.id \in Names /\ NoProperties \in Tables(Names)
      BY RefsAreReferences, NoTable
  <2> QED
      BY <2>1 DEF ObjectTypes
<1>3. Append(old, new) \in Seq(ObjectTypes)
    BY <1>1, <1>2
<1>4. ASSUME line.bounds.w >= 0, line.bounds.h >= 0, ~HasObject(r.doc, line.id)
      PROVE  ObjectsSound(Append(old, new))
  <2>1. Placeable(new)
    <3>1. DOMAIN new.properties = {} /\ new.bounds = line.bounds
        BY DEF NoProperties
    <3> QED
        BY <3>1, <1>4 DEF Placeable
  <2>2. \A i \in DOMAIN old : old[i].id # new.id
      BY <1>4 DEF HasObject
  <2> HIDE DEF new, old
  <2>3. DOMAIN old = 1 .. Len(old) /\ Len(old) \in Nat
      BY <1>1
  <2>4. /\ DOMAIN Append(old, new) = 1 .. Len(old) + 1
        /\ \A i \in 1 .. Len(old) : Append(old, new)[i] = old[i]
        /\ Append(old, new)[Len(old) + 1] = new
      BY <1>1, <1>2
  <2>5. \A i \in 1 .. Len(old) + 1 : i \in 1 .. Len(old) \/ i = Len(old) + 1
      BY <2>3
  <2>6. \A i \in DOMAIN Append(old, new) : Placeable(Append(old, new)[i])
      BY <2>1, <2>3, <2>4, <2>5, <1>1 DEF ObjectsSound
  <2>7. ASSUME NEW i \in DOMAIN Append(old, new), NEW j \in DOMAIN Append(old, new),
               Append(old, new)[i].id = Append(old, new)[j].id
        PROVE  i = j
    <3>1. i \in 1 .. Len(old) \/ i = Len(old) + 1
        BY <2>4, <2>5
    <3>2. j \in 1 .. Len(old) \/ j = Len(old) + 1
        BY <2>4, <2>5
    <3> QED
        BY <3>1, <3>2, <2>2, <2>3, <2>4, <2>7, <1>1 DEF ObjectsSound
  <2> QED
      BY <2>6, <2>7 DEF ObjectsSound
<1>5. ReadEntity(r, line) =
         IF line.bounds.w < 0 \/ line.bounds.h < 0 \/ HasObject(r.doc, line.id) THEN Fail(r)
         ELSE [r EXCEPT !.doc.objects = Append(old, new)]
    BY DEF ReadEntity
<1>6. line.bounds.w \in Int /\ line.bounds.h \in Int
    BY DEF Bounds
<1> HIDE DEF new, old
<1>7. ASSUME ~(line.bounds.w < 0 \/ line.bounds.h < 0 \/ HasObject(r.doc, line.id))
      PROVE  Sane([r EXCEPT !.doc.objects = Append(old, new)])
  <2>1. ObjectsSound(Append(old, new))
      BY <1>4, <1>6, <1>7
  <2> QED
      BY <1>3, <2>1, ObjectsAreSane
<1> QED
    BY <1>5, <1>7, FailIsSane

(* The objects of one id changed, each to a sound one of that id.          *)
LEMMA ChangedObjectsAreSane ==
    ASSUME NEW r, Sane(r), NEW objects,
           DOMAIN objects = DOMAIN r.doc.objects,
           objects = [i \in DOMAIN objects |-> objects[i]],
           \A i \in DOMAIN objects :
              /\ objects[i] \in ObjectTypes
              /\ Placeable(objects[i])
              /\ objects[i].id = r.doc.objects[i].id
    PROVE  Sane([r EXCEPT !.doc.objects = objects])
<1>1. r.doc.objects \in Seq(ObjectTypes) /\ ObjectsSound(r.doc.objects)
    BY DEF Sane, Readers, Documents
<1>2. DOMAIN objects = 1 .. Len(r.doc.objects) /\ Len(r.doc.objects) \in Nat
    BY <1>1
<1>3. objects \in [1 .. Len(r.doc.objects) -> ObjectTypes]
    BY <1>2, Zenon
<1>4. objects \in Seq(ObjectTypes)
    BY <1>2, <1>3
<1>5. ObjectsSound(objects)
    BY <1>1 DEF ObjectsSound
<1> QED
    BY <1>4, <1>5, ObjectsAreSane

LEMMA SpriteLineIsSane ==
    ASSUME NEW r, Sane(r), NEW line, line.id \in STRING, line.ref \in Refs
    PROVE  Sane(ReadSprite(r, line))
<1> DEFINE ref == ResolveAssetRef(line.ref, "map", r.assets)
           old == r.doc.objects
           objects == [i \in DOMAIN old |->
                          IF old[i].id = line.id THEN [old[i] EXCEPT !.sprite = ref] ELSE old[i]]
<1>1. r.assets \in Aliases /\ old \in Seq(ObjectTypes) /\ ObjectsSound(old)
    BY DEF Sane, Readers, Documents
<1>2. ref \subseteq References
    BY <1>1, ResolvedAreRefs, RefsAreReferences DEF Domains
<1> HIDE DEF ref
<1>3. ASSUME NEW i \in DOMAIN old
      PROVE  /\ objects[i] \in ObjectTypes
             /\ Placeable(objects[i])
             /\ objects[i].id = old[i].id
  <2>1. old[i] \in ObjectTypes /\ Placeable(old[i])
      BY <1>1 DEF ObjectsSound
  <2> DEFINE new == [old[i] EXCEPT !.sprite = ref]
  <2>2. /\ new \in ObjectTypes
        /\ new.bounds = old[i].bounds /\ new.properties = old[i].properties
        /\ new.id = old[i].id
      BY <1>2, <2>1 DEF ObjectTypes
  <2>3. Placeable(new)
      BY <2>1, <2>2 DEF Placeable
  <2> QED
      BY <2>1, <2>2, <2>3
<1>4. Sane([r EXCEPT !.doc.objects = objects])
  <2>1. DOMAIN objects = DOMAIN r.doc.objects /\ objects = [i \in DOMAIN objects |-> objects[i]]
      OBVIOUS
  <2>2. \A i \in DOMAIN objects :
           /\ objects[i] \in ObjectTypes
           /\ Placeable(objects[i])
           /\ objects[i].id = r.doc.objects[i].id
      BY <1>3
  <2> HIDE DEF objects
  <2> QED
      BY <2>1, <2>2, ChangedObjectsAreSane
<1>5. ReadSprite(r, line) = IF ref = {} \/ ~HasObject(r.doc, line.id) THEN Fail(r)
                            ELSE [r EXCEPT !.doc.objects = objects]
    BY DEF ReadSprite, OnObject, ref
<1> QED
    BY <1>4, <1>5, FailIsSane

LEMMA PropLineIsSane ==
    ASSUME NEW r, Sane(r), NEW line,
           line.id \in STRING, line.name \in STRING, line.value \in STRING
    PROVE  Sane(ReadProp(r, line))
<1> DEFINE old == r.doc.objects
           told(o) == [o EXCEPT !.properties = With(@, line.name, line.value)]
           objects == [i \in DOMAIN old |-> IF old[i].id = line.id THEN told(old[i]) ELSE old[i]]
<1>1. old \in Seq(ObjectTypes) /\ ObjectsSound(old)
    BY DEF Sane, Readers, Documents
<1>2. ASSUME line.name = "collision" => line.value \in Collisions,
             NEW i \in DOMAIN old
      PROVE  /\ objects[i] \in ObjectTypes
             /\ Placeable(objects[i])
             /\ objects[i].id = old[i].id
  <2>1. old[i] \in ObjectTypes /\ Placeable(old[i])
      BY <1>1 DEF ObjectsSound
  <2> DEFINE properties == With(old[i].properties, line.name, line.value)
             new == [old[i] EXCEPT !.properties = properties]
  <2>2. properties \in Tables(Names)
      BY <2>1, WithIsTable, RefsAreReferences DEF ObjectTypes
  <2>3. "collision" \in DOMAIN properties => properties["collision"] \in Collisions
      BY <1>2, <2>1 DEF With, Placeable
  <2> HIDE DEF properties
  <2>4. /\ new \in ObjectTypes
        /\ new.bounds = old[i].bounds /\ new.properties = properties
        /\ new.id = old[i].id
      BY <2>1, <2>2 DEF ObjectTypes
  <2>5. Placeable(new)
      BY <2>1, <2>3, <2>4 DEF Placeable
  <2>6. objects[i] = IF old[i].id = line.id THEN new ELSE old[i]
      BY DEF properties
  <2> HIDE DEF objects, new
  <2> QED
      BY <2>1, <2>4, <2>5, <2>6
<1>3. ASSUME line.name = "collision" => line.value \in Collisions
      PROVE  Sane([r EXCEPT !.doc.objects = objects])
  <2>1. DOMAIN objects = DOMAIN r.doc.objects /\ objects = [i \in DOMAIN objects |-> objects[i]]
      OBVIOUS
  <2>2. \A i \in DOMAIN objects :
           /\ objects[i] \in ObjectTypes
           /\ Placeable(objects[i])
           /\ objects[i].id = r.doc.objects[i].id
      BY <1>2, <1>3
  <2> HIDE DEF objects
  <2> QED
      BY <2>1, <2>2, ChangedObjectsAreSane
<1>4. ReadProp(r, line) =
         IF ~HasObject(r.doc, line.id) \/ (line.name = "collision" /\ line.value \notin Collisions)
         THEN Fail(r) ELSE [r EXCEPT !.doc.objects = objects]
    BY DEF ReadProp, OnObject
<1> HIDE DEF objects
<1> QED
    BY <1>3, <1>4, FailIsSane

(* A line of any form.                                                     *)
LEMMA LineIsSane ==
    ASSUME NEW r, Sane(r), NEW line \in LineForms
    PROVE  Sane(Read(r, line))
<1> SUFFICES ASSUME r.ok PROVE Sane(Read(r, line))
    BY DEF Read
<1>1. Sane(Fail(r))
    BY FailIsSane
<1>2. CASE line \in [key : {"comment"}]
  <2>1. line.key = "comment"
      BY <1>2
  <2>2. Read(r, line) = r
      BY <2>1 DEF Read
  <2> QED
      BY <2>2
<1>3. CASE line \in [key : {"map_format"}, version : Int]
  <2>1. line.key = "map_format"
      BY <1>3
  <2>2. Read(r, line) = ReadFormat(r, line)
      BY <2>1 DEF Read
  <2>3. Sane([r EXCEPT !.hasFormat = TRUE])
      BY SettingIsSane, Zenon
  <2> QED
      BY <1>1, <2>2, <2>3 DEF ReadFormat
<1>4. CASE line \in [key : {"map_id", "world_name"}, value : STRING]
  <2>1. line.key \in {"map_id", "world_name"} /\ line.value \in Names
      BY <1>4, RefsAreReferences
  <2>2. Read(r, line) = IF line.key = "map_id" THEN [r EXCEPT !.doc.mapId = line.value]
                        ELSE [r EXCEPT !.doc.worldName = line.value]
      BY <2>1 DEF Read
  <2>3. Sane([r EXCEPT !.doc.mapId = line.value])
      BY <2>1, SettingIsSane, Zenon
  <2>4. Sane([r EXCEPT !.doc.worldName = line.value])
      BY <2>1, SettingIsSane, Zenon
  <2> QED
      BY <2>2, <2>3, <2>4
<1>5. CASE line \in [key : {"tile_size"}, size : Int]
  <2>1. line.key = "tile_size" /\ line.size \in Int
      BY <1>5
  <2>2. Read(r, line) = ReadTileSize(r, line)
      BY <2>1 DEF Read
  <2>3. Sane([r EXCEPT !.doc.tileSize = line.size])
      BY <2>1, SettingIsSane, Zenon
  <2> QED
      BY <1>1, <2>2, <2>3 DEF ReadTileSize
<1>6. CASE line \in [key : {"size"}, width : Int, height : Int]
  <2>1. line.key = "size" /\ line.width \in Int /\ line.height \in Int
      BY <1>6
  <2>2. Read(r, line) = ReadSize(r, line)
      BY <2>1 DEF Read
  <2>3. Sane([r EXCEPT !.doc.width = line.width, !.doc.height = line.height])
      BY <2>1, SettingIsSane, Zenon
  <2> QED
      BY <1>1, <2>2, <2>3 DEF ReadSize
<1>7. CASE line \in [key : {"spawn"}, x : STRING, y : STRING]
  <2>1. line.key = "spawn" /\ line.x \in STRING /\ line.y \in STRING
      BY <1>7
  <2>2. Read(r, line) = ReadSpawn(r, line)
      BY <2>1 DEF Read
  <2>3. Sane([r EXCEPT !.doc.spawn = <<line.x, line.y>>])
    <3>1. line.x \in Names /\ line.y \in Names
        BY <2>1, RefsAreReferences
    <3> QED
        BY <3>1, SettingIsSane, Zenon
  <2> QED
      BY <1>1, <2>2, <2>3 DEF ReadSpawn
<1>8. CASE line \in [key : {"property"}, name : STRING, value : STRING]
  <2>1. line.key = "property" /\ line.name \in STRING /\ line.value \in STRING
      BY <1>8
  <2>2. Read(r, line) = ReadProperty(r, line)
      BY <2>1 DEF Read
  <2> QED
      BY <2>1, <2>2, PropertyLineIsSane
<1>9. CASE line \in [key : {"player_sprite"}, facing : STRING, ref : Refs]
  <2>1. line.key = "player_sprite" /\ line.facing \in STRING /\ line.ref \in Refs
      BY <1>9
  <2>2. Read(r, line) = ReadPlayerSprite(r, line)
      BY <2>1 DEF Read
  <2> QED
      BY <2>1, <2>2, PlayerSpriteLineIsSane
<1>10. CASE line \in [key : {"asset"}, alias : STRING, domain : STRING, file : STRING]
  <2>1. line.key = "asset" /\ line.alias \in STRING /\ line.domain \in STRING /\ line.file \in STRING
      BY <1>10
  <2>2. Read(r, line) = ReadAsset(r, line)
      BY <2>1 DEF Read
  <2> QED
      BY <2>1, <2>2, AssetLineIsSane
<1>11. CASE line \in [key : {"layer"}, name : STRING, kind : STRING, asset : SUBSET Refs,
                       tint : SUBSET STRING, parallax : SUBSET STRING]
  <2>1. /\ line.key = "layer" /\ line.name \in STRING /\ line.kind \in STRING
        /\ line.asset \in SUBSET Refs
        /\ line.tint \in SUBSET STRING /\ line.parallax \in SUBSET STRING
      BY <1>11
  <2>2. Read(r, line) = ReadLayer(r, line)
      BY <2>1 DEF Read
  <2> QED
      BY <2>1, <2>2, LayerLineIsSane
<1>12. CASE line \in [key : {"tile"}, layer : STRING, x : Int, y : Int, ref : Refs]
  <2>1. line.key = "tile" /\ line.layer \in STRING /\ line.ref \in Refs
               /\ line.x \in Int /\ line.y \in Int
      BY <1>12
  <2>2. Read(r, line) = ReadTile(r, line)
      BY <2>1 DEF Read
  <2> QED
      BY <2>1, <2>2, TileLineIsSane
<1>13. CASE line \in [key : {"line"}, layer : STRING, x : Int, y : Int, x2 : Int, y2 : Int, ref : Refs]
  <2>1. line.key = "line" /\ line.layer \in STRING /\ line.ref \in Refs
               /\ line.x \in Int /\ line.y \in Int /\ line.x2 \in Int /\ line.y2 \in Int
      BY <1>13
  <2>2. Read(r, line) = ReadLine(r, line)
      BY <2>1 DEF Read
  <2> QED
      BY <2>1, <2>2, LineLineIsSane
<1>14. CASE line \in [key : {"fill"}, layer : STRING, x : Int, y : Int, w : Int, h : Int, ref : Refs]
  <2>1. line.key = "fill" /\ line.layer \in STRING /\ line.ref \in Refs
               /\ line.x \in Int /\ line.y \in Int /\ line.w \in Int /\ line.h \in Int
      BY <1>14
  <2>2. Read(r, line) = ReadFill(r, line)
      BY <2>1 DEF Read
  <2> QED
      BY <2>1, <2>2, FillLineIsSane
<1>15. CASE line \in [key : {"tiles"}, layer : STRING, ref : Refs, cells : Seq(Int \X Int)]
  <2>1. line.key = "tiles" /\ line.layer \in STRING /\ line.ref \in Refs
               /\ line.cells \in Seq(Int \X Int)
      BY <1>15
  <2>2. Read(r, line) = ReadTiles(r, line)
      BY <2>1 DEF Read
  <2> QED
      BY <2>1, <2>2, TilesLineIsSane
<1>16. CASE line \in [key : {"entity"}, kind : STRING, id : STRING,
                      bounds : [x : Int, y : Int, w : Int, h : Int]]
  <2>1. line.key = "entity" /\ line.kind \in STRING /\ line.id \in STRING
               /\ line.bounds \in Bounds
      BY <1>16 DEF Bounds
  <2>2. Read(r, line) = ReadEntity(r, line)
      BY <2>1 DEF Read
  <2> QED
      BY <2>1, <2>2, EntityLineIsSane
<1>17. CASE line \in [key : {"sprite"}, id : STRING, ref : Refs]
  <2>1. line.key = "sprite" /\ line.id \in STRING /\ line.ref \in Refs
      BY <1>17
  <2>2. Read(r, line) = ReadSprite(r, line)
      BY <2>1 DEF Read
  <2> QED
      BY <2>1, <2>2, SpriteLineIsSane
<1>18. CASE line \in [key : {"prop"}, id : STRING, name : STRING, value : STRING]
  <2>1. line.key = "prop" /\ line.id \in STRING /\ line.name \in STRING /\ line.value \in STRING
      BY <1>18
  <2>2. Read(r, line) = ReadProp(r, line)
      BY <2>1 DEF Read
  <2> QED
      BY <2>1, <2>2, PropLineIsSane
<1>19. CASE line \in [key : {"unknown"}]
  <2>1. line.key = "unknown"
      BY <1>19
  <2>2. Read(r, line) = Fail(r)
      BY <2>1 DEF Read
  <2> QED
      BY <1>1, <2>2
<1> QED
    BY <1>2, <1>3, <1>4, <1>5, <1>6, <1>7, <1>8, <1>9, <1>10,
       <1>11, <1>12, <1>13, <1>14, <1>15, <1>16, <1>17, <1>18, <1>19 DEF LineForms

(* Induction along a sequence, said of a set so that any set of places can *)
(* be put in: the least place outside would have one before it.            *)
LEMMA UpTo ==
    ASSUME NEW n \in Nat, NEW G, 0 \in G,
           \A k \in 1 .. n : k - 1 \in G => k \in G
    PROVE  0 .. n \subseteq G
<1> DEFINE out == (0 .. n) \ G
           R == {ss \in Nat \X Nat : ss[1] < ss[2]}
<1> SUFFICES ASSUME out # {} PROVE FALSE
    OBVIOUS
<1>1. OpToRel(<, Nat) = R
    BY DEF OpToRel
<1>2. IsWellFoundedOn(R, Nat)
    BY <1>1, NatLessThanWellFounded
<1>3. out \in SUBSET Nat
    OBVIOUS
<1>4. PICK k \in out : \A other \in out : <<other, k>> \notin R
  <2> HIDE DEF R, out
  <2> QED
      BY <1>2, <1>3, WFMin, Zenon
<1>5. k \in 1 .. n /\ k - 1 \in 0 .. n /\ <<k - 1, k>> \in R
    OBVIOUS
<1>6. k - 1 \in G
    BY <1>4, <1>5
<1> QED
    BY <1>5, <1>6

FirstReader == [doc |-> EmptyDocument, assets |-> NoProperties, hasFormat |-> FALSE, ok |-> TRUE]

LEMMA StartIsSane == Sane(FirstReader)
<1>1. <<"96", "96">> \in Names \X Names
    BY DEF Names
<1>2. NoProperties \in Tables(Names) /\ NoProperties \in Tables(References)
      /\ NoProperties \in Aliases
    BY NoTable DEF Aliases
<1>3. EmptyDocument \in Documents
  <2>1. "" \in Names
      BY DEF Names
  <2>2. <<>> \in Seq(LayerTypes) /\ <<>> \in Seq(StampTypes) /\ <<>> \in Seq(ObjectTypes)
      OBVIOUS
  <2> DEFINE none == NoProperties
             empty == ""
             place == <<"96", "96">>
  <2>3. none \in Tables(Names) /\ none \in Tables(References) /\ empty \in Names
        /\ place \in Names \X Names
      BY <1>1, <1>2, <2>1
  <2>4. EmptyDocument =
           [mapId |-> empty, worldName |-> empty, tileSize |-> 32, width |-> 0, height |-> 0,
            spawn |-> place, properties |-> none, playerSprites |-> none,
            layers |-> <<>>, stamps |-> <<>>, objects |-> <<>>]
      BY DEF EmptyDocument
  <2> HIDE DEF none, empty, place
  <2> QED
      BY <2>2, <2>3, <2>4 DEF Documents
<1>4. ObjectsSound(EmptyDocument.objects)
  <2>1. EmptyDocument.objects = <<>>
      BY DEF EmptyDocument
  <2> QED
      BY <2>1 DEF ObjectsSound
<1> QED
    BY <1>2, <1>3, <1>4 DEF FirstReader, Sane, Readers

(* The readers of a text: one before its first line, and one after each.   *)
Reading(h, text, n) ==
    /\ h[0] = FirstReader
    /\ \A k \in 1 .. n : h[k] = Read(h[k - 1], text[k])

LEMMA TextsAreRead ==
    ASSUME NEW text, NEW n \in Nat
    PROVE  \E h : Reading(h, text, n)
<1> DEFINE G == {m \in 0 .. n : \E h : Reading(h, text, m)}
<1>1. 0 \in G
  <2> DEFINE h == [k \in {0} |-> FirstReader]
  <2>1. Reading(h, text, 0)
      BY DEF Reading
  <2> QED
      BY <2>1
<1>2. ASSUME NEW k \in 1 .. n, k - 1 \in G
      PROVE  k \in G
  <2>1. PICK h : Reading(h, text, k - 1)
      BY <1>2
  <2> DEFINE g == [i \in 0 .. k |-> IF i = k THEN Read(h[k - 1], text[k]) ELSE h[i]]
  <2>2. g[0] = FirstReader
      BY <2>1 DEF Reading
  <2>3. ASSUME NEW i \in 1 .. k PROVE g[i] = Read(g[i - 1], text[i])
    <3>1. i - 1 \in 0 .. k /\ i - 1 # k /\ g[i - 1] = h[i - 1]
        OBVIOUS
    <3>2. CASE i = k
        BY <3>1, <3>2
    <3>3. CASE i # k
      <4>1. i \in 1 .. k - 1 /\ g[i] = h[i]
          BY <3>3
      <4> QED
          BY <2>1, <3>1, <4>1 DEF Reading
    <3> QED
        BY <3>2, <3>3
  <2> HIDE DEF g
  <2>4. Reading(g, text, k)
      BY <2>2, <2>3 DEF Reading
  <2> QED
      BY <2>4
<1>3. 0 .. n \subseteq G
  <2> HIDE DEF G
  <2> QED
      BY <1>1, <1>2, UpTo
<1> QED
    BY <1>3

LEMMA ReadingIsSane ==
    ASSUME NEW text \in Seq(LineForms), NEW h, Reading(h, text, Len(text))
    PROVE  Sane(h[Len(text)])
<1> DEFINE n == Len(text)
           G == {k \in 0 .. n : Sane(h[k])}
<1>1. n \in Nat
    OBVIOUS
<1>2. 0 \in G
    BY <1>1, StartIsSane DEF Reading
<1>3. ASSUME NEW k \in 1 .. n, k - 1 \in G
      PROVE  k \in G
  <2>1. text[k] \in LineForms
      OBVIOUS
  <2>2. Sane(Read(h[k - 1], text[k]))
      BY <1>3, <2>1, LineIsSane
  <2> QED
      BY <2>2 DEF Reading
<1>4. 0 .. n \subseteq G
  <2> HIDE DEF G, n
  <2> QED
      BY <1>1, <1>2, <1>3, UpTo
<1> QED
    BY <1>1, <1>4

(* What a reader of a whole text finds. *)
LEMMA LegacyDocuments ==
    ASSUME NEW text \in Seq(LineForms), NEW doc \in ParseLegacyDocument(text)
    PROVE  doc \in Documents /\ ObjectsSound(doc.objects) /\ Sized(doc)
<1> DEFINE n == Len(text)
           Unfolded(h) == [k \in 0 .. n |->
                              IF k = 0 THEN [doc |-> EmptyDocument, assets |-> NoProperties,
                                             hasFormat |-> FALSE, ok |-> TRUE]
                              ELSE Read(h[k - 1], text[k])]
           read == CHOOSE h : h = Unfolded(h)
<1>1. n \in Nat
    OBVIOUS
<1>2. \E h : h = Unfolded(h)
  <2>1. PICK h : Reading(h, text, n)
      BY <1>1, TextsAreRead
  <2> DEFINE g == [k \in 0 .. n |-> h[k]]
  <2>2. ASSUME NEW k \in 0 .. n PROVE g[k] = Unfolded(g)[k]
    <3>1. CASE k = 0
        BY <2>1, <3>1 DEF Reading, FirstReader
    <3>2. CASE k # 0
      <4>1. k \in 1 .. n /\ k - 1 \in 0 .. n
          BY <1>1, <3>2
      <4> QED
          BY <2>1, <3>2, <4>1 DEF Reading
    <3> QED
        BY <3>1, <3>2
  <2>3. g = Unfolded(g)
      BY <2>2
  <2> QED
      BY <2>3
<1>3. read = Unfolded(read)
    BY <1>2
<1>4. \A k \in 0 .. n : read[k] = Unfolded(read)[k]
    BY <1>3
<1>5. Reading(read, text, n)
  <2>1. read[0] = FirstReader
    <3>1. 0 \in 0 .. n
        BY <1>1
    <3> HIDE DEF read, n
    <3> QED
        BY <1>4, <3>1 DEF FirstReader
  <2>2. ASSUME NEW k \in 1 .. n PROVE read[k] = Read(read[k - 1], text[k])
    <3>1. k \in 0 .. n /\ k # 0
        BY <1>1
    <3> HIDE DEF read
    <3> QED
        BY <1>4, <3>1
  <2> HIDE DEF read
  <2> QED
      BY <2>1, <2>2 DEF Reading
<1>6. Sane(read[n])
  <2> HIDE DEF read
  <2> QED
      BY <1>5, ReadingIsSane
<1>7. ParseLegacyDocument(text) =
          IF read[n].ok /\ read[n].hasFormat /\ Sized(read[n].doc) THEN {read[n].doc} ELSE {}
    BY DEF ParseLegacyDocument
<1> HIDE DEF read
<1>8. doc = read[n].doc /\ Sized(doc)
    BY <1>7
<1> QED
    BY <1>6, <1>8 DEF Sane, Readers
-----------------------------------------------------------------------------
(* The elements of a sequence that are picked.                             *)

Picking(h, s, places, n) ==
    /\ h[0] = <<>>
    /\ \A k \in 1 .. n : h[k] = IF k \in places THEN Append(h[k - 1], s[k]) ELSE h[k - 1]

LEMMA PickingGoesOn ==
    ASSUME NEW s, NEW places, NEW n \in Nat
    PROVE  \E h : Picking(h, s, places, n)
<1> DEFINE G == {m \in 0 .. n : \E h : Picking(h, s, places, m)}
<1>1. 0 \in G
  <2> DEFINE h == [k \in {0} |-> <<>>]
  <2>1. Picking(h, s, places, 0)
      BY DEF Picking
  <2> QED
      BY <2>1
<1>2. ASSUME NEW k \in 1 .. n, k - 1 \in G
      PROVE  k \in G
  <2>1. PICK h : Picking(h, s, places, k - 1)
      BY <1>2
  <2> DEFINE last == IF k \in places THEN Append(h[k - 1], s[k]) ELSE h[k - 1]
             g == [i \in 0 .. k |-> IF i = k THEN last ELSE h[i]]
  <2>2. g[0] = <<>>
      BY <2>1 DEF Picking
  <2>3. ASSUME NEW i \in 1 .. k
        PROVE  g[i] = IF i \in places THEN Append(g[i - 1], s[i]) ELSE g[i - 1]
    <3>1. i - 1 \in 0 .. k /\ i - 1 # k /\ g[i - 1] = h[i - 1]
        OBVIOUS
    <3>2. CASE i = k
        BY <3>1, <3>2
    <3>3. CASE i # k
      <4>1. i \in 1 .. k - 1 /\ g[i] = h[i]
          BY <3>3
      <4> QED
          BY <2>1, <3>1, <4>1 DEF Picking
    <3> QED
        BY <3>2, <3>3
  <2> HIDE DEF g
  <2>4. Picking(g, s, places, k)
      BY <2>2, <2>3 DEF Picking
  <2> QED
      BY <2>4
<1>3. 0 .. n \subseteq G
  <2> HIDE DEF G
  <2> QED
      BY <1>1, <1>2, UpTo
<1> QED
    BY <1>3

LEMMA PickedIsPicking ==
    ASSUME NEW s, Len(s) \in Nat, NEW places
    PROVE  \E h : Picking(h, s, places, Len(s)) /\ Picked(s, places) = h[Len(s)]
<1> DEFINE n == Len(s)
           Unfolded(h) == [k \in 0 .. n |->
                              IF k = 0 THEN <<>>
                              ELSE IF k \in places THEN Append(h[k - 1], s[k])
                              ELSE h[k - 1]]
           picked == CHOOSE h : h = Unfolded(h)
<1>2. \E h : h = Unfolded(h)
  <2>1. PICK h : Picking(h, s, places, n)
      BY PickingGoesOn
  <2> DEFINE g == [k \in 0 .. n |-> h[k]]
  <2>2. ASSUME NEW k \in 0 .. n PROVE g[k] = Unfolded(g)[k]
    <3>1. CASE k = 0
        BY <2>1, <3>1 DEF Picking
    <3>2. CASE k # 0
      <4>1. k \in 1 .. n /\ k - 1 \in 0 .. n
          BY <3>2
      <4> QED
          BY <2>1, <3>2, <4>1 DEF Picking
    <3> QED
        BY <3>1, <3>2
  <2>3. g = Unfolded(g)
      BY <2>2
  <2> QED
      BY <2>3
<1>3. picked = Unfolded(picked)
    BY <1>2
<1>4. \A k \in 0 .. n : picked[k] = Unfolded(picked)[k]
    BY <1>3
<1>5. Picked(s, places) = picked[n]
    BY DEF Picked
<1> HIDE DEF picked
<1>6. Picking(picked, s, places, n)
  <2>1. 0 \in 0 .. n /\ \A k \in 1 .. n : k \in 0 .. n /\ k # 0
      OBVIOUS
  <2> HIDE DEF n
  <2> QED
      BY <1>4, <2>1 DEF Picking
<1> QED
    BY <1>5, <1>6

(* What is picked is of the set that all the places picked from are of. *)
LEMMA PickedAreOf ==
    ASSUME NEW s, Len(s) \in Nat, NEW places, NEW S,
           \A i \in 1 .. Len(s) : i \in places => s[i] \in S
    PROVE  Picked(s, places) \in Seq(S)
<1> DEFINE n == Len(s)
<1>1. PICK h : Picking(h, s, places, n) /\ Picked(s, places) = h[n]
    BY PickedIsPicking
<1> DEFINE G == {k \in 0 .. n : h[k] \in Seq(S)}
<1>10. n \in Nat /\ 0 \in 0 .. n
    OBVIOUS
<1>2. 0 \in G
  <2>1. <<>> \in Seq(S)
      OBVIOUS
  <2> QED
      BY <1>1, <1>10, <2>1 DEF Picking
<1>3. ASSUME NEW k \in 1 .. n, k - 1 \in G
      PROVE  k \in G
  <2>1. k \in 0 .. n /\ h[k - 1] \in Seq(S)
      BY <1>3
  <2>2. k \in places => Append(h[k - 1], s[k]) \in Seq(S)
      BY <2>1
  <2>3. h[k] = IF k \in places THEN Append(h[k - 1], s[k]) ELSE h[k - 1]
      BY <1>1 DEF Picking
  <2>4. h[k] \in Seq(S)
      BY <2>1, <2>2, <2>3, Zenon
  <2> QED
      BY <2>1, <2>4
<1>4. 0 .. n \subseteq G
  <2> HIDE DEF G, n
  <2> QED
      BY <1>10, <1>2, <1>3, UpTo
<1> QED
    BY <1>1, <1>4, <1>10

-----------------------------------------------------------------------------
(* Where stamps stand.                                                     *)

LEMMA DivBounds ==
    ASSUME NEW a \in Int, NEW b \in Int, b > 0
    PROVE  /\ a \div b \in Int
           /\ b * (a \div b) <= a /\ a < b * (a \div b) + b
OBVIOUS

(* Rounding moves a place by half of the unit at most. *)
LEMMA RoundNear ==
    ASSUME NEW n \in Int, NEW d \in Nat \ {0}
    PROVE  Round(n, d) \in Int /\ 2 * Distance(Round(n, d) * d, n) <= d
<1>1. CASE n >= 0
  <2> DEFINE q == (2 * n + d) \div (2 * d)
  <2>1. q \in Int /\ (2 * d) * q <= 2 * n + d /\ 2 * n + d < (2 * d) * q + 2 * d
      BY DivBounds
  <2>2. Round(n, d) = q
      BY <1>1 DEF Round
  <2> HIDE DEF q
  <2>3. 2 * (q * d) <= 2 * n + d /\ 2 * n < 2 * (q * d) + d
      BY <2>1
  <2>4. q * d \in Int
      BY <2>1
  <2> QED
      BY <2>1, <2>2, <2>3, <2>4 DEF Distance
<1>2. CASE n < 0
  <2> DEFINE q == (d - 2 * n) \div (2 * d)
  <2>1. q \in Int /\ (2 * d) * q <= d - 2 * n /\ d - 2 * n < (2 * d) * q + 2 * d
      BY DivBounds
  <2>2. Round(n, d) = -q
      BY <1>2 DEF Round
  <2> HIDE DEF q
  <2>3. 2 * (q * d) <= d - 2 * n /\ -(2 * n) < 2 * (q * d) + d /\ (-q) * d = -(q * d)
      BY <2>1
  <2>4. q * d \in Int /\ -q \in Int
      BY <2>1
  <2> QED
      BY <2>1, <2>2, <2>3, <2>4 DEF Distance
<1> QED
    BY <1>1, <1>2

(* A stamp that is taken to stand on the nearest tile is drawn half a tile *)
(* from its place at most, whatever the size of its image.                 *)
LEMMA StampNear ==
    ASSUME NEW ref \in References, NEW place \in Int \X Int, NEW tile \in Nat \ {0}, NEW s,
           s.asset = ref, s.x = StampGrid(place, ref, tile)[1],
           s.y = StampGrid(place, ref, tile)[2]
    PROVE  \A k \in 1 .. 2 : 2 * Distance(StampBounds(s, tile)[k], place[k]) <= Pixels(tile)
<1> DEFINE w == Width(ref, tile)
           h == Height(ref, tile)
           d == Pixels(tile)
           left == place[1] - Inset(ref, tile)
           down == place[2] + Pixels(h - tile)
<1>1. w \in Int /\ h \in Int
  <2>1. ASSUME Valid(ref) PROVE (CHOOSE a \in ref.area : TRUE) \in Bounds
    <3>1. ref.area # {} /\ ref.area \subseteq Bounds
        BY <2>1 DEF Valid, References
    <3> QED
        BY <3>1
  <2> QED
      BY <2>1 DEF Width, Height, Bounds
<1>2. Parts \in Nat \ {0}
    BY MapFormatAssumption
<1>3. /\ place[1] \in Int /\ place[2] \in Int
      /\ Inset(ref, tile) \in Int /\ Pixels(h) \in Int
    BY <1>1, <1>2 DEF Inset, Pixels
<1>4. d \in Nat \ {0} /\ left \in Int
    BY <1>2, <1>3 DEF Pixels
<1>5. Pixels(h - tile) = Pixels(h) - d
    BY <1>1, <1>2 DEF Pixels
<1>6. s.x = Round(left, d) /\ s.y = Round(down, d)
    BY DEF StampGrid
<1> HIDE DEF h, d
<1>7. down \in Int
    BY <1>3, <1>4, <1>5
<1>8. /\ s.x \in Int /\ 2 * Distance(s.x * d, left) <= d
      /\ s.y \in Int /\ 2 * Distance(s.y * d, down) <= d
    BY <1>4, <1>6, <1>7, RoundNear
<1>9. /\ Pixels(s.x * tile) = s.x * d
      /\ Pixels((s.y + 1) * tile - h) = s.y * d + d - Pixels(h)
    BY <1>1, <1>2, <1>8 DEF Pixels, d
<1>10. StampBounds(s, tile) = <<s.x * d + Inset(ref, tile), s.y * d + d - Pixels(h)>>
    BY <1>9 DEF StampBounds, h
<1>11. s.x * d \in Int /\ s.y * d \in Int
    BY <1>4, <1>8
<1>12. 2 * Distance(s.x * d + Inset(ref, tile), place[1]) <= d
    BY <1>3, <1>4, <1>8, <1>11 DEF Distance
<1>13. 2 * Distance(s.y * d + d - Pixels(h), place[2]) <= d
    BY <1>3, <1>4, <1>5, <1>7, <1>8, <1>11 DEF Distance
<1> QED
    BY <1>10, <1>12, <1>13 DEF d

(* A stamp that can be read stands where it was saved. *)
LEMMA StampStands ==
    ASSUME NEW node, NodeForm(node), StampReads(node), NEW tile \in Nat \ {0}, NEW layer
    PROVE  Stands(StampOf(node, layer, tile), [layer |-> layer, node |-> node], tile)
<1> DEFINE s == StampOf(node, layer, tile)
           ref == CHOOSE r \in node.asset_ref : TRUE
<1>1. ref \in References /\ node.asset_ref = {ref}
  <2>1. ref \in node.asset_ref
      BY DEF StampReads
  <2> QED
      BY <2>1, RefsAreReferences DEF NodeForm, Optional
<1>2. s.layer = layer /\ s.asset = ref
    BY DEF StampOf
<1>3. CASE node.place # {}
  <2> DEFINE place == CHOOSE p \in node.place : TRUE
  <2>1. place \in node.place
      BY <1>3
  <2>2. node.place = {place} /\ place \in Int \X Int
      BY <2>1 DEF NodeForm, Optional
  <2>3. s.x = StampGrid(place, ref, tile)[1] /\ s.y = StampGrid(place, ref, tile)[2]
      BY <1>3 DEF StampOf
  <2> HIDE DEF s, ref, place
  <2>4. \A k \in 1 .. 2 : 2 * Distance(StampBounds(s, tile)[k], place[k]) <= Pixels(tile)
      BY <1>1, <1>2, <2>2, <2>3, StampNear
  <2> QED
      BY <1>1, <1>2, <1>3, <2>2, <2>4 DEF Stands, s
<1>4. CASE node.place = {}
  <2> DEFINE grid == CHOOSE g \in node.grid : TRUE
  <2>1. grid \in node.grid
      BY <1>4 DEF StampReads
  <2>2. node.grid = {grid} /\ grid \in Int \X Int
      BY <2>1 DEF NodeForm, Optional
  <2>3. s.x = grid[1] /\ s.y = grid[2]
      BY <1>4 DEF StampOf
  <2> HIDE DEF s, ref, grid
  <2>4. node.grid = {<<s.x, s.y>>}
      BY <2>2, <2>3
  <2> QED
      BY <1>1, <1>2, <1>4, <2>4 DEF Stands, s
<1> QED
    BY <1>3, <1>4
-----------------------------------------------------------------------------
(* Two sequences of sequences that are put together alike.                 *)

(* Sequences of one length, whose elements are related place by place. *)
Matched(a, b, A, B, R) ==
    /\ a \in Seq(A) /\ b \in Seq(B) /\ Len(a) = Len(b)
    /\ \A i \in 1 .. Len(a) : <<a[i], b[i]>> \in R

LEMMA MatchedJoin ==
    ASSUME NEW A, NEW B, NEW R, NEW a, NEW b, NEW c, NEW d,
           Matched(a, b, A, B, R), Matched(c, d, A, B, R)
    PROVE  Matched(a \o c, b \o d, A, B, R)
<1>1. /\ a \in Seq(A) /\ c \in Seq(A) /\ b \in Seq(B) /\ d \in Seq(B)
      /\ Len(a) = Len(b) /\ Len(c) = Len(d)
    BY DEF Matched
<1>2. Len(a) \in Nat /\ Len(c) \in Nat
    BY <1>1, LenProperties
<1>3. /\ a \o c \in Seq(A) /\ Len(a \o c) = Len(a) + Len(c)
      /\ \A i \in 1 .. Len(a) + Len(c) :
            (a \o c)[i] = IF i <= Len(a) THEN a[i] ELSE c[i - Len(a)]
    BY <1>1, ConcatProperties
<1>4. /\ b \o d \in Seq(B) /\ Len(b \o d) = Len(b) + Len(d)
      /\ \A i \in 1 .. Len(b) + Len(d) :
            (b \o d)[i] = IF i <= Len(b) THEN b[i] ELSE d[i - Len(b)]
    BY <1>1, ConcatProperties
<1>5. ASSUME NEW i \in 1 .. Len(a) + Len(c)
      PROVE  <<(a \o c)[i], (b \o d)[i]>> \in R
  <2>1. CASE i <= Len(a)
    <3>1. i \in 1 .. Len(a) /\ (a \o c)[i] = a[i] /\ (b \o d)[i] = b[i]
        BY <1>1, <1>2, <1>3, <1>4, <2>1
    <3> QED
        BY <3>1 DEF Matched
  <2>2. CASE ~(i <= Len(a))
    <3>1. /\ i - Len(a) \in 1 .. Len(c)
          /\ (a \o c)[i] = c[i - Len(a)] /\ (b \o d)[i] = d[i - Len(a)]
        BY <1>1, <1>2, <1>3, <1>4, <2>2
    <3> QED
        BY <3>1 DEF Matched
  <2> QED
      BY <2>1, <2>2
<1> QED
    BY <1>1, <1>3, <1>4, <1>5 DEF Matched

Flattening(h, seqs, n) ==
    /\ h[1] = seqs[1]
    /\ \A k \in 2 .. n : h[k] = h[k - 1] \o seqs[k]

LEMMA FlatteningGoesOn ==
    ASSUME NEW seqs, NEW n \in Nat \ {0}
    PROVE  \E h : Flattening(h, seqs, n)
<1> DEFINE G == {m \in 0 .. n - 1 : \E h : Flattening(h, seqs, m + 1)}
<1>1. 0 \in G
  <2> DEFINE h == [k \in {1} |-> seqs[1]]
  <2>1. Flattening(h, seqs, 1)
      BY DEF Flattening
  <2> QED
      BY <2>1
<1>2. ASSUME NEW k \in 1 .. n - 1, k - 1 \in G
      PROVE  k \in G
  <2>1. PICK h : Flattening(h, seqs, k)
      BY <1>2
  <2> DEFINE last == h[k] \o seqs[k + 1]
             g == [i \in 1 .. k + 1 |-> IF i = k + 1 THEN last ELSE h[i]]
  <2>2. g[1] = seqs[1]
      BY <2>1 DEF Flattening
  <2>3. ASSUME NEW i \in 2 .. k + 1 PROVE g[i] = g[i - 1] \o seqs[i]
    <3>1. i - 1 \in 1 .. k + 1 /\ i - 1 # k + 1 /\ g[i - 1] = h[i - 1]
        OBVIOUS
    <3>2. CASE i = k + 1
      <4> HIDE DEF last
      <4>1. i - 1 = k /\ g[i] = last
          BY <3>2
      <4>2. g[i - 1] = h[k]
          BY <3>1, <4>1
      <4> QED
          BY <3>2, <4>1, <4>2 DEF last
    <3>3. CASE i # k + 1
      <4>1. i \in 2 .. k /\ g[i] = h[i]
          BY <3>3
      <4> QED
          BY <2>1, <3>1, <4>1 DEF Flattening
    <3> QED
        BY <3>2, <3>3
  <2> HIDE DEF g
  <2>4. Flattening(g, seqs, k + 1)
      BY <2>2, <2>3 DEF Flattening
  <2> QED
      BY <2>4
<1>3. 0 .. n - 1 \subseteq G
  <2>1. n - 1 \in Nat
      OBVIOUS
  <2> HIDE DEF G
  <2> QED
      BY <1>1, <1>2, <2>1, UpTo
<1> QED
    BY <1>3

LEMMA FlattenIsFlattening ==
    ASSUME NEW seqs, Len(seqs) \in Nat \ {0}
    PROVE  \E h : Flattening(h, seqs, Len(seqs)) /\ FlattenSeq(seqs) = h[Len(seqs)]
<1> DEFINE n == Len(seqs)
           Unfolded(h) == [i \in 1 .. n |-> IF i = 1 THEN seqs[i] ELSE h[i - 1] \o seqs[i]]
           flatten == CHOOSE h : h = Unfolded(h)
<1>1. \E h : h = Unfolded(h)
  <2>1. PICK h : Flattening(h, seqs, n)
      BY FlatteningGoesOn
  <2> DEFINE g == [k \in 1 .. n |-> h[k]]
  <2>2. ASSUME NEW k \in 1 .. n PROVE g[k] = Unfolded(g)[k]
    <3>1. CASE k = 1
        BY <2>1, <3>1 DEF Flattening
    <3>2. CASE k # 1
      <4>1. k \in 2 .. n /\ k - 1 \in 1 .. n
          BY <3>2
      <4> QED
          BY <2>1, <3>2, <4>1 DEF Flattening
    <3> QED
        BY <3>1, <3>2
  <2>3. g = Unfolded(g)
      BY <2>2
  <2> QED
      BY <2>3
<1>2. flatten = Unfolded(flatten)
    BY <1>1
<1>3. \A k \in 1 .. n : flatten[k] = Unfolded(flatten)[k]
    BY <1>2
<1>4. FlattenSeq(seqs) = flatten[n]
    BY DEF FlattenSeq
<1> HIDE DEF flatten
<1>5. Flattening(flatten, seqs, n)
  <2>1. 1 \in 1 .. n /\ \A k \in 2 .. n : k \in 1 .. n /\ k # 1
      OBVIOUS
  <2> HIDE DEF n
  <2> QED
      BY <1>3, <2>1 DEF Flattening
<1> QED
    BY <1>4, <1>5

LEMMA MatchedFlatten ==
    ASSUME NEW A, NEW B, NEW R, NEW a, NEW b, Len(a) \in Nat \ {0}, Len(b) = Len(a),
           \A i \in 1 .. Len(a) : Matched(a[i], b[i], A, B, R)
    PROVE  Matched(FlattenSeq(a), FlattenSeq(b), A, B, R)
<1> DEFINE n == Len(a)
<1>1. PICK g : Flattening(g, a, n) /\ FlattenSeq(a) = g[n]
    BY FlattenIsFlattening
<1>2. PICK h : Flattening(h, b, n) /\ FlattenSeq(b) = h[n]
    BY FlattenIsFlattening
<1> DEFINE G == {k \in 0 .. n - 1 : Matched(g[k + 1], h[k + 1], A, B, R)}
<1>3. 0 \in G
    BY <1>1, <1>2 DEF Flattening
<1>4. ASSUME NEW k \in 1 .. n - 1, k - 1 \in G
      PROVE  k \in G
  <2>1. k + 1 \in 2 .. n /\ (k + 1) - 1 = k /\ k + 1 \in 1 .. n /\ k \in 0 .. n - 1
      OBVIOUS
  <2>2. Matched(g[k], h[k], A, B, R) /\ Matched(a[k + 1], b[k + 1], A, B, R)
      BY <1>4, <2>1
  <2>3. g[k + 1] = g[k] \o a[k + 1] /\ h[k + 1] = h[k] \o b[k + 1]
      BY <1>1, <1>2, <2>1 DEF Flattening
  <2>4. Matched(g[k + 1], h[k + 1], A, B, R)
      BY <2>2, <2>3, MatchedJoin
  <2> QED
      BY <2>1, <2>4
<1>5. n - 1 \in Nat /\ n - 1 \in 0 .. n - 1 /\ (n - 1) + 1 = n
    OBVIOUS
<1>6. 0 .. n - 1 \subseteq G
  <2> HIDE DEF G, n
  <2> QED
      BY <1>3, <1>4, <1>5, UpTo
<1>7. Matched(g[n], h[n], A, B, R)
    BY <1>5, <1>6
<1> QED
    BY <1>1, <1>2, <1>7

-----------------------------------------------------------------------------
(* The stamps and the objects of a file that is read.                      *)

LEMMA SequentialLength ==
    ASSUME NEW s, Sequential(s)
    PROVE  Len(s) \in Nat /\ DOMAIN s = 1 .. Len(s)
BY DEF Sequential

(* What is made of a sequence, element by element, is one. *)
LEMMA MadeOf ==
    ASSUME NEW s, Sequential(s), NEW S, NEW t, DOMAIN t = DOMAIN s,
           t = [j \in DOMAIN t |-> t[j]], \A j \in DOMAIN s : t[j] \in S
    PROVE  t \in Seq(S) /\ Len(t) = Len(s)
<1>1. Len(s) \in Nat /\ DOMAIN s = 1 .. Len(s)
    BY SequentialLength
<1>2. t \in [1 .. Len(s) -> S]
    BY <1>1
<1> HIDE DEF Sequential
<1> QED
    BY <1>1, <1>2

(* The groups of a role are groups of the file.                            *)
LEMMA GroupsAreOf ==
    ASSUME NEW tree, TreeForm(tree), NEW role
    PROVE  GroupsOf(tree, role) \in
               Seq({tree.groups[i] : i \in {j \in DOMAIN tree.groups :
                                                tree.groups[j].role = role}})
<1>1. Len(tree.groups) \in Nat /\ DOMAIN tree.groups = 1 .. Len(tree.groups)
    BY SequentialLength DEF TreeForm
<1> QED
    BY <1>1, PickedAreOf DEF GroupsOf

(* Every stamp of a file that is read stands where it was saved.           *)
LEMMA TreesStand ==
    ASSUME NEW tree, TreeForm(tree), NEW doc \in ParseTmxDocument(tree)
    PROVE  StampsStand(doc, tree)
<1> DEFINE tile == tree.tilewidth
           layers == GroupsOf(tree, "map_layer")
           S == {tree.groups[i] : i \in {j \in DOMAIN tree.groups :
                                             tree.groups[j].role = "map_layer"}}
           Saved(g) == [j \in DOMAIN g.stamps |-> [layer |-> g.name, node |-> g.stamps[j]]]
           a == [i \in DOMAIN layers |-> StampsOf(layers[i], tile)]
           b == [i \in DOMAIN layers |-> Saved(layers[i])]
           A == UNION {{StampsOf(g, tile)[j] : j \in DOMAIN g.stamps} : g \in S}
           B == UNION {{Saved(g)[j] : j \in DOMAIN g.stamps} : g \in S}
           R == {p \in A \X B : Stands(p[1], p[2], tile)}
<1>1. doc = DocumentOf(tree) /\ tile \in Nat \ {0}
      /\ \A i \in DOMAIN tree.groups : GroupReads(tree.groups[i])
    BY DEF ParseTmxDocument, TreeForm
<1>2. doc.stamps = FlattenSeq(a) /\ doc.tileSize = tile
    BY <1>1 DEF DocumentOf
<1>3. SavedStamps(tree) = FlattenSeq(b)
    BY DEF SavedStamps
<1>4. layers \in Seq(S)
    BY GroupsAreOf
<1>5. \A g \in S : Matched(StampsOf(g, tile), Saved(g), A, B, R)
  <2> SUFFICES ASSUME NEW g \in S
               PROVE  Matched(StampsOf(g, tile), Saved(g), A, B, R)
      OBVIOUS
  <2>1. /\ Sequential(g.stamps)
        /\ \A j \in DOMAIN g.stamps : NodeForm(g.stamps[j])
      BY DEF TreeForm
  <2>2. \A j \in DOMAIN g.stamps : StampReads(g.stamps[j])
      BY <1>1 DEF GroupReads
  <2> DEFINE s == StampsOf(g, tile)
             t == Saved(g)
  <2>3. \A j \in DOMAIN g.stamps :
            s[j] = StampOf(g.stamps[j], g.name, tile)
            /\ t[j] = [layer |-> g.name, node |-> g.stamps[j]]
      BY DEF StampsOf
  <2>4. \A j \in DOMAIN g.stamps : Stands(s[j], t[j], tile)
      BY <1>1, <2>1, <2>2, <2>3, StampStands
  <2>5. \A j \in DOMAIN g.stamps : s[j] \in A /\ t[j] \in B
      OBVIOUS
  <2>6. /\ DOMAIN s = DOMAIN g.stamps /\ s = [j \in DOMAIN s |-> s[j]]
        /\ DOMAIN t = DOMAIN g.stamps /\ t = [j \in DOMAIN t |-> t[j]]
      BY DEF StampsOf
  <2> HIDE DEF s, t, A, B, tile
  <2>7. /\ s \in Seq(A) /\ Len(s) = Len(g.stamps)
        /\ t \in Seq(B) /\ Len(t) = Len(g.stamps)
      BY <2>1, <2>5, <2>6, MadeOf
  <2>8. \A j \in 1 .. Len(s) : <<s[j], t[j]>> \in R
      BY <2>1, <2>4, <2>5, <2>7, SequentialLength
  <2>9. Matched(s, t, A, B, R)
      BY <2>7, <2>8 DEF Matched
  <2> QED
      BY <2>9 DEF s, t
<1> HIDE DEF A, B, R, S, Saved, tile, layers
<1>6. /\ Len(layers) \in Nat /\ DOMAIN layers = 1 .. Len(layers)
      /\ \A i \in 1 .. Len(layers) : layers[i] \in S
    BY <1>4
<1>7. Len(a) = Len(layers) /\ Len(b) = Len(layers)
    BY <1>6
<1>8. \A i \in 1 .. Len(a) : Matched(a[i], b[i], A, B, R)
    BY <1>5, <1>6, <1>7
<1>9. Matched(FlattenSeq(a), FlattenSeq(b), A, B, R)
  <2>1. CASE Len(layers) = 0
    <3>1. FlattenSeq(a) = a /\ FlattenSeq(b) = b
        BY <1>7, <2>1 DEF FlattenSeq
    <3>2. a = <<>> /\ b = <<>>
        BY <1>6, <2>1
    <3> HIDE DEF a, b
    <3>3. FlattenSeq(a) = <<>> /\ FlattenSeq(b) = <<>>
        BY <3>1, <3>2
    <3>4. Matched(<<>>, <<>>, A, B, R)
        BY DEF Matched
    <3> QED
        BY <3>3, <3>4
  <2>2. CASE Len(layers) # 0
    <3>1. Len(a) \in Nat \ {0} /\ Len(b) = Len(a)
        BY <1>6, <1>7, <2>2
    <3> HIDE DEF a, b
    <3> QED
        BY <1>8, <3>1, MatchedFlatten
  <2> QED
      BY <2>1, <2>2
<1> HIDE DEF a, b
<1> DEFINE read == FlattenSeq(a)
           saved == FlattenSeq(b)
<1>10. doc.stamps = read /\ SavedStamps(tree) = saved /\ doc.tileSize = tile
    BY <1>2, <1>3
<1>11. /\ Len(read) = Len(saved) /\ DOMAIN read = 1 .. Len(read)
       /\ \A n \in 1 .. Len(read) : <<read[n], saved[n]>> \in R
    BY <1>9 DEF Matched
<1> HIDE DEF read, saved
<1>12. \A n \in DOMAIN read : Stands(read[n], saved[n], tile)
    BY <1>11 DEF R
<1> QED
    BY <1>10, <1>11, <1>12 DEF StampsStand

(* An object whose id is no other's is the one its id finds.               *)
LEMMA IdsFindObjects ==
    ASSUME NEW doc, Len(doc.objects) \in Nat, DOMAIN doc.objects = 1 .. Len(doc.objects),
           \A i, j \in DOMAIN doc.objects : doc.objects[i].id = doc.objects[j].id => i = j
    PROVE  ObjectsAreFound(doc)
<1> SUFFICES ASSUME NEW i \in DOMAIN doc.objects
             PROVE  objectIndexById(doc, doc.objects[i].id) = i
    BY DEF ObjectsAreFound
<1>1. \A j \in 1 .. i - 1 : j \in DOMAIN doc.objects /\ j # i
    OBVIOUS
<1>2. doc.objects[i].id = doc.objects[i].id
      /\ \A j \in 1 .. i - 1 : doc.objects[j].id # doc.objects[i].id
    BY <1>1
<1>3. \A k \in DOMAIN doc.objects : doc.objects[k].id = doc.objects[i].id => k = i
    OBVIOUS
<1> QED
    BY <1>2, <1>3 DEF objectIndexById

LEMMA TreesGiveObjects ==
    ASSUME NEW tree, TreeForm(tree), NEW doc \in ParseTmxDocument(tree),
           Len(GroupsOf(tree, "map_objects")) <= 1
    PROVE  ObjectsAreFound(doc)
<1> DEFINE groups == GroupsOf(tree, "map_objects")
           S == {tree.groups[i] : i \in {j \in DOMAIN tree.groups :
                                             tree.groups[j].role = "map_objects"}}
           a == [i \in DOMAIN groups |-> groups[i].objects]
<1>1. doc = DocumentOf(tree) /\ \A i \in DOMAIN tree.groups : GroupReads(tree.groups[i])
    BY DEF ParseTmxDocument
<1>2. doc.objects = FlattenSeq(a)
    BY <1>1 DEF DocumentOf
<1>3. groups \in Seq(S)
    BY GroupsAreOf
<1>4. ASSUME NEW g \in S
      PROVE  /\ Len(g.objects) \in Nat /\ DOMAIN g.objects = 1 .. Len(g.objects)
             /\ \A i, j \in DOMAIN g.objects : g.objects[i].id = g.objects[j].id => i = j
  <2>1. Sequential(g.objects)
      BY DEF TreeForm
  <2>2. GroupReads(g) /\ g.role = "map_objects"
      BY <1>1
  <2> QED
      BY <2>1, <2>2, SequentialLength DEF GroupReads
<1>9. Len(groups) <= 1
    OBVIOUS
<1> HIDE DEF S, groups
<1>5. /\ Len(groups) \in Nat /\ DOMAIN groups = 1 .. Len(groups)
      /\ \A i \in 1 .. Len(groups) : groups[i] \in S
    BY <1>3
<1>6. Len(a) = Len(groups)
    BY <1>5
<1>7. CASE Len(groups) = 0
  <2>1. FlattenSeq(a) = a
      BY <1>6, <1>7 DEF FlattenSeq
  <2>2. a = <<>>
      BY <1>5, <1>7
  <2>3. doc.objects = <<>>
      BY <1>2, <2>1, <2>2
  <2> QED
      BY <2>3, IdsFindObjects
<1>8. CASE Len(groups) # 0
  <2>1. Len(groups) = 1
      BY <1>5, <1>8, <1>9
  <2>2. a[1] = groups[1].objects /\ groups[1] \in S /\ Len(a) \in Nat \ {0}
      BY <1>5, <1>6, <2>1
  <2> HIDE DEF a
  <2>3. PICK h : Flattening(h, a, Len(a)) /\ FlattenSeq(a) = h[Len(a)]
      BY <2>2, FlattenIsFlattening
  <2>4. doc.objects = groups[1].objects
      BY <1>2, <1>6, <2>1, <2>2, <2>3 DEF Flattening
  <2> QED
      BY <1>4, <2>2, <2>4, IdsFindObjects
<1> QED
    BY <1>7, <1>8

(* A map file of either format is read as it was saved. *)
ReadAsSaved(doc, file) ==
    /\ OneGroup(file) => ObjectsAreFound(doc)
    /\ "tree" \in DOMAIN file => StampsStand(doc, file.tree)

LEMMA FilesAreReadAsSaved ==
    ASSUME NEW file \in MapFiles, NEW doc \in ParseDocument(file)
    PROVE  ReadAsSaved(doc, file)
<1>1. CASE file \in {[tree |-> t] : t \in Trees}
  <2>1. PICK tree \in Trees : file = [tree |-> tree]
      BY <1>1
  <2>2. "tree" \in DOMAIN file /\ file.tree = tree
      BY <2>1
  <2>3. TreeForm(tree) /\ doc \in ParseTmxDocument(tree)
      BY <2>2, ContentAssumption DEF ParseDocument
  <2> QED
      BY <2>2, <2>3, TreesStand, TreesGiveObjects DEF ReadAsSaved, OneGroup
<1>2. CASE file \in {[lines |-> t] : t \in Texts}
  <2>1. PICK text \in Texts : file = [lines |-> text]
      BY <1>2
  <2>2. "tree" \notin DOMAIN file /\ file.lines = text
      BY <2>1
  <2>3. doc \in ParseLegacyDocument(text) /\ text \in Seq(LineForms)
      BY <2>2, ContentAssumption DEF ParseDocument
  <2>4. doc \in Documents /\ ObjectsSound(doc.objects)
      BY <2>3, LegacyDocuments
  <2>5. doc.objects \in Seq(ObjectTypes)
      BY <2>4 DEF Documents
  <2>6. ObjectsAreFound(doc)
      BY <2>4, <2>5, IdsFindObjects DEF ObjectsSound
  <2> QED
      BY <2>2, <2>6 DEF ReadAsSaved
<1> QED
    BY <1>1, <1>2 DEF MapFiles

(* The directory holds files that authors saved, and the server's maps are *)
(* what its start has read of those that its revision names.               *)
SavedInv ==
    /\ \A name \in DOMAIN maps : maps[name] \in MapFiles
    /\ \A id \in DOMAIN server.maps :
          /\ server.revision.texts[id] \in MapFiles
          /\ server.maps[id] \in ParseDocument(server.revision.texts[id])

LEMMA InitSavedInv == Init => SavedInv
BY DEF Init, SavedInv, Down, NoProperties

LEMMA NextSavedInv == SavedInv /\ [Next]_vars => SavedInv'
<1> SUFFICES ASSUME SavedInv, [Next]_vars PROVE SavedInv'
    OBVIOUS
<1>1. ASSUME NEW name, NEW file \in MapFiles, SaveMap(name, file) PROVE SavedInv'
  <2>1. server' = server /\ \A n \in DOMAIN maps' : maps'[n] \in MapFiles
      BY <1>1 DEF SaveMap, With, SavedInv
  <2> QED
      BY <2>1 DEF SavedInv, MapFiles
<1>2. ASSUME NEW path, NEW version, SaveFile(path, version) PROVE SavedInv'
    BY <1>2 DEF SaveFile, SavedInv, MapFiles
<1>3. CASE Start
  <2>1. maps' = maps /\ \A f \in DOMAIN maps : ParseDocument(maps[f]) # {}
      BY <1>3 DEF Start
  <2>2. PICK paths \in [{IdOf(f) : f \in DOMAIN maps} -> DOMAIN maps] :
            LET loaded == [id \in DOMAIN paths |-> Loaded(maps[paths[id]])]
                keys == AllowedKeys(loaded)
            IN  server' = [up |-> TRUE, maps |-> loaded, paths |-> paths, keys |-> keys,
                           revision |-> Revision(loaded, paths, keys)]
      BY <1>3 DEF Start
  <2>3. /\ server'.maps = [id \in DOMAIN paths |-> Loaded(maps[paths[id]])]
        /\ server'.revision.texts = [id \in DOMAIN paths |-> maps[paths[id]]]
      BY <2>2 DEF Revision
  <2>4. ASSUME NEW id \in DOMAIN server'.maps
        PROVE  /\ server'.revision.texts[id] \in MapFiles
               /\ server'.maps[id] \in ParseDocument(server'.revision.texts[id])
    <3>1. paths[id] \in DOMAIN maps /\ ParseDocument(maps[paths[id]]) # {}
        BY <2>1, <2>2, <2>3, <2>4
    <3>2. ParseDocument(maps[paths[id]]) = {Loaded(maps[paths[id]])}
        BY <3>1, ReadAsOne
    <3>3. /\ server'.revision.texts[id] = maps[paths[id]]
          /\ server'.maps[id] = Loaded(maps[paths[id]])
        BY <2>3, <2>4
    <3> QED
        BY <3>1, <3>2, <3>3 DEF SavedInv
  <2> QED
      BY <2>1, <2>4 DEF SavedInv, MapFiles
<1>4. CASE Stop
    BY <1>4 DEF Stop, Down, NoProperties, SavedInv, MapFiles
<1>5. ASSUME NEW key \in server.keys, Download(key) PROVE SavedInv'
    BY <1>5 DEF Download, SavedInv, MapFiles
<1>6. CASE UNCHANGED vars
    BY <1>6 DEF vars, SavedInv, MapFiles
<1> QED
    BY <1>1, <1>2, <1>3, <1>4, <1>5, <1>6 DEF Next

(* Whatever the maps, the sizes of their images and the places of their    *)
(* stamps, and whoever edits them when: a server that has started on them  *)
(* has every stamp of a .tmx file once, on its layer, with its image, and  *)
(* World draws it half a tile from where it was saved at most; and, where  *)
(* a file has its objects in one group, the object with an id is the one   *)
(* that MapData finds.                                                     *)
THEOREM MapsStayAsSaved == Spec => []MapsAreAsSaved
<1>1. SavedInv => MapsAreAsSaved
  <2> SUFFICES ASSUME SavedInv, NEW id \in DOMAIN server.maps
               PROVE  ReadAsSaved(server.maps[id], server.revision.texts[id])
      BY DEF MapsAreAsSaved, ReadAsSaved
  <2> QED
      BY FilesAreReadAsSaved DEF SavedInv
<1> QED
    BY <1>1, InitSavedInv, NextSavedInv, PTL DEF Spec
=============================================================================
