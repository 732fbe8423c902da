---------------------------- MODULE DatabaseProofs ----------------------------
(***************************************************************************)
(* Theorems about Database, for every set of pictures and tiles, every     *)
(* size of the caches and queues, and any number of starts and kills.      *)
(***************************************************************************)
EXTENDS Database, SequenceTheorems, TLAPS

(* What the rest of the argument needs to know of the types: everything    *)
(* that refers to an entry refers to one that exists.                      *)
Messages == [type : {"file"}, entry : Entries] \cup [type : {"tile"}, entry : Entries, tile : Tiles]
Cached   == [entry : Entries, tile : Tiles]

Types ==
  /\ last_id \in Nat
  /\ files \subseteq [id : Nat, url : Urls]
  /\ tiles \subseteq [id : Nat, tile : Tiles, url : Urls]
  /\ entry \in Seq([url : Urls, id : Nat])
  /\ known \subseteq Entries /\ announcing \subseteq Entries /\ submitting \subseteq Entries
  /\ cutting \subseteq Entries \X Tiles /\ held \subseteq Entries \X Tiles
  /\ inbox \in Seq(Messages)
  /\ file_cache \in Seq(Entries)
  /\ tile_cache \in Seq(Cached)

(* A function on 1 .. n is a sequence. *)
LEMMA FunctionIsSeq ==
  ASSUME NEW S, NEW n \in Nat, NEW f \in [1 .. n -> S]
  PROVE  f \in Seq(S) /\ Len(f) = n
  <1>1. f \in Seq(S)
    BY SeqDef
  <1>2. DOMAIN f = 1 .. n /\ DOMAIN f = 1 .. Len(f) /\ Len(f) \in Nat
    BY <1>1, LenProperties
  <1>3. QED
    BY <1>1, <1>2

(* What the sequences of a typed state are made of. *)
LEMMA Elements ==
  ASSUME Types
  PROVE  /\ Len(entry) \in Nat /\ Entries = 1 .. Len(entry)
         /\ \A e \in Entries : entry[e] \in [url : Urls, id : Nat]
         /\ Len(file_cache) \in Nat /\ DOMAIN file_cache = 1 .. Len(file_cache)
         /\ \A i \in DOMAIN file_cache : i \in Nat \ {0} /\ file_cache[i] \in Entries
         /\ \A c \in Range(tile_cache) : c \in Cached
         /\ \A i \in DOMAIN inbox : inbox[i] \in Messages
  <1>1. /\ Len(entry) \in Nat /\ Entries = 1 .. Len(entry)
        /\ \A e \in Entries : entry[e] \in [url : Urls, id : Nat]
    BY LenProperties, ElementOfSeq DEF Types, Entries
  <1>2. /\ Len(file_cache) \in Nat /\ DOMAIN file_cache = 1 .. Len(file_cache)
        /\ \A i \in DOMAIN file_cache : i \in Nat \ {0} /\ file_cache[i] \in Entries
    BY LenProperties, ElementOfSeq DEF Types
  <1>3. \A c \in Range(tile_cache) : c \in Cached
    BY LenProperties, ElementOfSeq DEF Types, Range
  <1>4. \A i \in DOMAIN inbox : inbox[i] \in Messages
    BY LenProperties, ElementOfSeq DEF Types
  <1>5. QED
    BY <1>1, <1>2, <1>3, <1>4

(* The handles that are held stay valid when entries are added. *)
LEMMA MoreEntries ==
  ASSUME Types, entry' \in Seq([url : Urls, id : Nat]), Len(entry) <= Len(entry'),
         UNCHANGED <<inbox, caches>>
  PROVE  /\ Entries \subseteq Entries'
         /\ inbox' \in Seq(Messages') /\ file_cache' \in Seq(Entries')
         /\ tile_cache' \in Seq(Cached')
  <1>1. Entries = 1 .. Len(entry) /\ Entries' = 1 .. Len(entry')
    BY DEF Types, Entries
  <1>2. Len(entry) \in Nat /\ Len(entry') \in Nat
    BY DEF Types
  <1>3. Entries \subseteq Entries'
    BY <1>1, <1>2
  <1>4. Messages \subseteq Messages' /\ Cached \subseteq Cached'
    BY <1>3 DEF Messages, Cached
  <1>5. inbox' = inbox /\ file_cache' = file_cache /\ tile_cache' = tile_cache
    BY DEF caches
  <1>6. \A S, T, s : S \subseteq T /\ s \in Seq(S) => s \in Seq(T)
    OBVIOUS
  <1>7. QED
    BY <1>3, <1>4, <1>5, <1>6 DEF Types

LEMMA TypesInit == Init => Types
  BY DatabaseAssumption, EmptySeq DEF Init, Types, Entries

(* An action that leaves the entries alone needs no more than to keep its  *)
(* own data within them.                                                   *)
LEMMA SameEntries ==
  ASSUME UNCHANGED entry
  PROVE  Entries' = Entries /\ Messages' = Messages /\ Cached' = Cached
  BY DEF Entries, Messages, Cached

LEMMA TypesNext == Types /\ [Next]_vars => Types'
  <1> SUFFICES ASSUME Types, [Next]_vars PROVE Types'
    OBVIOUS
  <1> USE DEF disk, jobs, caches, thread, RowsMatching
  <1>1. ASSUME NEW u \in Urls, FileFound(u) PROVE Types'
    <2>1. PICK f \in files : entry' = Append(entry, f)
      BY <1>1 DEF FileFound
    <2>2. f \in [url : Urls, id : Nat]
      BY DEF Types
    <2>3. /\ entry' \in Seq([url : Urls, id : Nat])
          /\ Len(entry') = Len(entry) + 1 /\ Len(entry) \in Nat
      BY <2>1, <2>2, AppendProperties DEF Types
    <2>4. UNCHANGED <<inbox, caches>>
      BY <1>1 DEF FileFound
    <2>5. Entries \subseteq Entries' /\ inbox' \in Seq(Messages')
          /\ file_cache' \in Seq(Entries') /\ tile_cache' \in Seq(Cached')
      BY <2>3, <2>4, MoreEntries
    <2>6. NewEntry \in Entries'
      BY <2>3 DEF NewEntry, Entries
    <2>7. QED
      BY <1>1, <2>3, <2>5, <2>6 DEF FileFound, Types
  <1>2. ASSUME NEW u \in Urls, FileMissing(u) PROVE Types'
    <2>1. entry' = Append(entry, [url |-> u, id |-> 0])
      BY <1>2 DEF FileMissing
    <2>3. /\ entry' \in Seq([url : Urls, id : Nat])
          /\ Len(entry') = Len(entry) + 1 /\ Len(entry) \in Nat
      BY <2>1, AppendProperties DEF Types
    <2>4. UNCHANGED <<inbox, caches>>
      BY <1>2 DEF FileMissing
    <2>5. Entries \subseteq Entries' /\ inbox' \in Seq(Messages')
          /\ file_cache' \in Seq(Entries') /\ tile_cache' \in Seq(Cached')
      BY <2>3, <2>4, MoreEntries
    <2>6. NewEntry \in Entries'
      BY <2>3 DEF NewEntry, Entries
    <2>7. QED
      BY <1>2, <2>3, <2>5, <2>6 DEF FileMissing, Types
  <1>3. ASSUME NEW urls \in SUBSET Urls, FilesListed(urls) PROVE Types'
    <2>1. PICK n \in 1 .. MaxEntries - Len(entry) : \E new \in [1 .. n -> RowsMatching(urls)] :
            /\ entry' = entry \o new
            /\ known' = known \cup (Len(entry) + 1 .. Len(entry) + n)
      BY <1>3 DEF FilesListed
    <2>2. PICK new \in [1 .. n -> RowsMatching(urls)] :
            /\ entry' = entry \o new
            /\ known' = known \cup (Len(entry) + 1 .. Len(entry) + n)
      BY <2>1
    <2>3. n \in Nat /\ Len(entry) \in Nat
      BY DatabaseAssumption DEF Types
    <2>4. new \in Seq([url : Urls, id : Nat]) /\ Len(new) = n
      <3>1. new \in [1 .. n -> [url : Urls, id : Nat]]
        BY DEF Types
      <3>2. QED
        BY <3>1, <2>3, FunctionIsSeq
    <2>5. entry' \in Seq([url : Urls, id : Nat]) /\ Len(entry') = Len(entry) + n
      BY <2>2, <2>4, ConcatProperties DEF Types
    <2>6. UNCHANGED <<inbox, caches>>
      BY <1>3 DEF FilesListed
    <2>7. Entries \subseteq Entries' /\ inbox' \in Seq(Messages')
          /\ file_cache' \in Seq(Entries') /\ tile_cache' \in Seq(Cached')
      BY <2>3, <2>5, <2>6, MoreEntries
    <2>8. Len(entry) + 1 .. Len(entry) + n \subseteq Entries'
      BY <2>3, <2>5 DEF Entries
    <2>9. QED
      BY <1>3, <2>2, <2>5, <2>7, <2>8 DEF FilesListed, Types
  <1>4. ASSUME NEW e \in Entries, Announce(e) \/ GiveUp(e) PROVE Types'
    BY <1>4, SameEntries DEF Announce, GiveUp, Types
  <1>5. ASSUME NEW e \in Entries, SubmitFile(e) PROVE Types'
    <2>1. FileMessage(e) \in Messages
      BY DEF FileMessage, Messages
    <2>2. inbox' \in Seq(Messages)
      BY <1>5, <2>1, AppendProperties DEF SubmitFile, Types
    <2>3. QED
      BY <1>5, <2>2, SameEntries DEF SubmitFile, Types
  <1>6. ASSUME NEW e \in Entries, DeleteTiles(e) PROVE Types'
    BY <1>6, SameEntries DEF DeleteTiles, TilesWithout, Types
  <1>7. ASSUME NEW e \in Entries, NEW t \in Tiles, TileMissing(e, t) PROVE Types'
    BY <1>7, SameEntries DEF TileMissing, Types
  <1>8. ASSUME NEW e \in Entries, NEW t \in Tiles, SubmitTile(e, t) PROVE Types'
    <2>1. TileMessage(e, t) \in Messages
      BY DEF TileMessage, Messages
    <2>2. inbox' \in Seq(Messages)
      BY <1>8, <2>1, AppendProperties DEF SubmitTile, Types
    <2>3. QED
      BY <1>8, <2>2, SameEntries DEF SubmitTile, Types
  <1>9. ASSUME ReceiveFile PROVE Types'
    <2>1. Head(inbox) \in Messages /\ Tail(inbox) \in Seq(Messages)
      BY <1>9, HeadTailProperties DEF ReceiveFile, Types
    <2>2. Head(inbox).entry \in Entries
      BY <2>1 DEF Messages
    <2>3. file_cache' \in Seq(Entries)
      BY <1>9, <2>2, AppendProperties DEF ReceiveFile, Types
    <2>4. QED
      BY <1>9, <2>1, <2>3, SameEntries DEF ReceiveFile, Types
  <1>10. ASSUME ReceiveTile PROVE Types'
    <2>1. Head(inbox) \in Messages /\ Tail(inbox) \in Seq(Messages)
      BY <1>10, HeadTailProperties DEF ReceiveTile, Types
    <2>2. Head(inbox).entry \in Entries /\ Head(inbox).tile \in Tiles
      BY <1>10, <2>1 DEF ReceiveTile, Messages
    <2>3. [entry |-> Head(inbox).entry, tile |-> Head(inbox).tile] \in Cached
      BY <2>2 DEF Cached
    <2>4. tile_cache' \in Seq(Cached)
      BY <1>10, <2>3, AppendProperties DEF ReceiveTile, Types
    <2>5. /\ UNCHANGED <<files, last_id, tiles, entry, known, jobs, file_cache>>
          /\ inbox' = Tail(inbox)
          /\ held' = held \cup {<<Head(inbox).entry, Head(inbox).tile>>}
      BY <1>10 DEF ReceiveTile
    <2>6. held' \subseteq Entries \X Tiles
      BY <2>2, <2>5 DEF Types
    <2>7. QED
      BY <2>1, <2>4, <2>5, <2>6, SameEntries DEF Types
  <1>11. ASSUME FlushFiles PROVE Types'
    <2>0. \A i \in DOMAIN file_cache : i \in Nat /\ file_cache[i] \in Entries
      BY Elements
    <2>1. \A i \in DOMAIN file_cache : GivenId(i) \in Nat
      BY <2>0 DEF GivenId, FirstFreeId, Types
    <2>2. \A e \in Range(file_cache) : \E i \in DOMAIN file_cache : file_cache[i] = e
      BY DEF Range
    <2>3. \A e \in Entries : WithIds[e] \in [url : Urls, id : Nat]
      <3>1. TAKE e \in Entries
      <3>2. entry[e] \in [url : Urls, id : Nat]
        BY Elements
      <3>3. CASE e \in Range(file_cache)
        <4>1. (CHOOSE i \in DOMAIN file_cache : file_cache[i] = e) \in DOMAIN file_cache
          BY <2>2, <3>3
        <4>2. QED
          BY <2>1, <3>2, <3>3, <4>1 DEF WithIds
      <3>4. QED
        BY <3>2, <3>3 DEF WithIds
    <2>4. entry' \in Seq([url : Urls, id : Nat]) /\ Len(entry') = Len(entry) /\ Entries' = Entries
      <3>1. entry' = WithIds
        BY <1>11 DEF FlushFiles
      <3>2. DOMAIN entry' = Entries
        BY <3>1 DEF WithIds
      <3>3. Entries = 1 .. Len(entry) /\ Len(entry) \in Nat
        BY Elements
      <3>4. entry' \in [1 .. Len(entry) -> [url : Urls, id : Nat]]
        BY <3>1, <3>3, <2>3 DEF WithIds
      <3>5. QED
        BY <3>2, <3>3, <3>4, FunctionIsSeq DEF Entries
    <2>5. Inserted \subseteq [id : Nat, url : Urls]
      <3>1. \A i \in DOMAIN file_cache : entry[file_cache[i]].url \in Urls
        BY <2>0, Elements
      <3>2. QED
        BY <2>1, <3>1 DEF Inserted
    <2>6. last_id' \in Nat
      <3>1. last_id' = last_id + Len(file_cache)
        BY <1>11 DEF FlushFiles
      <3>2. last_id \in Nat /\ Len(file_cache) \in Nat
        BY Elements DEF Types
      <3>3. QED
        BY <3>1, <3>2
    <2>7. Messages' = Messages /\ Cached' = Cached
      BY <2>4 DEF Messages, Cached
    <2>8. QED
      BY <1>11, <2>4, <2>5, <2>6, <2>7, EmptySeq DEF FlushFiles, Types
  <1>12. ASSUME FlushTiles \/ AssertionFails PROVE Types'
    <2>1. \A c \in Range(tile_cache) : RowOf(c) \in [id : Nat, tile : Tiles, url : Urls]
      <3>1. TAKE c \in Range(tile_cache)
      <3>2. c \in Cached
        BY Elements
      <3>3. entry[c.entry] \in [url : Urls, id : Nat]
        BY <3>2, Elements DEF Cached
      <3>4. QED
        BY <3>2, <3>3 DEF RowOf, Cached
    <2>2. CASE FlushTiles
      BY <2>1, <2>2, SameEntries, EmptySeq DEF FlushTiles, Types
    <2>3. CASE AssertionFails
      BY <2>3, SameEntries DEF AssertionFails, Types
    <2>4. QED
      BY <1>12, <2>2, <2>3
  <1>13. ASSUME DeleteFile \/ Close PROVE Types'
    BY <1>13, SameEntries, EmptySeq DEF DeleteFile, FilesWithout, Close, Types
  <1>14. ASSUME Restart PROVE Types'
    BY <1>14, EmptySeq DEF Restart, Forgotten, Types, Entries
  <1>15. CASE UNCHANGED vars
    BY <1>15, SameEntries DEF vars, Types
  <1>16. QED
    BY <1>1, <1>2, <1>3, <1>4, <1>5, <1>6, <1>7, <1>8, <1>9, <1>10, <1>11, <1>12, <1>13,
       <1>14, <1>15 DEF Next

(***************************************************************************)
(* Whose id is it?  Three places tell which picture has an id: the table   *)
(* of files, the handles that have an id, and the rows of tiles, which     *)
(* stay behind when a picture is stored again.  The invariant behind       *)
(* OwnPicture is that they never disagree, not even about ids that are in  *)
(* no table any more.                                                      *)
(***************************************************************************)
Claim(id, url) ==
  \/ \E f \in files : f.id = id /\ f.url = url
  \/ \E e \in Entries : entry[e].id # 0 /\ entry[e].id = id /\ entry[e].url = url
  \/ \E r \in tiles : r.id = id /\ r.url = url

IdsGiven == \A id, url : Claim(id, url) => id \in 1 .. last_id
OneOwner == \A id, u, v : Claim(id, u) /\ Claim(id, v) => u = v

Owned == IdsGiven /\ OneOwner

(* As long as no id is given, nothing can go wrong. *)
LEMMA NoNewClaim ==
  ASSUME Owned, \A id, url : Claim(id, url)' => Claim(id, url), last_id' = last_id
  PROVE  Owned'
  BY DEF Owned, IdsGiven, OneOwner

(* The ids that a flush gives are new, and each is given once. *)
LEMMA FlushedClaims ==
  ASSUME Types, FlushFiles, NEW id, NEW url, Claim(id, url)'
  PROVE  Claim(id, url) \/ \E i \in DOMAIN file_cache :
                             id = GivenId(i) /\ url = entry[file_cache[i]].url
  <1>1. CASE \E f \in files' : f.id = id /\ f.url = url
    <2>1. PICK f \in files' : f.id = id /\ f.url = url
      BY <1>1
    <2>2. CASE f \in files
      BY <2>1, <2>2 DEF Claim
    <2>3. CASE f \in Inserted
      BY <2>1, <2>3 DEF Inserted
    <2>4. QED
      BY <2>1, <2>2, <2>3 DEF FlushFiles
  <1>2. CASE \E e \in Entries' : entry'[e].id # 0 /\ entry'[e].id = id /\ entry'[e].url = url
    <2>0. entry' = WithIds /\ Entries' = Entries
      BY DEF FlushFiles, WithIds, Entries
    <2>1. PICK e \in Entries : WithIds[e].id # 0 /\ WithIds[e].id = id /\ WithIds[e].url = url
      BY <1>2, <2>0
    <2>2. entry[e] \in [url : Urls, id : Nat]
      BY Elements
    <2>3. CASE e \in Range(file_cache)
      <3>1. \E i \in DOMAIN file_cache : file_cache[i] = e
        BY <2>3 DEF Range
      <3>2. PICK i \in DOMAIN file_cache :
              i = CHOOSE k \in DOMAIN file_cache : file_cache[k] = e
        BY <3>1
      <3>3. file_cache[i] = e
        BY <3>1, <3>2
      <3>4. WithIds[e] = [entry[e] EXCEPT !.id = GivenId(i)]
        BY <2>3, <3>2 DEF WithIds
      <3>5. QED
        BY <2>1, <2>2, <3>3, <3>4
    <2>4. CASE e \notin Range(file_cache)
      <3>1. WithIds[e] = entry[e]
        BY <2>4 DEF WithIds
      <3>2. QED
        BY <2>1, <3>1 DEF Claim
    <2>5. QED
      BY <2>3, <2>4
  <1>3. CASE \E r \in tiles' : r.id = id /\ r.url = url
    BY <1>3 DEF FlushFiles, Claim
  <1>4. QED
    BY <1>1, <1>2, <1>3 DEF Claim

LEMMA OwnedFlush == Types /\ Owned /\ FlushFiles => Owned'
  <1> SUFFICES ASSUME Types, Owned, FlushFiles PROVE Owned'
    OBVIOUS
  <1> DEFINE New(id, url) == \E i \in DOMAIN file_cache :
                               id = GivenId(i) /\ url = entry[file_cache[i]].url
  <1>1. \A id, url : Claim(id, url)' => Claim(id, url) \/ New(id, url)
    BY FlushedClaims
  <1>2. /\ last_id \in Nat /\ Len(file_cache) \in Nat
        /\ last_id' = last_id + Len(file_cache)
    BY Elements DEF FlushFiles, Types
  <1>3. \A i \in DOMAIN file_cache : i \in 1 .. Len(file_cache) /\ GivenId(i) = last_id + i
    <2>1. TAKE i \in DOMAIN file_cache
    <2>2. i \in 1 .. Len(file_cache) /\ i \in Nat
      BY Elements
    <2>3. QED
      BY <1>2, <2>2 DEF GivenId, FirstFreeId
  <1>4. \A id, url : New(id, url) => id \in last_id + 1 .. last_id'
    BY <1>2, <1>3
  <1>5. \A id, url : Claim(id, url) => id \in 1 .. last_id
    BY DEF Owned, IdsGiven
  <1>6. \A id, u, v : New(id, u) /\ New(id, v) => u = v
    <2>1. ASSUME NEW i \in DOMAIN file_cache, NEW j \in DOMAIN file_cache, GivenId(i) = GivenId(j)
          PROVE  i = j
      BY <1>2, <1>3, <2>1
    <2>2. QED
      BY <2>1
  <1> HIDE DEF New
  <1>7. \A id, u, v : ~(Claim(id, u) /\ New(id, v))
    <2>1. SUFFICES ASSUME NEW id, NEW u, NEW v, Claim(id, u), New(id, v) PROVE FALSE
      OBVIOUS
    <2>2. id \in 1 .. last_id /\ id \in last_id + 1 .. last_id'
      BY <1>4, <1>5, <2>1
    <2>3. QED
      BY <1>2, <2>2
  <1>8. IdsGiven'
    BY <1>1, <1>2, <1>4, <1>5 DEF IdsGiven
  <1>9. OneOwner'
    BY <1>1, <1>6, <1>7 DEF OneOwner, Owned
  <1>10. QED
    BY <1>8, <1>9 DEF Owned

LEMMA OwnedInit == Init => Owned
  BY DEF Init, Owned, IdsGiven, OneOwner, Claim, Entries

LEMMA OwnedNext == Types /\ Owned /\ [Next]_vars => Owned'
  <1> SUFFICES ASSUME Types, Owned, [Next]_vars PROVE Owned'
    OBVIOUS
  <1> USE DEF disk, jobs, caches, thread, RowsMatching
  <1>0. ASSUME NEW n \in Nat, NEW new \in Seq([url : Urls, id : Nat]), Len(new) = n,
               entry' = entry \o new, UNCHANGED <<files, last_id, tiles>>,
               \A i \in 1 .. n : new[i].id # 0 => new[i] \in files
        PROVE  Owned'
    <2>1. /\ Len(entry) \in Nat /\ Entries = 1 .. Len(entry)
          /\ Len(entry') = Len(entry) + n /\ Entries' = 1 .. Len(entry) + n
          /\ \A e \in 1 .. Len(entry) + n :
               entry'[e] = IF e <= Len(entry) THEN entry[e] ELSE new[e - Len(entry)]
      <3>1. entry \in Seq([url : Urls, id : Nat])
        BY DEF Types
      <3>2. /\ entry' \in Seq([url : Urls, id : Nat]) /\ Len(entry') = Len(entry) + n
            /\ \A e \in 1 .. Len(entry) + n :
                 entry'[e] = IF e <= Len(entry) THEN entry[e] ELSE new[e - Len(entry)]
        BY <1>0, <3>1, ConcatProperties
      <3>3. Entries' = 1 .. Len(entry')
        BY <3>2, LenProperties DEF Entries
      <3>4. Len(entry) \in Nat /\ Entries = 1 .. Len(entry)
        BY Elements
      <3>5. QED
        BY <3>2, <3>3, <3>4
    <2>2. ASSUME NEW e \in Entries', entry'[e].id # 0
          PROVE  Claim(entry'[e].id, entry'[e].url)
      <3>1. CASE e <= Len(entry)
        BY <2>1, <2>2, <3>1 DEF Claim
      <3>2. CASE ~(e <= Len(entry))
        <4>1. e - Len(entry) \in 1 .. n /\ entry'[e] = new[e - Len(entry)]
          BY <2>1, <3>2
        <4>2. entry'[e] \in files
          BY <1>0, <2>2, <4>1
        <4>3. QED
          BY <4>2 DEF Claim
      <3>3. QED
        BY <3>1, <3>2
    <2>3. ASSUME NEW id, NEW url, Claim(id, url)' PROVE Claim(id, url)
      <3>1. CASE \E e \in Entries' : entry'[e].id # 0 /\ entry'[e].id = id /\ entry'[e].url = url
        BY <2>2, <3>1
      <3>2. CASE \/ \E f \in files' : f.id = id /\ f.url = url
                 \/ \E r \in tiles' : r.id = id /\ r.url = url
        BY <1>0, <3>2 DEF Claim
      <3>3. QED
        BY <2>3, <3>1, <3>2 DEF Claim
    <2>4. QED
      BY <1>0, <2>3, NoNewClaim
  <1>1. ASSUME NEW u \in Urls, FileFound(u) PROVE Owned'
    <2>1. PICK f \in files : entry' = Append(entry, f)
      BY <1>1 DEF FileFound
    <2>2. f \in [url : Urls, id : Nat]
      BY DEF Types
    <2>3. /\ <<f>> \in Seq([url : Urls, id : Nat]) /\ Len(<<f>>) = 1
          /\ entry' = entry \o <<f>> /\ <<f>>[1] = f
      BY <2>1, <2>2, AppendIsConcat DEF Types
    <2>4. UNCHANGED <<files, last_id, tiles>>
      BY <1>1 DEF FileFound
    <2>5. \A i \in 1 .. 1 : <<f>>[i].id # 0 => <<f>>[i] \in files
      BY <2>3
    <2>6. QED
      BY <2>3, <2>4, <2>5, <1>0
  <1>2. ASSUME NEW u \in Urls, FileMissing(u) PROVE Owned'
    <2> DEFINE f == [url |-> u, id |-> 0]
    <2>1. entry' = Append(entry, f)
      BY <1>2 DEF FileMissing
    <2>3. /\ <<f>> \in Seq([url : Urls, id : Nat]) /\ Len(<<f>>) = 1
          /\ entry' = entry \o <<f>> /\ <<f>>[1] = f
      BY <2>1, AppendIsConcat DEF Types
    <2>4. UNCHANGED <<files, last_id, tiles>>
      BY <1>2 DEF FileMissing
    <2>5. \A i \in 1 .. 1 : <<f>>[i].id # 0 => <<f>>[i] \in files
      BY <2>3
    <2> HIDE DEF f
    <2>6. QED
      BY <2>3, <2>4, <2>5, <1>0
  <1>3. ASSUME NEW urls \in SUBSET Urls, FilesListed(urls) PROVE Owned'
    <2>1. PICK n \in 1 .. MaxEntries - Len(entry) : \E new \in [1 .. n -> RowsMatching(urls)] :
            entry' = entry \o new
      BY <1>3 DEF FilesListed
    <2>2. PICK new \in [1 .. n -> RowsMatching(urls)] : entry' = entry \o new
      BY <2>1
    <2>3. n \in Nat
      BY DatabaseAssumption, Elements
    <2>4. new \in [1 .. n -> [url : Urls, id : Nat]] /\ \A i \in 1 .. n : new[i] \in files
      BY DEF Types
    <2>5. new \in Seq([url : Urls, id : Nat]) /\ Len(new) = n
      BY <2>3, <2>4, FunctionIsSeq
    <2>6. UNCHANGED <<files, last_id, tiles>>
      BY <1>3 DEF FilesListed
    <2>7. QED
      BY <2>2, <2>3, <2>4, <2>5, <2>6, <1>0
  <1>4. ASSUME NEW e \in Entries,
               \/ Announce(e) \/ SubmitFile(e) \/ GiveUp(e)
               \/ \E t \in Tiles : TileMissing(e, t) \/ SubmitTile(e, t)
        PROVE  Owned'
    <2>1. UNCHANGED <<disk, entry>>
      BY <1>4 DEF Announce, SubmitFile, GiveUp, TileMissing, SubmitTile
    <2>2. QED
      BY <2>1, NoNewClaim DEF Claim, Entries
  <1>5. CASE ReceiveFile \/ ReceiveTile \/ AssertionFails \/ Close \/ UNCHANGED vars
    <2>1. UNCHANGED <<disk, entry>>
      BY <1>5 DEF ReceiveFile, ReceiveTile, AssertionFails, Close, vars
    <2>2. QED
      BY <2>1, NoNewClaim DEF Claim, Entries
  <1>6. ASSUME NEW e \in Entries, DeleteTiles(e) PROVE Owned'
    <2>1. tiles' \subseteq tiles /\ UNCHANGED <<files, last_id, entry>>
      BY <1>6 DEF DeleteTiles, TilesWithout
    <2>2. QED
      BY <2>1, NoNewClaim DEF Claim, Entries
  <1>7. CASE DeleteFile
    <2>1. files' \subseteq files /\ UNCHANGED <<tiles, last_id, entry>>
      BY <1>7 DEF DeleteFile, FilesWithout
    <2>2. QED
      BY <2>1, NoNewClaim DEF Claim, Entries
  <1>8. CASE FlushTiles
    <2>1. UNCHANGED <<files, last_id, entry>>
      BY <1>8 DEF FlushTiles
    <2>2. ASSUME NEW r \in tiles' PROVE Claim(r.id, r.url)
      <3>1. CASE r \in tiles
        BY <3>1 DEF Claim
      <3>2. CASE \E c \in Range(tile_cache) : r = RowOf(c)
        <4>1. PICK c \in Range(tile_cache) : r = RowOf(c)
          BY <3>2
        <4>2. c.entry \in Entries /\ entry[c.entry].id # 0
          BY <1>8, Elements DEF Cached, FlushTiles
        <4>3. r.id = entry[c.entry].id /\ r.url = entry[c.entry].url
          BY <4>1 DEF RowOf
        <4>4. QED
          BY <4>2, <4>3 DEF Claim
      <3>3. QED
        BY <1>8, <3>1, <3>2 DEF FlushTiles
    <2>3. QED
      BY <2>1, <2>2, NoNewClaim DEF Claim, Entries
  <1>9. CASE FlushFiles
    BY <1>9, OwnedFlush
  <1>10. CASE Restart
    <2>1. entry' = <<>> /\ UNCHANGED <<files, tiles, last_id>>
      BY <1>10 DEF Restart, Forgotten
    <2>2. Entries' = {}
      BY <2>1 DEF Entries
    <2>3. QED
      BY <2>1, <2>2, NoNewClaim DEF Claim
  <1>11. QED
    BY <1>1, <1>2, <1>3, <1>4, <1>5, <1>6, <1>7, <1>8, <1>9, <1>10 DEF Next

LEMMA OwnedShowsOwn == Types /\ Owned => OwnPicture
  <1> SUFFICES ASSUME Types, Owned PROVE OwnPicture
    OBVIOUS
  <1>1. \A id, u, v : Claim(id, u) /\ Claim(id, v) => u = v
    BY DEF Owned, OneOwner
  <1>2. \A f, r : f \in files /\ r \in tiles /\ f.id = r.id => f.url = r.url
    BY <1>1 DEF Claim
  <1>3. \A d, e \in Entries :
          entry[d].id # 0 /\ entry[d].id = entry[e].id => entry[d].url = entry[e].url
    BY <1>1 DEF Claim
  <1>4. ASSUME NEW e \in Entries, NEW t \in Tiles PROVE Shown(e, t) \subseteq {entry[e].url}
    <2>1. \A r \in InTable(e, t) : r.url = entry[e].url
      BY <1>1 DEF InTable, Claim
    <2>2. \A c \in InCache(e, t) : entry[c.entry].url = entry[e].url
      BY <1>3, Elements DEF InCache, SameFile, Cached
    <2>3. QED
      BY <2>1, <2>2 DEF Shown
  <1>5. QED
    BY <1>2, <1>3, <1>4 DEF OwnPicture

(* No picture is ever shown with the tiles of another one                  *)
(* (tile_database.cpp:102-119, file_database.cpp:122-136), whatever is     *)
(* deleted or replaced and whenever the program is killed.                 *)
THEOREM OwnPictureHolds == Spec => []OwnPicture
  <1>1. Init => Types /\ Owned
    BY TypesInit, OwnedInit
  <1>2. Types /\ Owned /\ [Next]_vars => Types' /\ Owned'
    BY TypesNext, OwnedNext
  <1>3. Types /\ Owned => OwnPicture
    BY OwnedShowsOwn
  <1>4. QED
    BY <1>1, <1>2, <1>3, PTL DEF Spec

(***************************************************************************)
(* Where is the tile?  A handle gets its id once: it is in one place at a  *)
(* time on its way to the cache of files, and has no id until the flush.   *)
(* So a row of tiles that was written with the id of a handle is found     *)
(* with it for ever.                                                       *)
(***************************************************************************)
InboxFiles == {i \in DOMAIN inbox : inbox[i].type = "file"}

NoIdYet ==
  /\ \A e \in announcing \cup submitting : entry[e].id = 0
  /\ \A i \in InboxFiles : entry[inbox[i].entry].id = 0
  /\ \A i \in DOMAIN file_cache : entry[file_cache[i]].id = 0

OnePlace ==
  /\ announcing \cap submitting = {}
  /\ \A i \in InboxFiles : inbox[i].entry \notin announcing \cup submitting
  /\ \A i \in DOMAIN file_cache : file_cache[i] \notin announcing \cup submitting
  /\ \A i \in InboxFiles, k \in DOMAIN file_cache : inbox[i].entry # file_cache[k]
  /\ \A i, j \in InboxFiles : inbox[i].entry = inbox[j].entry => i = j

Pending == NoIdYet /\ OnePlace

Kept ==
  \A h \in held :
    \/ \E c \in Range(tile_cache) : c.entry = h[1] /\ c.tile = h[2]
    \/ entry[h[1]].id # 0 /\ \E r \in tiles : r.id = entry[h[1]].id /\ r.tile = h[2]

(* Entries that are added do not change those there are.                   *)
LEMMA OldEntries ==
  ASSUME Types, [Next]_vars, ~FlushFiles, ~Restart
  PROVE  /\ \A e \in Entries : e \in Entries' /\ entry'[e] = entry[e]
         /\ NewEntry \notin Entries
  <1>0. /\ Len(entry) \in Nat /\ Entries = 1 .. Len(entry)
        /\ entry \in Seq([url : Urls, id : Nat])
    BY Elements DEF Types
  <1>1. NewEntry \notin Entries
    BY <1>0 DEF NewEntry
  <1>2. CASE \E f \in [url : Urls, id : Nat] : entry' = Append(entry, f)
    <2>1. PICK f \in [url : Urls, id : Nat] : entry' = Append(entry, f)
      BY <1>2
    <2>2. /\ entry' \in Seq([url : Urls, id : Nat]) /\ Len(entry') = Len(entry) + 1
          /\ \A i \in 1 .. Len(entry) : entry'[i] = entry[i]
      BY <1>0, <2>1, AppendProperties
    <2>3. Entries' = 1 .. Len(entry')
      BY <2>2, LenProperties DEF Entries
    <2>4. QED
      BY <1>0, <1>1, <2>2, <2>3
  <1>3. CASE \E n \in Nat : \E new \in [1 .. n -> [url : Urls, id : Nat]] : entry' = entry \o new
    <2>0. PICK n \in Nat : \E new \in [1 .. n -> [url : Urls, id : Nat]] : entry' = entry \o new
      BY <1>3
    <2>1. PICK new \in [1 .. n -> [url : Urls, id : Nat]] : entry' = entry \o new
      BY <2>0
    <2>2. new \in Seq([url : Urls, id : Nat]) /\ Len(new) = n
      BY <2>1, FunctionIsSeq
    <2>3. /\ entry' \in Seq([url : Urls, id : Nat]) /\ Len(entry') = Len(entry) + n
          /\ \A i \in 1 .. Len(entry) + n :
               entry'[i] = IF i <= Len(entry) THEN entry[i] ELSE new[i - Len(entry)]
      BY <1>0, <2>1, <2>2, ConcatProperties
    <2>4. Entries' = 1 .. Len(entry')
      BY <2>3, LenProperties DEF Entries
    <2>5. QED
      BY <1>0, <1>1, <2>3, <2>4
  <1>4. CASE UNCHANGED entry
    BY <1>1, <1>4 DEF Entries
  <1>5. ASSUME NEW urls, FilesListed(urls)
        PROVE  \E n \in Nat : \E new \in [1 .. n -> [url : Urls, id : Nat]] : entry' = entry \o new
    <2>1. PICK n \in 1 .. MaxEntries - Len(entry) : \E new \in [1 .. n -> RowsMatching(urls)] :
            entry' = entry \o new
      BY <1>5 DEF FilesListed
    <2>2. PICK new \in [1 .. n -> RowsMatching(urls)] : entry' = entry \o new
      BY <2>1
    <2>3. n \in Nat
      BY DatabaseAssumption, <1>0
    <2>4. new \in [1 .. n -> [url : Urls, id : Nat]]
      BY DEF Types, RowsMatching
    <2>5. QED
      BY <2>2, <2>3, <2>4
  <1>6. ASSUME NEW u \in Urls, FileFound(u) \/ FileMissing(u)
        PROVE  \E f \in [url : Urls, id : Nat] : entry' = Append(entry, f)
    BY <1>6 DEF FileFound, FileMissing, RowsMatching, Types
  <1>7. CASE \/ \E e \in Entries : Announce(e) \/ SubmitFile(e) \/ GiveUp(e) \/ DeleteTiles(e)
                                  \/ \E t \in Tiles : TileMissing(e, t) \/ SubmitTile(e, t)
             \/ ReceiveFile \/ ReceiveTile \/ FlushTiles \/ AssertionFails \/ DeleteFile \/ Close
             \/ UNCHANGED vars
    BY <1>4, <1>7 DEF Announce, SubmitFile, GiveUp, DeleteTiles, TileMissing, SubmitTile,
         ReceiveFile, ReceiveTile, FlushTiles, AssertionFails, DeleteFile, Close, vars, disk
  <1>8. QED
    BY <1>2, <1>3, <1>5, <1>6, <1>7 DEF Next

(* What is waiting exists. *)
LEMMA WaitingExist ==
  ASSUME Types
  PROVE  /\ announcing \cup submitting \subseteq Entries
         /\ \A i \in InboxFiles : inbox[i].entry \in Entries
         /\ \A i \in DOMAIN file_cache : file_cache[i] \in Entries
  BY Elements DEF Types, InboxFiles, Messages

(* Handles of which nothing new is under way stay where they are. *)
LEMMA PendingKept ==
  ASSUME Types, Pending, \A e \in Entries : entry'[e] = entry[e], UNCHANGED <<inbox, file_cache>>,
         announcing' \subseteq announcing, submitting' \subseteq submitting
  PROVE  Pending'
  <1>1. InboxFiles' = InboxFiles
    BY DEF InboxFiles
  <1>2. NoIdYet'
    BY <1>1, WaitingExist DEF Pending, NoIdYet
  <1>3. OnePlace'
    BY <1>1 DEF Pending, OnePlace
  <1>4. QED
    BY <1>2, <1>3 DEF Pending

LEMMA PendingNext == Types /\ Pending /\ [Next]_vars => Pending'
  <1> SUFFICES ASSUME Types, Pending, [Next]_vars PROVE Pending'
    OBVIOUS
  <1> USE DEF disk, jobs, caches, thread
  <1>1. CASE FlushFiles
    <2>1. UNCHANGED <<announcing, submitting, inbox>> /\ file_cache' = <<>> /\ entry' = WithIds
      BY <1>1 DEF FlushFiles
    <2>2. InboxFiles' = InboxFiles
      BY <2>1 DEF InboxFiles
    <2>3. \A e \in Entries : (\A i \in DOMAIN file_cache : file_cache[i] # e) => entry'[e] = entry[e]
      BY <2>1 DEF WithIds, Range
    <2>4. DOMAIN file_cache' = {}
      BY <2>1
    <2>5. NoIdYet'
      BY <2>1, <2>2, <2>3, <2>4, WaitingExist DEF Pending, NoIdYet, OnePlace
    <2>6. OnePlace'
      BY <2>1, <2>2, <2>4 DEF Pending, OnePlace
    <2>7. QED
      BY <2>5, <2>6 DEF Pending
  <1>2. CASE Restart \/ Close
    <2>1. CASE Restart
      <3>1. announcing' = {} /\ submitting' = {} /\ inbox' = <<>> /\ file_cache' = <<>>
        BY <2>1 DEF Restart, Forgotten
      <3>2. QED
        BY <3>1 DEF Pending, NoIdYet, OnePlace, InboxFiles
    <2>2. CASE Close
      <3>1. /\ announcing' = {} /\ submitting' = {} /\ inbox' = <<>>
            /\ UNCHANGED <<file_cache, entry>>
        BY <2>2 DEF Close
      <3>2. QED
        BY <3>1 DEF Pending, NoIdYet, OnePlace, InboxFiles
    <2>3. QED
      BY <1>2, <2>1, <2>2
  <1>3. CASE ~FlushFiles /\ ~Restart /\ ~Close
    <2>0. /\ \A e \in Entries : entry'[e] = entry[e]
          /\ NewEntry \notin Entries
      BY <1>3, OldEntries
    <2>1. ASSUME NEW u \in Urls, FileMissing(u) PROVE Pending'
      <3>1. /\ UNCHANGED <<submitting, inbox, file_cache>> /\ announcing' = announcing \cup {NewEntry}
            /\ entry' = Append(entry, [url |-> u, id |-> 0])
        BY <2>1 DEF FileMissing
      <3>2. entry'[NewEntry].id = 0
        BY <3>1, AppendProperties DEF NewEntry, Types
      <3>3. InboxFiles' = InboxFiles
        BY <3>1 DEF InboxFiles
      <3>4. NoIdYet'
        BY <3>1, <3>2, <3>3, <2>0, WaitingExist DEF Pending, NoIdYet
      <3>5. OnePlace'
        BY <3>1, <3>3, <2>0, WaitingExist DEF Pending, OnePlace
      <3>6. QED
        BY <3>4, <3>5 DEF Pending
    <2>2. ASSUME NEW e \in Entries, Announce(e) PROVE Pending'
      <3>1. /\ UNCHANGED <<entry, inbox, file_cache>> /\ e \in announcing
            /\ announcing' = announcing \ {e} /\ submitting' = submitting \cup {e}
        BY <2>2 DEF Announce
      <3>2. InboxFiles' = InboxFiles
        BY <3>1 DEF InboxFiles
      <3>3. QED
        BY <3>1, <3>2 DEF Pending, NoIdYet, OnePlace
    <2>3. ASSUME NEW e \in Entries, SubmitFile(e) PROVE Pending'
      <3>1. /\ UNCHANGED <<entry, announcing, file_cache>> /\ e \in submitting
            /\ submitting' = submitting \ {e}
            /\ inbox' = Append(inbox, FileMessage(e))
        BY <2>3 DEF SubmitFile
      <3>2. inbox \in Seq(Messages) /\ FileMessage(e) \in Messages /\ Len(inbox) \in Nat
        BY LenProperties DEF Types, FileMessage, Messages
      <3>3. /\ DOMAIN inbox = 1 .. Len(inbox) /\ DOMAIN inbox' = 1 .. Len(inbox) + 1
            /\ \A i \in DOMAIN inbox : inbox'[i] = inbox[i]
            /\ inbox'[Len(inbox) + 1] = FileMessage(e)
        BY <3>1, <3>2, AppendProperties, LenProperties
      <3>4. \A i \in InboxFiles' : \/ i \in InboxFiles /\ inbox'[i] = inbox[i]
                                   \/ i = Len(inbox) + 1 /\ inbox'[i].entry = e
        BY <3>2, <3>3 DEF InboxFiles, FileMessage
      <3>5. \A i \in InboxFiles : inbox[i].entry # e
        BY <3>1 DEF Pending, OnePlace
      <3>6. NoIdYet'
        BY <3>1, <3>4 DEF Pending, NoIdYet
      <3>7. \A i, j \in InboxFiles' : inbox'[i].entry = inbox'[j].entry => i = j
        BY <3>4, <3>5 DEF Pending, OnePlace
      <3>8. \A i \in InboxFiles' : inbox'[i].entry \notin announcing' \cup submitting'
        BY <3>1, <3>4 DEF Pending, OnePlace
      <3>9. \A i \in InboxFiles', k \in DOMAIN file_cache' : inbox'[i].entry # file_cache'[k]
        BY <3>1, <3>4 DEF Pending, OnePlace
      <3>10. OnePlace'
        BY <3>1, <3>7, <3>8, <3>9 DEF Pending, OnePlace
      <3>11. QED
        BY <3>6, <3>10 DEF Pending
    <2>4. ASSUME NEW e \in Entries, NEW t \in Tiles, SubmitTile(e, t) PROVE Pending'
      <3>1. /\ UNCHANGED <<entry, announcing, submitting, file_cache>>
            /\ inbox' = Append(inbox, TileMessage(e, t))
        BY <2>4 DEF SubmitTile
      <3>2. inbox \in Seq(Messages) /\ TileMessage(e, t) \in Messages /\ Len(inbox) \in Nat
        BY LenProperties DEF Types, TileMessage, Messages
      <3>3. /\ DOMAIN inbox = 1 .. Len(inbox) /\ DOMAIN inbox' = 1 .. Len(inbox) + 1
            /\ \A i \in DOMAIN inbox : inbox'[i] = inbox[i]
            /\ inbox'[Len(inbox) + 1] = TileMessage(e, t)
        BY <3>1, <3>2, AppendProperties, LenProperties
      <3>4. TileMessage(e, t).type # "file"
        BY DEF TileMessage
      <3>5. InboxFiles' = InboxFiles /\ \A i \in InboxFiles : inbox'[i] = inbox[i]
        BY <3>2, <3>3, <3>4 DEF InboxFiles
      <3>6. NoIdYet'
        BY <3>1, <3>5 DEF Pending, NoIdYet
      <3>7. OnePlace'
        <4>1. announcing' = announcing /\ submitting' = submitting /\ file_cache' = file_cache
          BY <3>1
        <4>2. \A i \in InboxFiles' : i \in InboxFiles /\ inbox'[i].entry = inbox[i].entry
          BY <3>5
        <4>3. OnePlace
          BY DEF Pending
        <4>4. QED
          BY <4>1, <4>2, <4>3 DEF OnePlace
      <3>8. QED
        BY <3>6, <3>7 DEF Pending
    <2>5. ASSUME inbox # <<>>, UNCHANGED <<entry, announcing, submitting>>, inbox' = Tail(inbox)
          PROVE  /\ \A i \in InboxFiles' : i + 1 \in InboxFiles /\ inbox'[i] = inbox[i + 1]
                 /\ \A i \in InboxFiles' : i \in Nat /\ i + 1 # 1
      <3>1. /\ inbox \in Seq(Messages) /\ Len(inbox) \in Nat \ {0}
            /\ DOMAIN inbox = 1 .. Len(inbox)
        BY <2>5, EmptySeq, LenProperties DEF Types
      <3>2. /\ Tail(inbox) \in Seq(Messages) /\ Len(Tail(inbox)) = Len(inbox) - 1
            /\ \A i \in 1 .. Len(Tail(inbox)) : Tail(inbox)[i] = inbox[i + 1]
        BY <2>5, <3>1, HeadTailProperties
      <3>3. DOMAIN inbox' = 1 .. Len(inbox) - 1
        BY <2>5, <3>2, LenProperties
      <3>4. QED
        BY <2>5, <3>1, <3>2, <3>3 DEF InboxFiles
    <2>6. CASE ReceiveFile
      <3>1. /\ inbox # <<>> /\ inbox' = Tail(inbox) /\ Head(inbox).type = "file"
            /\ UNCHANGED <<entry, announcing, submitting>>
            /\ file_cache' = Append(file_cache, Head(inbox).entry)
        BY <2>6 DEF ReceiveFile
      <3>2. inbox \in Seq(Messages) /\ Head(inbox) = inbox[1] /\ 1 \in InboxFiles
        BY <3>1, EmptySeq, LenProperties, HeadTailProperties DEF Types, InboxFiles
      <3>3. \A i \in InboxFiles' : i + 1 \in InboxFiles /\ inbox'[i] = inbox[i + 1] /\ i + 1 # 1
        BY <2>5, <3>1
      <3>4. inbox[1].entry \in Entries /\ file_cache \in Seq(Entries)
        BY <3>2, WaitingExist DEF Types
      <3>5. \A k \in DOMAIN file_cache' :
               \/ file_cache'[k] = inbox[1].entry
               \/ k \in DOMAIN file_cache /\ file_cache'[k] = file_cache[k]
        <4>1. /\ file_cache' \in Seq(Entries) /\ Len(file_cache') = Len(file_cache) + 1
              /\ \A k \in 1 .. Len(file_cache) : file_cache'[k] = file_cache[k]
              /\ file_cache'[Len(file_cache) + 1] = inbox[1].entry
          BY <3>1, <3>2, <3>4, AppendProperties
        <4>2. DOMAIN file_cache = 1 .. Len(file_cache) /\ Len(file_cache) \in Nat
          BY <3>4, LenProperties
        <4>3. DOMAIN file_cache' = 1 .. Len(file_cache) + 1
          BY <4>1, LenProperties
        <4>4. ASSUME NEW k \in DOMAIN file_cache'
              PROVE  k = Len(file_cache) + 1 \/ k \in DOMAIN file_cache
          BY <4>2, <4>3
        <4>5. \A k \in DOMAIN file_cache : file_cache'[k] = file_cache[k]
          BY <4>1, <4>2
        <4>6. QED
          BY <4>1, <4>4, <4>5
      <3>6. \A i \in InboxFiles' : inbox'[i].entry # inbox[1].entry
        BY <3>2, <3>3 DEF Pending, OnePlace
      <3>7. NoIdYet'
        BY <3>1, <3>2, <3>3, <3>5 DEF Pending, NoIdYet
      <3>8. \A i, j \in InboxFiles' : inbox'[i].entry = inbox'[j].entry => i = j
        <4>1. SUFFICES ASSUME NEW i \in InboxFiles', NEW j \in InboxFiles',
                              inbox'[i].entry = inbox'[j].entry
                       PROVE  i = j
          OBVIOUS
        <4>2. i + 1 = j + 1
          BY <3>3, <4>1 DEF Pending, OnePlace
        <4>3. i \in Nat /\ j \in Nat
          BY <2>5, <3>1
        <4>4. QED
          BY <4>2, <4>3
      <3>9. \A i \in InboxFiles', k \in DOMAIN file_cache' : inbox'[i].entry # file_cache'[k]
        BY <3>3, <3>5, <3>6 DEF Pending, OnePlace
      <3>10. \A k \in DOMAIN file_cache' : file_cache'[k] \notin announcing' \cup submitting'
        BY <3>1, <3>2, <3>5 DEF Pending, OnePlace
      <3>11. \A i \in InboxFiles' : inbox'[i].entry \notin announcing' \cup submitting'
        BY <3>1, <3>3 DEF Pending, OnePlace
      <3>12. OnePlace'
        BY <3>1, <3>8, <3>9, <3>10, <3>11 DEF Pending, OnePlace
      <3>13. QED
        BY <3>7, <3>12 DEF Pending
    <2>7. CASE ReceiveTile
      <3>1. /\ inbox # <<>> /\ inbox' = Tail(inbox)
            /\ UNCHANGED <<entry, announcing, submitting, file_cache>>
        BY <2>7 DEF ReceiveTile
      <3>2. /\ \A i \in InboxFiles' : i + 1 \in InboxFiles /\ inbox'[i] = inbox[i + 1]
            /\ \A i \in InboxFiles' : i \in Nat
        BY <2>5, <3>1
      <3>3. NoIdYet'
        BY <3>1, <3>2 DEF Pending, NoIdYet
      <3>4. \A i, j \in InboxFiles' : inbox'[i].entry = inbox'[j].entry => i = j
        <4>1. SUFFICES ASSUME NEW i \in InboxFiles', NEW j \in InboxFiles',
                              inbox'[i].entry = inbox'[j].entry
                       PROVE  i = j
          OBVIOUS
        <4>2. i + 1 = j + 1
          BY <3>2, <4>1 DEF Pending, OnePlace
        <4>3. QED
          BY <3>2, <4>2
      <3>5. OnePlace'
        BY <3>1, <3>2, <3>4 DEF Pending, OnePlace
      <3>6. QED
        BY <3>3, <3>5 DEF Pending
    <2>8. CASE \/ \E u \in Urls : FileFound(u)
               \/ \E urls \in SUBSET Urls : FilesListed(urls)
               \/ \E e \in Entries : GiveUp(e) \/ DeleteTiles(e) \/ \E t \in Tiles : TileMissing(e, t)
               \/ FlushTiles \/ AssertionFails \/ DeleteFile \/ UNCHANGED vars
      <3>1. /\ UNCHANGED <<inbox, file_cache>>
            /\ announcing' \subseteq announcing /\ submitting' \subseteq submitting
        BY <2>8 DEF FileFound, FilesListed, GiveUp, DeleteTiles, TileMissing, FlushTiles,
             AssertionFails, DeleteFile, vars
      <3>2. QED
        BY <2>0, <3>1, PendingKept
    <2>9. QED
      BY <1>3, <2>1, <2>2, <2>3, <2>4, <2>6, <2>7, <2>8 DEF Next
  <1>4. QED
    BY <1>1, <1>2, <1>3

LEMMA PendingInit == Init => Pending
  BY DEF Init, Pending, NoIdYet, OnePlace, InboxFiles

(* A tile that is held stays where it is, if its handle does and nothing   *)
(* is taken out of the cache or the table.                                 *)
LEMMA NothingLost ==
  ASSUME Types, Kept, held' \subseteq held, \A e \in Entries : entry'[e] = entry[e],
         Range(tile_cache) \subseteq Range(tile_cache)', tiles \subseteq tiles'
  PROVE  Kept'
  <1>1. \A h \in held : h[1] \in Entries
    BY DEF Types
  <1>2. QED
    BY <1>1 DEF Kept

LEMMA KeptNext == Types /\ Pending /\ Kept /\ [Next]_vars => Kept'
  <1> SUFFICES ASSUME Types, Pending, Kept, [Next]_vars PROVE Kept'
    OBVIOUS
  <1> USE DEF disk, jobs, caches, thread
  <1>0. \A h \in held : h[1] \in Entries /\ entry[h[1]] \in [url : Urls, id : Nat]
    BY Elements DEF Types
  <1>1. CASE Restart
    BY <1>1 DEF Restart, Forgotten, Kept
  <1>2. CASE FlushFiles
    <2>1. UNCHANGED <<held, tiles, tile_cache>> /\ entry' = WithIds
      BY <1>2 DEF FlushFiles
    <2>2. ASSUME NEW e \in Entries, entry[e].id # 0 PROVE entry'[e] = entry[e]
      <3>1. e \notin Range(file_cache)
        BY <2>2 DEF Pending, NoIdYet, Range
      <3>2. QED
        BY <2>1, <3>1 DEF WithIds
    <2>3. QED
      BY <1>0, <2>1, <2>2 DEF Kept
  <1>3. CASE FlushTiles
    <2>1. /\ UNCHANGED <<held, entry>>
          /\ \A c \in Range(tile_cache) : entry[c.entry].id # 0
          /\ tiles' = tiles \cup {RowOf(c) : c \in Range(tile_cache)}
      BY <1>3 DEF FlushTiles
    <2>2. ASSUME NEW h \in held
          PROVE  entry[h[1]].id # 0 /\ \E r \in tiles' : r.id = entry[h[1]].id /\ r.tile = h[2]
      <3>1. CASE \E c \in Range(tile_cache) : c.entry = h[1] /\ c.tile = h[2]
        <4>1. PICK c \in Range(tile_cache) : c.entry = h[1] /\ c.tile = h[2]
          BY <3>1
        <4>2. RowOf(c) \in tiles' /\ RowOf(c).id = entry[h[1]].id /\ RowOf(c).tile = h[2]
          BY <2>1, <4>1 DEF RowOf
        <4>3. QED
          BY <2>1, <4>1, <4>2
      <3>2. QED
        BY <2>1, <3>1 DEF Kept
    <2>3. QED
      BY <2>1, <2>2 DEF Kept
  <1>4. CASE ~FlushFiles /\ ~Restart /\ ~FlushTiles
    <2>0. \A e \in Entries : entry'[e] = entry[e]
      BY <1>4, OldEntries
    <2>1. ASSUME NEW e \in Entries, DeleteTiles(e) PROVE Kept'
      <3>1. /\ UNCHANGED <<entry, tile_cache>>
            /\ tiles' = {r \in tiles : r.id # entry[e].id}
            /\ held' = {h \in held : entry[h[1]].id # entry[e].id}
        BY <2>1 DEF DeleteTiles, TilesWithout
      <3>2. QED
        BY <3>1 DEF Kept
    <2>2. CASE ReceiveTile
      <3> DEFINE e == Head(inbox).entry
                 t == Head(inbox).tile
                 c == [entry |-> e, tile |-> t]
      <3>1. /\ UNCHANGED <<entry, tiles>> /\ held' = held \cup {<<e, t>>}
            /\ tile_cache' = Append(tile_cache, c)
            /\ inbox # <<>> /\ Head(inbox).type = "tile"
        BY <2>2 DEF ReceiveTile
      <3>2. Head(inbox) \in Messages
        BY <3>1, HeadTailProperties DEF Types
      <3>3. c \in Cached
        BY <3>1, <3>2 DEF Cached, Messages
      <3>4. /\ Range(tile_cache) \subseteq Range(tile_cache)'
            /\ c \in Range(tile_cache)'
        <4>1. tile_cache \in Seq(Cached)
          BY DEF Types
        <4>2. /\ tile_cache' \in Seq(Cached) /\ Len(tile_cache') = Len(tile_cache) + 1
              /\ \A i \in 1 .. Len(tile_cache) : tile_cache'[i] = tile_cache[i]
              /\ tile_cache'[Len(tile_cache) + 1] = c
          BY <3>1, <3>3, <4>1, AppendProperties
        <4>3. /\ DOMAIN tile_cache = 1 .. Len(tile_cache) /\ Len(tile_cache) \in Nat
              /\ DOMAIN tile_cache' = 1 .. Len(tile_cache')
          BY <4>1, <4>2, LenProperties
        <4>4. DOMAIN tile_cache \subseteq DOMAIN tile_cache' /\ Len(tile_cache) + 1 \in DOMAIN tile_cache'
          BY <4>2, <4>3
        <4>5. QED
          BY <4>2, <4>3, <4>4 DEF Range
      <3>5. c.entry = <<e, t>>[1] /\ c.tile = <<e, t>>[2]
        OBVIOUS
      <3> HIDE DEF c, e, t
      <3>6. QED
        BY <3>1, <3>4, <3>5 DEF Kept
    <2>3. CASE \/ \E u \in Urls : FileFound(u) \/ FileMissing(u)
               \/ \E urls \in SUBSET Urls : FilesListed(urls)
               \/ \E e \in Entries : Announce(e) \/ SubmitFile(e) \/ GiveUp(e)
                                     \/ \E t \in Tiles : TileMissing(e, t) \/ SubmitTile(e, t)
               \/ ReceiveFile \/ AssertionFails \/ DeleteFile \/ Close \/ UNCHANGED vars
      <3>1. UNCHANGED <<held, tile_cache, tiles>>
        BY <2>3 DEF FileFound, FileMissing, FilesListed, Announce, SubmitFile, GiveUp, TileMissing,
             SubmitTile, ReceiveFile, AssertionFails, DeleteFile, Close, vars
      <3>2. QED
        BY <2>0, <3>1, NothingLost DEF Range
    <2>4. QED
      BY <1>4, <2>1, <2>2, <2>3 DEF Next
  <1>5. QED
    BY <1>1, <1>2, <1>3, <1>4

LEMMA KeptIsFound == Types /\ Kept => ReceivedIsFound
  <1> SUFFICES ASSUME Types, Kept, NEW h \in held, NEW d \in Entries,
                      d = h[1] \/ (entry[d].id # 0 /\ entry[d].id = entry[h[1]].id)
               PROVE  Found(d, h[2])
    BY DEF ReceivedIsFound
  <1>1. CASE \E c \in Range(tile_cache) : c.entry = h[1] /\ c.tile = h[2]
    <2>1. PICK c \in Range(tile_cache) : c.entry = h[1] /\ c.tile = h[2]
      BY <1>1
    <2>2. SameFile(c.entry, d)
      BY <2>1 DEF SameFile
    <2>3. c \in InCache(d, h[2])
      BY <2>1, <2>2 DEF InCache
    <2>4. QED
      BY <2>3 DEF Found, Shown
  <1>2. CASE entry[h[1]].id # 0 /\ \E r \in tiles : r.id = entry[h[1]].id /\ r.tile = h[2]
    <2>1. InTable(d, h[2]) # {}
      BY <1>2 DEF InTable
    <2>2. QED
      BY <2>1 DEF Found, Shown
  <1>3. QED
    BY <1>1, <1>2 DEF Kept

(* A tile that has been received is found from then on with its handle and *)
(* every other one of the same id (tile_database.cpp:102-156).             *)
THEOREM ReceivedIsFoundHolds == Spec => []ReceivedIsFound
  <1>1. Init => Types /\ Pending /\ Kept
    BY TypesInit, PendingInit DEF Init, Kept
  <1>2. Types /\ Pending /\ Kept /\ [Next]_vars => Types' /\ Pending' /\ Kept'
    BY TypesNext, PendingNext, KeptNext
  <1>3. Types /\ Kept => ReceivedIsFound
    BY KeptIsFound
  <1>4. QED
    BY <1>1, <1>2, <1>3, PTL DEF Spec
===============================================================================
