------------------------------- MODULE Database -------------------------------
(***************************************************************************)
(* src/database: pictures (rows of `files') and their tiles (rows of       *)
(* `tiles') in two SQLite files, each behind a write-back cache, used by   *)
(* the database thread (src/galapix/database_thread.cpp) while             *)
(* src/jobs/file_entry_generation_job.cpp and tile jobs on the workers     *)
(* push what they generate into m_receive_queue.                           *)
(*                                                                         *)
(* A FileEntry is a handle on a shared record: it has no file id until the *)
(* cache of files is flushed, which then gives the id to everybody who     *)
(* holds the entry.  The database thread serves one message at a time;     *)
(* flushing and deleting touch both SQLite files, one after the other, and *)
(* are two steps, between which the program may be killed.                 *)
(***************************************************************************)
EXTENDS Integers, Sequences, FiniteSets, Functions

CONSTANTS
  Urls,        \* the pictures
  Tiles,       \* the tiles of each picture: scale and position
  CacheLimit,  \* tiles kept before a flush, 256 in the code
  MaxInbox,    \* size of m_receive_queue, 256 in the code
  MaxEntries,  \* bound of the model: FileEntry objects per run
  MaxRuns      \* bound of the model: starts of the program

ASSUME DatabaseAssumption ==
  /\ CacheLimit \in Nat
  /\ {MaxInbox, MaxEntries, MaxRuns} \subseteq Nat \ {0}

VARIABLES
  \* on disk
  files,       \* rows of cache3.sqlite3: id and url
  last_id,     \* its AUTOINCREMENT counter
  tiles,       \* rows of cache3_tiles.sqlite3: id, tile, and the picture it shows
  run,         \* number of starts of the program
  \* in memory
  entry,       \* the FileEntry objects: url and id, 0 before they have one
  known,       \* those the viewer has been given
  announcing,  \* those whose job is about to call the viewer ...
  submitting,  \* ... and then receive_file()
  cutting,     \* tiles being generated, with the entry they are for
  inbox,       \* m_receive_queue
  file_cache,  \* FileDatabase::m_file_entry_cache
  tile_cache,  \* TileCache::m_cache
  at,          \* what the database thread is in the middle of
  doomed,      \* the id being deleted
  held,        \* history: tiles received and not deleted since, in this run
  failed       \* an assertion ended the program

disk   == <<files, last_id, tiles, run>>
jobs   == <<announcing, submitting, cutting>>
caches == <<file_cache, tile_cache>>
thread == <<at, doomed, held, failed>>
vars   == <<disk, entry, known, jobs, inbox, caches, thread>>

Entries  == DOMAIN entry
NewEntry == Len(entry) + 1

FileMessage(e)    == [type |-> "file", entry |-> e]
TileMessage(e, t) == [type |-> "tile", entry |-> e, tile |-> t]

Forgotten ==
  /\ entry' = <<>> /\ known' = {}
  /\ announcing' = {} /\ submitting' = {} /\ cutting' = {}
  /\ inbox' = <<>>
  /\ file_cache' = <<>> /\ tile_cache' = <<>>
  /\ doomed' = 0 /\ held' = {}
  /\ at' = "serving"

Init ==
  /\ files = {} /\ last_id = 0 /\ tiles = {} /\ run = 1
  /\ entry = <<>> /\ known = {}
  /\ announcing = {} /\ submitting = {} /\ cutting = {}
  /\ inbox = <<>>
  /\ file_cache = <<>> /\ tile_cache = <<>>
  /\ at = "serving" /\ doomed = 0 /\ held = {}
  /\ failed = FALSE

-----------------------------------------------------------------------------
(* Looking up *)

(* FileEntry::operator==: by id if both have one, by url otherwise. *)
SameFile(d, e) ==
  IF entry[d].id # 0 /\ entry[e].id # 0
  THEN entry[d].id = entry[e].id
  ELSE entry[d].url = entry[e].url

InCache(e, t) == {c \in Range(tile_cache) : SameFile(c.entry, e) /\ c.tile = t}

InTable(e, t) == {r \in tiles : entry[e].id # 0 /\ r.id = entry[e].id /\ r.tile = t}

(* Mutant of Shown: an entry with an id is looked up in the table only. *)
ShownByTable(e, t) ==
  IF entry[e].id # 0 THEN {r.url : r \in InTable(e, t)}
                     ELSE {entry[c.entry].url : c \in InCache(e, t)}

(* TileDatabase::get_tile(): the pictures it may show. *)
Shown(e, t) ==
  IF InTable(e, t) # {} THEN {r.url : r \in InTable(e, t)}
                        ELSE {entry[c.entry].url : c \in InCache(e, t)}

Found(e, t) == Shown(e, t) # {}

-----------------------------------------------------------------------------
(* Requests, served by the database thread *)

RowsMatching(urls) == {f \in files : f.url \in urls}

(* request_file(): get_file_entry() asks the table and not the cache. *)
FileFound(u) ==
  /\ at = "serving" /\ Len(entry) < MaxEntries
  /\ \E f \in RowsMatching({u}) : entry' = Append(entry, f)
  /\ known' = known \cup {NewEntry}
  /\ UNCHANGED <<disk, jobs, inbox, caches, thread>>

FileMissing(u) ==
  /\ at = "serving" /\ Len(entry) < MaxEntries
  /\ RowsMatching({u}) = {}
  /\ entry' = Append(entry, [url |-> u, id |-> 0])
  /\ announcing' = announcing \cup {NewEntry}
  /\ UNCHANGED <<disk, known, submitting, cutting, inbox, caches, thread>>

(* request_all_files() and request_files_by_pattern(): an entry for every  *)
(* row that matches, in any order.                                         *)
FilesListed(urls) ==
  /\ at = "serving"
  /\ \E n \in 1 .. MaxEntries - Len(entry) : \E new \in [1 .. n -> RowsMatching(urls)] :
       /\ IsInjective(new) /\ Range(new) = RowsMatching(urls)
       /\ entry' = entry \o new
       /\ known' = known \cup (Len(entry) + 1 .. Len(entry) + n)
  /\ UNCHANGED <<disk, jobs, inbox, caches, thread>>

(* request_tile() of a tile the database does not find. *)
TileMissing(e, t) ==
  /\ at = "serving"
  /\ e \in known
  /\ ~Found(e, t)
  /\ cutting' = cutting \cup {<<e, t>>}
  /\ UNCHANGED <<disk, entry, known, announcing, submitting, inbox, caches, thread>>

-----------------------------------------------------------------------------
(* Jobs, on the workers *)

(* m_sig_file_callback: first the viewer's callback ... *)
Announce(e) ==
  /\ e \in announcing
  /\ announcing' = announcing \ {e}
  /\ submitting' = submitting \cup {e}
  /\ known' = known \cup {e}
  /\ UNCHANGED <<disk, entry, cutting, inbox, caches, thread>>

(* ... then receive_file(); the tiles of the picture follow. *)
SubmitFile(e) ==
  /\ e \in submitting
  /\ Len(inbox) < MaxInbox
  /\ submitting' = submitting \ {e}
  /\ inbox' = Append(inbox, FileMessage(e))
  /\ cutting' = cutting \cup ({e} \X Tiles)
  /\ UNCHANGED <<disk, entry, known, announcing, caches, thread>>

SubmitTile(e, t) ==
  /\ <<e, t>> \in cutting
  /\ Len(inbox) < MaxInbox
  /\ cutting' = cutting \ {<<e, t>>}
  /\ inbox' = Append(inbox, TileMessage(e, t))
  /\ UNCHANGED <<disk, entry, known, announcing, submitting, caches, thread>>

(* Loading fails, or the job is aborted, at any time. *)
GiveUp(e) ==
  /\ \/ e \in announcing /\ announcing' = announcing \ {e} /\ UNCHANGED cutting
     \/ /\ \E t \in Tiles : <<e, t>> \in cutting
        /\ cutting' = {c \in cutting : c[1] # e}
        /\ UNCHANGED announcing
  /\ UNCHANGED <<disk, entry, known, submitting, inbox, caches, thread>>

-----------------------------------------------------------------------------
(* Messages of m_receive_queue *)

ReceiveFile ==
  /\ at = "serving"
  /\ inbox # <<>> /\ Head(inbox).type = "file"
  /\ file_cache' = Append(file_cache, Head(inbox).entry)
  /\ inbox' = Tail(inbox)
  /\ UNCHANGED <<disk, entry, known, jobs, tile_cache, thread>>

(* store_tile(), which flushes when the cache has become too large. *)
ReceiveTile ==
  /\ at = "serving"
  /\ inbox # <<>> /\ Head(inbox).type = "tile"
  /\ LET e == Head(inbox).entry
         t == Head(inbox).tile
     IN  /\ tile_cache' = Append(tile_cache, [entry |-> e, tile |-> t])
         /\ held' = held \cup {<<e, t>>}
  /\ at' = IF Len(tile_cache') > CacheLimit THEN "flush files" ELSE at
  /\ inbox' = Tail(inbox)
  /\ UNCHANGED <<disk, entry, known, jobs, file_cache, doomed, failed>>

-----------------------------------------------------------------------------
(* Flushing: TileDatabase::flush_cache() *)

(* Mutant of FirstFreeId: the table does not remember ids once given. *)
LowestFreeId == 1 + (IF files = {} THEN 0 ELSE CHOOSE n \in {f.id : f \in files} :
                                                  \A f \in files : f.id <= n)

(* AUTOINCREMENT: an id is never given twice. *)
FirstFreeId == last_id + 1

GivenId(i) == FirstFreeId + i - 1

(* INSERT OR REPLACE, url being UNIQUE: of several entries of one picture  *)
(* the last one stays.                                                     *)
Replaced(u) == \E i \in DOMAIN file_cache : entry[file_cache[i]].url = u

Inserted ==
  {[id |-> GivenId(i), url |-> entry[file_cache[i]].url] :
     i \in {k \in DOMAIN file_cache : \A j \in DOMAIN file_cache :
              j > k => entry[file_cache[j]].url # entry[file_cache[k]].url}}

(* set_fileid() on the shared record *)
WithIds ==
  [e \in Entries |->
     IF e \in Range(file_cache)
     THEN [entry[e] EXCEPT !.id = GivenId(CHOOSE i \in DOMAIN file_cache : file_cache[i] = e)]
     ELSE entry[e]]

(* FileDatabase::flush_cache(), one transaction *)
FlushFiles ==
  /\ at \in {"flush files", "close files"}
  /\ files' = {f \in files : ~Replaced(f.url)} \cup Inserted
  /\ last_id' = last_id + Len(file_cache)
  /\ entry' = WithIds
  /\ file_cache' = <<>>
  /\ at' = IF at = "flush files" THEN "flush tiles" ELSE "close tiles"
  /\ UNCHANGED <<tiles, run, known, jobs, inbox, tile_cache, doomed, held, failed>>

RowOf(c) == [id |-> entry[c.entry].id, tile |-> c.tile, url |-> entry[c.entry].url]

(* TileCache::flush(), one transaction on the other database; a tile whose *)
(* entry has no id fails the assertion in FileId::get_id().                *)
FlushTiles ==
  /\ at \in {"flush tiles", "close tiles"}
  /\ \A c \in Range(tile_cache) : entry[c.entry].id # 0
  /\ tiles' = tiles \cup {RowOf(c) : c \in Range(tile_cache)}
  /\ tile_cache' = <<>>
  /\ at' = IF at = "flush tiles" THEN "serving" ELSE "closed"
  /\ UNCHANGED <<files, last_id, run, entry, known, jobs, inbox, file_cache, doomed,
                 held, failed>>

AssertionFails ==
  /\ at \in {"flush tiles", "close tiles"}
  /\ \E c \in Range(tile_cache) : entry[c.entry].id = 0
  /\ failed' = TRUE
  /\ UNCHANGED <<disk, entry, known, jobs, inbox, caches, at, doomed, held>>

-----------------------------------------------------------------------------
(* Deleting: the viewer refreshes a picture that has an id *)

TilesWithout(id) == {r \in tiles : r.id # id}
FilesWithout(id) == {f \in files : f.id # id}

(* delete_tiles(), which ignores the cache; committed by itself. *)
DeleteTiles(e) ==
  /\ at = "serving"
  /\ e \in known /\ entry[e].id # 0
  /\ doomed' = entry[e].id
  /\ tiles' = TilesWithout(doomed')
  /\ held' = {h \in held : entry[h[1]].id # doomed'}
  /\ at' = "delete file"
  /\ UNCHANGED <<files, last_id, run, entry, known, jobs, inbox, caches, failed>>

(* FileDatabase::delete_file_entry(), and the END of its transaction *)
DeleteFile ==
  /\ at = "delete file"
  /\ files' = FilesWithout(doomed)
  /\ doomed' = 0
  /\ at' = "serving"
  /\ UNCHANGED <<last_id, tiles, run, entry, known, jobs, inbox, caches, held, failed>>

-----------------------------------------------------------------------------
(* The end of the program and its next start *)

(* ~TileDatabase(): the threads have ended, what they had queued is gone. *)
Close ==
  /\ at = "serving"
  /\ at' = "close files"
  /\ known' = {} /\ announcing' = {} /\ submitting' = {} /\ cutting' = {}
  /\ inbox' = <<>>
  /\ UNCHANGED <<disk, entry, caches, doomed, held, failed>>

Restart ==
  /\ run < MaxRuns
  /\ run' = run + 1
  /\ Forgotten
  /\ UNCHANGED <<files, last_id, tiles, failed>>

Next ==
  /\ ~failed
  /\ \/ \E u \in Urls : FileFound(u) \/ FileMissing(u)
     \/ \E urls \in SUBSET Urls : FilesListed(urls)
     \/ \E e \in Entries : Announce(e) \/ SubmitFile(e) \/ GiveUp(e) \/ DeleteTiles(e)
                             \/ \E t \in Tiles : TileMissing(e, t) \/ SubmitTile(e, t)
     \/ ReceiveFile \/ ReceiveTile
     \/ FlushFiles \/ FlushTiles \/ AssertionFails
     \/ DeleteFile
     \/ Close \/ Restart

Spec == Init /\ [][Next]_vars

-----------------------------------------------------------------------------
(* Properties *)

(* No picture is ever shown with the tiles of another one, neither by      *)
(* somebody who still holds an entry that has been replaced or deleted,    *)
(* nor by the next run, in spite of deletions that ignore the caches and   *)
(* kills between two transactions; no two pictures have the same id        *)
(* (tile_database.cpp:102-119, 144-156, file_table.hpp:30-43).             *)
OwnPicture ==
  /\ \A e \in Entries, t \in Tiles : Shown(e, t) \subseteq {entry[e].url}
  /\ \A f \in files, r \in tiles : f.id = r.id => f.url = r.url
  /\ \A d, e \in Entries :
       entry[d].id # 0 /\ entry[d].id = entry[e].id => entry[d].url = entry[e].url

(* A tile that has been received is found from then on by whoever holds    *)
(* its entry or another one with its id, across the moment at which the    *)
(* entry gets its id and the tile moves from the cache to the table,       *)
(* unless the picture is deleted (tile_database.cpp:102-156).              *)
ReceivedIsFound ==
  \A h \in held, d \in Entries :
    d = h[1] \/ (entry[d].id # 0 /\ entry[d].id = entry[h[1]].id) => Found(d, h[2])

(* "assert(m_id != 0)" (file_id.hpp:37): a tile is flushed after the entry *)
(* it belongs to.                                                          *)
NeverAsserts == ~failed
===============================================================================
