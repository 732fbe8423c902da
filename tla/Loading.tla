------------------------------- MODULE Loading -------------------------------
(***************************************************************************)
(* From the command line to the tiles: the scan for pictures               *)
(* (src/util/filesystem.cpp, with one task for every archive), the jobs    *)
(* that load them (src/jobs/file_entry_generation_job.cpp,                 *)
(* tile_generator.cpp, src/util/software_surface_factory.cpp and the       *)
(* plugins, most of which call programs: Exec), the tiles that are cut     *)
(* from them (Surfaces), those that galapix view gets elsewhere            *)
(* (Providers), and galapix export, which puts them together.              *)
(*                                                                         *)
(* The world, what is on the disk and on the web and which programs there  *)
(* are, is chosen at the start.  The queues and threads between the parts  *)
(* are those of the other modules and left out: a thread takes a job when  *)
(* it has none.                                                            *)
(***************************************************************************)
EXTENDS TLC, Exec, Providers, Formats, Paths

CONSTANTS
  Worlds,      \* the worlds to look at
  InputPieces  \* bound of the model: the pieces of a file that is piped to a program

(* Finitely many pages on the web and files in an archive.                 *)
ASSUME LoadingAssumption ==
  \A w \in Worlds :
    /\ IsFiniteSet(DOMAIN w.web)
    /\ \A p \in DOMAIN w.tree :
         w.tree[p].type = "file" => IsFiniteSet(DOMAIN w.tree[p].file.members)

VARIABLES
  world,     \* [tree, cwd, path, stack, web, view, permits, tools, wanted, lost, wish]
  stage,     \* "scan", "entries", "tiles", "export" or "done"
  lst,       \* the paths of all files below the directory
  walked,    \* how many of them the scan has looked at
  tasks,     \* archive_tasks that have not been waited for: their archives
  permits,   \* of task_limiter
  found,     \* file_list: URLs
  sublists,  \* what the tasks return: archive -> URLs
  todo,      \* jobs nobody has taken yet
  job,       \* what a thread does
  entries,   \* URL -> its FileEntry
  tiles,     \* URL -> its tiles in the database
  whole,     \* history: the scales of a URL that have been cut
  exported,  \* URL -> the picture that is written
  asked      \* history: the tiles that have been asked of providers

scanVars == <<lst, walked, tasks, permits, found, sublists>>
dbVars   == <<entries, tiles, whole, exported, asked>>
loadVars == <<world, stage, scanVars, todo, job, dbVars>>
vars == <<execVars, loadVars>>

(* Data of a file, a page or a member of an archive:                       *)
(* [kind, small, picture, members, mime, name].                            *)
Missing == [kind |-> "missing", small |-> TRUE, picture |-> <<>>, members |-> <<>>,
            mime |-> "", name |-> Nothing]

FileAt(path) ==
  LET p == Resolved(world.tree, path)
  IN  IF p \in DOMAIN world.tree /\ world.tree[p].type = "file" THEN world.tree[p].file ELSE Missing

Item(url)   == IF is_remote(url) THEN world.web[url.payload] ELSE FileAt(url.payload)
Data(url)   == IF url.member = NoMember THEN Item(url) ELSE Item(url).members[url.member]
NameOf(url) == IF url.member = NoMember THEN Last(url.payload) ELSE Data(url).name
Tools       == world.tools

NoUrl == FromString("none", Nothing)
Idle  == [task |-> "none", url |-> NoUrl, step |-> "idle", loader |-> NoLoader,
          archiver |-> NoArchiver, retried |-> FALSE, surface |-> Created("RGB", Size(0, 0)),
          original |-> Size(0, 0), scale |-> 0, max |-> 0, tile |-> TileId(0, 0, 0)]
NewJob(task, url, max) == [Idle EXCEPT !.task = task, !.url = url, !.step = "start", !.max = max]

(* The file that is named, or all that are below the directory.            *)
Files ==
  LET path == world.cwd \o world.path
  IN  IF ~exist(world.tree, path) THEN <<>>
      ELSE IF is_directory(world.tree, path, world.stack)
        THEN open_directory_recursivly(world.tree, path, world.stack)
        ELSE <<path>>

Init ==
  /\ ExecInit
  /\ world \in Worlds
  /\ stage = "scan" /\ lst = Files /\ walked = 0 /\ tasks = <<>>
  /\ permits = world.permits
  /\ found = <<>> /\ sublists = <<>> /\ todo = <<>>
  /\ job = [t \in Threads |-> Idle]
  /\ entries = <<>> /\ tiles = <<>> /\ whole = <<>> /\ exported = <<>> /\ asked = {}

At(t, task, step) == job[t].task \in task /\ job[t].step = step

Step(t, step) == job' = [job EXCEPT ![t].step = step]
JobOver(t)    == job' = [job EXCEPT ![t] = Idle]

-----------------------------------------------------------------------------
(* Galapix::run() and generate_image_file_list() *)

FreeThread == CHOOSE t \in Threads : job[t] = Idle

(* Saved workspaces and pictures of Zoomify are taken beside those that    *)
(* have a loader.                                                          *)
IsWorkspace(name) == Len(name) > 1 /\ Last(name) = "galapix"
IsZoomify(name)   == HasExtension(name, "ImageProperties.xml")
IsTaken(name)     == IsWorkspace(name) \/ IsZoomify(name) \/ has_supported_extension(Tools, name)

(* An archive gets a task of its own. *)
Walk ==
  LET path == lst[walked + 1]
  IN  /\ stage = "scan" /\ walked < Len(lst)
      /\ walked' = walked + 1
      /\ IF is_archive(Last(path))
         THEN /\ \E t \in Threads : job[t] = Idle
              /\ job' = [job EXCEPT ![FreeThread] = NewJob("list", FromString("file", path), 0)]
              /\ tasks' = Append(tasks, path)
              /\ UNCHANGED found
         ELSE /\ found' = IF IsTaken(Last(path)) THEN Append(found, FromFilename(realpath_fast(path)))
                                                ELSE found
              /\ UNCHANGED <<job, tasks>>
      /\ UNCHANGED <<world, stage, lst, permits, sublists, todo, dbVars, execVars>>

(* SemaphoreLock lock(task_limiter) *)
Acquire(t) ==
  /\ At(t, {"list"}, "start")
  /\ permits # 0
  /\ permits' = permits - 1
  /\ job' = [job EXCEPT ![t].step = "list",
                        ![t].archiver = ArchiverByFilename(NameOf(job[t].url))]
  /\ UNCHANGED <<world, stage, lst, walked, tasks, found, sublists, todo, dbVars, execVars>>

(* Mutant of Retried: get_filenames() does not tell who listed the files   *)
(* in the end.                                                             *)
RetriedUntold(j, archiver) == [j EXCEPT !.loader = archiver, !.retried = TRUE]

Retried(j, archiver) == [j EXCEPT !.archiver = archiver, !.loader = archiver, !.retried = TRUE]

(* ArchiveManager::get_filenames(): the archiver of the file name, and if  *)
(* that fails the one of the magic.  The job's loader is the one at work,  *)
(* its archiver what loader_out says.                                      *)
Lister(t) == IF job[t].retried THEN job[t].loader ELSE job[t].archiver

WithList(path, urls) ==
  [p \in DOMAIN sublists \cup {path} |-> IF p = path THEN urls ELSE sublists[p]]

(* Mutant of Listed: a task that ends keeps its permit. *)
ListedKeeping(t, urls) ==
  /\ sublists' = WithList(job[t].url.payload, urls)
  /\ JobOver(t)
  /\ UNCHANGED permits

Listed(t, urls) ==
  /\ sublists' = WithList(job[t].url.payload, urls)
  /\ permits' = permits + 1
  /\ JobOver(t)

(* The files that have a loader; in which order they are listed is left    *)
(* open, since they are sorted in the end.                                 *)
ListDone(t) ==
  LET path == realpath_fast(job[t].url.payload)
      ms   == Item(job[t].url).members
      good == SetToSeq({m \in DOMAIN ms : has_supported_extension(Tools, ms[m].name)})
  IN  Listed(t, [i \in 1 .. Len(good) |-> MemberUrl(path, job[t].archiver, good[i])])

ListFailed(t) ==
  LET other == ArchiverByMagic(Data(job[t].url))
  IN  IF job[t].retried \/ other \in {NoArchiver, job[t].archiver}
      THEN Listed(t, <<>>)
      ELSE job' = [job EXCEPT ![t] = Retried(@, other)] /\ UNCHANGED <<sublists, permits>>

(* The pictures that view() shows by a provider of their own. *)
IsBuiltin(url) == url.protocol = "builtin"
Provided(urls) == {u \in Range(urls) : world.view /\ (IsBuiltin(u) \/ IsZoomify(NameOf(u)))}

(* ZoomifyTileProvider::create(), which reads the page that describes the  *)
(* picture, and throws if it cannot.                                       *)
CannotProvide(url) == ~IsBuiltin(url) /\ Data(url).kind # "zoomify"

(* task.get(), for one task after the other *)
Gather ==
  /\ stage = "scan" /\ walked = Len(lst)
  /\ tasks # <<>> /\ Head(tasks) \in DOMAIN sublists
  /\ found' = found \o sublists[Head(tasks)]
  /\ tasks' = Tail(tasks)
  /\ UNCHANGED <<world, stage, lst, walked, permits, sublists, todo, job, dbVars, execVars>>

(* What needs a job: view() takes saved workspaces and provided pictures   *)
(* itself.                                                                 *)
Plain(urls) ==
  SelectSeq(urls, LAMBDA u : /\ ~(world.view /\ has_stdio_name(u) /\ IsWorkspace(NameOf(u)))
                             /\ u \notin Provided(urls))

(* The URLs of the command line are added, and each that needs one gets a  *)
(* job.  The sorting in between is left out.                               *)
ScanDone ==
  LET pages   == SetToSeq(DOMAIN world.web)
      Page(p) == FromString(IF world.web[p].kind = "mandelbrot" THEN "builtin" ELSE "http", p)
      urls    == found \o [k \in DOMAIN pages |-> Page(pages[k])]
      plain   == Plain(urls)
  IN  /\ stage = "scan" /\ walked = Len(lst) /\ tasks = <<>>
      /\ \A t \in Threads : job[t] = Idle
      /\ found' = urls
      /\ \/ /\ \A u \in Provided(urls) : ~CannotProvide(u)
            /\ stage' = "entries"
            /\ todo' = [i \in DOMAIN plain |-> NewJob("entry", plain[i], 0)]
         \/ /\ \E u \in Provided(urls) : ~IsBuiltin(u)
            /\ stage' = "done" /\ todo' = <<>>
      /\ UNCHANGED <<world, lst, walked, tasks, permits, sublists, job, dbVars, execVars>>

-----------------------------------------------------------------------------
(* Loading one picture *)

TakeJob(t) ==
  /\ stage \in {"entries", "tiles"}
  /\ job[t] = Idle /\ todo # <<>>
  /\ job' = [job EXCEPT ![t] = Head(todo)]
  /\ todo' = Tail(todo)
  /\ UNCHANGED <<world, stage, scanVars, dbVars, execVars>>

(* JPEGs do without the factory: FileEntryGenerationJob asks for the name  *)
(* and that it is not remote, TileGenerator for the name alone.            *)
ByJpeg(j) == filename_is_jpeg(NameOf(j.url)) /\ (j.task = "tiles" \/ ~is_remote(j.url))

FromMemory(j) == ~has_stdio_name(j.url)

(* With the loader known: it reads the file, or the data in memory if it   *)
(* can, or the job is over.                                                *)
LoadWith(t, loader) ==
  IF loader = NoLoader \/ (FromMemory(job[t]) /\ ~loader.mem)
  THEN JobOver(t)
  ELSE job' = [job EXCEPT ![t].loader = loader,
                          ![t].step = IF loader.programs = {} THEN "decode" ELSE "convert"]

ByExtension(t) ==
  IF ByJpeg(job[t]) THEN JpegLoader
  ELSE find_loader_by_extension(Tools, Extension(NameOf(job[t].url)))

Start(t) ==
  LET url == job[t].url
  IN  /\ At(t, {"entry", "tiles"}, "start")
      /\ IF has_stdio_name(url) THEN LoadWith(t, ByExtension(t))
         ELSE IF is_remote(url) THEN Step(t, "fetch")
         ELSE IF Unpacker(url.plugin) = NoPlugin THEN JobOver(t)
         ELSE Step(t, "unpack")
      /\ UNCHANGED <<world, stage, scanVars, todo, dbVars, execVars>>

(* CURLHandler::get_data(): an error, or the data and their mime type;     *)
(* get_blob() knows no protocol but those of the web.                      *)
Fetch(t) ==
  LET by_mime == find_loader_by_mime_type(Tools, Data(job[t].url).mime)
  IN  /\ At(t, {"entry", "tiles"}, "fetch")
      /\ \/ JobOver(t)
         \/ /\ ~IsBuiltin(job[t].url)
            /\ LoadWith(t, IF ByJpeg(job[t]) \/ by_mime = NoLoader THEN ByExtension(t) ELSE by_mime)
      /\ UNCHANGED <<world, stage, scanVars, todo, dbVars, execVars>>

(* A file whose name is wrong: the loader of its magic gets a chance, but  *)
(* only if the file was not taken for a JPEG.                              *)
LoadFailed(t) ==
  LET other == find_loader_by_magic(Tools, Data(job[t].url))
  IN  IF FromMemory(job[t]) \/ ByJpeg(job[t]) \/ job[t].retried
         \/ other \in {NoLoader, job[t].loader}
      THEN JobOver(t)
      ELSE job' = [job EXCEPT ![t].loader = other, ![t].retried = TRUE,
                              ![t].step = IF other.programs = {} THEN "decode" ELSE "convert"]

-----------------------------------------------------------------------------
(* The surface, its entry and its tiles *)

Decoded(loader, picture) ==
  CASE loader = JpegLoader     -> JpegLoaded(picture, 1)
    [] loader = XcfLoader      -> XcfDecoded(picture)
    [] loader = UFRawLoader    -> UFRawDecoded(picture)
    [] loader = RsvgLoader     -> RsvgDecoded(picture)
    [] loader = VidThumbLoader -> VidThumbDecoded(picture)
    [] loader = KraLoader      -> KraDecoded(picture)
    [] loader = DdsLoader      -> DdsDecoded(picture)
    [] loader = MagickLoader   -> MagickDecoded(picture)
    [] OTHER                   -> PngDecoded(picture)

(* FileEntryGenerationJob::run() *)
NewEntry(j, picture) ==
  LET size == IF ByJpeg(j) THEN JpegSize(picture) ELSE Decoded(j.loader, picture).size
  IN  [size |-> size, scales |-> NewScales(ByJpeg(j), size)]

(* get_min_max_scale() *)
ScalesInDb(url) ==
  LET there == {tile[1] : tile \in DOMAIN tiles[url]}
  IN  IF there = {} THEN [min |-> -1, max |-> -1] ELSE [min |-> Min(there), max |-> Max(there)]

(* TileGenerationJob::run(): the scales of the job for one tile, of scale  *)
(* j.max.  A tile that should be there already is treated by               *)
(* generate_tile() as if there were none at all.                           *)
TileJobScales(j) ==
  LET thumb == ThumbnailScale(entries[j.url].size)
      in_db == ScalesInDb(j.url)
      max   == IF in_db.min = -1 \/ j.max \in in_db.min .. in_db.max THEN thumb ELSE in_db.min - 1
      min   == Lesser(max, j.max)
  IN  IF is_remote(j.url) \/ ~filename_is_jpeg(NameOf(j.url)) \/ min = -1
      THEN [min |-> 0, max |-> thumb]
      ELSE [min |-> min, max |-> max]

(* A surface has come: the size and the scales are known, and the entry of *)
(* the file is stored.                                                     *)
Loaded(t) == \E picture \in {Data(job[t].url).picture} :
  LET j       == job[t]
      entry   == NewEntry(j, picture)
      scales  == IF j.task = "entry" THEN entry.scales ELSE TileJobScales(j)
      surface == IF ByJpeg(j) THEN JpegLoaded(picture, JpegFactor(scales.min))
                              ELSE Decoded(j.loader, picture)
  IN  /\ entries' = IF j.task = "entry" THEN entries @@ (j.url :> entry) ELSE entries
      /\ tiles' = IF j.task = "entry" THEN tiles @@ (j.url :> <<>>) ELSE tiles
      /\ whole' = IF j.task = "entry" THEN whole @@ (j.url :> {}) ELSE whole
      /\ job' = [job EXCEPT ![t].step = "fit", ![t].scale = scales.min, ![t].max = scales.max,
                            ![t].original = entry.size, ![t].surface = surface]

NotLoaded(t) == LoadFailed(t) /\ UNCHANGED <<entries, tiles, whole>>

Decode(t) ==
  /\ At(t, {"entry", "tiles"}, "decode")
  /\ IF Data(job[t].url).kind \in job[t].loader.kinds THEN Loaded(t) ELSE NotLoaded(t)
  /\ UNCHANGED <<world, stage, scanVars, todo, exported, asked, execVars>>

(* cut_into_tiles() brings the surface to the first scale, *)
Fit(t) ==
  /\ At(t, {"entry", "tiles"}, "fit")
  /\ job' = [job EXCEPT ![t].step = "cut",
                        ![t].surface = Fitted(@, job[t].original, job[t].scale)]
  /\ UNCHANGED <<world, stage, scanVars, todo, dbVars, execVars>>

(* and cuts it, one scale after the other. *)
Cut(t) ==
  LET j == job[t]
      s == Halved(j.surface)
  IN  /\ At(t, {"entry", "tiles"}, "cut")
      /\ tiles' = [tiles EXCEPT ![j.url] = CutTiles(j.surface, j.scale) @@ @]
      /\ whole' = [whole EXCEPT ![j.url] = @ \cup {j.scale}]
      /\ IF j.scale + 1 <= j.max
         THEN job' = [job EXCEPT ![t].scale = @ + 1, ![t].surface = s]
         ELSE JobOver(t)
      /\ UNCHANGED <<world, stage, scanVars, todo, entries, exported, asked, execVars>>

-----------------------------------------------------------------------------
(* The calls of programs: of the archivers, to list the files of an        *)
(* archive or to unpack one, and of the loaders, to convert a picture.     *)

AtCall(t) == job[t].step \in {"list", "unpack", "convert"}

Programs(t) ==
  CASE job[t].step = "list"    -> {Lister(t).plugin.program}
    [] job[t].step = "unpack"  -> {Unpacker(job[t].url.plugin).program}
    [] job[t].step = "convert" -> job[t].loader.programs

MaySucceed(t) ==
  CASE job[t].step = "list"    -> Item(job[t].url).kind = Lister(t).plugin.kind
    [] job[t].step = "unpack"  -> Item(job[t].url).kind = Unpacker(job[t].url.plugin).kind
    [] job[t].step = "convert" -> Data(job[t].url).kind \in job[t].loader.kinds

(* Nobody but xcf2png is given data. *)
Input(t) == IF job[t].step = "convert" /\ FromMemory(job[t]) THEN InputPieces ELSE 0

Call(t) ==
  /\ AtCall(t) /\ phase[t] = "none"
  /\ Programs(t) \subseteq Tools
  /\ Called(t, Input(t), MaySucceed(t))
  /\ UNCHANGED loadVars

CallFailed(t) ==
  CASE job[t].step = "list"    -> ListFailed(t) /\ UNCHANGED <<entries, tiles, whole>>
    [] job[t].step = "unpack"  -> JobOver(t) /\ UNCHANGED <<sublists, permits, entries, tiles, whole>>
    [] job[t].step = "convert" -> NotLoaded(t) /\ UNCHANGED <<sublists, permits>>

(* Filesystem::find_exe() throws. *)
NoProgram(t) ==
  /\ AtCall(t) /\ phase[t] = "none"
  /\ ~(Programs(t) \subseteq Tools)
  /\ CallFailed(t)
  /\ UNCHANGED <<world, stage, lst, walked, tasks, found, todo, exported, asked, execVars>>

(* KRA::load_from_file() does not look at the exit code. *)
Good(t) == Succeeded(t) \/ (/\ job[t].step = "convert" /\ job[t].loader = KraLoader
                            /\ phase[t] = "returned" /\ got[t].stdout > 0 /\ MaySucceed(t))

Return(t) ==
  /\ AtCall(t) /\ phase[t] \in {"returned", "threw"}
  /\ IF ~Good(t) THEN CallFailed(t)
     ELSE CASE job[t].step = "list"    -> ListDone(t) /\ UNCHANGED <<entries, tiles, whole>>
            [] job[t].step = "unpack"  -> LoadWith(t, ByExtension(t))
                                          /\ UNCHANGED <<sublists, permits, entries, tiles, whole>>
            [] job[t].step = "convert" -> Loaded(t) /\ UNCHANGED <<sublists, permits>>
  /\ CallOver(t)
  /\ UNCHANGED <<world, stage, lst, walked, tasks, found, todo, exported, asked>>

-----------------------------------------------------------------------------
(* From one part of the work to the next *)

AllOver == todo = <<>> /\ \A t \in Threads : job[t] = Idle

TilesOf(url) ==
  IF IsBuiltin(url) THEN MandelbrotTiles ELSE ZoomifyTiles(Data(url).picture.size)

(* request_tile() for a tile of every picture, of which the database has   *)
(* those the entry came with, or none if they have been lost, and for any  *)
(* tile of those that have a provider of their own.                        *)
EntriesDone ==
  LET Scale(u) == Lesser(world.wanted, entries[u].scales.max)
      left     == IF world.lost THEN [u \in DOMAIN tiles |-> <<>>] ELSE tiles
  IN
  /\ stage = "entries" /\ AllOver
  /\ stage' = "tiles"
  /\ \E from \in [Provided(found) -> UNION {TilesOf(u) : u \in Provided(found)}] :
       /\ \A u \in Provided(found) : from[u] \in TilesOf(u)
       /\ todo' = SetToSeq({NewJob("tiles", u, Scale(u)) :
                               u \in {u \in DOMAIN entries : /\ world.wanted # -1
                                                             /\ <<Scale(u), 0, 0>> \notin DOMAIN left[u]}}
                            \cup {[NewJob("provider", u, 0) EXCEPT !.tile = from[u]] : u \in Provided(found)})
  /\ tiles' = left
  /\ whole' = IF world.lost THEN [u \in DOMAIN whole |-> {}] ELSE whole
  /\ UNCHANGED <<world, scanVars, job, entries, exported, asked, execVars>>

(* ZoomifyTileJob::run() and MandelbrotTileJob::run(): the tile comes, or  *)
(* it cannot be loaded, or nobody wants it any more.                       *)
Provide(t) ==
  /\ At(t, {"provider"}, "start")
  /\ asked' = asked \cup {[url |-> job[t].url, tile |-> job[t].tile]}
  /\ JobOver(t)
  /\ UNCHANGED <<world, stage, scanVars, todo, entries, tiles, whole, exported, execVars>>

TilesDone ==
  /\ stage = "tiles" /\ AllOver
  /\ stage' = "export"
  /\ UNCHANGED <<world, scanVars, todo, job, dbVars, execVars>>

(* galapix export *)
Export ==
  /\ stage = "export"
  /\ stage' = "done"
  /\ exported' = [u \in DOMAIN entries |-> Exported(tiles[u], entries[u].size, world.wish)]
  /\ UNCHANGED <<world, scanVars, todo, job, entries, tiles, whole, asked, execVars>>

Main == Walk \/ Gather \/ ScanDone \/ EntriesDone \/ TilesDone \/ Export

ThreadStep(t) ==
  \/ Acquire(t) \/ TakeJob(t) \/ Start(t) \/ Fetch(t) \/ Decode(t) \/ Fit(t) \/ Cut(t)
  \/ Provide(t)
  \/ Call(t) \/ NoProgram(t) \/ Return(t)
  \/ CallStep(t) /\ UNCHANGED loadVars

Next ==
  /\ ~killed
  /\ \/ Main
     \/ \E t \in Threads : ThreadStep(t)
     \/ \E t \in Threads : ChildStep(t) /\ UNCHANGED loadVars

(* As long as anybody can go on, somebody does; nothing here is done over  *)
(* and over again, so that this suffices.                                  *)
Spec == Init /\ [][Next]_vars /\ WF_vars(Next)

-----------------------------------------------------------------------------
(* Properties *)

(* Where a place of the file is in the picture as it is meant to be seen,  *)
(* after the words of exif.cpp: at which visual side row 0 and column 0    *)
(* are.                                                                    *)
RowSide(tag) == CASE tag \in {0, 1, 2} -> "top"    [] tag \in {3, 4} -> "bottom"
                  [] tag \in {5, 8}    -> "left"   [] tag \in {6, 7} -> "right"
ColSide(tag) == CASE tag \in {0, 1, 4} -> "left"   [] tag \in {2, 3} -> "right"
                  [] tag \in {5, 6}    -> "top"    [] tag \in {7, 8} -> "bottom"

VisualSize(picture) ==
  IF RowSide(picture.orientation) \in {"left", "right"} THEN Turned(picture.size) ELSE picture.size

Place(picture, x, y) ==
  LET size == VisualSize(picture)
      from == [side \in {"left", "right", "top", "bottom"} |->
                 CASE side = RowSide(picture.orientation) -> y
                   [] side = ColSide(picture.orientation) -> x
                   [] OTHER -> -1]
  IN  Vec(IF from["left"] >= 0 THEN from["left"] ELSE size.width - 1 - from["right"],
          IF from["top"] >= 0 THEN from["top"] ELSE size.height - 1 - from["bottom"])

(* A pixel at (x, y) of a scale shows something, and only what is no more  *)
(* than one pixel from there.                                              *)
Shows(sources, picture, x, y, scale) ==
  /\ sources # {}
  /\ \A c \in sources :
       LET p == Place(picture, c[1], c[2])
       IN  /\ (x - 1) * 2 ^ scale <= p.x /\ p.x < (x + 2) * 2 ^ scale
           /\ (y - 1) * 2 ^ scale <= p.y /\ p.y < (y + 2) * 2 ^ scale

(* Whatever other tile is in the cache, what the viewer draws of it at a   *)
(* place of the picture is no more than one of its pixels from there.      *)
DrawnRight(cache, size) ==
  \A tile, other \in DOMAIN cache :
    LET quad  == Quad(size, tile)
        Own(x, y) == {<<other[2] * TileSize + x, other[3] * TileSize + y>>}
        only  == other :> Surface("RGB", cache[other].size, Own)
    IN  \A x \in quad.left .. quad.right - 1, y \in quad.top .. quad.bottom - 1 :
          \A c \in Drawn(only, size, tile, Vec(x, y)) :
            /\ c[1] - x \div 2 ^ other[1] \in -1 .. 1
            /\ c[2] - y \div 2 ^ other[1] \in -1 .. 1

(* Of a DDS picture whose rows do not end with a block the code writes     *)
(* into the next ones (dds_surface.cpp:168-194).                           *)
Garbled(u) == Data(u).kind = "dds" /\ Data(u).picture.size.width % 4 # 0

(* TilesShowThePicture: the size a picture is entered with is the one it   *)
(* is seen with; of every scale that has been cut, every whole pixel is in *)
(* the tile where the viewer looks for it; it shows that place of the      *)
(* picture, turned as its Exif tag says; and so do the exported picture    *)
(* and what the viewer draws with a tile in place of another one.  Only    *)
(* the places of a garbled DDS picture are others.                         *)
(* (file_entry_generation_job.cpp:43-113, tile_generator.cpp:57-150,       *)
(* jpeg.cpp:80-120, software_surface.cpp, image_renderer.cpp:36-118)       *)
TilesShowThePicture ==
  \A u \in DOMAIN entries :
    LET picture == Data(u).picture
        size    == VisualSize(picture)
    IN  /\ entries[u].size = size
        /\ \A s \in whole[u] : \A c \in Cells(Shrunk(size, 2 ^ s)) :
             LET key == <<s, c[1] \div TileSize, c[2] \div TileSize>>
                 pos == <<c[1] % TileSize, c[2] % TileSize>>
             IN  /\ key \in DOMAIN tiles[u]
                 /\ pos \in Cells(tiles[u][key].size)
                 /\ Garbled(u) \/ Shows(tiles[u][key].at[pos], picture, c[1], c[2], s)
        /\ u \in DOMAIN exported =>
             /\ DrawnRight(tiles[u], size)
             /\ ExportScale(size, world.wish) \in whole[u] =>
                  \A c \in DOMAIN exported[u].at :
                    Garbled(u) \/ Shows(exported[u].at[c], picture, c[1], c[2], ExportScale(size, world.wish))

(* A part of the path is a link. *)
ByLink(path) ==
  \E n \in DOMAIN path :
    LET p == Append(Resolved(world.tree, SubSeq(path, 1, n - 1)), path[n])
    IN  p \in DOMAIN world.tree /\ world.tree[p].type = "link"

(* FilesFound: whatever the path on the command line and the links, every  *)
(* file that is there is found, no URL twice, and every URL that names no  *)
(* link leads to a file below that path; unless the path goes up from      *)
(* behind a link, which the code, other than the system, does by the names.*)
(* (filesystem.cpp:104-144, 320-418, 430-500)                              *)
FilesFound ==
  LET path  == world.cwd \o world.path
      top   == Resolved(world.tree, path)
      below == {p \in DOMAIN world.tree :
                  /\ world.tree[p].type = "file" /\ IsPrefix(top, p)
                  /\ \A n \in Len(top) + 1 .. Len(p) : p[n] \notin Skipped
                  /\ IsTaken(Last(p)) /\ ~is_archive(Last(p))}
      local == {u \in Range(found) : ~is_remote(u)}
  IN  stage # "scan" /\ ~(Up \in Range(path) /\ ByLink(path)) =>
        /\ below \subseteq {Resolved(world.tree, u.payload) : u \in {u \in local : u.member = NoMember}}
        /\ \A i, j \in DOMAIN found : found[i] = found[j] => i = j
        /\ \A u \in local : ByLink(u.payload) \/ IsPrefix(top, Resolved(world.tree, u.payload))

(* ProvidersRight: the tiles that are asked of a picture in the format of  *)
(* Zoomify are on the server, in the group they are asked of, and show     *)
(* that part of the picture, also where one of its sides has become        *)
(* nothing; and a place of the Mandelbrot set is the same at all scales.   *)
(* (zoomify_tile_provider.cpp:29-122, mandelbrot_tile_job.cpp:35-60)       *)
ProvidersRight ==
  \A r \in asked :
    IF IsBuiltin(r.url)
    THEN \A c \in Cells(Size(TileSize, TileSize)) :
           LET here == MandelbrotPlace(r.tile, Vec(c[1], c[2]))
               n    == 2 ^ r.tile.scale
           IN  /\ (r.tile.x * TileSize + c[1]) * n * here.of.width = here.at.x * MandelbrotSize.width
               /\ (r.tile.y * TileSize + c[2]) * n * here.of.height = here.at.y * MandelbrotSize.height
    ELSE LET size == Data(r.url).picture.size
         IN  ServedBy(size, ZoomifyUrl(size, r.tile)) = {r.tile}

(* MembersReadable: a file listed in an archive is asked of the archiver   *)
(* that could list it, whatever the archive is called; but for 7z, whose   *)
(* URLs no plugin answers to (archive_manager.cpp:111-150,                 *)
(* filesystem.cpp:370-381, url.cpp:120-146).                               *)
MembersReadable ==
  \A i \in DOMAIN found :
    LET url == found[i]
    IN  url.plugin \notin {"", SevenZipArchiver.str} => Unpacker(url.plugin).kind = Item(url).kind

(* The scan waits for a permit that never comes: hardware_concurrency() is *)
(* 0 when it is not known (filesystem.cpp:348).                            *)
NoPermits == world.permits = 0 /\ \E t \in Threads : At(t, {"list"}, "start")

(* LoadsEndOrHang: whatever the programs do, and however they fail, all    *)
(* work comes to an end, unless in one of the four ways that are known.    *)
LoadsEndOrHang ==
  <>[](\/ stage = "done" \/ killed \/ NoPermits \/ CrossedPipes
       \/ \E t \in Threads : StuckWriting(t))
===============================================================================
