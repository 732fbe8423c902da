--------------------------------- MODULE Image ---------------------------------
(***************************************************************************)
(* One image on the screen (src/galapix/image.cpp, image_tile_cache.cpp,   *)
(* image_renderer.cpp, with the part of workspace.cpp that draws it).      *)
(*                                                                         *)
(* The main thread draws over and over.  An image without a provider asks  *)
(* the database thread for its file entry, one with a provider asks for    *)
(* the tiles in view; answers come from other threads into queues that the *)
(* next drawing empties one after the other, which is why drawing is a     *)
(* sequence of steps here.  An aborted request may have passed the last    *)
(* look at its handle and is answered all the same, or it is dropped.      *)
(* A cache that has been replaced is gone: answers for it reach nobody, as *)
(* callbacks hold weak pointers (src/util/weak_functor.hpp).               *)
(***************************************************************************)
EXTENDS Naturals, FiniteSets

CONSTANTS
  Tiles,       \* the tiles of the picture
  Kept,        \* those of scale m_min_keep_scale and above
  FileTiles,   \* those that come with a file entry, the thumbnail first of all
  Views,       \* the sets of tiles that a position and zoom of the viewer show
  MaxLate,     \* bound of the model: aborted file requests still unanswered
  MaxKeys      \* bound of the model: presses of the keys for refresh and clear

ASSUME ImageAssumption ==
  /\ Kept \subseteq Tiles /\ FileTiles \subseteq Tiles
  /\ Views \subseteq SUBSET Tiles /\ Views # {}
  /\ MaxLate \in Nat /\ MaxKeys \in Nat

VARIABLES
  \* the viewer
  onscreen,    \* the image's rectangle overlaps the window
  seen,        \* the tiles in the window
  keys,        \* number of keys pressed
  at,          \* where the drawing of the image is
  \* Image
  visible,     \* m_visible
  provider,    \* m_provider: "none", "new" (its entry has no id) or "stored"
  asked,       \* m_file_entry_requested
  asking,      \* m_jobs holds a request that has not been answered
  entries,     \* length of m_file_entry_queue
  thumbs,      \* m_tile_queue
  providers,   \* length of m_tile_provider_queue
  \* ImageTileCache
  cache,       \* m_cache: "absent", "requested" or "shown"
  arrived,     \* m_tile_queue
  \* requests at the database thread
  late,        \* aborted file requests that may still be answered
  refreshing,  \* file requests made by a provider's refresh()
  cutting,     \* tiles on their way to Image::receive_tile()
  wanted,      \* tile requests of entries of the cache
  stale,       \* tile requests whose entry is gone
  \* history
  failed,      \* tiles whose request failed
  forsaken     \* the file request that `asked' stands for failed, or was dropped

viewer   == <<onscreen, seen, keys>>
image    == <<visible, provider, asked, asking>>
queues   == <<entries, thumbs, providers>>
tiles    == <<cache, arrived, wanted, stale, failed>>
requests == <<late, refreshing, cutting>>
imageVars == <<viewer, at, image, queues, tiles, requests, forsaken>>

NoTiles == [t \in Tiles |-> "absent"]

ImageInit ==
  /\ onscreen \in BOOLEAN /\ seen \in Views /\ keys = 0
  /\ at = "idle"
  /\ visible = FALSE /\ provider \in {"none", "stored"}
  /\ asked = FALSE /\ asking = FALSE
  /\ entries = 0 /\ providers = 0
  /\ thumbs \in IF provider = "stored" THEN {{}, FileTiles} ELSE {{}}
  /\ cache = NoTiles /\ arrived = {}
  /\ late = 0 /\ refreshing = 0 /\ cutting = {}
  /\ wanted = {} /\ stale = {}
  /\ failed = {} /\ forsaken = FALSE

-----------------------------------------------------------------------------
(* Parts of the operations *)

(* Image::abort_all_jobs(): the request may be dropped or answered late. *)
AbortAllJobs ==
  /\ asking' = FALSE
  /\ late' \in IF asking THEN {late, late + 1} \cap 0 .. MaxLate ELSE {late}

(* Mutant of Erase: the requests are aborted, the entries stay. *)
EraseNot(gone) ==
  /\ wanted' = wanted \ gone
  /\ \E unnoticed \in SUBSET (wanted \cap gone) : stale' = stale \cup unnoticed
  /\ UNCHANGED <<cache, failed>>

(* Entries of the cache are erased, their requests aborted. *)
Erase(gone) ==
  /\ cache' = [t \in Tiles |-> IF t \in gone THEN "absent" ELSE cache[t]]
  /\ wanted' = wanted \ gone
  /\ \E unnoticed \in SUBSET (wanted \cap gone) : stale' = stale \cup unnoticed
  /\ failed' = failed \ gone

(* ImageTileCache::cleanup() *)
CleanedUp == {t \in Tiles : cache[t] = "requested" \/ (cache[t] = "shown" /\ t \notin Kept)}

(* Mutant of CacheCleanup: the flag is kept. *)
CacheCleanupKeepsAsked ==
  /\ Erase(CleanedUp)
  /\ AbortAllJobs
  /\ UNCHANGED <<asked, forsaken>>

(* Image::cache_cleanup() *)
CacheCleanup ==
  /\ Erase(CleanedUp)
  /\ AbortAllJobs
  /\ asked' = FALSE
  /\ forsaken' = FALSE

(* The new cache knows nothing of the tiles and requests of the old one. *)
NewCache ==
  /\ cache' = NoTiles
  /\ arrived' = {} /\ wanted' = {} /\ stale' = {} /\ failed' = {}

(* Image::set_provider() with a provider; the size of the image changes    *)
(* and it may move into or out of the window.                              *)
ChangeProvider ==
  /\ provider' = "new"
  /\ NewCache
  /\ onscreen' \in BOOLEAN
  /\ IF provider # "none" THEN AbortAllJobs ELSE UNCHANGED <<asking, late>>

-----------------------------------------------------------------------------
(* Drawing: Workspace::draw() *)

(* on_enter_screen(), and draw() begins *)
BeginDraw ==
  /\ at = "idle" /\ onscreen
  /\ visible' = TRUE
  /\ at' = "entries"
  /\ UNCHANGED <<viewer, provider, asked, asking, queues, tiles, requests, forsaken>>

(* on_leave_screen() *)
LeaveScreen ==
  /\ at = "idle" /\ ~onscreen /\ visible
  /\ visible' = FALSE
  /\ CacheCleanup
  /\ UNCHANGED <<viewer, at, provider, queues, arrived, refreshing, cutting>>

(* The three loops of process_queues() *)
TakeEntry ==
  /\ at = "entries" /\ entries > 0
  /\ entries' = entries - 1
  /\ asked' = FALSE
  /\ forsaken' = FALSE
  /\ ChangeProvider
  /\ UNCHANGED <<seen, keys, at, visible, thumbs, providers, refreshing, cutting>>

TakeThumb ==
  /\ at = "thumbs"
  /\ \E t \in thumbs :
       /\ thumbs' = thumbs \ {t}
       /\ arrived' = IF provider # "none" THEN arrived \cup {t} ELSE arrived
  /\ UNCHANGED <<viewer, at, image, entries, providers, cache, wanted, stale, failed,
                 requests, forsaken>>

TakeProvider ==
  /\ at = "providers" /\ providers > 0
  /\ providers' = providers - 1
  /\ ChangeProvider
  /\ forsaken' = (forsaken \/ (asked /\ asking /\ ~asking'))
  /\ UNCHANGED <<seen, keys, at, visible, asked, entries, thumbs, refreshing, cutting>>

LoopEnds ==
  /\ \/ at = "entries" /\ entries = 0 /\ at' = "thumbs"
     \/ at = "thumbs" /\ thumbs = {} /\ at' = "providers"
     \/ at = "providers" /\ providers = 0
        /\ at' = IF provider = "none" THEN "ask" ELSE "tiles"
  /\ UNCHANGED <<viewer, image, queues, tiles, requests, forsaken>>

(* draw() without a provider *)
AskForFile ==
  /\ at = "ask"
  /\ asked' = TRUE
  /\ asking' = (asking \/ ~asked)
  /\ at' = "idle"
  /\ UNCHANGED <<viewer, visible, provider, queues, tiles, requests, forsaken>>

(* ImageTileCache::process_queue() *)
ProcessQueue ==
  /\ at = "tiles"
  /\ cache' = [t \in Tiles |-> IF t \in arrived THEN "shown" ELSE cache[t]]
  /\ failed' = failed \ arrived
  /\ arrived' = {}
  /\ at' = "render"
  /\ UNCHANGED <<viewer, image, queues, wanted, stale, requests, forsaken>>

(* ImageTileCache::cancel_jobs() *)
Cancelled == {t \in Tiles \ seen : cache[t] = "requested"}

(* Mutant of Missing: a tile that is still being generated is not asked    *)
(* for again.                                                              *)
MissingOnce == {t \in seen : cache[t] = "absent" /\ t \notin stale}

(* request_tile() asks for what the cache has no entry of. *)
Missing == {t \in seen : cache[t] = "absent" \/ t \in Cancelled}

(* ImageRenderer::draw() inside the window *)
RenderTiles ==
  /\ at = "render" /\ onscreen
  /\ cache' = [t \in Tiles |-> CASE t \in Missing   -> "requested"
                                 [] t \in Cancelled -> "absent"
                                 [] OTHER           -> cache[t]]
  /\ wanted' = (wanted \ Cancelled) \cup Missing
  /\ \E unnoticed \in SUBSET (wanted \cap Cancelled) : stale' = stale \cup unnoticed
  /\ failed' = failed \ Cancelled
  /\ at' = "idle"
  /\ UNCHANGED <<viewer, image, queues, arrived, requests, forsaken>>

(* ImageRenderer::draw() outside of it *)
RenderNothing ==
  /\ at = "render" /\ ~onscreen
  /\ CacheCleanup
  /\ at' = "idle"
  /\ UNCHANGED <<viewer, visible, provider, queues, arrived, refreshing, cutting>>

DrawStep ==
  \/ BeginDraw \/ LeaveScreen
  \/ TakeEntry \/ TakeThumb \/ TakeProvider \/ LoopEnds
  \/ AskForFile \/ ProcessQueue \/ RenderTiles \/ RenderNothing

-----------------------------------------------------------------------------
(* The user, between two drawings *)

(* Moving and zooming *)
Move ==
  /\ at = "idle"
  /\ onscreen' \in BOOLEAN /\ seen' \in Views
  /\ UNCHANGED <<keys, at, image, queues, tiles, requests, forsaken>>

(* Image::refresh(): DatabaseTileProvider::refresh() does something only   *)
(* if the entry has an id; then clear_provider().                          *)
Refresh ==
  /\ at = "idle" /\ keys < MaxKeys /\ provider # "none"
  /\ keys' = keys + 1
  /\ refreshing' = IF provider = "stored" THEN refreshing + 1 ELSE refreshing
  /\ provider' = "none"
  /\ NewCache
  /\ AbortAllJobs
  /\ forsaken' = (forsaken \/ (asked /\ asking))
  /\ onscreen' \in BOOLEAN
  /\ UNCHANGED <<seen, at, visible, asked, queues, cutting>>

(* Image::clear_cache() *)
ClearCache ==
  /\ at = "idle" /\ keys < MaxKeys
  /\ keys' = keys + 1
  /\ Erase(Tiles)
  /\ AbortAllJobs
  /\ asked' = FALSE
  /\ forsaken' = FALSE
  /\ UNCHANGED <<onscreen, seen, at, visible, provider, queues, arrived, refreshing, cutting>>

-----------------------------------------------------------------------------
(* Answers, from other threads *)

(* receive_file_entry(), from the table or from a job that goes on to cut  *)
(* tiles.                                                                  *)
EntryArrives ==
  /\ entries' = entries + 1
  /\ cutting' = cutting \cup FileTiles
  /\ UNCHANGED <<viewer, at, visible, provider, asked, thumbs, providers, tiles, refreshing,
                 forsaken>>

AnswerFile ==
  /\ asking
  /\ asking' = FALSE
  /\ UNCHANGED late
  /\ EntryArrives

AnswerLate ==
  /\ late > 0
  /\ late' = late - 1
  /\ UNCHANGED asking
  /\ EntryArrives

(* The file cannot be loaded, or has no size; nobody is told. *)
FileFails ==
  /\ asking
  /\ asking' = FALSE
  /\ forsaken' = asked
  /\ UNCHANGED <<viewer, at, visible, provider, asked, queues, tiles, requests>>

DropLate ==
  /\ late > 0
  /\ late' = late - 1
  /\ UNCHANGED <<viewer, at, image, queues, tiles, refreshing, cutting, forsaken>>

(* Image::receive_tile(), or the job ends without that tile *)
SendThumb(t) ==
  /\ t \in cutting
  /\ cutting' = cutting \ {t}
  /\ thumbs' \in {thumbs, thumbs \cup {t}}
  /\ UNCHANGED <<viewer, at, image, entries, providers, tiles, late, refreshing, forsaken>>

(* receive_tile_provider(), or the file is gone *)
AnswerRefresh ==
  /\ refreshing > 0
  /\ refreshing' = refreshing - 1
  /\ providers' \in {providers, providers + 1}
  /\ UNCHANGED <<viewer, at, image, entries, thumbs, tiles, late, cutting, forsaken>>

(* ImageTileCache::receive_tile() *)
AnswerTile(t) ==
  /\ t \in wanted
  /\ wanted' = wanted \ {t}
  /\ arrived' = arrived \cup {t}
  /\ UNCHANGED <<viewer, at, image, queues, cache, stale, failed, requests, forsaken>>

(* The abort is noticed, or not. *)
EndStale(t) ==
  /\ t \in stale
  /\ stale' = stale \ {t}
  /\ arrived' \in {arrived, arrived \cup {t}}
  /\ UNCHANGED <<viewer, at, image, queues, cache, wanted, failed, requests, forsaken>>

TileFails(t) ==
  /\ t \in wanted
  /\ wanted' = wanted \ {t}
  /\ failed' = IF cache[t] = "requested" THEN failed \cup {t} ELSE failed
  /\ UNCHANGED <<viewer, at, image, queues, cache, arrived, stale, requests, forsaken>>

(* The database is flushed and the entry gets its id. *)
Flush ==
  /\ provider = "new"
  /\ provider' = "stored"
  /\ UNCHANGED <<viewer, at, visible, asked, asking, queues, tiles, requests, forsaken>>

ImageNext ==
  \/ BeginDraw \/ LeaveScreen
  \/ TakeEntry \/ TakeThumb \/ TakeProvider \/ LoopEnds
  \/ AskForFile \/ ProcessQueue \/ RenderTiles \/ RenderNothing
  \/ Move \/ Refresh \/ ClearCache
  \/ AnswerFile \/ AnswerLate \/ FileFails \/ DropLate \/ AnswerRefresh \/ Flush
  \/ \E t \in Tiles : SendThumb(t) \/ AnswerTile(t) \/ EndStale(t) \/ TileFails(t)

ImageSpec == ImageInit /\ [][ImageNext]_imageVars

(* The main thread draws for ever (sdl_viewer.cpp:580-622), and what the   *)
(* database thread has been asked it answers, or fails to.                 *)
FairImageSpec ==
  /\ ImageSpec
  /\ WF_imageVars(DrawStep)
  /\ WF_imageVars(AnswerFile \/ FileFails)
  /\ \A t \in Tiles : WF_imageVars(AnswerTile(t) \/ TileFails(t))

-----------------------------------------------------------------------------
(* Properties *)

(* An image without a provider that believes to have asked for its file    *)
(* entry has a request on its way or an answer in its queue; the only      *)
(* exceptions are a file that failed, and a request that a second refresh  *)
(* aborted (image.cpp:283-288, 307): such an image waits until it has left *)
(* the window.                                                             *)
AskedOnTheWay ==
  provider = "none" /\ asked => asking \/ entries > 0 \/ forsaken

(* A tile that the cache waits for is being generated or in the queue,     *)
(* whatever was cancelled, asked for again and answered late, unless its   *)
(* generation failed (image_tile_cache.cpp:75-138, 164-219).               *)
RequestedOnTheWay ==
  \A t \in Tiles : cache[t] = "requested" => t \in wanted \cup arrived \cup failed

(* An image that stays in the window, with the same tiles in view, shows   *)
(* all of them in the end, unless a request failed or its request for the  *)
(* file entry was given up (image.cpp, image_tile_cache.cpp).              *)
EventuallyShown ==
  \A v \in Views :
    <>[](onscreen /\ seen = v /\ failed = {} /\ ~forsaken)
      => <>[](\A t \in v : cache[t] = "shown")
===============================================================================
