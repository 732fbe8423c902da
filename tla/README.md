# Galapix in TLA+

Galapix shows large collections of images on a zoomable plane.  It never
decodes an image in the thread that draws: tiles are taken from an SQLite
database, generated by worker threads when they are missing, and stored on the
way back.  This directory models that machinery (its queues, the worker pool,
the tile jobs, the database and its thread, the image on the screen), the modes
of the program that put it together, the way of a picture from its file to its
tiles, and the workspace and the viewer in front of it.  TLC checks the models
on small instances and TLAPS proves most of their safety properties for all.  Paths below are
relative to the repository, or to `src/` where they name a C++ file.

## 1. The system

    viewer / program modes            database thread                  workers
    (galapix/*.cpp, image*.cpp)       (galapix/database_thread.cpp)    (job/*)
       request_tile, request_file  ->  m_request_queue
                                       database  <- m_receive_queue  <- tiles, file entries
       callback(tile)              <-  JobManager::request           -> m_queue of a worker
       JobHandle::set_aborted                                        -> is_aborted()
                                                                        loaders -> programs

| Component | State | Operations | Hard parts | Correct when |
|---|---|---|---|---|
| Message queue `job/thread_message_queue2.hpp` | a FIFO, its limit, two condition variables | try/wait push and pop, wait_for_pop, wakeup | notify after unlock, bounded producers, wakeup without the lock | an atomic channel that strands nobody |
| Job pool `job/job_manager.cpp`, `job_worker_thread.cpp`, `job_handle.cpp`, `thread.cpp` | a queue and two flags per worker, the turn, the flags of every handle | request, start, stop, abort, join; abort, finish, wait | aborts while queued or running, shutdown while waiting, unlocked flags | a job runs at most once and is always reported |
| Tile job `jobs/tile_generation_job.cpp`, `tile_generator.cpp` | state, range of scales, regular and late requests, tiles | request_tile, is_aborted, run, process_tile | requests before, during and after the run; scales of the database read long before | what it accepted it answers, once |
| Database thread `galapix/database_thread.cpp` | two queues, the list of tile jobs, the database | request_tile(s), request_file, receive_*, deletion, remove_job | joining requests to jobs, bounded receive queue, job over before it is listed, gaps left by a kill | every request is answered, no job is kept for ever |
| Database `database/*` | files, tiles, write-back caches of both | get, list, store, flush, delete | stale caches, ids replaced, two database files, kills | what was stored is found, and pictures are never mixed up |
| File and thumbnail jobs `jobs/file_entry_generation_job.cpp`, `multiple_tile_generation_job.hpp` | handle, callbacks | run | handles never finished | whoever waits is released |
| Image side `galapix/image.cpp`, `image_tile_cache.cpp`, `image_renderer.cpp`, `database_tile_provider.hpp` | tile cache with an entry per request, queues of answers | draw, process_queues, cancel, refresh, set_provider | answers that come after cancelling or after a refresh | every visible tile is shown in the end |
| Program modes `galapix/galapix.cpp` | which threads run | view, thumbgen, filegen, test, export; merge, list | order of stop, abort and join | each mode ends, with its work done |
| Workspace `galapix/workspace.cpp`, `selection.cpp`, `image.cpp` | images, selection, positions, targets, progress | add, layout, sort, select, move, scale, delete, animate, save, load | late file entries during animations and layouts | what is drawn, clicked and saved are the same places |
| Layouters `galapix/*_layouter.cpp` | - | layout | arithmetic at the borders | images do not overlap |
| Viewer and tools `galapix/viewer.cpp`, `viewer_state.cpp`, `tools/*`, `sdl/sdl_viewer.cpp` | the view, tools and what they remember, grid, controllers | events and frames | events in any order | the mouse and the view agree |
| S-expressions `lisp/*`, `util/sexpr_file_reader.cpp` | - | lex, parse, read | quotes in names, delimiters in strings | what is saved is read back where it was |
| External programs `util/exec.cpp` | pipes, a child | exec | full pipes, inherited descriptors | output complete, calls end |
| Files, archives, URLs, loaders `util/*`, `plugins/*` | registered loaders, temporary files | scan, list, extract, load | links, fallback after a wrong name, parallel scan | every file is found, each member asked of the right program |
| Image formats and surfaces `plugins/*`, `util/software_surface.cpp` | pixels | decode, turn, halve, crop, encode | odd sizes, Exif orientation, JPEG scaling | a tile shows its part of the picture |
| Other providers of tiles `galapix/zoomify_*`, `mandelbrot_*` | sizes in tiles per scale | create, request_tile | sides that become nothing, the order of the scales | the tile asked for is that part of the picture |
| Unused databases, SQLite wrapper, windows, matrices | - | - | section 7 | - |

## 2. Modules

| Module | Models | Correspondence |
|---|---|---|
| `BoundedChannel` | what users of the queue rely on | abstract specification: an atomic FIFO with a limit |
| `ThreadMessageQueue2` | `job/thread_message_queue2.hpp` | one action per critical section; notify, the evaluation of `wait_for_pop`'s predicate and blocking are separate; `pc` says where each thread is |
| `JobManager` | `job/job_manager.cpp`, `job_worker_thread.cpp`, `job_handle.cpp`, `thread.cpp` | every test of a flag in `run()` is a step (they are plain `bool`s without a lock); `mutex` is `JobManager::mutex`; `main` is the thread that starts and shuts down |
| `TileScales` | the order of tiles in `tile_generator.cpp`, the range chosen in `TileGenerationJob::run` | pure operators; a tile is a scale and a position number |
| `TileGenerationJob` | `jobs/tile_generation_job.cpp` | one action per critical section of `m_state_mutex`; `late` is `m_late_tile_requests` |
| `DatabaseThread` | `galapix/database_thread.cpp` with database, pool and jobs, for one image | one action per message, but handing a new job over and listing it are two |
| `Database` | `database/*` behind the database thread, with what `jobs/file_entry_generation_job.cpp` and the tile jobs submit | one action per message; a flush is two transactions (`FlushFiles`, `FlushTiles`), a deletion two steps (`DeleteTiles`, `DeleteFile`); `entry` holds the shared `FileEntryImpl` records; `FilesListed` and `RowsMatching` are the listings |
| `Image` | `galapix/image.cpp`, `image_tile_cache.cpp`, `image_renderer.cpp` for one image | the steps of one drawing in their order, `at` says which is next; the user acts between drawings, answers come at any time |
| `ProgramModes` | `galapix/galapix.cpp` from `main()` to the joins, with the database thread, the workers, the receive queue and the jobs of whole files | `Script` is what `main()` does in each mode; setting a flag and `wakeup()` are two steps, and so are a worker's test and its sleep; `tiles` holds the scales stored of each file, `lowest` is the `m_min_scale_in_db` a job was told, `NothingToCut` and `LastScale` are the range it is left with |
| `Geometry` | `math/rect.hpp`, `vector2f`, `size.hpp` | integers in place of floats |
| `Layouters` | `galapix/*_layouter.cpp` | functions from sizes to places; recursive functions for the loops |
| `SExpressions` | `lisp/*`, `util/sexpr_file_reader.cpp` | from characters to tokens, lists, values |
| `Workspace` | `galapix/workspace.cpp`, `selection.cpp`, `image_collection.cpp`, the places in `image.cpp` | one operator per member function |
| `Viewer` | `galapix/viewer.cpp`, `viewer_state.cpp`, `tools/*`, `sdl/sdl_viewer.cpp` | one action per event with all its handler does, one per frame; composes `Workspace` |
| `Exec` | `util/exec.cpp` with the processes it starts | one action per system call that can block or fail; `fds` are the descriptors each process holds |
| `Formats` | the tables of loaders and archivers, extensions, URLs | pure operators over loaders as records |
| `Surfaces` | `util/software_surface.cpp`, the decoders, `jobs/tile_generator.cpp`, `galapix/image_renderer.cpp`, the putting together of `export` | a pixel is the set of places of the picture it mixes |
| `Paths` | the directories and names of `util/filesystem.cpp` | functions on a file system with links; what the operating system does with a path is stated beside it (`Resolved`) |
| `Providers` | `galapix/zoomify_tile_provider.cpp`, `mandelbrot_tile_provider.cpp`, `mandelbrot_tile_job.cpp` | pure operators; the files of a Zoomify server are stated beside them (`ZoomifyServer`) |
| `Loading` | the scan, `software_surface_factory.cpp`, `archive_manager.cpp`, the jobs that load, the providers of `galapix view`, `galapix export` | composes `Exec`, `Formats`, `Paths`, `Providers` and `Surfaces`; one action per step of a job, the calls of programs are those of `Exec` |
| `MC*` | instances for TLC | sets of threads, requests, pictures, worlds and starting databases |
| `ScreenProofs` | theorems about `Viewer` with its `Workspace` and `Layouters`, and about `Image` | section 4 |
| `*Proofs` | theorems about the module of that name | section 4; `LoadingProofs` is about the calls of `Exec` that the jobs of `Loading` make, and the scan for archives |

How they fit together:

* `DatabaseThread` composes queue, pool and jobs: its queues are the channels of
  `BoundedChannel`, justified by `ImplementsChannel`; its workers take jobs in
  the order `WorkerFifo` gives them, and report as `CallbackTruthful` says; its
  jobs are those of `TileGenerationJob` with request lists turned into sets, which
  `ServedOnce` permits.
* `Database` and `Image` look at the two ends of the same requests: what becomes
  of a tile once a job has submitted it, and what becomes of the answer.  The
  fairness `Image` assumes of the database thread (what is asked for is answered or
  fails) is what `EveryRequestAnswered` shows of `DatabaseThread` for tiles.
* `ProgramModes` composes pool, database thread and receive queue with the
  threads' life cycle; a push and its notification are one step there, which
  `NoStrandedConsumer` permits.
* `Loading` is what a job does when it "cuts a tile": it has the calls of
  programs and the pixels, and leaves the queues to the others.
* `Viewer` meets `Image` in the file entries that arrive late (`Replies` of
  `Workspace`): they change the size of an image while it is being arranged.

Operators named as a mutant of another ("Mutant of NotifyOne") are plausible mistakes
in that line of code, kept to show that the properties notice them.

### Abstractions

* A message, a job, a request, a tile is a value without content, except in
  `Surfaces`.  Decoding, scaling and compressing are the step that cuts a tile;
  any of them may fail.
* Exceptions that are not `std::exception` end the program and are not modelled.
* `JobManager!StartThread` starts all workers in one step: before it nothing
  consumes the queues, so the order is not observable.
* Data races on plain `bool`s are modelled as atomic reads and writes in any
  order.  x86 and the calls between the accesses give no other outcome.
* In `DatabaseThread` the rows of a tile are counted, since `store_tile()`
  inserts without looking; a cached row and a flushed one are the same there.
* In `ProgramModes` a file has one tile of each scale up to its thumbnail
  (`Thumbnail`), cut one after the other; a job can fail while it loads the
  picture.  Spurious wakeups are left out there: they could only end a hang.
* `Geometry` has integers for floats.  Scales are in units of 1/64 in
  `Layouters`, fractions in `Viewer`; angles are quarters of a turn.  Rounding is
  named where a property has to allow for it (`ZoomKeepsPosition`).
* In `Exec` data are counted in what one `read()` takes; a pipe holds
  `PipeSize` of it.  A program that is ended by a signal is left out: the code
  takes it for one that succeeded (`WEXITSTATUS` without `WIFEXITED`).
* In `Loading` the world (files, pages, installed programs, options) is chosen
  at the start and does not change; a scan starts an archive's task in a free
  thread, while the code starts a thread for it.
* `Paths` has no permissions and no special files; the system gives up on a path
  after `MaxLinks` links.
* In `Surfaces` colours are left out; scaling mixes the set of pixels the code
  takes, and a pixel that is never written is the empty set.

## 3. Runs

| Run | Question | Bounds |
|---|---|---|
| `queue` | limit, order, nobody stranded, refinement of `BoundedChannel!LiveSpec` | 2 producers, 1 consumer (as all queues of the program have), all calls, 2 slots, `MaxPushes` 4: the queue runs full and empty, both sides block |
| `pool_safety` | order, callbacks, late jobs | 2 clients, 2 workers, 3 jobs, so that one worker has two; stop and abort |
| `pool_live` | every job reported and every waiter released unless the pool is shut down; a busy worker leaves after the shutdown | 1 client, 2 workers, 2 jobs, one of them waited for; jobs that report; stop and abort |
| `tilejob` | a job against its requests, liveness included | 3 scales, 4 tiles, 3 requests; a database with nothing, with all scales from 1 on, or with scale 1 alone |
| `service` | every request answered once, jobs listed and forgotten | 2 requests, 2 workers, receive queue of 1, so that workers block; JPEGs and other images; databases of complete and of killed runs |
| `database` | pictures and tiles stay together, nothing received is lost in memory | 2 pictures, 1 tile each, flush after the second tile, receive queue of 2, `MaxEntries` 2, `MaxRuns` 2: an entry is replaced, deleted while cached, and met again after a kill |
| `image` | requests, cancellations and late answers; what stays in the window is shown | a thumbnail and a large tile, two views, `MaxKeys` 2 (two refreshes in a row are what leaves an image without an entry), `MaxLate` 1 |
| `modes` | view, thumbgen, filegen and test end, or hang in a known way; thumbgen waits for the tiles it asked for | 2 files, one with two scales and one with one, of each any of the scales in the database or none, jobs that fail, 2 workers, receive queue of 1 |
| `viewer` | places, zoom, tools, layouts, saving | 2 images, one wide and one high, with blanks, parentheses and a quote in their names, up to 4 after loading (`MaxImages`); windows of 800x600 and 200x600; three `Budgets` of keys, clicks and other events; `MaxReplies` 1; `MaxPasses` 8: `solve_overlaps()` may go on for ever, and the presses of its key that need more passes are left out |
| `loading` | files, archives, programs, pixels, providers | `TileSize` 4 and pictures up to 9x7 with all Exif tags: every number of odd and even borders; `ThumbSize` 1, `JpegPower` 1; 2 threads, `PipeSize` 1, `MaxOutput` 2, `MaxErrors` 1, `InputPieces` 2: both pipes run full; a directory with a link up, aside, to nothing; `MaxLinks` 2; Zoomify pictures up to 30x17 with `GroupSize` 3: four scales and several groups; `FractalMax` 2 |
| `service_assert`, `modes_stored` | two statements of the source that do not hold | section 6 |

`CHECK_DEADLOCK FALSE` is given everywhere because the systems really may stop:
requests are finite in number, nobody has to shut a pool down, an idle worker
sleeps, a job that is over does nothing, a failed assertion or SIGPIPE ends the
program, and some runs hang.  That nothing stops too early is what the liveness
properties say.  The bounds named above are not in the code, nor are the finite
sets of jobs, requests and worlds.  `MaxLate` loses nothing: an aborted request
beyond it is dropped at once, which the code may do with any of them.  The sizes
of the real queues (256, or none), pipes and tiles become 1 to 4, which is what
makes them run full and a small picture have several tiles.

### Fairness

A thread in the middle of an operation is scheduled again (weak fairness per
thread, not per action).  Consumers of a queue come back for more because they
are loops (`JobWorkerThread::run`, `DatabaseThread::run`); jobs end.  Nobody has
to push, request, abort, fail, wake up spuriously or shut down.  In `Image` the
main thread draws for ever, because the loop of `sdl_viewer.cpp:580` does so
without waiting for events, and requests that were not aborted are answered or
fail; aborted ones owe nothing.  `ProgramModes` has weak fairness of `main()`, of
the database thread and of each worker.  `Loading` needs only that somebody who
can go on does (`WF_vars(Next)`), since nothing there is done twice; programs
that are called end.  Mutexes need no strong fairness: each critical section is
one step or its holder is fair.  `Viewer` has no liveness and no fairness.

### Side conditions found on the way

* `wait_for_pop` uses up a notification without taking a message, so
  `NoStrandedConsumer` holds with it only for a single consumer
  (`PopWaitersTakeMessages`); all such queues in Galapix have one.
* `EndsOrKnownHang` allows four ways to hang, and the run shows there is no
  other: a worker asleep when it is stopped, or about to sleep when it is
  aborted, never wakes (`AsleepForEver`: view, thumbgen, filegen);
  `DatabaseThread::run()` clears a flag set before it started (`QuitForgotten`:
  view, filegen); a worker pushes into a full receive queue that nobody empties
  any more (`StuckInPush`: view, filegen); a handle is waited for whose job ended
  without finishing it (`NeverFinished`: thumbgen, test).  In filegen the
  database thread may also die of an empty `std::function`.
* `LoadsEndOrHang` allows four: SIGPIPE from a program that does not read its
  input ends Galapix (`killed`); no permit for the scan when
  `hardware_concurrency()` is 0 (`NoPermits`); two children hold each other's pipes
  (`CrossedPipes`); a program blocks on its output while Galapix still writes its
  input (`StuckWriting`).
* `m_file_entry_requested` is not reset when `set_provider()` aborts the request
  it stands for (`image.cpp:307`), nor when the request fails.  Two refreshes in
  quick succession can so leave an image without an entry and without a request
  until it leaves the window; `AskedOnTheWay` and `EventuallyShown` name this
  exception (`forsaken`) and no other.
* The viewer is given a file entry before the entry is queued for storing
  (`file_entry_generation_job.cpp:106`), so a tile can reach the database before
  its entry and the assertion of `file_id.hpp:37` can fail.  `Database` contains
  this (`AssertionFails`, after which nothing happens); `NeverAsserts` is not
  claimed.
* `EventuallyHonored` and `NothingTwice` need a database that reaches up to the
  thumbnail (`Reaches`), which `tile_generation_job.cpp:180` takes for granted.
* `ThumbnailsCut` excludes the scales at and above the lowest that the database
  held when thumbgen asked (section 6); `ThumbnailsStored` excludes files of which
  it held any.
* `TilesShowThePicture` excludes the places of a DDS picture whose width is not a
  multiple of 4 (`Garbled`).
* `FilesFound` excludes a path that goes up from behind a link: `realpath_fast()`
  looks at the names alone, the system follows the link first.
* `ToolsFollowButtons` excludes exchanging the tools under a pressed button, which
  leaves the old tool running.  `PlacesReadBack` is about positions and scales:
  the URLs are not read back (section 6).  It excludes coordinates that are
  written with an exponent, which the reader refuses, and names whose quotes or
  delimiters reach past their section (`Enclosed`), as nothing is escaped.  `LayoutsKeepApart` excludes
  windows so narrow that the regular layout divides by zero columns, and is not
  about `layout_vertical()`, which puts centres where it means edges.
* `MembersReadable` excludes 7z: see section 6.

## 4. Proofs

| Theorem | For | Argument |
|---|---|---|
| `ThreadMessageQueue2Proofs` `TypeCorrect`, `NeverOverfullHolds`, `FifoHolds` | any threads, any limit | inductive by themselves given types |
| `NoStrandedConsumerHolds`, `NoStrandedProducerHolds` | the same, under the side conditions | the count of pending notifications and woken threads, by cardinalities of the sets of threads in each state |
| `ImplementsChannelSafety` | the same | each step maps to `Send`, `Receive` or a stutter |
| `JobManagerProofs` `PoolTypeCorrect` | any workers, jobs, clients | with `HandInv`: a worker has a job in hand exactly in the states between popping and callback |
| `WorkerFifoHolds` | the same | each push and pop extends both sides alike |
| `AtMostOneLateJobHolds` | the same | a worker past the test of `m_abort` has not been late yet; after a late pop it never passes the test again |
| `CallbackTruthfulHolds`, `OnceHolds` | the same | with `WorkerFifo` and `HandInv`: a job is assigned once, to one worker, so what is popped was never taken before and no two workers hold the same job; `ReportInv` then follows a job from the queue through the hand to its one callback |
| `TileGenerationJobProofs` `JobTypeCorrect`, `JobServedOnce`, `JobAbortedUnwanted`, `JobRefusedNeverServed` | any image, any requests, any database range | `IInv`: what each `pc` says of the state, which list a request may be in given its answer, and which requests have been served given the tile being cut; the minimum of the scales wanted exists because they are finitely many natural numbers |
| `JobNothingTwice` | the same | `CutInv`: tiles are cut in the strict order `Before`, within the range chosen; what a waiting job was asked for is not in the database, so the range chosen for a JPEG ends below what the database has |
| `DatabaseProofs` `OwnPictureHolds` | any pictures, tiles, cache limit, number of entries and of starts | `Owned`: every place an id can be (a row, an entry in memory, a cached or submitted tile, a message) is a claim that the id belongs to a picture; ids are only given out below `last_id` (`IdsGiven`) and no two claims differ (`OneOwner`), though deletions ignore the caches and a kill may come between the two transactions of a flush |
| `DatabaseProofs` `ReceivedIsFoundHolds` | the same | `Pending`: an entry without an id is in exactly one place, so that the id it is given at the flush takes its tiles along; `Kept`: a tile held is in the cache or, under the entry's id, in the table |
| `DatabaseThreadProofs` `TypeCorrect`, `AnsweredOnceHolds`, `OnlyNewestWaitsHolds`, `SingleGenerationHolds`, `ToBeRemovedHolds`, `TilesArriveHolds` | any number of requests and workers, any size of the receive queue, any image and any range of scales in the database | one inductive invariant, `IInv`, described below |
| `ScreenProofs` `AskedOnTheWayHolds`, `RequestedOnTheWayHolds` | any tiles, any views, any number of refreshes and late answers | `RequestedOnTheWay` is inductive given types; `AskedOnTheWay` needs `FlagTells`, which says the same while there is a provider, since a refresh may take it away between a request and its answer |
| `ScreenProofs` `ViewerTypeCorrect`, `PlacesAgreeHolds`, `ToolsFollowButtonsHolds`, `ZoomKeepsPositionHolds` | any number of images, any sizes of pictures and windows, any places of the mouse, any order of events | `ViewerInvariant`, described below |
| `LayoutsKeepApartHolds` | any list of sizes, any window | for each layout, what is already placed lies on one side of what comes next (`Spiral`, `Tight`) or in another cell (`Regular`), described below |
| `LoadingProofs` `CallsHold`, `OutputCompleteHolds` | any number of calls at once, any sizes of pipes and outputs, any world | `CallInv`: what a child wrote is what was read and what is in the pipe (`NothingLost`); a child holds the writing ends of its own pipes as long as it lives (`HoldsEnds`), so nobody sees an end of file before it has exited (`EndMeansExit`), whoever inherited those ends as well |
| `MembersReadableHolds` | any worlds, threads and permits, any number of archives listed at once; where the names alone tell where the archives are (`Straight`) | `ListsWell` follows one task from the archiver of the file name to the one of the magic: the archiver whose call will succeed is the one that `loader_out` names, and its call succeeds only for an archive of its kind; the two tables of `url.cpp` and the archivers agree but for 7z (`MemberReadable`) |
| `ProgramModesProofs` `TypeCorrect` | every mode, any files, workers and size of the queue | inductive by itself: the place of a thread tells which kind of job it holds |
| `ReadsAloneHolds` | the same, thumbgen | `EarlyOnce`: before it goes to a worker the request of a file is in one place; `FinishedOnce`: a request that is finished never was with a worker, because the jobs for new files never finish their handles; `Awaited`: what `main()` has waited for is finished |
| `ThumbnailsCutHolds` | the same, any numbers of scales, with and without `generate_all_tiles` | `FinishedCut`: when a handle of thumbnails is finished, the scales its job was left with are stored or queued, and nothing but the queue's way to the database takes them from there; `WorkerCut` says so of the scales below the one a worker is at, `LowestIsStored` that the job was told of a scale that is stored |

The invariant of `DatabaseThreadProofs` has these parts, and each of the five
properties needs most of them:

* `Apart`: a job is with the database thread, in one queue, or with one worker.
  So whatever one worker does to its job concerns no other.
* `Placed`: where a job is tells its state, and the tiles it has cut come
  `Before` the one at hand.  So no job cuts a tile twice (`TilesArrive`).
* `RequestsApart`: the message of a request is in the queue once, or the request
  is with one job, either among the regular or among the late ones.
* `Unanswered`: a request in the queue, with a waiting job or late has not been
  answered; one a running job has from the start may have been answered only
  when its tile comes before the one at hand.  So `AnsweredOnce` is kept by all
  four ways of answering.
* `Remembered`: a job is listed once, and the message that removes it is only
  there when it is over.
* `OnlyNewestRuns`: the unfinished job of an image that is decoded as a whole is
  the one `generate_tile()` finds.  It generates all scales, so it turns no
  request down, and no second job is made (`SingleGeneration`).

A worker takes a range of scales that is never empty, whatever was asked for and
whatever the database has (`tile_generation_job.cpp:180-200`): the lemmas on the
lowest and the highest scale show that the minimum and maximum of these sets
exist and lie on the image's scales.

The invariant of `ScreenProofs` for the viewer has these parts:

* `WorkspaceHolds`: the lists of images hold ids of the workspace; every image,
  of the workspace or not, has the rectangle of its position, size and scale; an
  image that is not in the workspace, and every image when no animation runs, is
  where it is meant to be (`OthersAtRest`), or it would come back displaced.
* `ToolsHold`: `ModesHeld` names, for every tool that is at work, the button or
  the key that must be down for it, and that the move tool never drags images
  and draws a selection at the same time; a release could otherwise end the
  wrong one of the two.
* `WindowTypes`: the window, the view, the grid and the controllers.

What the layouts need is not an invariant but arithmetic, for all sizes: on the
spiral every image is put beyond the outermost line of the side it is on, and the
lines of the other sides only move outwards; in the tight layout an image is to
the right of all of its row, and below all of the rows above; in the regular one
two images have different columns or different rows of cells that they do not
leave.  The loops are recursive functions, and the theorems of the library that would
prove something of them take an operator as parameter.
`Smallest`, `Induction` and `Recursion` say the same of sets and functions
instead: the numbers for which the claim holds are a set that contains 0 and,
with a number, the next.  `ZoomKeepsPosition` rests on lemmas about quotients
(how far a rounded fraction is from the fraction) and about the greatest common
divisor by which `Viewer` cancels.

The assumptions are those the modules state (`QueueAssumption`,
`PoolAssumption`, `GridAssumption`, `JobAssumption`, `DatabaseAssumption`,
`ServiceAssumption`, `ImageAssumption`, `ModesAssumption`, `WorkspaceAssumption`,
`ViewerAssumption`, `LoadingAssumption`, that archives and the web are finite,
and those of `Exec`, `Paths`, `Providers` and `Surfaces`), which TLC evaluates in
the runs. The inductive invariants were checked with TLC on the instances of the
runs as well.

`MembersReadableHolds` has one hypothesis beside them, `Straight`:
`realpath_fast()` leads to the archive it was given.  It is wrong only for an
archive behind a path that goes up from behind a link, the case `FilesFound`
excludes too: there the URLs name another file.

Only model-checked:

* All liveness (`EveryRequestAnswered`, `EventuallyShown`, `EndsOrKnownHang`,
  `LoadsEndOrHang`, the queue's refinement of `LiveSpec` and the others): fairness
  and ENABLED are out of reach of the provers used here.
* `PlacesReadBack`: what is read back of a text is recursion over its characters,
  and over the data it stands for.
* `TilesShowThePicture` and `ProvidersRight` of `Loading`: they are about
  powers of 2 with a scale that is not a number but a variable, for which the
  provers have no arithmetic.
* `FilesFound`: the walk over directories and links is a recursive function of two
  arguments, whose definition the provers cannot expand.
* What a refresh, a reply or a kill may do to the whole way of a picture across
  modules: each module is proved by itself, and section 2 says what one relies
  on of another.

## 5. What is left

1. Theorems about the jobs of `Loading` beyond their calls of programs and the scan.
2. `request_tiles()` and the cleanup messages of the database thread, with
   thumbgen's tiles in `DatabaseThread`.
3. `galapix merge` (two databases), the readers of `plugins/pnm.cpp`, the memory
   source and destination of `plugins/jpeg_memory_src.cpp`.
4. Three images in `viewer`, and a second image that is loaded while the first is
   dragged; larger budgets need a coarser view.

## 6. Where the code and its words differ

Checked by runs:

* `service_assert`: "We don't allow requests for tiles that are already in the
  database" (`tile_generation_job.cpp:60`) is asserted, but after a generation
  that failed part-way the database thread asks a waiting job for just that.
* `modes_stored`: "Generate only small thumbnails for all given images"
  (`galapix.cpp:487`), but thumbgen stops the database thread while tiles are
  still in its queue, and they are lost.

Met while modelling, contained in the models:

* `thread.hpp:41` promises that after `stop_thread()` `run()` can terminate; a
  worker that waits for work does not (`job_worker_thread.cpp:42`, `AsleepForEver`).
* "if not in the database the tile will be generated" (`database_thread.hpp:86`);
  for a JPEG whose database lacks a scale above those it has, the job ends without
  that tile (`tile_generation_job.cpp:180`).
* thumbgen does the same with every picture: `MultipleTileGenerationJob` lowers
  its range below the lowest scale in the database
  (`multiple_tile_generation_job.hpp:58-72`), so when a killed run left small
  scales only it cuts nothing, finishes its handle, and thumbgen ends without
  the thumbnail (`NothingToCut`, `RunTiles`).
* "workspace layout can be saved and loaded" (`README:51`): `save()` writes the URL
  with `operator<<` (`workspace.cpp:400`, `url.cpp:215-218`), so that the file holds
  `(url "URL("file:///...")")`, of which `load()` reads `URL(file:///...)`, less what
  blanks and parentheses part (`UrlText`); a file saved again from that is
  read as `URL(URL)`, and the assertion of `url.cpp:63` fails (`NoUrl`).  Quotes in names are
  not escaped ("FIXME: Must escape the filename!", `workspace.cpp:399`).
  `load()` also makes a second image after setting the place of the first
  (`workspace.cpp:446-452`), so that the places are read and not used.
* The URL of a file in a 7z archive names the plugin "7z"
  (`seven_zip_archive_loader.hpp:35`), `get_blob()` knows "7zip" (`url.cpp:138`).
* `find_smaller_tile()` stops before the highest scale
  (`image_tile_cache.cpp:145`).
* `is_directory()` ignores that `stat()` failed and reads what it did not write
  (`filesystem.cpp:97`); a link back to a directory above lists its files again
  under longer names; `builtin:` in the scan is never reached, since the URL was
  made of a file name (`filesystem.cpp:385`).
* An `ImageProperties.xml` that cannot be read or parsed ends `galapix view`
  (`zoomify_tile_provider.cpp:93`); an aborted Mandelbrot job never finishes its
  handle (`mandelbrot_tile_job.cpp:44`).
* A picture in an archive or on the web gets no second chance by its magic, and a
  loader that reads only files never gets it; files below 512 bytes have no magic;
  a file called "guitar" is an archive, as it ends in "tar".
  `FileEntryGenerationJob` and `TileGenerator` treat a remote `.jpg` differently.
* `set_provider()` during an animation gives up the target scale of the layout
  (`image.cpp:327`); isolating
  an empty selection empties the workspace; `solve_overlaps()` need not end; zooming to an empty workspace makes the view not
  a number, and an assertion fails later.
* A DDS file whose width is not a multiple of 4 is garbled
  (`dds_surface.cpp:169`); `galapix export` writes whatever is in memory where a
  tile is missing; very thin pictures have no tiles at high scales.

## 7. Not modelled

* `galapix merge`, `list`, `info`, `check`, `cleanup`, `downscale` and the
  parsing of options: sequences of calls of parts that are modelled, or wording.
* `cached_tile_database.cpp`, `file_tile_database.cpp`: nothing constructs them.
* GTK, the framebuffer, textures, SDL and the space navigator's library: input
  and output.  The events they deliver are the actions of `Viewer`.
* The wrappers of SQLite: `Database` models the statements they carry out.
* Matrices, `QuadTree` and other classes nobody uses; floating point itself.
* Gamma, brightness, contrast, the background colour, screenshots and the angles
  of images in `Viewer`; colours, compression and the image libraries in
  `Surfaces`; the colours of the Mandelbrot set.
* Temporary directories, modification times and file sizes in `util/`.
* `request_tiles()` of the database thread, used by thumbgen alone, is in
  `ProgramModes` as a job of a whole file, not in `DatabaseThread`.

`PROJECT.json` lists every component with its status.
