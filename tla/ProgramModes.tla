----------------------------- MODULE ProgramModes -----------------------------
(***************************************************************************)
(* The modes of src/galapix/galapix.cpp that run threads: how main() starts*)
(* the workers and the database thread, hands them work, waits for it,     *)
(* stops or aborts them and joins them, and what the others may be doing   *)
(* meanwhile.  It composes the job pool, the database thread and the       *)
(* bounded receive queue between them.                                     *)
(*                                                                         *)
(* A file has one tile of each scale, 0 .. Thumbnail[f].  The unlocked     *)
(* flags m_quit and m_abort are read and written in steps of their own; a  *)
(* push and its notification are one step (ThreadMessageQueue2 shows that  *)
(* no notification is lost there), setting a flag and wakeup() are two,    *)
(* and a worker tests its predicate and falls asleep in two.  A wakeup     *)
(* without a reason is possible and would end some of the hangs below; the *)
(* modules of the queue and of the pool have it, this one has not.         *)
(***************************************************************************)
EXTENDS Integers, Sequences, FiniteSets, FiniteSetsExt, Functions

CONSTANTS
  Files,       \* the urls on the command line, 1 .. n
  Thumbnail,   \* FileEntry::get_thumbnail_scale() of each
  AllTiles,    \* thumbgen's generate_all_tiles
  NumThreads,  \* -t
  MaxReceive,  \* limit of DatabaseThread::m_receive_queue, 256 in the code
  Modes        \* the commands under test

ASSUME ModesAssumption ==
  /\ IsFiniteSet(Files) /\ Files = 1 .. Cardinality(Files)
  /\ Thumbnail \in [Files -> Nat] /\ AllTiles \in BOOLEAN
  /\ NumThreads \in Nat \ {0} /\ MaxReceive \in Nat \ {0}
  /\ Modes \subseteq {"view", "thumbgen", "filegen", "test"}

Workers == 1 .. NumThreads

Greater(a, b) == IF a > b THEN a ELSE b
Lesser(a, b)  == IF a < b THEN a ELSE b

(* The smallest scale thumbgen asks for, and those FileEntryGenerationJob  *)
(* begins with, for a JPEG and for another picture.                        *)
FirstScale(f)  == IF AllTiles THEN 0 ELSE Greater(0, Thumbnail[f] - 3)
EntryScales(f) == {0, Lesser(Greater(0, Thumbnail[f] - 3), 3)}

(* The tiles there are of some files. *)
TilesOf(files) == UNION {{f} \X (0 .. Thumbnail[f]) : f \in files}

(* What main() does in each mode, in the order of the code. *)
ViewScript ==
  <<"start workers", "start database", "run viewer",
    "abort workers", "abort database", "join workers", "join database">>

ThumbgenScript ==
  <<"start database", "start workers", "request files", "wait", "request tiles", "wait",
    "stop workers", "stop database", "join workers", "join database">>

FilegenScript ==
  <<"start workers", "start database", "request files",
    "stop workers", "stop database", "join workers", "join database">>

TestScript ==
  <<"start database", "start workers", "request tests", "wait",
    "stop database", "stop workers", "join database", "join workers">>

Script == [view |-> ViewScript, thumbgen |-> ThumbgenScript,
           filegen |-> FilegenScript, test |-> TestScript]

VARIABLES
  mode,
  step,        \* where main() is in its script
  todo,        \* the workers, files or entries the current loop of main() has left
  flagged,     \* main() has set the flags of the thread it stops, not yet woken it
  mutex,       \* JobManager::mutex: "free", or "main" while it joins
  group,       \* the handles main() waits for, as jobs
  finished,    \* jobs whose handle is finished
  entries,     \* thumbgen's vector of file entries
  database,    \* the files whose entry is in the database
  tiles,       \* the tiles that are stored, each its file and its scale
  requests,    \* m_request_queue
  inbox,       \* m_receive_queue
  db,          \* the database thread: where it is, and the job it hands over
  dbquit, dbabort,
  lowest,      \* m_min_scale_in_db of each file's MultipleTileGenerationJob
  queue, next_thread,
  scale,       \* of the next tile a worker cuts
  worker,      \* where each worker is, and its job
  quit, abort  \* the workers' flags

mainVars == <<mode, step, todo, flagged, mutex, group>>
dbVars   == <<db, dbquit, requests, database, tiles, lowest>>
poolVars == <<queue, next_thread, scale>>
flags    == <<quit, abort, dbabort>>
vars == <<mainVars, dbVars, poolVars, flags, finished, entries, inbox, worker>>

Job(kind, f)  == [kind |-> kind, file |-> f]
NoJob         == Job("none", 0)
Message(k, f, s) == [kind |-> k, file |-> f, scale |-> s]

Doing == IF step > Len(Script[mode]) THEN "end" ELSE Script[mode][step]

(* The loop a step of the script runs through. *)
Loop(name, files) ==
  CASE name \in {"request files", "request tests", "run viewer"} -> [i \in Files |-> i]
    [] name = "request tiles" -> files
    [] name \in {"stop workers", "abort workers"} -> [w \in Workers |-> w]
    [] OTHER -> <<>>

Init ==
  /\ mode \in Modes
  /\ step = 1 /\ todo = <<>> /\ flagged = FALSE /\ mutex = "free" /\ group = {}
  /\ finished = {} /\ entries = <<>>
  /\ database \in SUBSET Files /\ tiles \in SUBSET TilesOf(database)
  /\ requests = <<>> /\ inbox = <<>>
  /\ db = [at |-> "nothing", job |-> NoJob] /\ dbquit = FALSE /\ dbabort = FALSE
  /\ lowest = [f \in Files |-> -1] /\ scale = [w \in Workers |-> 0]
  /\ queue = [w \in Workers |-> <<>>] /\ next_thread = 1
  /\ worker = [w \in Workers |-> [at |-> "nothing", job |-> NoJob]]
  /\ quit = [w \in Workers |-> FALSE] /\ abort = quit

-----------------------------------------------------------------------------
(* The job pool *)

(* Mutant of Hand: the worker is not notified. *)
HandSilently(job) ==
  /\ mutex = "free" /\ worker[next_thread].at # "commit"
  /\ queue' = [queue EXCEPT ![next_thread] = Append(@, job)]
  /\ next_thread' = (next_thread % NumThreads) + 1
  /\ UNCHANGED <<scale, worker>>

(* JobManager::request(); a worker about to fall asleep holds its mutex. *)
Hand(job) ==
  /\ mutex = "free" /\ worker[next_thread].at # "commit"
  /\ queue' = [queue EXCEPT ![next_thread] = Append(@, job)]
  /\ next_thread' = (next_thread % NumThreads) + 1
  /\ worker' = IF worker[next_thread].at = "asleep"
                 THEN [worker EXCEPT ![next_thread].at = "look"] ELSE worker
  /\ UNCHANGED scale

Goto(w, from, to) == worker[w].at = from /\ worker' = [worker EXCEPT ![w].at = to]

OnlyWorker == UNCHANGED <<mainVars, dbVars, poolVars, flags, finished, entries, inbox>>

(* while(!m_quit); the predicate; the sleep; while(!m_abort ... *)
Control(w) ==
  /\ \/ Goto(w, "test", IF quit[w] THEN "exited" ELSE "look")
     \/ Goto(w, "look", IF queue[w] # <<>> \/ abort[w] THEN "inner" ELSE "commit")
     \/ Goto(w, "commit", "asleep")
     \/ Goto(w, "inner", IF abort[w] THEN "test" ELSE "pop")
  /\ OnlyWorker

(* try_pop(). *)
Pop(w) ==
  /\ \/ queue[w] = <<>> /\ Goto(w, "pop", "test") /\ UNCHANGED queue
     \/ /\ queue[w] # <<>> /\ worker[w].at = "pop"
        /\ worker' = [worker EXCEPT ![w] = [at |-> Head(queue[w]).kind, job |-> Head(queue[w])]]
        /\ queue' = [queue EXCEPT ![w] = Tail(@)]
  /\ UNCHANGED <<mainVars, dbVars, next_thread, scale, flags, finished, entries, inbox>>

(* Mutant of NothingToCut: not if there is anything in the database. *)
NothingIfAny(f) == lowest[f] # -1

(* MultipleTileGenerationJob::run() cuts the scales asked for that are     *)
(* below the lowest in the database, which may be none.                    *)
NothingToCut(f) == lowest[f] \in 0 .. FirstScale(f)

LastScale(job) ==
  IF job.kind = "entry" \/ lowest[job.file] = -1
    THEN Thumbnail[job.file] ELSE Lesser(Thumbnail[job.file], lowest[job.file] - 1)

(* What a job begins with: it loads the picture. *)
Loads(w) ==
  \/ worker[w].at = "entry"
  \/ worker[w].at = "tiles" /\ ~NothingToCut(worker[w].job.file)

(* The image cannot be read: the exception ends the job, not its handle. *)
Fail(w) ==
  /\ Loads(w)
  /\ Goto(w, worker[w].at, "inner")
  /\ OnlyWorker

(* thumbgen's callback is called by the job, in the worker ... *)
Announce(w) ==
  /\ Goto(w, "entry", IF mode = "thumbgen" THEN "append" ELSE "file")
  /\ OnlyWorker

(* ... and appends to the vector of main()'s stack. *)
WorkerAppends(w) ==
  /\ Goto(w, "append", "file")
  /\ entries' = Append(entries, worker[w].job.file)
  /\ UNCHANGED <<mainVars, dbVars, poolVars, flags, finished, inbox>>

(* receive_file() and receive_tile(): wait_and_push to the bounded queue.  *)
Push(message) == Len(inbox) < MaxReceive /\ inbox' = Append(inbox, message)

OnlyWorkerAndInbox == UNCHANGED <<mainVars, dbVars, queue, next_thread, flags, finished, entries>>

DeliverFile(w) ==
  /\ Goto(w, "file", "tile")
  /\ Push(Message("file", worker[w].job.file, 0))
  /\ \E s \in EntryScales(worker[w].job.file) : scale' = [scale EXCEPT ![w] = s]
  /\ OnlyWorkerAndInbox

(* TileGenerator::cut_into_tiles() gives away a tile, and goes on with the *)
(* next scale unless this was the last.                                    *)
DeliverTile(w, from, to) ==
  /\ worker[w].at = from
  /\ Push(Message("tile", worker[w].job.file, scale[w]))
  /\ IF scale[w] < LastScale(worker[w].job)
       THEN scale' = [scale EXCEPT ![w] = @ + 1] /\ UNCHANGED worker
       ELSE Goto(w, from, to) /\ UNCHANGED scale
  /\ OnlyWorkerAndInbox

(* The handle is finished also when there is nothing to cut, be it because *)
(* the tiles asked for are in the database or because only smaller scales  *)
(* are.                                                                    *)
RunTiles(w) ==
  /\ worker[w].at = "tiles"
  /\ IF NothingToCut(worker[w].job.file)
       THEN Goto(w, "tiles", "finish") /\ UNCHANGED scale
       ELSE Goto(w, "tiles", "cut") /\ scale' = [scale EXCEPT ![w] = FirstScale(worker[w].job.file)]
  /\ UNCHANGED <<mainVars, dbVars, queue, next_thread, flags, finished, entries, inbox>>

(* set_finished(), which FileEntryGenerationJob and TestJob never call. *)
Finish(w) ==
  /\ Goto(w, "finish", "inner")
  /\ finished' = finished \cup {worker[w].job}
  /\ UNCHANGED <<mainVars, dbVars, poolVars, flags, entries, inbox>>

RunTest(w) == Goto(w, "test job", "inner") /\ OnlyWorker

WorkerStep(w) ==
  \/ Control(w) \/ Pop(w) \/ Fail(w) \/ Announce(w) \/ WorkerAppends(w)
  \/ DeliverFile(w) \/ DeliverTile(w, "tile", "inner")
  \/ RunTiles(w) \/ DeliverTile(w, "cut", "finish") \/ Finish(w) \/ RunTest(w)

-----------------------------------------------------------------------------
(* The database thread *)

DbGoto(from, to) == db.at = from /\ db' = [db EXCEPT !.at = to]

OnlyDb == UNCHANGED <<mainVars, poolVars, flags, finished, entries, inbox, worker,
                      requests, database, tiles, lowest>>

(* run(): m_quit = false, however late; then the loop and its two queues. *)
DbControl ==
  /\ \/ DbGoto("started", "test") /\ dbquit' = FALSE
     \/ DbGoto("test", IF dbquit THEN "exited" ELSE "receive") /\ UNCHANGED dbquit
     \/ /\ dbabort \/ inbox = <<>>
        /\ DbGoto("receive", "request") /\ UNCHANGED dbquit
     \/ /\ dbabort \/ requests = <<>>
        /\ DbGoto("request", "test") /\ UNCHANGED dbquit
  /\ OnlyDb

(* store_file_entry() or store_tile(). *)
Store ==
  /\ db.at = "receive" /\ ~dbabort /\ inbox # <<>>
  /\ inbox' = Tail(inbox)
  /\ IF Head(inbox).kind = "file"
       THEN database' = database \cup {Head(inbox).file} /\ UNCHANGED tiles
       ELSE tiles' = tiles \cup {<<Head(inbox).file, Head(inbox).scale>>} /\ UNCHANGED database
  /\ UNCHANGED <<mainVars, db, dbquit, requests, lowest, poolVars, flags, finished, entries, worker>>

(* Mutant of FoundNext: the handle is finished before the callback. *)
FoundNextFinished(f) ==
  IF mode = "thumbgen"
    THEN db' = [at |-> "append", job |-> Job("entry", f)] /\ finished' = finished \cup {Job("entry", f)}
    ELSE UNCHANGED db /\ finished' = finished \cup {Job("entry", f)}

(* A file that is found: filegen's callback is an empty std::function, and *)
(* calling it throws, which run_wrap() asserts never happens; thumbgen's   *)
(* appends; the viewer's queues the entry.  Then the handle is finished.   *)
FoundNext(f) ==
  CASE mode = "filegen"  -> db' = [db EXCEPT !.at = "died"] /\ UNCHANGED finished
    [] mode = "thumbgen" -> db' = [at |-> "append", job |-> Job("entry", f)] /\ UNCHANGED finished
    [] OTHER             -> UNCHANGED db /\ finished' = finished \cup {Job("entry", f)}

(* get_min_max_scale(), of which the maximum is not used. *)
LowestStored(f) ==
  LET scales == {s \in 0 .. Thumbnail[f] : <<f, s>> \in tiles}
  IN  IF scales = {} THEN -1 ELSE Min(scales)

TakeRequest ==
  /\ db.at = "request" /\ ~dbabort /\ requests # <<>>
  /\ requests' = Tail(requests)
  /\ LET job == Head(requests)
     IN  /\ IF job.kind = "entry" /\ job.file \in database
              THEN FoundNext(job.file)
              ELSE db' = [at |-> "hand over", job |-> job] /\ UNCHANGED finished
         /\ lowest' = IF job.kind = "tiles" THEN [lowest EXCEPT ![job.file] = LowestStored(job.file)]
                                            ELSE lowest
  /\ UNCHANGED <<mainVars, dbquit, database, tiles, poolVars, flags, entries, inbox, worker>>

DbAppends ==
  /\ db.at = "append"
  /\ entries' = Append(entries, db.job.file)
  /\ finished' = finished \cup {db.job}
  /\ db' = [at |-> "request", job |-> NoJob]
  /\ UNCHANGED <<mainVars, dbquit, requests, database, tiles, lowest, poolVars, flags, inbox, worker>>

(* generate_file_entry(), generate_tiles() *)
HandOver ==
  /\ db.at = "hand over"
  /\ Hand(db.job)
  /\ db' = [at |-> "request", job |-> NoJob]
  /\ UNCHANGED <<mainVars, dbquit, requests, database, tiles, lowest, flags, finished, entries, inbox>>

DbStep == DbControl \/ Store \/ TakeRequest \/ DbAppends \/ HandOver

-----------------------------------------------------------------------------
(* main() *)

Advance ==
  /\ step' = step + 1
  /\ todo' = IF step < Len(Script[mode]) THEN Loop(Script[mode][step + 1], entries) ELSE <<>>
  /\ UNCHANGED <<mode, flagged>>

Start ==
  /\ \/ /\ Doing = "start workers"
        /\ worker' = [w \in Workers |-> [at |-> "test", job |-> NoJob]]
        /\ UNCHANGED db
     \/ /\ Doing = "start database"
        /\ db' = [db EXCEPT !.at = "started"]
        /\ UNCHANGED worker
  /\ Advance
  /\ UNCHANGED <<mutex, group, finished, entries, dbquit, requests, database, tiles,
                 lowest, poolVars, flags, inbox>>

(* request_file(), request_tiles(): wait_and_push to the unbounded queue.  *)
(* The viewer asks for what is on the screen, and the user ends it at any  *)
(* time.                                                                   *)
RequestFile ==
  /\ Doing \in {"request files", "request tiles", "run viewer"} /\ todo # <<>>
  /\ LET job == Job(IF Doing = "request tiles" THEN "tiles" ELSE "entry", Head(todo))
     IN  /\ requests' = Append(requests, job)
         /\ group' = IF mode = "thumbgen" THEN group \cup {job} ELSE group
  /\ todo' = Tail(todo)
  /\ UNCHANGED <<mode, step, flagged, mutex, finished, entries, db, dbquit, database, tiles,
                 lowest, poolVars, flags, inbox, worker>>

(* Two TestJobs, straight to the pool. *)
RequestTest ==
  /\ Doing = "request tests" /\ todo # <<>>
  /\ Hand(Job("test job", Head(todo)))
  /\ group' = group \cup {Job("test job", Head(todo))}
  /\ todo' = Tail(todo)
  /\ UNCHANGED <<mode, step, flagged, mutex, finished, entries, dbVars, flags, inbox>>

EndLoop ==
  /\ Doing \in {"request files", "request tiles", "request tests",
                "run viewer", "stop workers", "abort workers"}
  /\ todo = <<>> \/ Doing = "run viewer"
  /\ Advance
  /\ UNCHANGED <<mutex, group, finished, entries, dbVars, poolVars, flags, inbox, worker>>

(* JobHandleGroup::wait() and clear() *)
Wait ==
  /\ Doing = "wait" /\ group \subseteq finished
  /\ group' = {}
  /\ Advance
  /\ UNCHANGED <<mutex, finished, entries, dbVars, poolVars, flags, inbox, worker>>

(* JobWorkerThread::stop_thread(), abort_thread(): the flags ... *)
FlagWorker ==
  /\ Doing \in {"stop workers", "abort workers"} /\ todo # <<>> /\ ~flagged
  /\ quit' = [quit EXCEPT ![Head(todo)] = TRUE]
  /\ abort' = IF Doing = "abort workers" THEN [abort EXCEPT ![Head(todo)] = TRUE] ELSE abort
  /\ flagged' = TRUE
  /\ UNCHANGED <<mode, step, todo, mutex, group, finished, entries, dbVars, poolVars,
                 dbabort, inbox, worker>>

(* ... and the wakeup. *)
WakeWorker ==
  /\ Doing \in {"stop workers", "abort workers"} /\ flagged
  /\ worker' = IF worker[Head(todo)].at = "asleep"
                 THEN [worker EXCEPT ![Head(todo)].at = "look"] ELSE worker
  /\ todo' = Tail(todo) /\ flagged' = FALSE
  /\ UNCHANGED <<mode, step, mutex, group, finished, entries, dbVars, poolVars, flags, inbox>>

(* DatabaseThread::stop_thread(), abort_thread(): nobody waits there. *)
FlagDatabase ==
  /\ Doing \in {"stop database", "abort database"}
  /\ dbquit' = TRUE
  /\ dbabort' = (Doing = "abort database")
  /\ Advance
  /\ UNCHANGED <<mutex, group, finished, entries, db, requests, database, tiles,
                 lowest, poolVars, quit, abort, inbox, worker>>

(* JobManager::join_thread() keeps the mutex until every worker has ended. *)
JoinWorkers ==
  /\ Doing = "join workers"
  /\ \/ mutex = "free" /\ mutex' = "main" /\ UNCHANGED <<mode, step, todo, flagged>>
     \/ /\ mutex = "main" /\ \A w \in Workers : worker[w].at = "exited"
        /\ mutex' = "free" /\ Advance
  /\ UNCHANGED <<group, finished, entries, dbVars, poolVars, flags, inbox, worker>>

JoinDatabase ==
  /\ Doing = "join database" /\ db.at \in {"exited", "died"}
  /\ Advance
  /\ UNCHANGED <<mutex, group, finished, entries, dbVars, poolVars, flags, inbox, worker>>

MainStep ==
  \/ Start \/ RequestFile \/ RequestTest \/ EndLoop \/ Wait \/ FlagWorker \/ WakeWorker
  \/ FlagDatabase \/ JoinWorkers \/ JoinDatabase

-----------------------------------------------------------------------------
Next == MainStep \/ DbStep \/ \E w \in Workers : WorkerStep(w)

Spec == Init /\ [][Next]_vars

(* The operating system runs every thread that can go on.                  *)
FairSpec ==
  Spec /\ WF_vars(MainStep) /\ WF_vars(DbStep) /\ \A w \in Workers : WF_vars(WorkerStep(w))

-----------------------------------------------------------------------------
(* Properties *)

(* A worker asleep is woken by a job or by wakeup(): after the shutdown    *)
(* there is neither.  One that was stopped never leaves the wait, whose    *)
(* predicate does not look at m_quit; one that was aborted only if it      *)
(* had found its predicate false before the flag was set.                  *)
AsleepForEver == \E w \in Workers : quit[w] /\ worker[w].at = "asleep"

(* run() cleared m_quit after main() had set it. *)
QuitForgotten == Doing = "join database" /\ db.at # "died" /\ ~dbquit

(* Nobody empties the full receive queue: the database thread has left its *)
(* loop, skips the queue, or waits for the mutex main() holds.             *)
StuckInPush ==
  /\ Len(inbox) = MaxReceive
  /\ \E w \in Workers : worker[w].at \in {"file", "tile", "cut"}
  /\ \/ db.at \in {"exited", "died"} \/ dbabort
     \/ db.at = "hand over" /\ mutex = "main"

(* A handle main() waits for belongs to a job that is over without it. *)
NeverFinished ==
  Doing = "wait" /\ \E job \in group \ finished :
    /\ job \notin Range(requests) /\ job # db.job
    /\ \A w \in Workers : job \notin Range(queue[w]) /\
         (worker[w].job = job => worker[w].at \in {"inner", "pop", "test", "look", "commit", "asleep"})

(* Every run of every mode ends, or is stuck in one of these four ways:    *)
(* there is no fifth (galapix.cpp:78-106, 250-328, 330-470).               *)
EndsOrKnownHang ==
  <>[](\/ Doing = "end"
       \/ AsleepForEver \/ QuitForgotten \/ StuckInPush \/ NeverFinished)

(* Threads append to thumbgen's vector without a lock, but none does so    *)
(* once main() has passed the wait and reads it: a handle is only finished *)
(* after its callback (galapix.cpp:289-317, database_thread.cpp:121-165).  *)
ReadsAlone ==
  mode = "thumbgen" /\ step > 4 =>
    /\ db.at # "append" /\ \A w \in Workers : worker[w].at # "append"
    /\ IsInjective(entries) /\ Range(entries) = Files

Cut(f, s) == <<f, s>> \in tiles \/ Message("tile", f, s) \in Range(inbox)

(* When thumbgen stops its threads, every tile it has asked for has been   *)
(* cut and is stored or on its way, even though jobs finish in any order   *)
(* -- unless the database held a tile of the same or a smaller scale when  *)
(* it was asked.  The exception is the code's: of a database that a killed *)
(* run left with small scales only, the job cuts nothing, and finishes its *)
(* handle (galapix.cpp:303-324, multiple_tile_generation_job.hpp:55-73).   *)
ThumbnailsCut ==
  mode = "thumbgen" /\ step > 6 =>
    \A f \in Files : \A s \in FirstScale(f) .. Thumbnail[f] : Cut(f, s) \/ lowest[f] \in 0 .. s

(* "Generate only small thumbnails for all given images"                   *)
(* (galapix.cpp:487): once the database thread has ended, all are stored,  *)
(* those aside that were not cut because the database held smaller scales. *)
ThumbnailsStored ==
  mode = "thumbgen" /\ step > 6 /\ db.at = "exited" =>
    \A f \in Files : <<f, Thumbnail[f]>> \in tiles \/ lowest[f] # -1
===============================================================================
