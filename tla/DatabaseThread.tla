---------------------------- MODULE DatabaseThread ----------------------------
(***************************************************************************)
(* src/galapix/database_thread.cpp: the one thread that owns the database, *)
(* serving the viewer's tile requests for one image.  A tile the database  *)
(* does not have is generated by a TileGenerationJob on a worker; its      *)
(* tiles come back through the bounded m_receive_queue, its end through    *)
(* the unbounded m_request_queue.                                          *)
(*                                                                         *)
(* Granularity: one message is one action of the database thread, except   *)
(* that handing a new job to the JobManager and entering it into           *)
(* m_tile_generation_jobs are two, since the job may run, and end, in      *)
(* between.  The queues are the channels of BoundedChannel, the job and    *)
(* the pool are those of TileGenerationJob and JobManager, with a coarser  *)
(* grain.                                                                  *)
(***************************************************************************)
EXTENDS TileScales, SequencesExt

CONSTANTS
  Requests,    \* the calls of request_tile(), one each
  NumWorkers,
  MaxReceive,  \* size of m_receive_queue, 256 in the code
  Jpegs,       \* whether the image is a local JPEG: subset of BOOLEAN
  Databases    \* the tiles the database may hold when the program starts

ASSUME ServiceAssumption ==
  /\ IsFiniteSet(Requests)
  /\ NumWorkers \in Nat \ {0}
  /\ MaxReceive \in Nat \ {0}
  /\ Jpegs \subseteq BOOLEAN
  /\ Databases \subseteq SUBSET AllTiles

Workers == 0 .. (NumWorkers - 1)
Jobs    == 1 .. Cardinality(Requests)    \* a request creates at most one
NoJob   == 0

VARIABLES
  jpeg,
  \* the requests
  wants,       \* the tile asked for, NoTile before the request
  aborted,     \* requests whose handle was aborted
  answered,    \* history: how often the callback of a request was called
  \* the database thread
  inbox,       \* m_request_queue
  outbox,      \* m_receive_queue: tiles to be stored
  stored,      \* the rows of each tile in the database
  at,          \* "receive", "request", "hand over" or "track", or "crashed"
  fresh,       \* the job being created
  tracked,     \* m_tile_generation_jobs
  \* the jobs
  made,        \* number of jobs created
  job,         \* per job: state, db, range, requests, late, tiles
  failed,      \* jobs whose generation threw an exception
  \* the pool
  queue,       \* per worker: the jobs to do
  next_thread,
  worker       \* per worker: pc, job in hand, tile to cut next

requestVars == <<wants, aborted, answered>>
threadVars  == <<inbox, outbox, stored, at, fresh, tracked>>
jobVars     == <<made, job, failed>>
poolVars    == <<queue, next_thread, worker>>
vars == <<jpeg, requestVars, threadVars, jobVars, poolVars>>

TileMessage(r)    == [type |-> "tile", of |-> r]
RemovalMessage(j) == [type |-> "removal", of |-> j]

NewJob(db, rs) ==
  [state |-> "kWaiting", db |-> db, range |-> Empty,
   requests |-> rs, late |-> {}, tiles |-> {}]

IdleWorker == [pc |-> "idle", job |-> NoJob, cut |-> NoTile]

Init ==
  /\ jpeg \in Jpegs
  /\ wants = [r \in Requests |-> NoTile]
  /\ aborted = {}
  /\ answered = [r \in Requests |-> 0]
  /\ inbox = <<>> /\ outbox = <<>>
  /\ \E tiles \in Databases :
       stored = [t \in AllTiles |-> IF t \in tiles THEN 1 ELSE 0]
  /\ at = "receive"
  /\ fresh = NoJob
  /\ tracked = <<>>
  /\ made = 0
  /\ job = [j \in Jobs |-> NewJob(Empty, {})]
  /\ failed = {}
  /\ queue = [w \in Workers |-> <<>>]
  /\ next_thread = 0
  /\ worker = [w \in Workers |-> IdleWorker]

-----------------------------------------------------------------------------
(* The viewer *)

RequestTile(r, tile) ==
  /\ wants[r] = NoTile
  /\ wants' = [wants EXCEPT ![r] = tile]
  /\ inbox' = Append(inbox, TileMessage(r))
  /\ UNCHANGED <<jpeg, aborted, answered, outbox, stored, at, fresh, tracked,
                 jobVars, poolVars>>

SetAborted(r) ==
  /\ wants[r] # NoTile
  /\ r \notin aborted
  /\ aborted' = aborted \cup {r}
  /\ UNCHANGED <<jpeg, wants, answered, threadVars, jobVars, poolVars>>

Answer(rs) ==
  answered' = [r \in Requests |-> IF r \in rs THEN answered[r] + 1 ELSE answered[r]]

-----------------------------------------------------------------------------
(* run(): process_queue(m_receive_queue), then process_queue(m_request_queue) *)

(* receive_tile()'s message: store_tile(), without looking for a collision. *)
StoreTile ==
  /\ at = "receive"
  /\ outbox # <<>>
  /\ stored' = [stored EXCEPT ![Head(outbox)] = @ + 1]
  /\ outbox' = Tail(outbox)
  /\ UNCHANGED <<jpeg, requestVars, inbox, at, fresh, tracked, jobVars, poolVars>>

(* try_pop() fails: on to the other queue, and round again. *)
QueueEmpty ==
  /\ \/ at = "receive" /\ outbox = <<>> /\ at' = "request"
     \/ at = "request" /\ inbox = <<>> /\ at' = "receive"
  /\ UNCHANGED <<jpeg, requestVars, inbox, outbox, stored, fresh, tracked,
                 jobVars, poolVars>>

(* try_pop() succeeds with this message. *)
Take(message) ==
  /\ at = "request"
  /\ inbox # <<>>
  /\ Head(inbox) = message
  /\ inbox' = Tail(inbox)

DropAborted(r) ==
  /\ Take(TileMessage(r))
  /\ r \in aborted
  /\ UNCHANGED <<jpeg, requestVars, outbox, stored, at, fresh, tracked,
                 jobVars, poolVars>>

AnswerFromDatabase(r) ==
  /\ Take(TileMessage(r))
  /\ r \notin aborted
  /\ stored[wants[r]] > 0
  /\ Answer({r})
  /\ UNCHANGED <<jpeg, wants, aborted, outbox, stored, at, fresh, tracked,
                 jobVars, poolVars>>

(* generate_tile() is reached *)
Missing(r) ==
  /\ Take(TileMessage(r))
  /\ r \notin aborted
  /\ stored[wants[r]] = 0

(* find_if() finds the most recent job of the image. *)
Tracked == IF tracked = <<>> THEN NoJob ELSE Head(tracked)

(* Mutant of Accepts: a running job takes no requests. *)
AcceptsNoLate(j, tile) ==
  \/ job[j].state = "kWaiting"
  \/ job[j].state = "kDone" /\ tile \in job[j].tiles

(* What TileGenerationJob::request_tile() returns. *)
Accepts(j, tile) ==
  \/ job[j].state = "kWaiting"
  \/ job[j].state = "kRunning" /\ Within(Scale(tile), job[j].range)
  \/ job[j].state = "kDone" /\ tile \in job[j].tiles

(* The assertion of request_tile(): not "already in the database".  When  *)
(* it fails the program ends; other threads may go on for a moment.        *)
Asserts(j, tile) == job[j].state = "kWaiting" /\ Within(Scale(tile), job[j].db)

(* Mutant of Joined: a late request is a regular one, too. *)
JoinedTwice(j, r) ==
  [job EXCEPT
    ![j].requests = IF job[j].state # "kDone" THEN @ \cup {r} ELSE @,
    ![j].late     = IF job[j].state = "kRunning" THEN @ \cup {r} ELSE @]

Joined(j, r) ==
  [job EXCEPT
    ![j].requests = IF job[j].state = "kWaiting" THEN @ \cup {r} ELSE @,
    ![j].late     = IF job[j].state = "kRunning" THEN @ \cup {r} ELSE @]

JoinJob(r) ==
  /\ Missing(r)
  /\ Tracked # NoJob
  /\ ~Asserts(Tracked, wants[r])
  /\ Accepts(Tracked, wants[r])
  /\ job' = Joined(Tracked, r)
  /\ Answer(IF job[Tracked].state = "kDone" THEN {r} ELSE {})
  /\ UNCHANGED <<jpeg, wants, aborted, outbox, stored, at, fresh, tracked,
                 made, failed, poolVars>>

AssertionFails(r) ==
  /\ Missing(r)
  /\ Tracked # NoJob
  /\ Asserts(Tracked, wants[r])
  /\ at' = "crashed"
  /\ UNCHANGED <<jpeg, requestVars, outbox, stored, fresh, tracked, jobVars, poolVars>>

(* TileDatabase::get_min_max_scale() *)
ScalesInDatabase ==
  LET scales == {Scale(t) : t \in {u \in AllTiles : stored[u] > 0}}
  IN  IF scales = {} THEN Empty ELSE [min |-> Min(scales), max |-> Max(scales)]

(* "We lie and say that no Tile is in the database" if the scale is there. *)
ScalesTold(s) == IF Within(s, ScalesInDatabase) THEN Empty ELSE ScalesInDatabase

CreateJob(r) ==
  /\ Missing(r)
  /\ Tracked # NoJob =>
       ~Asserts(Tracked, wants[r]) /\ ~Accepts(Tracked, wants[r])
  /\ made' = made + 1
  /\ job' = [job EXCEPT ![made'] = NewJob(ScalesTold(Scale(wants[r])), {r})]
  /\ fresh' = made'
  /\ at' = "hand over"
  /\ UNCHANGED <<jpeg, requestVars, outbox, stored, tracked, failed, poolVars>>

NextThread == (next_thread + 1) % NumWorkers

(* m_tile_job_manager.request(): from here on the job may run. *)
HandOver ==
  /\ at = "hand over"
  /\ queue' = [queue EXCEPT ![next_thread] = Append(@, fresh)]
  /\ next_thread' = NextThread
  /\ at' = "track"
  /\ UNCHANGED <<jpeg, requestVars, inbox, outbox, stored, fresh, tracked,
                 jobVars, worker>>

(* Mutant of Entered: push_back(). *)
EnteredLast(j) == Append(tracked, j)

Entered(j) == <<j>> \o tracked

(* m_tile_generation_jobs.push_front() *)
Track ==
  /\ at = "track"
  /\ tracked' = Entered(fresh)
  /\ fresh' = NoJob
  /\ at' = "request"
  /\ UNCHANGED <<jpeg, requestVars, inbox, outbox, stored, jobVars, poolVars>>

(* request_job_removal()'s message: remove_job(). *)
RemoveJob(j) ==
  /\ Take(RemovalMessage(j))
  /\ tracked' = RemoveFirst(tracked, j)
  /\ UNCHANGED <<jpeg, requestVars, outbox, stored, at, fresh, jobVars, poolVars>>

DatabaseStep ==
  \/ StoreTile \/ QueueEmpty \/ HandOver \/ Track
  \/ \E r \in Requests : DropAborted(r) \/ AnswerFromDatabase(r) \/ JoinJob(r)
                           \/ AssertionFails(r) \/ CreateJob(r)
  \/ \E j \in Jobs : RemoveJob(j)

-----------------------------------------------------------------------------
(* A worker with its job *)

Goto(w, pc) == worker' = [worker EXCEPT ![w].pc = pc]

(* try_pop(), then the job's is_aborted(). *)
TakeJob(w) ==
  LET j == Head(queue[w])
  IN  /\ worker[w].pc = "idle"
      /\ queue[w] # <<>>
      /\ queue' = [queue EXCEPT ![w] = Tail(@)]
      /\ IF job[j].requests \subseteq aborted
         THEN /\ worker' = [worker EXCEPT ![w].pc = "over", ![w].job = j]
              /\ job' = [job EXCEPT ![j].state = "kAborted"]
         ELSE /\ worker' = [worker EXCEPT ![w].pc = "starting", ![w].job = j]
              /\ UNCHANGED job
      /\ UNCHANGED <<jpeg, requestVars, threadVars, made, failed, next_thread>>

StartRunning(w) ==
  LET j     == worker[w].job
      range == StartScales(jpeg, job[j].db, {Scale(wants[r]) : r \in job[j].requests})
  IN  /\ worker[w].pc = "starting"
      /\ job' = [job EXCEPT ![j].state = "kRunning", ![j].range = range]
      /\ worker' = [worker EXCEPT ![w].pc = "cutting", ![w].cut = <<range.min, 0>>]
      /\ UNCHANGED <<jpeg, requestVars, threadVars, made, failed, queue, next_thread>>

(* Mutant of Deliver: a tile is dropped if the queue is full. *)
DeliverOrDrop(tile) ==
  outbox' = IF Len(outbox) # MaxReceive THEN Append(outbox, tile) ELSE outbox

(* m_receive_queue.wait_and_push() *)
Deliver(tile) == Len(outbox) # MaxReceive /\ outbox' = Append(outbox, tile)

(* process_tile(): keep the tile and wait_and_push() it to m_receive_queue; *)
(* m_tiles is not looked at by others before the job is done.               *)
DeliverTile(w) ==
  LET j == worker[w].job
      t == worker[w].cut
  IN  /\ worker[w].pc = "cutting"
      /\ Deliver(t)
      /\ job' = [job EXCEPT ![j].tiles = @ \cup {t}]
      /\ Goto(w, "calling")
      /\ UNCHANGED <<jpeg, requestVars, inbox, stored, at, fresh, tracked, made,
                     failed, queue, next_thread>>

(* ... and call the requests for it; then the next tile. *)
CallRequests(w) ==
  LET j == worker[w].job
      t == worker[w].cut
  IN  /\ worker[w].pc = "calling"
      /\ Answer({r \in job[j].requests \ aborted : wants[r] = t})
      /\ worker' = [worker EXCEPT
           ![w].cut = NextTile(t),
           ![w].pc = IF Scale(NextTile(t)) <= job[j].range.max THEN "cutting" ELSE "finishing"]
      /\ UNCHANGED <<jpeg, wants, aborted, threadVars, jobVars, queue, next_thread>>

(* The image cannot be loaded, or an exception ends the cutting. *)
GenerationFails(w) ==
  LET j == worker[w].job
  IN  /\ worker[w].pc = "cutting"
      /\ failed' = failed \cup {j}
      /\ Goto(w, "finishing")
      /\ UNCHANGED <<jpeg, requestVars, threadVars, made, job, queue, next_thread>>

(* Mutant of LateAnswers: the late requests are forgotten. *)
NoLateAnswers(j) == {}

LateAnswers(j) == {r \in job[j].late : wants[r] \in job[j].tiles}

Finish(w) ==
  LET j == worker[w].job
  IN  /\ worker[w].pc = "finishing"
      /\ job' = [job EXCEPT ![j].state = "kDone", ![j].late = {}]
      /\ Answer(LateAnswers(j))
      /\ Goto(w, "over")
      /\ UNCHANGED <<jpeg, wants, aborted, threadVars, made, failed, queue, next_thread>>

(* Mutant of Report: only jobs that ran are reported. *)
ReportIfRan(j) ==
  inbox' = IF job[j].state = "kDone" THEN Append(inbox, RemovalMessage(j)) ELSE inbox

Report(j) == inbox' = Append(inbox, RemovalMessage(j))

(* The callback given to JobManager::request(): request_job_removal(). *)
ReportEnd(w) ==
  /\ worker[w].pc = "over"
  /\ Report(worker[w].job)
  /\ worker' = [worker EXCEPT ![w] = IdleWorker]
  /\ UNCHANGED <<jpeg, requestVars, outbox, stored, at, fresh, tracked, jobVars,
                 queue, next_thread>>

WorkerStep(w) ==
  \/ TakeJob(w) \/ StartRunning(w) \/ DeliverTile(w)
  \/ CallRequests(w) \/ Finish(w) \/ ReportEnd(w)

-----------------------------------------------------------------------------
Next ==
  \/ \E r \in Requests : SetAborted(r) \/ \E tile \in AllTiles : RequestTile(r, tile)
  \/ DatabaseStep
  \/ \E w \in Workers : WorkerStep(w) \/ GenerationFails(w)

Spec == Init /\ [][Next]_vars

(* Both loops run on as long as the program does. *)
FairSpec ==
  /\ Spec
  /\ WF_vars(DatabaseStep)
  /\ \A w \in Workers : WF_vars(WorkerStep(w))

-----------------------------------------------------------------------------
(* Properties *)

Crashed == at = "crashed"

Unfinished(j) == job[j].state \in {"kWaiting", "kRunning"}
Made          == 1 .. made

(* No request is answered twice, whatever mixture of database hit, running *)
(* job, finished job and new job it meets on its way                       *)
(* (database_thread.cpp:61-88, 302-357).                                   *)
AnsweredOnce == \A r \in Requests : answered[r] <= 1

(* generate_tile() looks at the most recent job of an image only: no older *)
(* one may still be waiting for requests (database_thread.cpp:308-355).    *)
OnlyNewestWaits ==
  \A i \in DOMAIN tracked :
    i # 1 \/ fresh # NoJob => job[tracked[i]].state # "kWaiting"

(* An image that has to be decoded as a whole is not decoded by two        *)
(* workers at once, nor queued a second time (database_thread.cpp:314-355).*)
SingleGeneration ==
  ~jpeg => \A i, j \in Made : Unfinished(i) /\ Unfinished(j) => i = j

(* A tracked job is still going to be worked on, or the message that       *)
(* removes it is on its way: jobs cannot pile up in m_tile_generation_jobs,*)
(* although a job may end before it is entered there                       *)
(* (database_thread.cpp:353-355).                                          *)
ToBeRemoved ==
  \A j \in (Range(tracked) \cup {fresh}) \ {NoJob} :
    \/ at = "hand over" /\ j = fresh
    \/ \E w \in Workers : j \in Range(queue[w]) \/ worker[w].job = j
    \/ RemovalMessage(j) \in Range(inbox)

(* Every tile a job has cut, and no other, is in the receive queue or the  *)
(* database: none is lost or duplicated on the way, however full the queue *)
(* is.  The 1 is a row that was there from the start                       *)
(* (database_thread.cpp:194-210).                                          *)
TilesArrive ==
  \A t \in AllTiles :
    LET copies == stored[t] + Cardinality({i \in DOMAIN outbox : outbox[i] = t})
        cut    == Cardinality({j \in Made : t \in job[j].tiles})
    IN  copies \in {cut, cut + 1}

(* Every request for a tile of an image that is not a JPEG is answered,    *)
(* unless it is aborted, a generation fails or the program crashes         *)
(* (database_thread.cpp:51-92, 302-357).                                   *)
EveryRequestAnswered ==
  \A r \in Requests :
    wants[r] # NoTile /\ ~jpeg ~> answered[r] = 1 \/ r \in aborted \/ failed # {} \/ Crashed

(* "We don't allow requests for tiles that are already in the database"    *)
(* (tile_generation_job.cpp:60-62, an assertion).                          *)
NeverAsserts == ~Crashed
===============================================================================
