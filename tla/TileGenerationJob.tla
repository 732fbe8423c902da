-------------------------- MODULE TileGenerationJob --------------------------
(***************************************************************************)
(* src/jobs/tile_generation_job.cpp: one job that cuts the tiles of one    *)
(* image while DatabaseThread keeps asking it for more of them.            *)
(* request_tile() runs on the database thread, is_aborted() and run() on a *)
(* worker, and the handles of the requests are aborted by the viewer; the  *)
(* state and the two request lists are shared, guarded by m_state_mutex    *)
(* (one action per critical section).  Tiles are cut by                    *)
(* src/jobs/tile_generator.cpp, outside the lock.                          *)
(***************************************************************************)
EXTENDS TileScales

CONSTANTS
  Requests,   \* the calls of request_tile()
  DbRanges    \* the [min, max] scales the database may hold at construction

ASSUME JobAssumption == DbRanges \subseteq Ranges \cup {Empty}

VARIABLES
  jpeg,        \* whether m_url is a local JPEG
  db,          \* m_min_scale_in_db, m_max_scale_in_db
  state,       \* m_state
  range,       \* m_min_scale, m_max_scale
  requests,    \* m_tile_requests
  late,        \* m_late_tile_requests
  tiles,       \* m_tiles
  pc,          \* where the worker is
  cut,         \* the next tile to be cut
  wants,       \* per request: the tile asked for, once asked
  answer,      \* per request: what request_tile() returned
  aborted,     \* requests whose handle has been aborted
  served,      \* per request: how often its callback was called
  failed       \* an exception ended the generation

jobVars     == <<jpeg, db, state, range, requests, late, tiles>>
workerVars  == <<pc, cut, failed>>
requestVars == <<wants, answer, aborted, served>>
vars == <<jobVars, workerVars, requestVars>>

Serve(rs) == served' = [r \in Requests |-> IF r \in rs THEN served[r] + 1 ELSE served[r]]

(* DatabaseThread::generate_tile() creates the job for a first request     *)
(* that the database could not answer: either the scale is outside what    *)
(* the database holds, or the database is passed off as empty.             *)
Init ==
  /\ jpeg \in BOOLEAN
  /\ \E first \in Requests, tile \in AllTiles :
       /\ db \in {r \in DbRanges : ~Within(Scale(tile), r)}
       /\ requests = <<first>>
       /\ wants = [r \in Requests |-> IF r = first THEN tile ELSE NoTile]
       /\ answer = [r \in Requests |-> IF r = first THEN "accepted" ELSE "none"]
  /\ state = "kWaiting"
  /\ range = Empty
  /\ late = <<>>
  /\ tiles = <<>>
  /\ pc = "queued"
  /\ cut = NoTile
  /\ aborted = {}
  /\ served = [r \in Requests |-> 0]
  /\ failed = FALSE

-----------------------------------------------------------------------------
(* request_tile(), called by the database thread *)

Ask(r, tile, reply) ==
  /\ wants[r] = NoTile
  /\ wants' = [wants EXCEPT ![r] = tile]
  /\ answer' = [answer EXCEPT ![r] = reply]
  /\ UNCHANGED <<jpeg, db, state, range, tiles, workerVars, aborted>>

(* assert(scale < m_min_scale_in_db || scale > m_max_scale_in_db) is what  *)
(* the caller owes; DatabaseThread shows whether it keeps to it.           *)
RequestWaiting(r, tile) ==
  /\ state = "kWaiting"
  /\ ~Within(Scale(tile), db)
  /\ requests' = Append(requests, r)
  /\ Ask(r, tile, "accepted")
  /\ UNCHANGED <<late, served>>

(* Mutants of RequestRunning: recorded in both lists, and recorded although *)
(* the caller is told that it was not.                                     *)
RequestRunningTwice(r, tile) ==
  /\ state = "kRunning"
  /\ IF Within(Scale(tile), range)
     THEN Ask(r, tile, "accepted") /\ late' = Append(late, r)
                                   /\ requests' = Append(requests, r)
     ELSE Ask(r, tile, "refused") /\ UNCHANGED <<requests, late>>
  /\ UNCHANGED <<served>>

RequestRunningDenied(r, tile) ==
  /\ state = "kRunning"
  /\ Ask(r, tile, "refused")
  /\ late' = IF Within(Scale(tile), range) THEN Append(late, r) ELSE late
  /\ UNCHANGED <<requests, served>>

RequestRunning(r, tile) ==
  /\ state = "kRunning"
  /\ IF Within(Scale(tile), range)
     THEN Ask(r, tile, "accepted") /\ late' = Append(late, r)
     ELSE Ask(r, tile, "refused") /\ UNCHANGED late
  /\ UNCHANGED <<requests, served>>

RequestAborted(r, tile) ==
  /\ state = "kAborted"
  /\ Ask(r, tile, "refused")
  /\ UNCHANGED <<requests, late, served>>

RequestDone(r, tile) ==
  /\ state = "kDone"
  /\ IF Within(Scale(tile), range) /\ tile \in Range(tiles)
     THEN Ask(r, tile, "accepted") /\ Serve({r})
     ELSE Ask(r, tile, "refused") /\ UNCHANGED served
  /\ UNCHANGED <<requests, late>>

RequestTile(r, tile) ==
  RequestWaiting(r, tile) \/ RequestRunning(r, tile)
    \/ RequestAborted(r, tile) \/ RequestDone(r, tile)

(* JobHandle::set_aborted() on the handle of a request, by the viewer. *)
SetAborted(r) ==
  /\ r \notin aborted
  /\ aborted' = aborted \cup {r}
  /\ UNCHANGED <<jobVars, workerVars, wants, answer, served>>

-----------------------------------------------------------------------------
(* The worker: is_aborted(), then run() *)

(* Mutant of Unwanted: one aborted request is enough. *)
PartlyUnwanted == Range(requests) \cap aborted # {}

(* is_aborted(): all the requests so far have been aborted. *)
Unwanted == Range(requests) \subseteq aborted

IsAborted ==
  /\ pc = "queued"
  /\ IF Unwanted
     THEN state' = "kAborted" /\ pc' = "over"
     ELSE pc' = "starting" /\ UNCHANGED state
  /\ UNCHANGED <<jpeg, db, range, requests, late, tiles, cut, failed, requestVars>>

StartRunning ==
  /\ pc = "starting"
  /\ state = "kWaiting"
  /\ state' = "kRunning"
  /\ range' = StartScales(jpeg, db, {Scale(wants[r]) : r \in Range(requests)})
  /\ cut' = <<range'.min, 0>>
  /\ pc' = "cutting"
  /\ UNCHANGED <<jpeg, db, requests, late, tiles, failed, requestVars>>

(* process_tile(), first half: keep the tile and signal it to the database. *)
KeepTile ==
  /\ pc = "cutting"
  /\ tiles' = Append(tiles, cut)
  /\ pc' = "calling"
  /\ UNCHANGED <<jpeg, db, state, range, requests, late, cut, failed, requestVars>>

(* process_tile(), second half: the callbacks of the requests for it. *)
CallRequests ==
  /\ pc = "calling"
  /\ Serve({r \in Range(requests) \ aborted : wants[r] = cut})
  /\ cut' = NextTile(cut)
  /\ pc' = IF Scale(cut') <= range.max THEN "cutting" ELSE "finishing"
  /\ UNCHANGED <<jobVars, failed, wants, answer, aborted>>

(* The image cannot be loaded, or a callback throws: caught and logged. *)
GenerationFails ==
  /\ pc \in {"cutting", "calling"}
  /\ failed' = TRUE
  /\ pc' = "finishing"
  /\ UNCHANGED <<jobVars, cut, requestVars>>

(* Mutant of Answerable: the late requests are forgotten unserved. *)
AnswerableNone == {}

Answerable == {r \in Range(late) : wants[r] \in Range(tiles)}

(* The late requests are served from the tiles kept, then forgotten. *)
Finish ==
  /\ pc = "finishing"
  /\ state' = "kDone"
  /\ Serve(Answerable)
  /\ late' = <<>>
  /\ pc' = "over"
  /\ UNCHANGED <<jpeg, db, range, requests, tiles, cut, failed, wants, answer,
                 aborted>>

WorkerStep ==
  IsAborted \/ StartRunning \/ KeepTile \/ CallRequests \/ Finish

-----------------------------------------------------------------------------
Next ==
  \/ \E r \in Requests, tile \in AllTiles : RequestTile(r, tile)
  \/ \E r \in Requests : SetAborted(r)
  \/ WorkerStep
  \/ GenerationFails

Spec == Init /\ [][Next]_vars

(* The worker goes on; requests, aborts and failures need not happen. *)
FairSpec == Spec /\ WF_vars(WorkerStep)

-----------------------------------------------------------------------------
(* Properties *)

(* TypeOK: the job is well formed; "only valid if state is kRunning or     *)
(* kDone" (tile_generation_job.hpp:66) are 0 <= m_min_scale <= m_max_scale *)
(* <= thumbnail scale.                                                     *)
TypeOK ==
  /\ jpeg \in BOOLEAN /\ db \in DbRanges
  /\ state \in {"kWaiting", "kRunning", "kAborted", "kDone"}
  /\ state \in {"kRunning", "kDone"} =>
       range.min \in Scales /\ range.max \in range.min .. Thumb
  /\ state \in {"kWaiting", "kAborted"} => range = Empty
  /\ requests \in Seq(Requests) /\ late \in Seq(Requests)
  /\ Range(tiles) \subseteq AllTiles
  /\ pc \in {"queued", "starting", "cutting", "calling", "finishing", "over"}
  /\ pc \in {"cutting", "calling"} => cut \in AllTiles
  /\ wants \in [Requests -> AllTiles \cup {NoTile}]
  /\ answer \in [Requests -> {"none", "accepted", "refused"}]
  /\ aborted \subseteq Requests
  /\ served \in [Requests -> Nat]

(* No request is answered twice, however it races with the worker: not     *)
(* both as a regular and as a late request, not again when the job is done *)
(* (tile_generation_job.cpp:51-132, 220-231).                              *)
ServedOnce == \A r \in Requests : served[r] <= 1

(* Nothing a requester still waits for is dropped with an aborted job: the *)
(* worker's is_aborted() and a request coming in cannot both win           *)
(* (tile_generation_job.cpp:134-162, 59-65, 78-79).                        *)
AbortedUnwanted ==
  state = "kAborted" =>
    \A r \in Requests : answer[r] = "accepted" => r \in aborted

(* A request refused was never recorded, so the caller may safely ask a    *)
(* new job for the same tile without being called twice                    *)
(* (tile_generation_job.cpp:67-109; database_thread.cpp:314-321).          *)
RefusedNeverServed ==
  \A r \in Requests : answer[r] = "refused" => served[r] = 0

(* The database reaches up to the thumbnail, as it does after complete     *)
(* runs; tile_generation_job.cpp:180 takes that for granted.               *)
Reaches(r) == r = Empty \/ r.max = Thumb

(* Then, for a JPEG, no tile of a scale the database has is generated a    *)
(* second time: it would be stored twice.  No tile is ever cut twice       *)
(* (tile_generation_job.cpp:180-186).                                      *)
NothingTwice ==
  /\ jpeg /\ Reaches(db) => \A t \in Range(tiles) : ~Within(Scale(t), db)
  /\ \A i, j \in DOMAIN tiles : i # j => tiles[i] # tiles[j]

(* An accepted request is answered in the end, unless it was aborted or    *)
(* the generation failed: "returns true if the request will be honored"    *)
(* (tile_generation_job.hpp:89-91), given such a database.                 *)
EventuallyHonored ==
  \A r \in Requests :
    answer[r] = "accepted" /\ Reaches(db) ~> served[r] = 1 \/ r \in aborted \/ failed
===============================================================================
