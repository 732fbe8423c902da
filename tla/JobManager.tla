------------------------------ MODULE JobManager ------------------------------
(***************************************************************************)
(* The pool that generates file entries and tiles in the background:       *)
(* src/job/job_manager.cpp hands jobs round robin to its                   *)
(* src/job/job_worker_thread.cpp workers; src/job/job_handle.cpp is how    *)
(* the requester and the worker talk about one job, src/job/thread.cpp how *)
(* the workers are started and joined.                                     *)
(*                                                                         *)
(* A worker's own queue is a ThreadMessageQueue2 with one consumer; push,  *)
(* notify, predicate and blocking are separate steps as they are there.    *)
(* m_quit and m_abort are plain bools written and read without a lock:     *)
(* every read is a step of its own.                                        *)
(***************************************************************************)
EXTENDS Integers, Sequences, FiniteSets, Functions

CONSTANTS
  NumThreads,  \* num_threads of the constructor
  Jobs,        \* the jobs that are ever requested; each is handed over once
  Clients,     \* the threads that call request()
  NoJob,
  WaitedJobs,  \* the jobs on whose handle somebody calls wait()
  Outcomes,    \* how Job::run() leaves its handle: "finished", "failed", "unreported"
  Shutdowns    \* what main calls in the end: "stop" and/or "abort"

ASSUME PoolAssumption ==
  /\ NumThreads \in Nat \ {0}                  \* assert(num_threads > 0)
  /\ NoJob \notin Jobs
  /\ WaitedJobs \subseteq Jobs
  /\ {"free", "main"} \cap Clients = {}
  /\ Outcomes \subseteq {"finished", "failed", "unreported"}
  /\ Shutdowns \subseteq {"stop", "abort"}

Workers == 0 .. (NumThreads - 1)

VARIABLES
  \* per worker (JobWorkerThread)
  queue,       \* m_queue
  pc,          \* where run() is
  task,        \* the job in hand
  quit,        \* m_quit
  abort,       \* m_abort
  \* JobManager
  next_thread,
  mutex,       \* who holds JobManager::mutex: "free", "main" or a client
  notifying,   \* per client: the worker it pushed to and must still notify
  main,        \* the main thread: which call, at which worker, which step
  \* per job
  aborted, finished, failed,    \* sets of jobs: the flags of their handles
  waiting,     \* jobs somebody is blocked on in JobHandle::wait()
  runs,        \* history: how often run() was entered
  calls,       \* history: the arguments of the callback
  \* per worker history
  assigned,    \* jobs pushed to this worker, in order
  taken,       \* jobs popped by this worker, in order
  late         \* number of jobs popped after m_abort was set

workerVars == <<queue, pc, task>>
flagVars   == <<quit, abort>>
poolVars   == <<next_thread, mutex, notifying>>
handleVars == <<aborted, finished, failed, waiting>>
history    == <<runs, calls, assigned, taken, late>>
vars == <<workerVars, flagVars, poolVars, main, handleVars, history>>

Requested == UNION {Range(assigned[w]) : w \in Workers}
Taken     == UNION {Range(taken[w]) : w \in Workers}

(* JobHandle::is_finished() *)
IsFinished(j) == j \in finished \cup aborted

Idle == [call |-> "none", at |-> 0, step |-> "none"]

Init ==
  /\ queue = [w \in Workers |-> <<>>]
  /\ pc = [w \in Workers |-> "nothing"]
  /\ task = [w \in Workers |-> NoJob]
  /\ quit = [w \in Workers |-> FALSE]
  /\ abort = [w \in Workers |-> FALSE]
  /\ next_thread = 0
  /\ mutex = "free"
  /\ notifying = [c \in Clients |-> -1]
  /\ main = Idle
  /\ aborted = {} /\ finished = {} /\ failed = {} /\ waiting = {}
  /\ runs = [j \in Jobs |-> 0]
  /\ calls = [j \in Jobs |-> <<>>]
  /\ assigned = [w \in Workers |-> <<>>]
  /\ taken = [w \in Workers |-> <<>>]
  /\ late = [w \in Workers |-> 0]

-----------------------------------------------------------------------------
(* JobWorkerThread::run() *)

Step(w, from, to) == pc[w] = from /\ pc' = [pc EXCEPT ![w] = to]

OnlyPc == UNCHANGED <<queue, task, flagVars, poolVars, main, handleVars, history>>

(* Mutant of TestQuit: run() looks at the wrong flag. *)
TestQuitByAbort(w) ==
  /\ Step(w, "loop", IF abort[w] THEN "exited" ELSE "predicate")
  /\ OnlyPc

(* while(!m_quit) *)
TestQuit(w) ==
  /\ Step(w, "loop", IF quit[w] THEN "exited" ELSE "predicate")
  /\ OnlyPc

(* The predicate of m_queue.wait_for_pop: !empty || m_abort; m_quit plays   *)
(* no part in it.                                                          *)
TestPredicate(w) ==
  /\ Step(w, "predicate", IF queue[w] # <<>> \/ abort[w] THEN "inner" ELSE "commit")
  /\ OnlyPc

(* The wait releases the queue's mutex and blocks. *)
FallAsleep(w) == Step(w, "commit", "asleep") /\ OnlyPc

SpuriousWakeup(w) == Step(w, "asleep", "predicate") /\ OnlyPc

(* Mutant of TestAbort: the inner loop ignores m_abort. *)
TestAbortNever(w) == Step(w, "inner", "pop") /\ OnlyPc

(* while(!m_abort && ... *)
TestAbort(w) ==
  /\ Step(w, "inner", IF abort[w] THEN "loop" ELSE "pop")
  /\ OnlyPc

(* ... m_queue.try_pop(task)) *)
TryPop(w) ==
  \/ /\ queue[w] = <<>>
     /\ Step(w, "pop", "loop")
     /\ OnlyPc
  \/ /\ queue[w] # <<>>
     /\ Step(w, "pop", "check")
     /\ task' = [task EXCEPT ![w] = Head(queue[w])]
     /\ queue' = [queue EXCEPT ![w] = Tail(@)]
     /\ taken' = [taken EXCEPT ![w] = Append(@, Head(queue[w]))]
     /\ late' = [late EXCEPT ![w] = IF abort[w] THEN @ + 1 ELSE @]
     /\ UNCHANGED <<flagVars, poolVars, main, handleVars, runs, calls, assigned>>

(* JobHandle::is_aborted() *)
IsAborted(j) == j \in aborted

(* if (!task.job->is_aborted()) *)
StartJob(w) ==
  /\ ~IsAborted(task[w])
  /\ Step(w, "check", "running")
  /\ runs' = [runs EXCEPT ![task[w]] = @ + 1]
  /\ UNCHANGED <<queue, task, flagVars, poolVars, main, handleVars, calls,
                 assigned, taken, late>>

(* Mutant of Callback: it claims that every job ran. *)
CallbackRan(w, ran) ==
  /\ calls' = [calls EXCEPT ![task[w]] = Append(@, TRUE)]
  /\ task' = [task EXCEPT ![w] = NoJob]

(* callback(task.job, ran); the task object lives on until the next try_pop *)
(* overwrites it, which nothing observes.                                   *)
Callback(w, ran) ==
  /\ calls' = [calls EXCEPT ![task[w]] = Append(@, ran)]
  /\ task' = [task EXCEPT ![w] = NoJob]

SkipJob(w) ==
  /\ IsAborted(task[w])
  /\ Step(w, "check", "inner")
  /\ Callback(w, FALSE)
  /\ UNCHANGED <<queue, flagVars, poolVars, main, handleVars, runs, assigned,
                 taken, late>>

(* Mutant of Finishes: set_failed() does not finish the handle. *)
FinishesOnSuccess(outcome) == outcome = "finished"

(* set_failed() sets m_finished just as set_finished() does. *)
Finishes(outcome) == outcome # "unreported"

(* job->run() ends: the job called set_finished() or set_failed(), or it   *)
(* returned or threw without touching its handle; an exception is printed  *)
(* and dropped.                                                            *)
EndRun(w, outcome) ==
  /\ Step(w, "running", "callback")
  /\ finished' = IF Finishes(outcome) THEN finished \cup {task[w]} ELSE finished
  /\ failed' = IF outcome = "failed" THEN failed \cup {task[w]} ELSE failed
  /\ UNCHANGED <<queue, task, flagVars, poolVars, main, aborted, waiting, history>>

ReportRun(w) ==
  /\ Step(w, "callback", "inner")
  /\ Callback(w, TRUE)
  /\ UNCHANGED <<queue, flagVars, poolVars, main, handleVars, runs, assigned,
                 taken, late>>

WorkerStep(w) ==
  \/ TestQuit(w) \/ TestPredicate(w) \/ FallAsleep(w) \/ TestAbort(w)
  \/ TryPop(w) \/ StartJob(w) \/ SkipJob(w) \/ ReportRun(w)
  \/ \E outcome \in Outcomes : EndRun(w, outcome)

-----------------------------------------------------------------------------
(* JobManager::request(), called by a client thread *)

(* Mutant of Push: the job jumps the queue. *)
PushFirst(w, j) == queue' = [queue EXCEPT ![w] = <<j>> \o @]

Push(w, j) == queue' = [queue EXCEPT ![w] = Append(@, j)]

(* With `mutex' held, JobWorkerThread::request() pushes to the worker      *)
(* whose turn it is; the worker must not be inside its own queue's mutex.  *)
RequestPush(c, j) ==
  /\ mutex = "free"
  /\ j \notin Requested
  /\ pc[next_thread] # "commit"
  /\ mutex' = c
  /\ Push(next_thread, j)
  /\ assigned' = [assigned EXCEPT ![next_thread] = Append(@, j)]
  /\ notifying' = [notifying EXCEPT ![c] = next_thread]
  /\ UNCHANGED <<pc, task, flagVars, next_thread, main, handleVars, runs, calls,
                 taken, late>>

(* Mutants of NextTurn: one worker too far, or always the same worker. *)
NextTurnTooFar == IF next_thread + 1 > NumThreads THEN 0 ELSE next_thread + 1
NextTurn == IF next_thread + 1 >= NumThreads THEN 0 ELSE next_thread + 1

(* Mutant of Notify: it is forgotten. *)
NotifyNobody(w) == UNCHANGED pc

Notify(w) == pc' = [pc EXCEPT ![w] = IF @ = "asleep" THEN "predicate" ELSE @]

(* notify_one() after the push, then the round robin and the unlock. *)
RequestDone(c) ==
  /\ notifying[c] # -1
  /\ Notify(notifying[c])
  /\ next_thread' = NextTurn
  /\ notifying' = [notifying EXCEPT ![c] = -1]
  /\ mutex' = "free"
  /\ UNCHANGED <<queue, task, flagVars, main, handleVars, history>>

-----------------------------------------------------------------------------
(* JobHandle, used by the threads that hold a handle *)

SetAborted(j) ==
  /\ j \notin aborted
  /\ aborted' = aborted \cup {j}
  /\ UNCHANGED <<workerVars, flagVars, poolVars, main, finished, failed, waiting,
                 history>>

(* wait(): set_* hold the handle's mutex while they notify, so testing the *)
(* flags and blocking are one step.                                        *)
Wait(j) ==
  /\ j \in WaitedJobs \cap Requested
  /\ j \notin waiting
  /\ waiting' = IF IsFinished(j) THEN waiting ELSE waiting \cup {j}
  /\ UNCHANGED <<workerVars, flagVars, poolVars, main, aborted, finished, failed,
                 history>>

WaitReturns(j) ==
  /\ j \in waiting
  /\ IsFinished(j)
  /\ waiting' = waiting \ {j}
  /\ UNCHANGED <<workerVars, flagVars, poolVars, main, aborted, finished, failed,
                 history>>

-----------------------------------------------------------------------------
(* JobManager::start_thread(), stop_thread(), abort_thread(), join_thread() *)
(* as main calls them, one after the other, each under `mutex'.             *)

StartThread ==
  /\ main = Idle
  /\ mutex = "free"
  /\ pc' = [w \in Workers |-> "loop"]
  /\ main' = [main EXCEPT !.call = "started"]
  /\ UNCHANGED <<queue, task, flagVars, poolVars, handleVars, history>>

BeginShutdown(call) ==
  /\ main.call = "started"
  /\ mutex = "free"
  /\ mutex' = "main"
  /\ main' = [call |-> call, at |-> 0, step |-> "quit"]
  /\ UNCHANGED <<workerVars, flagVars, next_thread, notifying, handleVars, history>>

(* m_quit = true *)
SetQuit ==
  /\ main.step = "quit"
  /\ quit' = [quit EXCEPT ![main.at] = TRUE]
  /\ main' = [main EXCEPT !.step = IF main.call = "abort" THEN "abort" ELSE "wakeup"]
  /\ UNCHANGED <<workerVars, abort, poolVars, handleVars, history>>

(* m_abort = true *)
SetAbort ==
  /\ main.step = "abort"
  /\ abort' = [abort EXCEPT ![main.at] = TRUE]
  /\ main' = [main EXCEPT !.step = "wakeup"]
  /\ UNCHANGED <<workerVars, quit, poolVars, handleVars, history>>

(* m_queue.wakeup(): notify_all() without the queue's mutex, so it also    *)
(* happens while the worker is at "commit", and then wakes nobody.         *)
Wakeup ==
  /\ main.step = "wakeup"
  /\ Notify(main.at)
  /\ IF main.at + 1 < NumThreads
     THEN /\ main' = [main EXCEPT !.at = @ + 1, !.step = "quit"]
          /\ UNCHANGED mutex
     ELSE /\ main' = [call |-> "flagged", at |-> 0, step |-> "none"]
          /\ mutex' = "free"
  /\ UNCHANGED <<queue, task, flagVars, next_thread, notifying, handleVars, history>>

BeginJoin ==
  /\ main.call = "flagged"
  /\ mutex = "free"
  /\ mutex' = "main"
  /\ main' = [main EXCEPT !.call = "join"]
  /\ UNCHANGED <<workerVars, flagVars, next_thread, notifying, handleVars, history>>

(* m_thread.join() of one worker after the other, still holding `mutex'. *)
JoinWorker ==
  /\ main.call = "join"
  /\ pc[main.at] = "exited"
  /\ IF main.at + 1 < NumThreads
     THEN main' = [main EXCEPT !.at = @ + 1] /\ UNCHANGED mutex
     ELSE main' = [main EXCEPT !.call = "joined"] /\ mutex' = "free"
  /\ UNCHANGED <<workerVars, flagVars, next_thread, notifying, handleVars, history>>

MainStep == SetQuit \/ SetAbort \/ Wakeup \/ BeginJoin \/ JoinWorker

-----------------------------------------------------------------------------
Next ==
  \/ \E w \in Workers : WorkerStep(w) \/ SpuriousWakeup(w)
  \/ \E c \in Clients : RequestDone(c) \/ \E j \in Jobs : RequestPush(c, j)
  \/ \E j \in Jobs : SetAborted(j) \/ Wait(j) \/ WaitReturns(j)
  \/ StartThread
  \/ \E call \in Shutdowns : BeginShutdown(call)
  \/ MainStep

Spec == Init /\ [][Next]_vars

(* Every thread of the operating system keeps running; jobs end.  Nobody   *)
(* has to request, abort, wait or shut down.                               *)
Fairness ==
  /\ \A w \in Workers : WF_vars(WorkerStep(w))
  /\ \A c \in Clients : WF_vars(RequestDone(c))
  /\ \A j \in Jobs : WF_vars(WaitReturns(j))
  /\ WF_vars(StartThread)
  /\ WF_vars(MainStep)

FairSpec == Spec /\ Fairness

-----------------------------------------------------------------------------
(* Properties *)

(* TypeOK: the state of the pool is well formed; next_thread always names  *)
(* a worker (job_manager.cpp:84-88).                                       *)
TypeOK ==
  /\ queue \in [Workers -> Seq(Jobs)]
  /\ pc \in [Workers -> {"nothing", "loop", "predicate", "commit", "asleep", "inner",
                         "pop", "check", "running", "callback", "exited"}]
  /\ task \in [Workers -> Jobs \cup {NoJob}]
  /\ quit \in [Workers -> BOOLEAN] /\ abort \in [Workers -> BOOLEAN]
  /\ next_thread \in Workers
  /\ mutex \in Clients \cup {"free", "main"}
  /\ notifying \in [Clients -> Workers \cup {-1}]
  /\ main \in [call : {"none", "started", "stop", "abort", "flagged", "join", "joined"},
               at : Workers, step : {"none", "quit", "abort", "wakeup"}]
  /\ aborted \subseteq Jobs /\ finished \subseteq Jobs
  /\ failed \subseteq Jobs /\ waiting \subseteq Jobs
  /\ runs \in [Jobs -> Nat] /\ calls \in [Jobs -> Seq(BOOLEAN)]
  /\ assigned \in [Workers -> Seq(Jobs)] /\ taken \in [Workers -> Seq(Jobs)]
  /\ late \in [Workers -> Nat]

(* A worker takes exactly the jobs it was given, in the order in which     *)
(* they were given, none twice (job_worker_thread.cpp:44-46, 95-106).      *)
WorkerFifo == \A w \in Workers : taken[w] \o queue[w] = assigned[w]

(* The callback is how DatabaseThread learns that a job is over: a job     *)
(* that was taken and is no longer in hand has had exactly one callback,   *)
(* and it said truthfully whether the job ran                              *)
(* (job_worker_thread.cpp:48-75).                                          *)
InHand(j) == \E w \in Workers : task[w] = j
CallbackTruthful ==
  \A j \in Jobs :
    /\ runs[j] <= 1
    /\ j \in Taken /\ ~InHand(j) => calls[j] = <<runs[j] = 1>>
    /\ j \notin Taken \/ InHand(j) => calls[j] = <<>>

(* abort_thread() raises m_abort while the worker runs; the worker then    *)
(* begins at most the one job it was already popping                       *)
(* (job_worker_thread.cpp:45, 80-86).                                      *)
AtMostOneLateJob == \A w \in Workers : late[w] <= 1

ShuttingDown == \E w \in Workers : quit[w]

(* While nobody shuts the pool down, every job handed to it gets its       *)
(* callback: no notification is lost between push and wait                 *)
(* (job_worker_thread.cpp:40-75, 95-106).                                  *)
EveryJobReported ==
  \A j \in Jobs : j \in Requested ~> Len(calls[j]) = 1 \/ ShuttingDown

(* wait() returns once the job has been dealt with; a pool that is shut    *)
(* down releases nobody (job_handle.cpp:102-110).                          *)
WaitersReleased ==
  \A j \in Jobs : j \in waiting ~> j \notin waiting \/ ShuttingDown

(* A worker that is not asleep when it is told to stop or abort leaves     *)
(* run() once its queue is empty (job_worker_thread.cpp:40-46).            *)
BusyWorkersLeave ==
  \A w \in Workers :
    quit[w] /\ pc[w] \in {"check", "running", "callback"} ~> pc[w] = "exited"

===============================================================================
