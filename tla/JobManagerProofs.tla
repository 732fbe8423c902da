--------------------------- MODULE JobManagerProofs ---------------------------
(***************************************************************************)
(* Theorems about JobManager for every number of workers, jobs and         *)
(* clients, and every way the jobs can end.                                *)
(***************************************************************************)
EXTENDS JobManager, SequenceTheorems, TLAPS

(* The invariant behind TypeOK: while main is inside a call it holds       *)
(* `mutex' and `at' names a worker.                                        *)
LEMMA WorkersNonEmpty == 0 \in Workers /\ \A w \in Workers : w + 1 < NumThreads => w + 1 \in Workers
  BY PoolAssumption DEF Workers

(* A worker has a job in hand exactly between try_pop and the callback     *)
(* (job_worker_thread.cpp:44-76).                                          *)
HandInv == \A w \in Workers : pc[w] \in {"check", "running", "callback"} => task[w] \in Jobs

(* TypeOK is an invariant of the pool; in particular next_thread never     *)
(* leaves the range of the thread vector (job_manager.cpp:84-88).          *)
THEOREM PoolTypeCorrect == Spec => [](TypeOK /\ HandInv)
  <1>1. Init => TypeOK /\ HandInv
    <2> SUFFICES ASSUME Init PROVE TypeOK /\ HandInv
      OBVIOUS
    <2>1. main \in [call : {"none", "started", "stop", "abort", "flagged", "join", "joined"},
                    at : Workers, step : {"none", "quit", "abort", "wakeup"}]
      BY WorkersNonEmpty DEF Init, Idle
    <2>2. next_thread \in Workers
      BY WorkersNonEmpty DEF Init
    <2>3. QED
      BY <2>1, <2>2 DEF Init, TypeOK, HandInv
  <1>2. TypeOK /\ HandInv /\ [Next]_vars => TypeOK' /\ HandInv'
    <2> SUFFICES ASSUME TypeOK, HandInv, [Next]_vars PROVE TypeOK' /\ HandInv'
      OBVIOUS
    <2> USE DEF TypeOK, HandInv, workerVars, flagVars, poolVars, handleVars, history,
            Step, OnlyPc
    <2>1. ASSUME NEW w \in Workers,
                 TestQuit(w) \/ TestPredicate(w) \/ FallAsleep(w) \/ TestAbort(w)
                   \/ SpuriousWakeup(w)
          PROVE  TypeOK' /\ HandInv'
      BY <2>1 DEF TestQuit, TestPredicate, FallAsleep, TestAbort, SpuriousWakeup
    <2>2. ASSUME NEW w \in Workers, TryPop(w) PROVE TypeOK' /\ HandInv'
      <3>1. CASE queue[w] = <<>>
        BY <2>2, <3>1 DEF TryPop
      <3>2. CASE queue[w] # <<>>
        <4>0. /\ pc' = [pc EXCEPT ![w] = "check"]
              /\ task' = [task EXCEPT ![w] = Head(queue[w])]
              /\ queue' = [queue EXCEPT ![w] = Tail(queue[w])]
              /\ taken' = [taken EXCEPT ![w] = Append(taken[w], Head(queue[w]))]
              /\ late' = [late EXCEPT ![w] = IF abort[w] THEN late[w] + 1 ELSE late[w]]
              /\ UNCHANGED <<quit, abort, next_thread, mutex, notifying, main, aborted,
                             finished, failed, waiting, runs, calls, assigned>>
          BY <2>2, <3>2 DEF TryPop
        <4>1. /\ Head(queue[w]) \in Jobs /\ Tail(queue[w]) \in Seq(Jobs)
              /\ Append(taken[w], Head(queue[w])) \in Seq(Jobs)
          BY <3>2, HeadTailProperties, AppendProperties
        <4>2. late' \in [Workers -> Nat]
          BY <4>0
        <4>3. task' \in [Workers -> Jobs \cup {NoJob}] /\ HandInv'
          BY <4>0, <4>1
        <4>4. queue' \in [Workers -> Seq(Jobs)] /\ taken' \in [Workers -> Seq(Jobs)]
          BY <4>0, <4>1
        <4>5. QED
          BY <4>0, <4>2, <4>3, <4>4
      <3>3. QED
        BY <3>1, <3>2
    <2>3. ASSUME NEW w \in Workers, StartJob(w) PROVE TypeOK' /\ HandInv'
      BY <2>3 DEF StartJob
    <2>4. ASSUME NEW w \in Workers, SkipJob(w) \/ ReportRun(w) PROVE TypeOK' /\ HandInv'
      <3>1. PICK ran \in BOOLEAN :
              Callback(w, ran) /\ task[w] \in Jobs
        BY <2>4 DEF SkipJob, ReportRun
      <3>2. Append(calls[task[w]], ran) \in Seq(BOOLEAN)
        BY <3>1, AppendProperties
      <3>3. calls' \in [Jobs -> Seq(BOOLEAN)]
        BY <3>1, <3>2 DEF Callback
      <3>4. task' \in [Workers -> Jobs \cup {NoJob}]
            /\ \A v \in Workers : v # w => task'[v] = task[v]
        BY <3>1 DEF Callback
      <3>5. QED
        BY <2>4, <3>3, <3>4 DEF SkipJob, ReportRun
    <2>5. ASSUME NEW w \in Workers, NEW outcome \in Outcomes, EndRun(w, outcome)
          PROVE  TypeOK' /\ HandInv'
      BY <2>5 DEF EndRun, Finishes
    <2>6. ASSUME NEW c \in Clients, NEW j \in Jobs, RequestPush(c, j)
          PROVE  TypeOK' /\ HandInv'
      <3>1. /\ Append(queue[next_thread], j) \in Seq(Jobs)
            /\ Append(assigned[next_thread], j) \in Seq(Jobs)
        BY AppendProperties
      <3>2. queue' \in [Workers -> Seq(Jobs)] /\ assigned' \in [Workers -> Seq(Jobs)]
        BY <2>6, <3>1 DEF RequestPush, Push
      <3>3. QED
        BY <2>6, <3>2 DEF RequestPush, Push
    <2>7. ASSUME NEW c \in Clients, RequestDone(c) PROVE TypeOK' /\ HandInv'
      <3>1. notifying[c] \in Workers
        BY <2>7 DEF RequestDone, Notify, NextTurn
      <3>2. next_thread' \in Workers
        <4>1. next_thread' = IF next_thread + 1 >= NumThreads THEN 0 ELSE next_thread + 1
          BY <2>7 DEF RequestDone, Notify, NextTurn
        <4>2. next_thread \in Workers
          OBVIOUS
        <4>3. QED
          BY ONLY <4>1, <4>2, PoolAssumption DEF Workers
      <3>3. /\ pc' = [pc EXCEPT ![notifying[c]] = IF pc[notifying[c]] = "asleep"
                                                 THEN "predicate" ELSE pc[notifying[c]]]
            /\ notifying' = [notifying EXCEPT ![c] = -1] /\ mutex' = "free"
            /\ UNCHANGED <<queue, task, quit, abort, main, aborted, finished, failed,
                           waiting, runs, calls, assigned, taken, late>>
        BY <2>7 DEF RequestDone, Notify, NextTurn
      <3>4. QED
        BY <3>1, <3>2, <3>3
    <2>8. ASSUME NEW j \in Jobs, SetAborted(j) \/ Wait(j) \/ WaitReturns(j)
          PROVE  TypeOK' /\ HandInv'
      BY <2>8 DEF SetAborted, Wait, WaitReturns
    <2>9. CASE StartThread
      BY <2>9 DEF StartThread, Idle
    <2>10. ASSUME NEW call \in Shutdowns, BeginShutdown(call) PROVE TypeOK' /\ HandInv'
      BY <2>10, PoolAssumption, WorkersNonEmpty DEF BeginShutdown
    <2>11. CASE SetQuit \/ SetAbort
      BY <2>11 DEF SetQuit, SetAbort
    <2>12. CASE Wakeup
      <3>1. main.at \in Workers
        OBVIOUS
      <3>2. /\ pc' = [pc EXCEPT ![main.at] = IF pc[main.at] = "asleep"
                                           THEN "predicate" ELSE pc[main.at]]
            /\ mutex' \in {mutex, "free"}
            /\ \/ main.at + 1 < NumThreads
                 /\ main' = [main EXCEPT !.at = main.at + 1, !.step = "quit"]
               \/ main' = [call |-> "flagged", at |-> 0, step |-> "none"]
            /\ UNCHANGED <<queue, task, quit, abort, next_thread, notifying, aborted,
                           finished, failed, waiting, runs, calls, assigned, taken, late>>
        BY <2>12 DEF Wakeup, Notify
      <3>3. main' \in [call : {"none", "started", "stop", "abort", "flagged", "join", "joined"},
                       at : Workers, step : {"none", "quit", "abort", "wakeup"}]
        <4>1. CASE /\ main.at + 1 < NumThreads
                   /\ main' = [main EXCEPT !.at = main.at + 1, !.step = "quit"]
          <5>1. main.at + 1 \in Workers
            BY <3>1, <4>1, WorkersNonEmpty
          <5>2. QED
            BY <4>1, <5>1
        <4>2. CASE main' = [call |-> "flagged", at |-> 0, step |-> "none"]
          BY <4>2, WorkersNonEmpty
        <4>3. QED
          BY <3>2, <4>1, <4>2
      <3>4. QED
        BY <3>1, <3>2, <3>3
    <2>13. CASE BeginJoin \/ JoinWorker
      BY <2>13, WorkersNonEmpty DEF BeginJoin, JoinWorker
    <2>14. CASE UNCHANGED vars
      BY <2>14 DEF vars
    <2>15. QED
      BY <2>1, <2>2, <2>3, <2>4, <2>5, <2>6, <2>7, <2>8, <2>9, <2>10, <2>11,
         <2>12, <2>13, <2>14
         DEF Next, WorkerStep, MainStep
  <1>3. QED
    BY <1>1, <1>2, PTL DEF Spec

-----------------------------------------------------------------------------
(* Moving the head of q to the end of s, or extending q, commutes with \o. *)
LEMMA Hand ==
  ASSUME NEW S, NEW s \in Seq(S), NEW q \in Seq(S), NEW x \in S
  PROVE  /\ q # <<>> => Append(s, Head(q)) \o Tail(q) = s \o q
         /\ s \o Append(q, x) = Append(s \o q, x)
  <1>1. ASSUME q # <<>> PROVE Append(s, Head(q)) \o Tail(q) = s \o q
    <2>1. Head(q) \in S /\ Tail(q) \in Seq(S) /\ Len(Tail(q)) = Len(q) - 1
      BY <1>1, HeadTailProperties
    <2>2. Append(s, Head(q)) \o Tail(q) \in Seq(S) /\ s \o q \in Seq(S)
      BY <2>1, ConcatProperties, AppendProperties
    <2>3. QED
      BY <1>1, <2>1, <2>2
  <1>2. s \o Append(q, x) = Append(s \o q, x)
    OBVIOUS
  <1>3. QED
    BY <1>1, <1>2

(* WorkerFifo: what a worker takes, in order, is what it was given         *)
(* (job_worker_thread.cpp:44-46, 95-106).                                  *)
THEOREM WorkerFifoHolds == Spec => []WorkerFifo
  <1>1. Init => WorkerFifo
    BY DEF Init, WorkerFifo
  <1>2. TypeOK /\ WorkerFifo /\ [Next]_vars => WorkerFifo'
    <2> SUFFICES ASSUME TypeOK, WorkerFifo, [Next]_vars, NEW v \in Workers
                 PROVE  taken'[v] \o queue'[v] = assigned'[v]
      BY DEF WorkerFifo
    <2>0. /\ taken[v] \in Seq(Jobs) /\ queue[v] \in Seq(Jobs)
          /\ taken[v] \o queue[v] = assigned[v]
      BY DEF TypeOK, WorkerFifo
    <2>1. ASSUME NEW w \in Workers, TryPop(w), queue[w] # <<>>
          PROVE  taken'[v] \o queue'[v] = assigned'[v]
      <3>1. /\ taken' = [taken EXCEPT ![w] = Append(taken[w], Head(queue[w]))]
            /\ queue' = [queue EXCEPT ![w] = Tail(queue[w])]
            /\ assigned' = assigned
        BY <2>1 DEF TryPop
      <3>2. CASE v = w
        <4>1. taken'[v] = Append(taken[v], Head(queue[v])) /\ queue'[v] = Tail(queue[v])
          BY <3>1, <3>2 DEF TypeOK
        <4>2. Append(taken[v], Head(queue[v])) \o Tail(queue[v]) = taken[v] \o queue[v]
          BY ONLY <2>0, <2>1, <3>2, Hand, HeadTailProperties
        <4>3. QED
          BY <2>0, <3>1, <4>1, <4>2
      <3>3. CASE v # w
        BY <2>0, <3>1, <3>3 DEF TypeOK
      <3>4. QED
        BY <3>2, <3>3
    <2>2. ASSUME NEW c \in Clients, NEW j \in Jobs, RequestPush(c, j)
          PROVE  taken'[v] \o queue'[v] = assigned'[v]
      <3>1. /\ assigned' = [assigned EXCEPT ![next_thread] = Append(assigned[next_thread], j)]
            /\ queue' = [queue EXCEPT ![next_thread] = Append(queue[next_thread], j)]
            /\ taken' = taken
        BY <2>2 DEF RequestPush, Push
      <3>2. CASE v = next_thread
        <4>1. assigned'[v] = Append(assigned[v], j) /\ queue'[v] = Append(queue[v], j)
          BY <3>1, <3>2 DEF TypeOK
        <4>2. taken[v] \o Append(queue[v], j) = Append(taken[v] \o queue[v], j)
          BY ONLY <2>0, Hand
        <4>3. QED
          BY <2>0, <3>1, <4>1, <4>2
      <3>3. CASE v # next_thread
        BY <2>0, <3>1, <3>3 DEF TypeOK
      <3>4. QED
        BY <3>2, <3>3
    <2>3. CASE UNCHANGED <<taken, queue, assigned>>
      BY <2>0, <2>3
    <2>4. QED
      BY <2>1, <2>2, <2>3
         DEF Next, WorkerStep, MainStep, vars, workerVars, flagVars, poolVars,
             handleVars, history, OnlyPc, TestQuit, TestPredicate, FallAsleep,
             TestAbort, SpuriousWakeup, TryPop, StartJob, SkipJob, ReportRun,
             Callback, EndRun, RequestDone, Notify, SetAborted, Wait, WaitReturns,
             StartThread, BeginShutdown, SetQuit, SetAbort, Wakeup, BeginJoin,
             JoinWorker
  <1>3. QED
    BY <1>1, <1>2, PoolTypeCorrect, PTL DEF Spec

(* Only a worker that read m_abort before it was raised can still be about *)
(* to pop, and a worker that popped late reads the raised flag next.       *)
LateInv ==
  \A w \in Workers :
    /\ late[w] <= 1
    /\ late[w] = 1 => abort[w] /\ pc[w] # "pop"

(* AtMostOneLateJob: abort_thread() lets a worker begin at most one more   *)
(* job (job_worker_thread.cpp:45, 80-86).                                  *)
THEOREM AtMostOneLateJobHolds == Spec => []AtMostOneLateJob
  <1>1. Init => LateInv
    BY DEF Init, LateInv
  <1>2. TypeOK /\ LateInv /\ [Next]_vars => LateInv'
    <2> SUFFICES ASSUME TypeOK, LateInv, [Next]_vars PROVE LateInv'
      OBVIOUS
    <2> USE DEF LateInv, TypeOK
    <2>1. ASSUME NEW w \in Workers, TryPop(w) PROVE LateInv'
      <3>1. CASE UNCHANGED <<late, abort>> /\ pc' = [pc EXCEPT ![w] = "loop"]
        BY <3>1
      <3>2. CASE /\ late' = [late EXCEPT ![w] = IF abort[w] THEN late[w] + 1 ELSE late[w]]
                 /\ UNCHANGED abort /\ pc[w] = "pop" /\ pc' = [pc EXCEPT ![w] = "check"]
        <4>1. late[w] = 0
          BY <3>2
        <4>2. ASSUME NEW v \in Workers
              PROVE  late'[v] <= 1 /\ (late'[v] = 1 => abort'[v] /\ pc'[v] # "pop")
          BY <3>2, <4>1
        <4>3. QED
          BY <4>2
      <3>3. QED
        BY <2>1, <3>1, <3>2 DEF TryPop, Step, OnlyPc, history, flagVars
    <2>2. ASSUME NEW w \in Workers,
                 TestQuit(w) \/ TestPredicate(w) \/ FallAsleep(w) \/ TestAbort(w)
                   \/ SpuriousWakeup(w)
          PROVE  LateInv'
      BY <2>2 DEF TestQuit, TestPredicate, FallAsleep, TestAbort, SpuriousWakeup,
                  Step, OnlyPc, history, flagVars
    <2>3. ASSUME NEW w \in Workers, StartJob(w) \/ SkipJob(w) \/ ReportRun(w)
          PROVE  LateInv'
      BY <2>3 DEF StartJob, SkipJob, ReportRun, Step, flagVars
    <2>4. ASSUME NEW w \in Workers, NEW outcome \in Outcomes, EndRun(w, outcome)
          PROVE  LateInv'
      BY <2>4 DEF EndRun, Step, flagVars, history
    <2>5. ASSUME NEW c \in Clients, RequestDone(c) PROVE LateInv'
      BY <2>5 DEF RequestDone, Notify, NextTurn, flagVars, history
    <2>6. CASE StartThread \/ Wakeup
      BY <2>6 DEF StartThread, Wakeup, Notify, flagVars, history
    <2>7. CASE SetAbort
      BY <2>7 DEF SetAbort, workerVars, history
    <2>8. CASE UNCHANGED <<late, abort, pc>>
      BY <2>8
    <2>9. QED
      BY <2>1, <2>2, <2>3, <2>4, <2>5, <2>6, <2>7, <2>8
         DEF Next, WorkerStep, MainStep, vars, workerVars, flagVars, poolVars,
             handleVars, history, RequestPush, Push, SetAborted, Wait, WaitReturns,
             BeginShutdown, SetQuit, BeginJoin, JoinWorker
  <1>3. LateInv => AtMostOneLateJob
    BY DEF LateInv, AtMostOneLateJob
  <1>4. QED
    BY <1>1, <1>2, <1>3, PoolTypeCorrect, PTL DEF Spec

-----------------------------------------------------------------------------
(* Every job is handed over once, to one worker (the requester makes a new *)
(* job for every request, job_manager.cpp:78-90).                          *)
OnceInv ==
  \A v, w \in Workers : \A i \in DOMAIN assigned[v], k \in DOMAIN assigned[w] :
    assigned[v][i] = assigned[w][k] => v = w /\ i = k

LEMMA OnceHolds == Spec => []OnceInv
  <1>1. Init => OnceInv
    BY DEF Init, OnceInv
  <1>2. TypeOK /\ OnceInv /\ [Next]_vars => OnceInv'
    <2> SUFFICES ASSUME TypeOK, OnceInv, [Next]_vars PROVE OnceInv'
      OBVIOUS
    <2>1. ASSUME NEW c \in Clients, NEW j \in Jobs, RequestPush(c, j) PROVE OnceInv'
      <3> DEFINE n == next_thread
      <3>1. /\ assigned' = [assigned EXCEPT ![n] = Append(assigned[n], j)]
            /\ n \in Workers /\ assigned \in [Workers -> Seq(Jobs)]
        BY <2>1 DEF RequestPush, TypeOK
      <3>2. \A w \in Workers : \A i \in DOMAIN assigned[w] : assigned[w][i] # j
        BY <2>1 DEF RequestPush, Requested, Range
      <3> HIDE DEF n
      <3>3. /\ \A w \in Workers \ {n} : assigned'[w] = assigned[w]
            /\ assigned'[n] = Append(assigned[n], j) /\ assigned[n] \in Seq(Jobs)
        BY <3>1
      <3>4. /\ DOMAIN assigned[n] = 1 .. Len(assigned[n]) /\ Len(assigned[n]) \in Nat
            /\ DOMAIN assigned'[n] = 1 .. (Len(assigned[n]) + 1)
            /\ \A i \in DOMAIN assigned[n] : assigned'[n][i] = assigned[n][i]
            /\ assigned'[n][Len(assigned[n]) + 1] = j
        BY <3>3
      <3>5. ASSUME NEW w \in Workers, NEW i \in DOMAIN assigned'[w]
            PROVE  \/ i \in DOMAIN assigned[w] /\ assigned'[w][i] = assigned[w][i]
                   \/ w = n /\ i = Len(assigned[n]) + 1 /\ assigned'[w][i] = j
        BY <3>3, <3>4, <3>5
      <3>6. QED
        BY <3>2, <3>5 DEF OnceInv
    <2>2. CASE UNCHANGED assigned
      BY <2>2 DEF OnceInv
    <2>3. QED
      BY <2>1, <2>2
         DEF Next, WorkerStep, MainStep, vars, workerVars, flagVars, poolVars,
             handleVars, history, OnlyPc, TestQuit, TestPredicate, FallAsleep,
             TestAbort, SpuriousWakeup, TryPop, StartJob, SkipJob, ReportRun,
             Callback, EndRun, RequestDone, Notify, SetAborted, Wait, WaitReturns,
             StartThread, BeginShutdown, SetQuit, SetAbort, Wakeup, BeginJoin,
             JoinWorker
  <1>3. QED
    BY <1>1, <1>2, PoolTypeCorrect, PTL DEF Spec

(* The places of two sequences in their concatenation. *)
LEMMA Joined ==
  ASSUME NEW S, NEW s \in Seq(S), NEW q \in Seq(S)
  PROVE  /\ Len(s) \in Nat /\ DOMAIN s = 1 .. Len(s) /\ DOMAIN s \subseteq DOMAIN (s \o q)
         /\ \A i \in DOMAIN s : (s \o q)[i] = s[i]
         /\ q # <<>> => /\ Len(s) + 1 \in DOMAIN (s \o q)
                        /\ (s \o q)[Len(s) + 1] = Head(q) /\ Head(q) \in S
  <1>1. /\ Len(s) \in Nat /\ Len(q) \in Nat /\ DOMAIN s = 1 .. Len(s)
        /\ DOMAIN (s \o q) = 1 .. (Len(s) + Len(q))
    OBVIOUS
  <1>2. \A i \in DOMAIN s : (s \o q)[i] = s[i]
    OBVIOUS
  <1>3. ASSUME q # <<>>
        PROVE  /\ Len(s) + 1 \in DOMAIN (s \o q)
               /\ (s \o q)[Len(s) + 1] = Head(q) /\ Head(q) \in S
    <2>1. Len(q) > 0 /\ Head(q) = q[1] /\ Head(q) \in S
      BY <1>3
    <2>2. Len(s) + 1 \in DOMAIN (s \o q)
      BY <1>1, <2>1
    <2>3. (s \o q)[Len(s) + 1] = q[1]
      BY <1>1, <2>1
    <2>4. QED
      BY <2>1, <2>2, <2>3
  <1>4. QED
    BY <1>1, <1>2, <1>3

(* What a worker has taken it was given, at the same place; so no two      *)
(* workers take the same job, and what is popped has not been taken yet.   *)
LEMMA TakenOnce ==
  ASSUME TypeOK, WorkerFifo, OnceInv
  PROVE  /\ \A v, w \in Workers : Range(taken[v]) \cap Range(taken[w]) # {} => v = w
         /\ \A w \in Workers : queue[w] # <<>> => Head(queue[w]) \in Jobs \ Taken
  <1>1. ASSUME NEW w \in Workers
        PROVE  /\ taken[w] \in Seq(Jobs) /\ queue[w] \in Seq(Jobs)
               /\ Len(taken[w]) \in Nat /\ DOMAIN taken[w] = 1 .. Len(taken[w])
               /\ DOMAIN taken[w] \subseteq DOMAIN assigned[w]
               /\ \A i \in DOMAIN taken[w] : assigned[w][i] = taken[w][i]
               /\ queue[w] # <<>> =>
                    /\ Len(taken[w]) + 1 \in DOMAIN assigned[w]
                    /\ assigned[w][Len(taken[w]) + 1] = Head(queue[w])
                    /\ Head(queue[w]) \in Jobs
    <2> DEFINE s == taken[w]
               q == queue[w]
    <2>1. s \in Seq(Jobs) /\ q \in Seq(Jobs) /\ assigned[w] = s \o q
      BY DEF TypeOK, WorkerFifo
    <2> HIDE DEF s, q
    <2>2. /\ Len(s) \in Nat /\ DOMAIN s = 1 .. Len(s) /\ DOMAIN s \subseteq DOMAIN (s \o q)
          /\ \A i \in DOMAIN s : (s \o q)[i] = s[i]
          /\ q # <<>> => /\ Len(s) + 1 \in DOMAIN (s \o q)
                         /\ (s \o q)[Len(s) + 1] = Head(q) /\ Head(q) \in Jobs
      BY ONLY <2>1, Joined, Zenon
    <2>3. QED
      BY <2>1, <2>2 DEF s, q
  <1>2. ASSUME NEW v \in Workers, NEW w \in Workers,
               Range(taken[v]) \cap Range(taken[w]) # {}
        PROVE  v = w
    <2>1. PICK i \in DOMAIN taken[v], k \in DOMAIN taken[w] : taken[v][i] = taken[w][k]
      BY <1>2 DEF Range
    <2>2. QED
      BY <1>1, <2>1 DEF OnceInv
  <1>3. ASSUME NEW w \in Workers, queue[w] # <<>>, Head(queue[w]) \in Taken PROVE FALSE
    <2>1. PICK v \in Workers : Head(queue[w]) \in Range(taken[v])
      BY <1>3 DEF Taken
    <2>2. PICK i \in DOMAIN taken[v] : taken[v][i] = Head(queue[w])
      BY <2>1 DEF Range
    <2>3. v = w /\ i = Len(taken[w]) + 1
      BY <1>1, <1>3, <2>2 DEF OnceInv
    <2>4. QED
      BY <1>1, <2>2, <2>3
  <1>4. QED
    BY <1>1, <1>2, <1>3

Holding == {"check", "running", "callback"}

(* A worker holds a job it took, and nothing but then; the callback of a   *)
(* job comes when it leaves the worker's hand, and says whether it ran.    *)
ReportInv ==
  /\ main.call = "none" => \A w \in Workers : pc[w] = "nothing"
  /\ \A w \in Workers :
       /\ pc[w] \notin Holding => task[w] = NoJob
       /\ pc[w] \in Holding => task[w] \in Range(taken[w]) /\ calls[task[w]] = <<>>
       /\ pc[w] = "check" => runs[task[w]] = 0
       /\ pc[w] \in {"running", "callback"} => runs[task[w]] = 1
  /\ \A j \in Jobs \ Taken : runs[j] = 0 /\ calls[j] = <<>>
  /\ \A j \in Taken : ~InHand(j) =>
       \/ runs[j] = 1 /\ calls[j] = <<TRUE>>
       \/ runs[j] = 0 /\ calls[j] = <<FALSE>>

(* What has been taken are jobs; one more taken is one more member. *)
LEMMA TakenFacts ==
  ASSUME TypeOK
  PROVE  Taken \subseteq Jobs /\ \A w \in Workers : Range(taken[w]) \subseteq Taken
  <1>1. \A w \in Workers : Range(taken[w]) \subseteq Jobs
    BY DEF TypeOK, Range
  <1>2. QED
    BY <1>1 DEF Taken

LEMMA Longer ==
  ASSUME NEW s \in Seq(Jobs), NEW x \in Jobs
  PROVE  Range(Append(s, x)) = Range(s) \cup {x}
  <1>1. /\ DOMAIN Append(s, x) = 1 .. (Len(s) + 1) /\ Len(s) \in Nat
        /\ DOMAIN s = 1 .. Len(s) /\ Append(s, x)[Len(s) + 1] = x
        /\ \A i \in 1 .. Len(s) : Append(s, x)[i] = s[i]
    BY AppendProperties
  <1>2. Range(Append(s, x)) \subseteq Range(s) \cup {x}
    BY <1>1 DEF Range
  <1>3. Range(s) \subseteq Range(Append(s, x))
    BY <1>1 DEF Range
  <1>4. x \in Range(Append(s, x))
    BY <1>1 DEF Range
  <1>5. QED
    BY <1>2, <1>3, <1>4

(* Steps that neither take a job nor give one back. *)
LEMMA ReportUndisturbed ==
  ASSUME ReportInv, UNCHANGED <<task, taken, runs, calls>>,
         main'.call = "none" => \A w \in Workers : pc'[w] = "nothing",
         \A w \in Workers : \/ pc'[w] = pc[w]
                            \/ pc[w] \notin Holding /\ pc'[w] \notin Holding
                            \/ pc[w] = "running" /\ pc'[w] = "callback"
  PROVE  ReportInv'
  <1>1. Taken' = Taken /\ \A j : InHand(j)' <=> InHand(j)
    BY DEF Taken, InHand
  <1>2. ASSUME NEW w \in Workers
        PROVE  /\ pc'[w] \notin Holding => task'[w] = NoJob
               /\ pc'[w] \in Holding =>
                    task'[w] \in Range(taken'[w]) /\ calls'[task'[w]] = <<>>
               /\ pc'[w] = "check" => runs'[task'[w]] = 0
               /\ pc'[w] \in {"running", "callback"} => runs'[task'[w]] = 1
    <2>1. CASE pc'[w] = pc[w]
      BY <2>1 DEF ReportInv
    <2>2. CASE pc[w] \notin Holding /\ pc'[w] \notin Holding
      BY <2>2 DEF ReportInv, Holding
    <2>3. CASE pc[w] = "running" /\ pc'[w] = "callback"
      BY <2>3 DEF ReportInv, Holding
    <2>4. QED
      BY <2>1, <2>2, <2>3
  <1>3. QED
    BY <1>1, <1>2 DEF ReportInv

LEMMA ReportStep ==
  ASSUME TypeOK, HandInv, WorkerFifo, OnceInv, ReportInv, [Next]_vars
  PROVE  ReportInv'
  <1>a. /\ \A v, w \in Workers : Range(taken[v]) \cap Range(taken[w]) # {} => v = w
        /\ \A w \in Workers : queue[w] # <<>> => Head(queue[w]) \in Jobs \ Taken
    BY TakenOnce
  <1>b. Taken \subseteq Jobs /\ \A w \in Workers : Range(taken[w]) \subseteq Taken
    BY TakenFacts
  <1> USE DEF TypeOK
  <1>0. ASSUME NEW w \in Workers, pc[w] # "nothing" PROVE main.call # "none"
    BY <1>0 DEF ReportInv
  <1>1. ASSUME NEW w \in Workers, TryPop(w), queue[w] # <<>> PROVE ReportInv'
    <2> DEFINE x == Head(queue[w])
    <2>1. /\ pc[w] = "pop" /\ pc' = [pc EXCEPT ![w] = "check"]
          /\ task' = [task EXCEPT ![w] = x]
          /\ taken' = [taken EXCEPT ![w] = Append(taken[w], x)]
          /\ UNCHANGED <<main, runs, calls>>
      BY <1>1 DEF TryPop, Step
    <2>2. x \in Jobs \ Taken /\ x # NoJob
      BY <1>1, <1>a, PoolAssumption
    <2> HIDE DEF x
    <2>3. taken[w] \in Seq(Jobs) /\ taken'[w] = Append(taken[w], x)
          /\ \A v \in Workers \ {w} : taken'[v] = taken[v]
      BY <2>1
    <2>4. Range(taken'[w]) = Range(taken[w]) \cup {x}
      BY <2>2, <2>3, Longer
    <2>5. Taken' = Taken \cup {x}
      <3>1. /\ \A y : y \in Taken' <=> \E v \in Workers : y \in Range(taken'[v])
            /\ \A y : y \in Taken <=> \E v \in Workers : y \in Range(taken[v])
        BY DEF Taken
      <3>2. \A v \in Workers \ {w} : Range(taken'[v]) = Range(taken[v])
        BY <2>3
      <3>3. QED
        BY <2>4, <3>1, <3>2
    <2>6. runs[x] = 0 /\ calls[x] = <<>>
      BY <2>2 DEF ReportInv
    <2>7. \A v \in Workers :
            /\ pc'[v] \notin Holding => task'[v] = NoJob
            /\ pc'[v] \in Holding => task'[v] \in Range(taken'[v]) /\ calls'[task'[v]] = <<>>
            /\ pc'[v] = "check" => runs'[task'[v]] = 0
            /\ pc'[v] \in {"running", "callback"} => runs'[task'[v]] = 1
      BY <2>1, <2>3, <2>4, <2>6 DEF ReportInv, Holding
    <2>8. \A j \in Taken' : ~InHand(j)' => j \in Taken /\ ~InHand(j)
      <3>1. task[w] = NoJob /\ NoJob \notin Jobs /\ Taken \subseteq Jobs
        BY <1>b, <2>1, PoolAssumption DEF ReportInv, Holding
      <3>2. QED
        BY <2>1, <2>5, <3>1 DEF InHand
    <2>9. main.call # "none"
      BY <1>0, <2>1
    <2>10. QED
      BY <2>1, <2>5, <2>7, <2>8, <2>9 DEF ReportInv
  <1>2. ASSUME NEW w \in Workers, StartJob(w) PROVE ReportInv'
    <2> DEFINE x == task[w]
    <2>1. /\ pc[w] = "check" /\ pc' = [pc EXCEPT ![w] = "running"]
          /\ runs' = [runs EXCEPT ![x] = runs[x] + 1]
          /\ UNCHANGED <<main, task, taken, calls>>
      BY <1>2 DEF StartJob, Step
    <2>2. x \in Jobs /\ x \in Range(taken[w]) /\ runs[x] = 0 /\ runs'[x] = 1
      BY <2>1 DEF HandInv, ReportInv, Holding
    <2>3. \A v \in Workers \ {w} : pc[v] \in Holding => task[v] # x
      BY <1>a, <2>2 DEF ReportInv
    <2>4. x \in Taken /\ InHand(x) /\ Taken' = Taken
      BY <1>b, <2>1, <2>2 DEF Taken, InHand
    <2>5. \A j \in Jobs : j # x => runs'[j] = runs[j]
      BY <2>1
    <2> HIDE DEF x
    <2>6. \A v \in Workers :
            /\ pc'[v] = "check" => runs'[task'[v]] = 0
            /\ pc'[v] \in {"running", "callback"} => runs'[task'[v]] = 1
      <3>1. ASSUME NEW v \in Workers, v # w
            PROVE  /\ pc'[v] = "check" => runs'[task'[v]] = 0
                   /\ pc'[v] \in {"running", "callback"} => runs'[task'[v]] = 1
        BY <2>1, <2>3, <2>5, <3>1 DEF HandInv, ReportInv, Holding
      <3>2. QED
        BY <2>1, <2>2, <3>1 DEF x
    <2>7. \A v \in Workers :
            /\ pc'[v] \notin Holding => task'[v] = NoJob
            /\ pc'[v] \in Holding => task'[v] \in Range(taken'[v]) /\ calls'[task'[v]] = <<>>
      BY <2>1 DEF ReportInv, Holding
    <2>8. \A j \in Taken' : ~InHand(j)' => j # x /\ ~InHand(j) /\ j \in Taken /\ j \in Jobs
      BY <1>b, <2>1, <2>4 DEF InHand
    <2>9. main.call # "none"
      BY <1>0, <2>1
    <2>10. QED
      BY <2>1, <2>4, <2>5, <2>6, <2>7, <2>8, <2>9 DEF ReportInv
  <1>3. ASSUME NEW w \in Workers, SkipJob(w) \/ ReportRun(w) PROVE ReportInv'
    <2> DEFINE x == task[w]
    <2>1. /\ pc[w] \in Holding /\ pc' = [pc EXCEPT ![w] = "inner"]
          /\ task' = [task EXCEPT ![w] = NoJob]
          /\ UNCHANGED <<main, taken, runs>>
          /\ \/ pc[w] = "check" /\ calls' = [calls EXCEPT ![x] = Append(calls[x], FALSE)]
             \/ pc[w] = "callback" /\ calls' = [calls EXCEPT ![x] = Append(calls[x], TRUE)]
      BY <1>3 DEF SkipJob, ReportRun, Step, Callback, Holding
    <2>2. x \in Jobs /\ x \in Range(taken[w]) /\ calls[x] = <<>>
      BY <2>1 DEF HandInv, ReportInv, Holding
    <2>3. \/ runs[x] = 1 /\ calls'[x] = <<TRUE>>
          \/ runs[x] = 0 /\ calls'[x] = <<FALSE>>
      <3>1. Append(<<>>, TRUE) = <<TRUE>> /\ Append(<<>>, FALSE) = <<FALSE>>
        OBVIOUS
      <3>2. (pc[w] = "check" => runs[x] = 0) /\ (pc[w] = "callback" => runs[x] = 1)
        BY DEF ReportInv
      <3>3. calls'[x] = Append(<<>>, FALSE) \/ calls'[x] = Append(<<>>, TRUE)
        BY <2>1, <2>2
      <3>4. CASE pc[w] = "check"
        <4>1. calls'[x] = Append(<<>>, FALSE)
          BY <2>1, <2>2, <3>4
        <4>2. QED
          BY <3>1, <3>2, <3>4, <4>1
      <3>5. CASE pc[w] = "callback"
        <4>1. calls'[x] = Append(<<>>, TRUE)
          BY <2>1, <2>2, <3>5
        <4>2. QED
          BY <3>1, <3>2, <3>5, <4>1
      <3>6. QED
        BY <2>1, <3>4, <3>5
    <2>4. \A v \in Workers \ {w} : pc[v] \in Holding => task[v] # x
      BY <1>a, <2>2 DEF ReportInv
    <2>5. x \in Taken /\ Taken' = Taken /\ Taken \subseteq Jobs
      BY <1>b, <2>1, <2>2 DEF Taken
    <2>6. \A j \in Jobs : j # x => calls'[j] = calls[j]
      BY <2>1
    <2>7. task'[w] = NoJob /\ pc'[w] = "inner"
          /\ \A v \in Workers \ {w} : task'[v] = task[v] /\ pc'[v] = pc[v]
      BY <2>1
    <2> HIDE DEF x
    <2>8. \A v \in Workers :
            /\ pc'[v] \notin Holding => task'[v] = NoJob
            /\ pc'[v] \in Holding => task'[v] \in Range(taken'[v]) /\ calls'[task'[v]] = <<>>
            /\ pc'[v] = "check" => runs'[task'[v]] = 0
            /\ pc'[v] \in {"running", "callback"} => runs'[task'[v]] = 1
      BY <2>1, <2>4, <2>6, <2>7 DEF ReportInv, HandInv, Holding
    <2>9. ASSUME NEW j \in Taken, j # x, ~InHand(j)' PROVE ~InHand(j)
      BY <2>7, <2>9 DEF InHand, x
    <2>10. main.call # "none"
      BY <1>0, <2>1 DEF Holding
    <2>11. \A j \in Jobs \ Taken : runs'[j] = 0 /\ calls'[j] = <<>>
      BY <2>1, <2>5, <2>6 DEF ReportInv
    <2>12. ASSUME NEW j \in Taken, ~InHand(j)'
           PROVE  \/ runs'[j] = 1 /\ calls'[j] = <<TRUE>>
                  \/ runs'[j] = 0 /\ calls'[j] = <<FALSE>>
      <3>1. CASE j = x
        BY <2>1, <2>3, <3>1
      <3>2. CASE j # x
        BY <2>1, <2>5, <2>6, <2>9, <2>12, <3>2 DEF ReportInv
      <3>3. QED
        BY <3>1, <3>2
    <2>13. QED
      BY <2>1, <2>5, <2>8, <2>10, <2>11, <2>12 DEF ReportInv
  <1>4. ASSUME NEW w \in Workers,
               \/ TestQuit(w) \/ TestPredicate(w) \/ FallAsleep(w) \/ TestAbort(w)
               \/ SpuriousWakeup(w)
               \/ TryPop(w) /\ queue[w] = <<>>
        PROVE  ReportInv'
    <2>1. /\ UNCHANGED <<main, task, taken, runs, calls>>
          /\ pc[w] \notin Holding \cup {"nothing"}
          /\ \E to : to \notin Holding /\ pc' = [pc EXCEPT ![w] = to]
      BY <1>4 DEF TestQuit, TestPredicate, FallAsleep, TestAbort, SpuriousWakeup,
                  TryPop, Step, OnlyPc, history, Holding
    <2>2. main.call # "none"
      BY <1>0, <2>1
    <2>3. QED
      BY <2>1, <2>2, ReportUndisturbed
  <1>5. ASSUME NEW w \in Workers, NEW outcome \in Outcomes, EndRun(w, outcome)
        PROVE  ReportInv'
    <2>1. /\ UNCHANGED <<main, task, taken, runs, calls>> /\ pc[w] = "running"
          /\ pc' = [pc EXCEPT ![w] = "callback"]
      BY <1>5 DEF EndRun, Step, history
    <2>2. main.call # "none"
      BY <1>0, <2>1
    <2>3. QED
      BY <2>1, <2>2, ReportUndisturbed
  <1>6. ASSUME NEW c \in Clients, RequestDone(c) PROVE ReportInv'
    <2>1. /\ UNCHANGED <<main, task, taken, runs, calls>>
          /\ \A w \in Workers : pc'[w] = pc[w] \/ (pc[w] = "asleep" /\ pc'[w] = "predicate")
      BY <1>6 DEF RequestDone, Notify, history
    <2>2. main'.call = "none" => \A w \in Workers : pc'[w] = "nothing"
      BY <2>1 DEF ReportInv
    <2>3. QED
      BY <2>1, <2>2, ReportUndisturbed DEF Holding
  <1>7. CASE Wakeup
    <2>1. /\ UNCHANGED <<task, taken, runs, calls>> /\ main.step = "wakeup"
          /\ \A w \in Workers : pc'[w] = pc[w] \/ (pc[w] = "asleep" /\ pc'[w] = "predicate")
          /\ main'.call = main.call \/ main'.call = "flagged"
      <3>1. UNCHANGED <<task, taken, runs, calls>> /\ main.step = "wakeup"
        BY <1>7 DEF Wakeup, history
      <3>2. \A w \in Workers : pc'[w] = pc[w] \/ (pc[w] = "asleep" /\ pc'[w] = "predicate")
        BY <1>7 DEF Wakeup, Notify
      <3>3. main' = [main EXCEPT !.at = main.at + 1, !.step = "quit"] \/ main'.call = "flagged"
        BY <1>7 DEF Wakeup
      <3>4. main'.call = main.call \/ main'.call = "flagged"
        BY <3>3
      <3>5. QED
        BY <3>1, <3>2, <3>4
    <2>2. main'.call = "none" => \A w \in Workers : pc'[w] = "nothing"
      BY <2>1 DEF ReportInv
    <2>3. QED
      BY <2>1, <2>2, ReportUndisturbed DEF Holding
  <1>8. CASE StartThread
    <2>1. /\ UNCHANGED <<task, taken, runs, calls>> /\ main.call = "none"
          /\ main'.call = "started" /\ \A w \in Workers : pc'[w] = "loop"
      BY <1>8 DEF StartThread, Idle, history
    <2>2. \A w \in Workers : pc[w] = "nothing"
      BY <2>1 DEF ReportInv
    <2>3. QED
      BY <2>1, <2>2, ReportUndisturbed DEF Holding
  <1>9. CASE /\ UNCHANGED <<pc, task, taken, runs, calls>>
             /\ main'.call = "none" => main.call = "none"
    <2>1. main'.call = "none" => \A w \in Workers : pc'[w] = "nothing"
      BY <1>9 DEF ReportInv
    <2>2. QED
      BY <1>9, <2>1, ReportUndisturbed
  <1>10. ASSUME NEW call \in Shutdowns, BeginShutdown(call) PROVE ReportInv'
    BY <1>9, <1>10, PoolAssumption DEF BeginShutdown, workerVars, history
  <1>11. CASE SetQuit \/ SetAbort \/ BeginJoin \/ JoinWorker
    BY <1>9, <1>11 DEF SetQuit, SetAbort, BeginJoin, JoinWorker, workerVars, history
  <1>12. ASSUME NEW j \in Jobs,
                \/ SetAborted(j) \/ Wait(j) \/ WaitReturns(j)
                \/ \E c \in Clients : RequestPush(c, j)
         PROVE  ReportInv'
    BY <1>9, <1>12 DEF SetAborted, Wait, WaitReturns, RequestPush, workerVars, history
  <1>13. CASE UNCHANGED vars
    BY <1>9, <1>13 DEF vars, workerVars, history
  <1> HIDE DEF TypeOK
  <1>14. QED
    BY <1>1, <1>2, <1>3, <1>4, <1>5, <1>6, <1>7, <1>8, <1>10, <1>11, <1>12, <1>13
       DEF Next, WorkerStep, MainStep

(* CallbackTruthful: once a job has left its worker's hand it has had      *)
(* exactly one callback, which said whether the job ran                    *)
(* (job_worker_thread.cpp:48-75), for any pool, any outcomes and any       *)
(* moment of an abort.                                                     *)
THEOREM CallbackTruthfulHolds == Spec => []CallbackTruthful
  <1>1. Init => ReportInv
    <2>1. ASSUME Init PROVE Taken = {}
      <3>1. \A w \in Workers : taken[w] = <<>> /\ DOMAIN taken[w] = {}
        BY <2>1 DEF Init
      <3>2. QED
        BY <3>1 DEF Taken, Range
    <2>2. QED
      BY <2>1 DEF Init, Idle, ReportInv, Holding
  <1>2. /\ TypeOK /\ HandInv /\ WorkerFifo /\ OnceInv /\ ReportInv /\ [Next]_vars
        => ReportInv'
    BY ReportStep
  <1>3. TypeOK /\ HandInv /\ ReportInv => CallbackTruthful
    <2> SUFFICES ASSUME TypeOK, HandInv, ReportInv, NEW j \in Jobs
                 PROVE  /\ runs[j] <= 1
                        /\ j \in Taken /\ ~InHand(j) => calls[j] = <<runs[j] = 1>>
                        /\ j \notin Taken \/ InHand(j) => calls[j] = <<>>
      BY DEF CallbackTruthful
    <2>1. CASE j \notin Taken
      BY <2>1 DEF ReportInv
    <2>2. CASE InHand(j)
      <3>1. PICK w \in Workers : task[w] = j /\ pc[w] \in Holding
        BY <2>2, PoolAssumption DEF InHand, ReportInv
      <3>2. QED
        BY <2>2, <3>1 DEF ReportInv, Holding
    <2>3. CASE j \in Taken /\ ~InHand(j)
      <3>1. \/ runs[j] = 1 /\ calls[j] = <<TRUE>>
            \/ runs[j] = 0 /\ calls[j] = <<FALSE>>
        BY <2>3 DEF ReportInv
      <3>2. calls[j] = <<runs[j] = 1>>
        <4> DEFINE ran == runs[j] = 1
        <4>1. (runs[j] = 1 => ran = TRUE) /\ (runs[j] = 0 => ran = FALSE)
          OBVIOUS
        <4> HIDE DEF ran
        <4>2. calls[j] = <<ran>>
          BY <3>1, <4>1, Zenon
        <4>3. QED
          BY ONLY <4>2 DEF ran
      <3>3. runs[j] <= 1
        <4>1. runs[j] \in {0, 1}
          BY ONLY <3>1, Zenon
        <4>2. QED
          BY ONLY <4>1
      <3>4. QED
        BY <2>3, <3>2, <3>3
    <2>4. QED
      BY <2>1, <2>2, <2>3
  <1>4. QED
    BY <1>1, <1>2, <1>3, PoolTypeCorrect, WorkerFifoHolds, OnceHolds, PTL DEF Spec
===============================================================================
