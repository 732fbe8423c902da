-------------------------- MODULE ProgramModesProofs --------------------------
(***************************************************************************)
(* Theorems about ProgramModes: whatever the number of files and workers,  *)
(* the size of the receive queue and the jobs that fail, thumbgen does not *)
(* pass its waits too early.                                               *)
(***************************************************************************)
EXTENDS ProgramModes, FiniteSetTheorems, SequenceTheorems, WellFoundedInduction, TLAPS

JobKinds == {"entry", "tiles", "test job"}
JobType  == [kind : JobKinds, file : Files]
Messages == [kind : {"file", "tile"}, file : Files, scale : Nat]
JobOrNone == JobType \cup {NoJob}

DbPlaces == {"nothing", "started", "test", "receive", "request", "append", "hand over",
             "exited", "died"}
WorkerPlaces ==
  {"nothing", "test", "look", "commit", "asleep", "inner", "pop", "exited", "entry", "append",
   "file", "tile", "tiles", "cut", "finish", "test job"}

FileLoops   == {"request files", "request tests", "request tiles", "run viewer"}
WorkerLoops == {"stop workers", "abort workers"}

(* What a thread holds is a job, of the kind its place calls for. *)
DbOK ==
  /\ db.at = "hand over" => db.job \in JobType
  /\ db.at = "append" => db.job \in JobType /\ db.job.kind = "entry"

WorkerOK(w) ==
  /\ worker[w].at \in {"entry", "append", "file", "tile"} =>
       worker[w].job \in JobType /\ worker[w].job.kind = "entry"
  /\ worker[w].at \in {"tiles", "cut", "finish"} =>
       worker[w].job \in JobType /\ worker[w].job.kind = "tiles"

MainType ==
  /\ mode \in {"view", "thumbgen", "filegen", "test"}
  /\ step \in Nat \ {0}
  /\ Doing \in FileLoops => todo \in Seq(Files)
  /\ Doing \in WorkerLoops => todo \in Seq(Workers)
  /\ flagged \in BOOLEAN /\ (flagged => Doing \in WorkerLoops /\ todo # <<>>)
  /\ mutex \in {"free", "main"}
  /\ group \subseteq JobType

DbType ==
  /\ db \in [at : DbPlaces, job : JobOrNone] /\ DbOK
  /\ dbquit \in BOOLEAN
  /\ requests \in Seq(JobType)
  /\ database \subseteq Files /\ tiles \subseteq Files \X Nat
  /\ lowest \in [Files -> Nat \cup {-1}]

QueueType ==
  /\ queue \in [Workers -> Seq(JobType)] /\ next_thread \in Workers
  /\ scale \in [Workers -> Nat]

WorkerType ==
  /\ worker \in [Workers -> [at : WorkerPlaces, job : JobOrNone]]
  /\ \A w \in Workers : WorkerOK(w)

FlagType ==
  /\ quit \in [Workers -> BOOLEAN] /\ abort \in [Workers -> BOOLEAN]
  /\ dbabort \in BOOLEAN

DataType == finished \subseteq JobType /\ entries \in Seq(Files) /\ inbox \in Seq(Messages)

TypeOK == MainType /\ DbType /\ QueueType /\ WorkerType /\ FlagType /\ DataType

(* Where the request for the entry of a file is: with main() or in the     *)
(* queue or with the database thread ...                                   *)
Entry(f) == Job("entry", f)

Unsent(f)    == step < 3 \/ (step = 3 /\ f \in Range(todo))
Requested(f) == Entry(f) \in Range(requests)
InDb(f)      == db.at \in {"append", "hand over"} /\ db.job = Entry(f)
Early(f)     == Unsent(f) \/ Requested(f) \/ InDb(f)

(* ... or with a worker, which has not announced it yet. *)
InPool(f) ==
  \E w \in Workers :
    \/ Entry(f) \in Range(queue[w])
    \/ worker[w].at \in {"entry", "append"} /\ worker[w].job = Entry(f)

(* It is in one place before it is handed to a worker. *)
EarlyOnce ==
  /\ step = 3 => IsInjective(todo)
  /\ \A i, k \in DOMAIN requests :
       requests[i] = requests[k] /\ requests[i].kind = "entry" => i = k
  /\ \A f \in Files : Unsent(f) => ~Requested(f) /\ ~InDb(f)
  /\ \A f \in Files : Requested(f) => ~InDb(f)

(* A handle is finished by the database thread only, when the file is new  *)
(* in the vector, and no worker ever had the request.                      *)
FinishedOnce ==
  /\ \A f \in Files : InPool(f) => ~Early(f)
  /\ \A f \in Files : f \in Range(entries) => ~Early(f)
  /\ \A f \in Files : Entry(f) \in finished =>
       /\ ~Early(f) /\ ~InPool(f) /\ f \in Range(entries)
       /\ \A i, k \in DOMAIN entries : entries[i] = f /\ entries[k] = f => i = k

(* All that the job of a file has to cut, and what it has cut on the way.  *)
AllCut(f) ==
  \A s \in FirstScale(f) .. Thumbnail[f] : Cut(f, s) \/ lowest[f] \in 0 .. s

CutBelow(f, n) == \A s \in FirstScale(f) .. n - 1 : Cut(f, s)

(* What the database thread told the job was so, and still is. *)
LowestIsStored ==
  \A f \in Files : lowest[f] # -1 => lowest[f] \in 0 .. Thumbnail[f] /\ <<f, lowest[f]>> \in tiles

(* A handle of thumbnails is finished when they are on their way. *)
WorkerCut(w) ==
  \A f \in Files, n \in Nat : worker[w].job.file = f /\ scale[w] = n =>
    /\ worker[w].at = "finish" => AllCut(f)
    /\ worker[w].at = "cut" => CutBelow(f, n)

FinishedCut ==
  /\ \A f \in Files : Job("tiles", f) \in finished => AllCut(f)
  /\ \A w \in Workers : WorkerCut(w)
  /\ LowestIsStored

(* No step makes a tile uncut that was cut. *)
CutStays ==
  /\ \A f \in Files : AllCut(f) => AllCut(f)'
  /\ \A f \in Files, n \in Nat : CutBelow(f, n) => CutBelow(f, n)'
  /\ LowestIsStored => LowestIsStored'

(* What main() waits for, or waited for. *)
Awaited ==
  \A f \in Files :
    /\ step = 3 => f \in Range(todo) \/ Entry(f) \in group
    /\ step = 4 => Entry(f) \in group
    /\ step > 4 => Entry(f) \in finished
    /\ step = 5 => f \in Range(todo) \/ Job("tiles", f) \in group
    /\ step = 6 => Job("tiles", f) \in group
    /\ step > 6 => Job("tiles", f) \in finished

ThumbgenInv == EarlyOnce /\ FinishedOnce /\ FinishedCut /\ Awaited

IInv == TypeOK /\ (mode = "thumbgen" => ThumbgenInv)

-----------------------------------------------------------------------------
(* Data *)

(* The loops of main() over all files and over all workers. *)
LEMMA Counted ==
  /\ Files \subseteq Nat \ {0} /\ Workers \subseteq Nat
  /\ [i \in Files |-> i] \in Seq(Files) /\ [w \in Workers |-> w] \in Seq(Workers)
  /\ Range([i \in Files |-> i]) = Files /\ IsInjective([i \in Files |-> i])
  /\ \A n \in Workers : (n % NumThreads) + 1 \in Workers
  /\ 1 \in Workers
  <1>1. Cardinality(Files) \in Nat /\ Files = 1 .. Cardinality(Files)
    BY ModesAssumption, FS_CardinalityType
  <1> DEFINE c == Cardinality(Files)
  <1>2. c \in Nat /\ Files = 1 .. c
    BY <1>1
  <1> HIDE DEF c
  <1>3. [i \in Files |-> i] \in Seq(Files)
    BY <1>2
  <1>4. Range([i \in Files |-> i]) = Files /\ IsInjective([i \in Files |-> i])
    BY DEF Range, IsInjective
  <1>5. NumThreads \in Nat \ {0} /\ Workers = 1 .. NumThreads
    BY ModesAssumption DEF Workers
  <1>6. [w \in Workers |-> w] \in Seq(Workers) /\ 1 \in Workers
    BY <1>5
  <1>7. \A n \in Workers : (n % NumThreads) + 1 \in Workers
    BY <1>5
  <1>8. QED
    BY <1>2, <1>3, <1>4, <1>5, <1>6, <1>7

(* A job is its kind and its file, and none is no job. *)
LEMMA JobsApart ==
  /\ NoJob \notin JobType
  /\ \A j \in JobType : j.kind \in JobKinds /\ j.file \in Files /\ j = Job(j.kind, j.file)
  /\ \A k \in JobKinds, f \in Files : /\ Job(k, f) \in JobType
                                      /\ Job(k, f).kind = k /\ Job(k, f).file = f
  /\ \A f, g \in Files : Entry(f) = Entry(g) => f = g
  /\ \A f, g \in Files : Entry(f) # Job("tiles", g)
  <1>1. NoJob \notin JobType
    BY DEF NoJob, Job, JobType, JobKinds
  <1>2. \A j \in JobType : j.kind \in JobKinds /\ j.file \in Files /\ j = Job(j.kind, j.file)
    BY DEF Job, JobType
  <1>3. \A k \in JobKinds, f \in Files : /\ Job(k, f) \in JobType
                                        /\ Job(k, f).kind = k /\ Job(k, f).file = f
    BY DEF Job, JobType
  <1>4. \A f \in Files : Entry(f).kind = "entry" /\ Entry(f).file = f
    BY DEF Entry, Job
  <1>5. \A g \in Files : Job("tiles", g).kind = "tiles"
    BY DEF Job
  <1>6. QED
    BY <1>1, <1>2, <1>3, <1>4, <1>5

(* The script of thumbgen, step by step. *)
LEMMA ThumbgenDoing ==
  ASSUME mode = "thumbgen", step \in Nat \ {0}
  PROVE  /\ Doing = "request files" <=> step = 3
         /\ Doing = "request tiles" <=> step = 5
         /\ Doing = "wait" <=> step \in {4, 6}
         /\ Doing = "start database" <=> step = 1
         /\ Doing = "start workers" <=> step = 2
         /\ Doing \notin {"request tests", "run viewer", "abort workers", "abort database"}
         /\ Doing \in {"stop workers", "stop database", "join workers", "join database"}
              => step > 6
  <1>1. Script[mode] = ThumbgenScript /\ Len(ThumbgenScript) = 10
    BY DEF Script, ThumbgenScript
  <1>2. Doing = IF step > 10 THEN "end" ELSE ThumbgenScript[step]
    BY <1>1 DEF Doing
  <1>3. /\ ThumbgenScript[1] = "start database" /\ ThumbgenScript[2] = "start workers"
        /\ ThumbgenScript[3] = "request files" /\ ThumbgenScript[4] = "wait"
        /\ ThumbgenScript[5] = "request tiles" /\ ThumbgenScript[6] = "wait"
        /\ ThumbgenScript[7] = "stop workers" /\ ThumbgenScript[8] = "stop database"
        /\ ThumbgenScript[9] = "join workers" /\ ThumbgenScript[10] = "join database"
    BY DEF ThumbgenScript
  <1>4. step \in {1, 2, 3, 4, 5, 6, 7, 8, 9, 10} \/ step > 10
    OBVIOUS
  <1>5. /\ step = 1 => Doing = "start database"
        /\ step = 2 => Doing = "start workers"
        /\ step = 3 => Doing = "request files"
        /\ step = 4 => Doing = "wait"
        /\ step = 5 => Doing = "request tiles"
        /\ step = 6 => Doing = "wait"
    <2>1. step <= 10 => Doing = ThumbgenScript[step]
      BY <1>2
    <2>2. step \in {1, 2, 3, 4, 5, 6} => Doing = ThumbgenScript[step]
      BY <2>1
    <2>3. QED
      BY ONLY <1>3, <2>2, Zenon
  <1>6. step > 6 => Doing \in {"stop workers", "stop database", "join workers",
                              "join database", "end"}
    <2>1. step > 6 => step \in {7, 8, 9, 10} \/ step > 10
      BY <1>4
    <2>2. QED
      BY <1>2, <1>3, <2>1
  <1>7. step \in {1, 2, 3, 4, 5, 6} \/ step > 6
    BY <1>4
  <1>8. QED
    BY <1>5, <1>6, <1>7

(* The loop the next step runs through is one over files or over workers.  *)
LEMMA NextLoop ==
  ASSUME TypeOK, Advance, ~flagged
  PROVE  /\ step' = step + 1 /\ mode' = mode /\ step' \in Nat \ {0} /\ flagged' = flagged
         /\ todo' = IF step < Len(Script[mode]) THEN Loop(Script[mode][step + 1], entries) ELSE <<>>
         /\ (Doing \in FileLoops => todo \in Seq(Files))'
         /\ (Doing \in WorkerLoops => todo \in Seq(Workers))'
  <1>1. step \in Nat \ {0} /\ entries \in Seq(Files)
        /\ mode \in {"view", "thumbgen", "filegen", "test"}
    BY DEF TypeOK, MainType, DataType
  <1>2. step' = step + 1 /\ mode' = mode /\ flagged' = flagged
        /\ todo' = IF step < Len(Script[mode]) THEN Loop(Script[mode][step + 1], entries) ELSE <<>>
    BY DEF Advance
  <1>3. Len(Script[mode]) \in Nat
    <2>1. Script[mode] \in {ViewScript, ThumbgenScript, FilegenScript, TestScript}
      BY <1>1 DEF Script
    <2>2. /\ Len(ViewScript) = 7 /\ Len(ThumbgenScript) = 10 /\ Len(FilegenScript) = 7
          /\ Len(TestScript) = 8
      BY DEF ViewScript, ThumbgenScript, FilegenScript, TestScript
    <2>3. QED
      BY <2>1, <2>2
  <1> DEFINE n == Script[mode][step + 1]
  <1>4. Doing' = IF step + 1 > Len(Script[mode]) THEN "end" ELSE n
    BY <1>2 DEF Doing
  <1> HIDE DEF n
  <1>5. CASE step < Len(Script[mode])
    <2>1. Doing' = n /\ todo' = Loop(n, entries)
      BY <1>1, <1>2, <1>3, <1>4, <1>5 DEF n
    <2>2. n \in FileLoops => Loop(n, entries) \in Seq(Files)
      BY <1>1, Counted DEF Loop, FileLoops
    <2>3. n \in WorkerLoops => Loop(n, entries) \in Seq(Workers)
      BY Counted DEF Loop, WorkerLoops
    <2>4. QED
      BY <1>1, <1>2, <2>1, <2>2, <2>3
  <1>6. CASE ~(step < Len(Script[mode]))
    <2>1. Doing' = "end"
      BY <1>1, <1>3, <1>4, <1>6
    <2>2. QED
      BY <1>1, <1>2, <2>1 DEF FileLoops, WorkerLoops
  <1>7. QED
    BY <1>5, <1>6

(* What is appended to a sequence is added, ...                            *)
LEMMA Added ==
  ASSUME NEW S, NEW q \in Seq(S), NEW e \in S
  PROVE  /\ Append(q, e) \in Seq(S) /\ Range(Append(q, e)) = Range(q) \cup {e}
         /\ DOMAIN Append(q, e) = 1 .. (Len(q) + 1) /\ DOMAIN q = 1 .. Len(q) /\ Len(q) \in Nat
         /\ \A i \in 1 .. Len(q) : Append(q, e)[i] = q[i]
         /\ Append(q, e)[Len(q) + 1] = e
  <1>1. Append(q, e) \in Seq(S) /\ Len(Append(q, e)) = Len(q) + 1
        /\ \A i \in 1 .. Len(q) : Append(q, e)[i] = q[i]
        /\ Append(q, e)[Len(q) + 1] = e
    BY AppendProperties
  <1>2. DOMAIN Append(q, e) = 1 .. (Len(q) + 1) /\ DOMAIN q = 1 .. Len(q)
        /\ Len(q) \in Nat
    BY <1>1
  <1>3. Range(Append(q, e)) \subseteq Range(q) \cup {e}
    BY <1>1, <1>2 DEF Range
  <1>4. Range(q) \subseteq Range(Append(q, e))
    BY <1>1, <1>2 DEF Range
  <1>5. e \in Range(Append(q, e))
    BY <1>1, <1>2 DEF Range
  <1>6. QED
    BY <1>1, <1>2, <1>3, <1>4, <1>5

(* ... and what is taken was the first; nothing else is lost, and what was *)
(* there once is gone.                                                     *)
LEMMA Shortened ==
  ASSUME NEW S, NEW q \in Seq(S), q # << >>
  PROVE  /\ Head(q) \in S /\ Tail(q) \in Seq(S) /\ Head(q) \in Range(q)
         /\ Range(q) = {Head(q)} \cup Range(Tail(q))
         /\ \A i \in DOMAIN Tail(q) : i + 1 \in DOMAIN q /\ Tail(q)[i] = q[i + 1] /\ i \in Nat
         /\ (\A i, k \in DOMAIN q : q[i] = q[k] /\ q[i] = Head(q) => i = k)
              => Head(q) \notin Range(Tail(q))
  <1>1. /\ Head(q) \in S /\ Tail(q) \in Seq(S) /\ q[1] = Head(q)
        /\ DOMAIN q = 1 .. Len(q) /\ Len(q) \in Nat \ {0}
        /\ DOMAIN Tail(q) = 1 .. (Len(q) - 1)
        /\ \A i \in 1 .. (Len(q) - 1) : Tail(q)[i] = q[i + 1]
    BY HeadTailProperties
  <1>2. Range(q) \subseteq {Head(q)} \cup Range(Tail(q))
    <2> SUFFICES ASSUME NEW i \in DOMAIN q PROVE q[i] \in {Head(q)} \cup Range(Tail(q))
      BY DEF Range
    <2>1. CASE i = 1
      BY <1>1, <2>1
    <2>2. CASE i # 1
      <3>1. i - 1 \in DOMAIN Tail(q) /\ Tail(q)[i - 1] = q[i]
        BY <1>1, <2>2
      <3>2. QED
        BY <3>1 DEF Range
    <2>3. QED
      BY <2>1, <2>2
  <1>3. {Head(q)} \cup Range(Tail(q)) \subseteq Range(q)
    BY <1>1 DEF Range
  <1>4. \A i \in DOMAIN Tail(q) : i + 1 \in DOMAIN q /\ Tail(q)[i] = q[i + 1] /\ i \in Nat
    BY <1>1
  <1>5. ASSUME \A i, k \in DOMAIN q : q[i] = q[k] /\ q[i] = Head(q) => i = k,
               NEW i \in DOMAIN Tail(q), Tail(q)[i] = Head(q)
        PROVE  FALSE
    <2>1. q[i + 1] = Head(q) /\ i + 1 \in DOMAIN q /\ 1 \in DOMAIN q /\ i + 1 # 1
      BY <1>1, <1>5
    <2>2. QED
      BY <1>1, <1>5, <2>1
  <1>6. QED
    BY <1>1, <1>2, <1>3, <1>4, <1>5 DEF Range

(* Fields of the threads' records that are changed. *)
LEMMA WorkerGoes ==
  ASSUME TypeOK, NEW w \in Workers, NEW to \in WorkerPlaces,
         worker' = [worker EXCEPT ![w].at = to]
  PROVE  /\ worker' \in [Workers -> [at : WorkerPlaces, job : JobOrNone]]
         /\ worker'[w].at = to /\ worker'[w].job = worker[w].job
         /\ \A v \in Workers : v # w => worker'[v] = worker[v]
  <1>1. worker \in [Workers -> [at : WorkerPlaces, job : JobOrNone]]
    BY DEF TypeOK, WorkerType
  <1>2. \A c \in [at : WorkerPlaces, job : JobOrNone] :
          LET d == [c EXCEPT !.at = to]
          IN  d \in [at : WorkerPlaces, job : JobOrNone] /\ d.at = to /\ d.job = c.job
    OBVIOUS
  <1>3. worker[w] \in [at : WorkerPlaces, job : JobOrNone]
    BY <1>1
  <1> DEFINE d == [worker[w] EXCEPT !.at = to]
  <1>4. d \in [at : WorkerPlaces, job : JobOrNone] /\ d.at = to /\ d.job = worker[w].job
    BY <1>2, <1>3
  <1>5. worker' = [worker EXCEPT ![w] = d]
    OBVIOUS
  <1> HIDE DEF d
  <1>6. QED
    BY <1>1, <1>4, <1>5

(* The database thread changes its place alone. *)
LEMMA DbGoes ==
  ASSUME TypeOK, NEW to \in DbPlaces, db' = [db EXCEPT !.at = to]
  PROVE  /\ db' \in [at : DbPlaces, job : JobOrNone] /\ db'.at = to /\ db'.job = db.job
  <1>1. db \in [at : DbPlaces, job : JobOrNone]
    BY DEF TypeOK, DbType
  <1>2. \A c \in [at : DbPlaces, job : JobOrNone] :
          LET d == [c EXCEPT !.at = to]
          IN  d \in [at : DbPlaces, job : JobOrNone] /\ d.at = to /\ d.job = c.job
    OBVIOUS
  <1>3. QED
    BY <1>1, <1>2

(* What an action leaves alone keeps its type. *)
LEMMA TypesKept ==
  ASSUME TypeOK
  PROVE  /\ UNCHANGED mainVars => MainType'
         /\ UNCHANGED dbVars => DbType'
         /\ UNCHANGED poolVars => QueueType'
         /\ UNCHANGED worker => WorkerType'
         /\ UNCHANGED flags => FlagType'
         /\ UNCHANGED <<finished, entries, inbox>> => DataType'
  <1>1. UNCHANGED mainVars => MainType'
    <2> SUFFICES ASSUME UNCHANGED mainVars PROVE MainType'
      OBVIOUS
    <2>1. /\ mode' = mode /\ step' = step /\ todo' = todo /\ flagged' = flagged
          /\ mutex' = mutex /\ group' = group
      BY DEF mainVars
    <2>2. Doing' = Doing
      BY <2>1 DEF Doing
    <2>3. QED
      BY <2>1, <2>2 DEF TypeOK, MainType
  <1>2. UNCHANGED dbVars => DbType'
    BY DEF TypeOK, DbType, dbVars, DbOK
  <1>3. UNCHANGED poolVars => QueueType'
    BY DEF TypeOK, QueueType, poolVars
  <1>4. UNCHANGED worker => WorkerType'
    BY DEF TypeOK, WorkerType, WorkerOK
  <1>5. UNCHANGED flags => FlagType'
    BY DEF TypeOK, FlagType, flags
  <1>6. UNCHANGED <<finished, entries, inbox>> => DataType'
    BY DEF TypeOK, DataType
  <1>7. QED
    BY <1>1, <1>2, <1>3, <1>4, <1>5, <1>6

(* A set of scales has a lowest member, and Min finds it.                  *)
LEMMA LowestScale ==
  ASSUME NEW S, S \subseteq Nat, S # {}
  PROVE  Min(S) \in S /\ \A n \in S : Min(S) <= n
  <1> DEFINE R == StrictSubsetOrdering(Int)
             T == {0 .. n : n \in S}
  <1>0. S \subseteq Int
    OBVIOUS
  <1>1. T # {} /\ T \subseteq FiniteSubsetsOf(Int)
    <2>1. \A n \in S : IsFiniteSet(0 .. n) /\ (0 .. n) \subseteq Int
      BY <1>0, FS_Interval
    <2>2. QED
      BY <2>1 DEF FiniteSubsetsOf
  <1>2. IsWellFoundedOn(R, FiniteSubsetsOf(Int))
    BY FS_StrictSubsetOrderingWellFounded
  <1> HIDE DEF R, T
  <1>3. PICK x \in T : \A y \in T : ~(<<y, x>> \in R)
    BY ONLY <1>1, <1>2, WFMin
  <1>4. PICK m \in S : x = 0 .. m
    BY <1>3 DEF T
  <1>5. ASSUME NEW n \in S, ~(m <= n) PROVE FALSE
    <2>1. 0 .. n \in T
      BY DEF T
    <2>2. (0 .. n) \subseteq (0 .. m) /\ m \in (0 .. m) /\ m \notin (0 .. n)
      BY <1>0, <1>5
    <2>3. (0 .. n) \in SUBSET Int /\ (0 .. m) \in SUBSET Int
      OBVIOUS
    <2>4. <<0 .. n, 0 .. m>> \in R
      BY <2>2, <2>3 DEF R, StrictSubsetOrdering
    <2>5. QED
      BY <1>3, <1>4, <2>1, <2>4
  <1>6. \E k \in S : \A n \in S : k <= n
    BY <1>5
  <1>7. QED
    BY ONLY <1>6 DEF Min

(* get_min_max_scale(): the lowest scale of what is stored, if any is.     *)
LEMMA LooksForLowest ==
  ASSUME NEW f \in Files
  PROVE  /\ LowestStored(f) \in Nat \cup {-1}
         /\ LowestStored(f) # -1 =>
              LowestStored(f) \in 0 .. Thumbnail[f] /\ <<f, LowestStored(f)>> \in tiles
         /\ \A s \in 0 .. Thumbnail[f] : <<f, s>> \in tiles => LowestStored(f) \in 0 .. s
  <1> DEFINE S == {s \in 0 .. Thumbnail[f] : <<f, s>> \in tiles}
  <1>1. Thumbnail[f] \in Nat
    BY ModesAssumption
  <1>2. S \subseteq 0 .. Thumbnail[f] /\ S \subseteq Nat /\ \A s \in S : <<f, s>> \in tiles
    BY <1>1
  <1>3. \A s \in 0 .. Thumbnail[f] : <<f, s>> \in tiles => s \in S
    OBVIOUS
  <1>4. LowestStored(f) = IF S = {} THEN -1 ELSE Min(S)
    BY DEF LowestStored
  <1> HIDE DEF S
  <1>5. CASE S = {}
    BY <1>3, <1>4, <1>5
  <1>6. CASE S # {}
    <2>1. Min(S) \in S /\ \A n \in S : Min(S) <= n
      BY <1>2, <1>6, LowestScale
    <2>2. LowestStored(f) = Min(S)
      BY <1>4, <1>6
    <2>3. PICK m \in S : m = LowestStored(f)
      BY <2>1, <2>2
    <2>4. m \in 0 .. Thumbnail[f] /\ m \in Nat /\ <<f, m>> \in tiles /\ \A n \in S : m <= n
      BY <1>2, <2>1, <2>2, <2>3
    <2>5. QED
      BY <1>1, <1>3, <2>3, <2>4
  <1>7. QED
    BY <1>5, <1>6

(* request() wakes a worker at most, which holds no job then. *)
LEMMA Handed ==
  ASSUME TypeOK, NEW j \in JobType, Hand(j)
  PROVE  /\ QueueType' /\ WorkerType' /\ scale' = scale
         /\ \A w \in Workers : Range(queue'[w]) \subseteq Range(queue[w]) \cup {j}
         /\ \A w \in Workers : worker'[w] = worker[w] \/ worker'[w].at = "look"
  <1>1. /\ queue \in [Workers -> Seq(JobType)] /\ next_thread \in Workers
        /\ queue' = [queue EXCEPT ![next_thread] = Append(@, j)]
        /\ next_thread' = (next_thread % NumThreads) + 1
        /\ scale' = scale /\ scale \in [Workers -> Nat]
    BY DEF TypeOK, QueueType, Hand
  <1>2. queue[next_thread] \in Seq(JobType)
    BY <1>1
  <1>3. /\ Append(queue[next_thread], j) \in Seq(JobType)
        /\ Range(Append(queue[next_thread], j)) = Range(queue[next_thread]) \cup {j}
    BY <1>2, Added
  <1>4. /\ QueueType' /\ scale' = scale
        /\ \A w \in Workers : Range(queue'[w]) \subseteq Range(queue[w]) \cup {j}
    BY <1>1, <1>3, Counted DEF QueueType
  <1>5. CASE worker' = worker
    BY <1>4, <1>5, TypesKept
  <1>6. CASE worker' = [worker EXCEPT ![next_thread].at = "look"]
    <2>1. /\ worker' \in [Workers -> [at : WorkerPlaces, job : JobOrNone]]
          /\ worker'[next_thread].at = "look"
          /\ \A v \in Workers : v # next_thread => worker'[v] = worker[v]
      BY <1>1, <1>6, WorkerGoes DEF WorkerPlaces
    <2>2. WorkerType'
      BY <2>1 DEF TypeOK, WorkerType, WorkerOK
    <2>3. QED
      BY <1>4, <2>1, <2>2
  <1>7. QED
    BY <1>5, <1>6 DEF Hand

-----------------------------------------------------------------------------
(* What keeps the parts of the invariant *)

(* Nothing becomes unsent, no entry is added and no worker gets a job to announce. *)
LEMMA EarlyKept ==
  ASSUME EarlyOnce, FinishedOnce, step' = 3 => IsInjective(todo'),
         \A f \in Files : Unsent(f)' => Unsent(f),
         requests' = requests, entries' = entries,
         \A f \in Files : InDb(f)' => InDb(f),
         \A f \in Files : InPool(f)' => InPool(f),
         \A f \in Files : Entry(f) \in finished' => Entry(f) \in finished
  PROVE  EarlyOnce' /\ FinishedOnce'
  <1>1. \A f \in Files : Requested(f)' <=> Requested(f)
    BY DEF Requested, Entry, Job
  <1>2. \A f \in Files : Early(f)' => Early(f)
    BY <1>1 DEF Early
  <1>3. EarlyOnce'
    BY <1>1 DEF EarlyOnce
  <1>4. FinishedOnce'
    BY <1>2 DEF FinishedOnce, Entry, Job
  <1>5. QED
    BY <1>3, <1>4

(* thumbgen asks for at least the scale of the thumbnail. *)
LEMMA Asked == \A f \in Files : Thumbnail[f] \in Nat /\ FirstScale(f) \in 0 .. Thumbnail[f]
  BY ModesAssumption DEF FirstScale, Greater

(* What is stored or queued stays so, unless the database thread looks for *)
(* the lowest scale.                                                       *)
LEMMA StaysCut ==
  ASSUME lowest' = lowest, tiles \subseteq tiles',
         \A f \in Files, s \in Nat : Cut(f, s) => Cut(f, s)'
  PROVE  CutStays
  <1>1. \A f \in Files : AllCut(f) => AllCut(f)'
    <2> SUFFICES ASSUME NEW f \in Files, AllCut(f),
                        NEW s \in FirstScale(f) .. Thumbnail[f]
                 PROVE  Cut(f, s)' \/ lowest'[f] \in 0 .. s
      BY DEF AllCut
    <2>1. s \in Nat
      BY Asked
    <2>2. QED
      BY <2>1 DEF AllCut
  <1>2. \A f \in Files, n \in Nat : CutBelow(f, n) => CutBelow(f, n)'
    <2> SUFFICES ASSUME NEW f \in Files, NEW n \in Nat, CutBelow(f, n),
                        NEW s \in FirstScale(f) .. n - 1
                 PROVE  Cut(f, s)'
      BY DEF CutBelow
    <2>1. s \in Nat
      BY Asked
    <2>2. QED
      BY <2>1 DEF CutBelow
  <1>3. LowestIsStored => LowestIsStored'
    BY DEF LowestIsStored
  <1>4. QED
    BY <1>1, <1>2, <1>3 DEF CutStays

(* Most steps touch neither the tiles nor what is on its way to them. *)
LEMMA NothingCut ==
  ASSUME UNCHANGED <<tiles, inbox, lowest>>
  PROVE  CutStays
  <1>1. \A f \in Files, s \in Nat : Cut(f, s) => Cut(f, s)'
    BY DEF Cut, Message
  <1>2. QED
    BY <1>1, StaysCut

(* No job of tiles is finished, and what is cut stays cut. *)
LEMMA CutKept ==
  ASSUME FinishedCut, CutStays,
         \A f \in Files : Job("tiles", f) \in finished' => Job("tiles", f) \in finished,
         \A w \in Workers : worker'[w].at \in {"cut", "finish"} =>
                              worker'[w] = worker[w] /\ scale'[w] = scale[w]
  PROVE  FinishedCut'
  <1>1. \A f \in Files : Job("tiles", f)' \in finished' => AllCut(f)'
    BY DEF FinishedCut, CutStays, Job
  <1>2. \A w \in Workers : WorkerCut(w)'
    BY DEF FinishedCut, CutStays, WorkerCut
  <1>3. LowestIsStored'
    BY DEF FinishedCut, CutStays
  <1>4. QED
    BY <1>1, <1>2, <1>3 DEF FinishedCut

(* main() stays where it is; handles only become finished. *)
LEMMA AwaitedKept ==
  ASSUME Awaited, step' = step, todo' = todo, group' = group, finished \subseteq finished'
  PROVE  Awaited'
  BY DEF Awaited, Entry, Job

(* A worker goes on, without a call to the others: the vector, the handles *)
(* and main() are not concerned.                                           *)
LEMMA WorkerAlone ==
  ASSUME IInv, TypeOK', UNCHANGED <<mainVars, dbVars, flags, finished, entries>>,
         NEW w \in Workers,
         inbox' = inbox \/ \E m \in Messages : inbox' = Append(inbox, m),
         \A f \in Files : InPool(f)' => InPool(f),
         \A v \in Workers : v # w => worker'[v] = worker[v] /\ scale'[v] = scale[v],
         mode = "thumbgen" => WorkerCut(w)'
  PROVE  IInv'
  <1> SUFFICES ASSUME mode = "thumbgen" PROVE ThumbgenInv'
    BY DEF IInv, mainVars
  <1>1. EarlyOnce /\ FinishedOnce /\ FinishedCut /\ Awaited /\ TypeOK
    BY DEF IInv, ThumbgenInv
  <1>2. /\ mode' = mode /\ step' = step /\ todo' = todo /\ group' = group
        /\ db' = db /\ requests' = requests /\ tiles' = tiles /\ lowest' = lowest
        /\ finished' = finished /\ entries' = entries
    BY DEF mainVars, dbVars
  <1>3. EarlyOnce' /\ FinishedOnce'
    <2>1. \A f \in Files : Unsent(f)' => Unsent(f)
      BY <1>2 DEF Unsent
    <2>2. \A f \in Files : InDb(f)' => InDb(f)
      BY <1>2 DEF InDb, Entry, Job
    <2>3. step' = 3 => IsInjective(todo')
      BY <1>1, <1>2 DEF EarlyOnce
    <2>4. QED
      BY <1>1, <1>2, <2>1, <2>2, <2>3, EarlyKept
  <1>4. Awaited'
    BY <1>1, <1>2, AwaitedKept
  <1>5. Range(inbox) \subseteq Range(inbox')
    <2>1. inbox \in Seq(Messages)
      BY <1>1 DEF TypeOK, DataType
    <2>2. \A m \in Messages : Range(Append(inbox, m)) = Range(inbox) \cup {m}
      BY <2>1, Added
    <2>3. QED
      BY <2>2
  <1>6. CutStays
    <2>1. \A f \in Files, s \in Nat : Cut(f, s) => Cut(f, s)'
      BY <1>2, <1>5 DEF Cut, Message
    <2>2. QED
      BY <1>2, <2>1, StaysCut
  <1>7. FinishedCut'
    <2>1. \A f \in Files : (Job("tiles", f) \in finished)' => AllCut(f)'
      BY <1>1, <1>2, <1>6 DEF FinishedCut, CutStays, Job
    <2>2. \A v \in Workers : v # w => WorkerCut(v)'
      BY <1>1, <1>6 DEF FinishedCut, CutStays, WorkerCut
    <2>3. LowestIsStored'
      BY <1>1, <1>6 DEF FinishedCut, CutStays
    <2>4. QED
      BY <2>1, <2>2, <2>3 DEF FinishedCut
  <1>8. QED
    BY <1>3, <1>4, <1>7 DEF ThumbgenInv

-----------------------------------------------------------------------------
(* The workers *)

(* One worker changes, to a place with the right job in hand. *)
LEMMA WorkerTyped ==
  ASSUME TypeOK, NEW w \in Workers,
         worker' \in [Workers -> [at : WorkerPlaces, job : JobOrNone]],
         \A v \in Workers : v # w => worker'[v] = worker[v],
         WorkerOK(w)'
  PROVE  WorkerType'
  BY DEF TypeOK, WorkerType, WorkerOK

(* A worker that goes from one place to another has what it had. *)
LEMMA PoolShrinks ==
  ASSUME NEW w \in Workers, queue' = queue, worker'[w].job = worker[w].job,
         \A v \in Workers : v # w => worker'[v] = worker[v],
         worker'[w].at \in {"entry", "append"} => worker[w].at \in {"entry", "append"}
  PROVE  \A f \in Files : InPool(f)' => InPool(f)
  BY DEF InPool, Entry, Job

(* A step of a worker from one place to another, by itself. *)
LEMMA Moved ==
  ASSUME IInv, NEW w \in Workers, NEW from, NEW to \in WorkerPlaces, Goto(w, from, to),
         OnlyWorker,
         to \in {"entry", "append"} => from \in {"entry", "append"},
         to = "file" => from \in {"entry", "append"},
         to \notin {"tile", "tiles", "cut", "finish"}
  PROVE  IInv'
  <1>1. TypeOK
    BY DEF IInv
  <1>2. worker[w].at = from /\ worker' = [worker EXCEPT ![w].at = to]
    BY DEF Goto
  <1>3. /\ worker' \in [Workers -> [at : WorkerPlaces, job : JobOrNone]]
        /\ worker'[w].at = to /\ worker'[w].job = worker[w].job
        /\ \A v \in Workers : v # w => worker'[v] = worker[v]
    BY <1>1, <1>2, WorkerGoes
  <1>4. UNCHANGED <<mainVars, dbVars, poolVars, flags, finished, entries, inbox>>
    BY DEF OnlyWorker
  <1>5. WorkerType'
    <2>1. WorkerOK(w)
      BY <1>1 DEF TypeOK, WorkerType
    <2>2. WorkerOK(w)'
      BY <1>2, <1>3, <2>1 DEF WorkerOK
    <2>3. QED
      BY <1>1, <1>3, <2>2, WorkerTyped
  <1>6. TypeOK'
    BY <1>1, <1>4, <1>5, TypesKept DEF TypeOK
  <1>7. \A f \in Files : InPool(f)' => InPool(f)
    BY <1>2, <1>3, <1>4, PoolShrinks DEF poolVars
  <1>8. WorkerCut(w)' /\ scale' = scale
    BY <1>3, <1>4 DEF WorkerCut, poolVars
  <1>9. inbox' = inbox /\ UNCHANGED <<mainVars, dbVars, flags, finished, entries>>
    BY <1>4
  <1>10. QED
    BY <1>3, <1>6, <1>7, <1>8, <1>9, WorkerAlone

(* The worker's tests of its flags and its way to sleep and back. *)
LEMMA ControlStep ==
  ASSUME IInv, NEW w \in Workers, Control(w)
  PROVE  IInv'
  <1>1. PICK from \in {"test", "look", "commit", "inner"},
             to \in {"exited", "look", "inner", "commit", "asleep", "test", "pop"} :
          Goto(w, from, to)
    BY DEF Control
  <1>2. OnlyWorker
    BY DEF Control
  <1>3. to \in WorkerPlaces
    BY DEF WorkerPlaces
  <1>4. QED
    BY <1>1, <1>2, <1>3, Moved

(* An exception ends the job. *)
LEMMA FailStep ==
  ASSUME IInv, NEW w \in Workers, Fail(w)
  PROVE  IInv'
  <1>1. Goto(w, worker[w].at, "inner") /\ OnlyWorker /\ "inner" \in WorkerPlaces
    BY DEF Fail, WorkerPlaces
  <1>2. PICK from : from = worker[w].at
    OBVIOUS
  <1>3. QED
    BY <1>1, <1>2, Moved

(* The callback with the new entry is called, or there is none. *)
LEMMA AnnounceStep ==
  ASSUME IInv, NEW w \in Workers, Announce(w)
  PROVE  IInv'
  <1>1. PICK to \in {"append", "file"} : Goto(w, "entry", to)
    BY DEF Announce
  <1>2. OnlyWorker /\ to \in WorkerPlaces
    BY DEF Announce, WorkerPlaces
  <1>3. QED
    BY <1>1, <1>2, Moved

(* The job of galapix test. *)
LEMMA RunTestStep ==
  ASSUME IInv, NEW w \in Workers, RunTest(w)
  PROVE  IInv'
  BY Moved DEF RunTest, WorkerPlaces

(* try_pop(): the job moves from the queue to the worker. *)
LEMMA PopStep ==
  ASSUME IInv, NEW w \in Workers, Pop(w)
  PROVE  IInv'
  <1>1. TypeOK
    BY DEF IInv
  <1>2. CASE queue[w] = <<>>
    <2>1. Goto(w, "pop", "test") /\ OnlyWorker /\ "test" \in WorkerPlaces
      BY <1>2 DEF Pop, OnlyWorker, poolVars, WorkerPlaces
    <2>2. QED
      BY <2>1, Moved
  <1>3. CASE queue[w] # <<>>
    <2>1. /\ worker' = [worker EXCEPT ![w] = [at |-> Head(queue[w]).kind, job |-> Head(queue[w])]]
          /\ queue' = [queue EXCEPT ![w] = Tail(@)]
          /\ UNCHANGED <<mainVars, dbVars, next_thread, scale, flags, finished, entries, inbox>>
      BY <1>3 DEF Pop
    <2>2. queue \in [Workers -> Seq(JobType)] /\ next_thread \in Workers
          /\ worker \in [Workers -> [at : WorkerPlaces, job : JobOrNone]]
      BY <1>1 DEF TypeOK, QueueType, WorkerType
    <2>3. queue[w] \in Seq(JobType)
      BY <2>2
    <2>4. /\ Head(queue[w]) \in JobType /\ Tail(queue[w]) \in Seq(JobType)
          /\ Range(queue[w]) = {Head(queue[w])} \cup Range(Tail(queue[w]))
      BY <1>3, <2>3, Shortened
    <2>5. PICK j \in JobType : j = Head(queue[w])
      BY <2>4
    <2>6. j.kind \in JobKinds /\ j.kind \in WorkerPlaces
      BY JobsApart DEF JobKinds, WorkerPlaces
    <2>7. /\ worker' \in [Workers -> [at : WorkerPlaces, job : JobOrNone]]
          /\ worker'[w].at = j.kind /\ worker'[w].job = j
          /\ \A v \in Workers : v # w => worker'[v] = worker[v]
      <3> DEFINE c == [at |-> j.kind, job |-> j]
      <3>1. c \in [at : WorkerPlaces, job : JobOrNone] /\ c.at = j.kind /\ c.job = j
        BY <2>6 DEF JobOrNone
      <3>2. worker' = [worker EXCEPT ![w] = c]
        BY <2>1, <2>5
      <3> HIDE DEF c
      <3>3. QED
        BY <2>2, <3>1, <3>2
    <2>8. /\ queue' \in [Workers -> Seq(JobType)]
          /\ queue'[w] = Tail(queue[w])
          /\ \A v \in Workers : v # w => queue'[v] = queue[v]
      BY <2>1, <2>2, <2>4
    <2>9. TypeOK'
      <3>1. WorkerOK(w)'
        BY <2>6, <2>7 DEF WorkerOK, JobKinds
      <3>2. WorkerType'
        BY <1>1, <2>7, <3>1, WorkerTyped
      <3>3. QueueType'
        BY <1>1, <2>1, <2>2, <2>8 DEF TypeOK, QueueType
      <3>4. QED
        BY <1>1, <2>1, <3>2, <3>3, TypesKept DEF TypeOK
    <2>10. \A f \in Files : InPool(f)' => InPool(f)
      <3> TAKE f \in Files
      <3>1. \A v \in Workers : Range(queue'[v]) \subseteq Range(queue[v])
        BY <2>4, <2>8
      <3>2. worker'[w].job = Entry(f) => Entry(f) \in Range(queue[w])
        BY <2>4, <2>5, <2>7
      <3>3. PICK e : e = Entry(f)
        OBVIOUS
      <3>4. Entry(f)' = e
        BY <3>3 DEF Entry, Job
      <3>5. QED
        BY <2>7, <3>1, <3>2, <3>3, <3>4 DEF InPool
    <2>11. WorkerCut(w)' /\ scale' = scale
      BY <2>1, <2>6, <2>7 DEF JobKinds, WorkerCut
    <2>12. inbox' = inbox /\ UNCHANGED <<mainVars, dbVars, flags, finished, entries>>
      BY <2>1
    <2>13. QED
      BY <2>7, <2>9, <2>10, <2>11, <2>12, WorkerAlone
  <1>4. QED
    BY <1>2, <1>3

(* A worker that cuts, or begins to: it keeps its job, and only what it    *)
(* gives away and its scale change.                                        *)
LEMMA Cutting ==
  ASSUME IInv, NEW w \in Workers,
         UNCHANGED <<mainVars, dbVars, queue, next_thread, flags, finished, entries>>,
         inbox' = inbox \/ \E m \in Messages : inbox' = Append(inbox, m),
         scale' \in [Workers -> Nat],
         worker' \in [Workers -> [at : WorkerPlaces, job : JobOrNone]],
         worker'[w].job = worker[w].job, worker'[w].at \notin {"entry", "append"},
         \A v \in Workers : v # w => worker'[v] = worker[v] /\ scale'[v] = scale[v],
         WorkerOK(w)',
         mode = "thumbgen" => WorkerCut(w)'
  PROVE  IInv'
  <1>1. TypeOK
    BY DEF IInv
  <1>2. QueueType' /\ WorkerType' /\ DataType'
    <2>1. QueueType'
      BY <1>1 DEF TypeOK, QueueType
    <2>2. WorkerType'
      BY <1>1, WorkerTyped
    <2>3. inbox \in Seq(Messages)
      BY <1>1 DEF TypeOK, DataType
    <2>4. inbox' \in Seq(Messages)
      BY <2>3, Added
    <2>5. DataType'
      BY <1>1, <2>4 DEF TypeOK, DataType
    <2>6. QED
      BY <2>1, <2>2, <2>5
  <1>3. TypeOK'
    BY <1>1, <1>2, TypesKept DEF TypeOK
  <1>4. \A f \in Files : InPool(f)' => InPool(f)
    BY PoolShrinks
  <1>5. QED
    BY <1>3, <1>4, WorkerAlone

(* receive_file(): the tiles come next. *)
LEMMA DeliverFileStep ==
  ASSUME IInv, NEW w \in Workers, DeliverFile(w)
  PROVE  IInv'
  <1>1. TypeOK
    BY DEF IInv
  <1>2. PICK s \in EntryScales(worker[w].job.file) : scale' = [scale EXCEPT ![w] = s]
    BY DEF DeliverFile
  <1>3. /\ worker[w].at = "file" /\ worker' = [worker EXCEPT ![w].at = "tile"]
        /\ inbox' = Append(inbox, Message("file", worker[w].job.file, 0))
        /\ UNCHANGED <<mainVars, dbVars, queue, next_thread, flags, finished, entries>>
    BY DEF DeliverFile, Goto, Push, OnlyWorkerAndInbox
  <1>4. /\ worker' \in [Workers -> [at : WorkerPlaces, job : JobOrNone]]
        /\ worker'[w].at = "tile" /\ worker'[w].job = worker[w].job
        /\ \A v \in Workers : v # w => worker'[v] = worker[v]
    BY <1>1, <1>3, WorkerGoes DEF WorkerPlaces
  <1>5. WorkerOK(w) /\ scale \in [Workers -> Nat]
    BY <1>1 DEF TypeOK, WorkerType, QueueType
  <1>6. worker[w].job.file \in Files
    BY <1>3, <1>5, JobsApart DEF WorkerOK
  <1>7. s \in Nat
    BY <1>6, Asked DEF EntryScales, Greater, Lesser
  <1>8. \E m \in Messages : inbox' = Append(inbox, m)
    BY <1>3, <1>6 DEF Message, Messages
  <1>9. scale' \in [Workers -> Nat] /\ \A v \in Workers : v # w => scale'[v] = scale[v]
    BY <1>2, <1>5, <1>7
  <1>10. WorkerOK(w)'
    BY <1>3, <1>4, <1>5 DEF WorkerOK
  <1>11. WorkerCut(w)'
    BY <1>4 DEF WorkerCut
  <1>12. QED
    BY <1>3, <1>4, <1>8, <1>9, <1>10, <1>11, Cutting

(* A tile of the job's file is cut: the next is of the next scale, or it   *)
(* was the last that the database has not.                                 *)
LEMMA TileCut ==
  ASSUME TypeOK, LowestIsStored, NEW w \in Workers, NEW f \in Files, f = worker[w].job.file,
         worker[w].job.kind = "tiles", NEW n \in Nat, CutBelow(f, n), lowest' = lowest,
         \A s \in Nat : Cut(f, s) => Cut(f, s)', Cut(f, n)'
  PROVE  /\ CutBelow(f, n + 1)'
         /\ ~(n < LastScale(worker[w].job)) => AllCut(f)'
  <1>1. FirstScale(f) \in Nat /\ Thumbnail[f] \in Nat /\ lowest[f] \in Nat \cup {-1}
    BY Asked DEF TypeOK, DbType
  <1>2. \A s \in FirstScale(f) .. n : Cut(f, s)'
    <2> SUFFICES ASSUME NEW s \in FirstScale(f) .. n PROVE Cut(f, s)'
      OBVIOUS
    <2>1. CASE s = n
      BY <2>1
    <2>2. CASE s # n
      <3>1. s \in Nat /\ s \in FirstScale(f) .. n - 1
        BY <1>1, <2>2
      <3>2. Cut(f, s)
        BY <3>1 DEF CutBelow
      <3>3. QED
        BY <3>1, <3>2
    <2>3. QED
      BY <2>1, <2>2
  <1>3. ASSUME ~(n < LastScale(worker[w].job)),
               NEW s \in FirstScale(f) .. Thumbnail[f]
        PROVE  Cut(f, s)' \/ lowest'[f] \in 0 .. s
    <2>1. CASE s <= n
      BY <1>1, <1>2, <2>1
    <2>2. CASE s > n
      <3>1. LastScale(worker[w].job) =
              IF lowest[f] = -1 THEN Thumbnail[f] ELSE Lesser(Thumbnail[f], lowest[f] - 1)
        BY DEF LastScale
      <3>2. lowest[f] \in 0 .. s
        BY <1>1, <1>3, <2>2, <3>1 DEF Lesser
      <3>3. QED
        BY <3>2
    <2>3. QED
      BY <1>1, <2>1, <2>2
  <1>4. CutBelow(f, n + 1)'
    <2>1. \A s \in FirstScale(f) .. (n + 1) - 1 : s \in FirstScale(f) .. n
      BY <1>1
    <2>2. QED
      BY <1>2, <2>1 DEF CutBelow
  <1>5. QED
    BY <1>3, <1>4 DEF AllCut

(* receive_tile() *)
LEMMA DeliverTileStep ==
  ASSUME IInv, NEW w \in Workers, NEW from, NEW to, DeliverTile(w, from, to),
         <<from, to>> \in {<<"tile", "inner">>, <<"cut", "finish">>}
  PROVE  IInv'
  <1>1. TypeOK
    BY DEF IInv
  <1>2. /\ worker[w].at = from
        /\ inbox' = Append(inbox, Message("tile", worker[w].job.file, scale[w]))
        /\ UNCHANGED <<mainVars, dbVars, queue, next_thread, flags, finished, entries>>
        /\ IF scale[w] < LastScale(worker[w].job)
             THEN scale' = [scale EXCEPT ![w] = @ + 1] /\ worker' = worker
             ELSE worker' = [worker EXCEPT ![w].at = to] /\ scale' = scale
    BY DEF DeliverTile, Goto, Push, OnlyWorkerAndInbox
  <1>3. from \in {"tile", "cut"} /\ to \in {"inner", "finish"} /\ (to = "finish" <=> from = "cut")
    OBVIOUS
  <1>4. /\ WorkerOK(w) /\ scale \in [Workers -> Nat] /\ inbox \in Seq(Messages)
        /\ worker \in [Workers -> [at : WorkerPlaces, job : JobOrNone]]
    BY <1>1 DEF TypeOK, WorkerType, QueueType, DataType
  <1>5. worker[w].job.file \in Files /\ (from = "cut" => worker[w].job.kind = "tiles")
    BY <1>2, <1>3, <1>4, JobsApart DEF WorkerOK
  <1>6. PICK f \in Files, n \in Nat : f = worker[w].job.file /\ n = scale[w]
    BY <1>4, <1>5
  <1>7. Message("tile", f, n) \in Messages /\ inbox' = Append(inbox, Message("tile", f, n))
    BY <1>2, <1>6 DEF Message, Messages
  <1>8. /\ worker' \in [Workers -> [at : WorkerPlaces, job : JobOrNone]]
        /\ worker'[w].job = worker[w].job
        /\ \A v \in Workers : v # w => worker'[v] = worker[v]
        /\ \/ worker'[w].at = from /\ scale'[w] = n + 1
           \/ worker'[w].at = to /\ ~(scale[w] < LastScale(worker[w].job))
        /\ scale' \in [Workers -> Nat] /\ \A v \in Workers : v # w => scale'[v] = scale[v]
    <2>1. CASE scale[w] < LastScale(worker[w].job)
      <3>1. scale' = [scale EXCEPT ![w] = n + 1] /\ worker' = worker
        BY <1>2, <1>6, <2>1
      <3>2. QED
        BY <1>2, <1>4, <3>1
    <2>2. CASE ~(scale[w] < LastScale(worker[w].job))
      <3>1. scale' = scale /\ worker' = [worker EXCEPT ![w].at = to] /\ to \in WorkerPlaces
        BY <1>2, <1>3, <2>2 DEF WorkerPlaces
      <3>2. /\ worker' \in [Workers -> [at : WorkerPlaces, job : JobOrNone]]
            /\ worker'[w].at = to /\ worker'[w].job = worker[w].job
            /\ \A v \in Workers : v # w => worker'[v] = worker[v]
        BY <1>1, <3>1, WorkerGoes
      <3>3. QED
        BY <1>4, <2>2, <3>1, <3>2
    <2>3. QED
      BY <2>1, <2>2
  <1>9. WorkerOK(w)'
    BY <1>2, <1>3, <1>4, <1>8 DEF WorkerOK
  <1>10. worker'[w].at \notin {"entry", "append"}
    BY <1>3, <1>8
  <1>11. ASSUME mode = "thumbgen" PROVE WorkerCut(w)'
    <2>1. CASE from = "tile"
      BY <1>3, <1>8, <2>1 DEF WorkerCut
    <2>2. CASE from = "cut"
      <3>1. LowestIsStored /\ CutBelow(f, n)
        BY <1>2, <1>6, <1>11, <2>2 DEF IInv, ThumbgenInv, FinishedCut, WorkerCut
      <3>2. tiles' = tiles /\ lowest' = lowest
            /\ Range(inbox') = Range(inbox) \cup {Message("tile", f, n)}
        BY <1>2, <1>4, <1>7, Added DEF dbVars
      <3>3. (\A s \in Nat : Cut(f, s) => Cut(f, s)') /\ Cut(f, n)'
        BY <3>2 DEF Cut, Message
      <3>4. /\ CutBelow(f, n + 1)'
            /\ ~(n < LastScale(worker[w].job)) => AllCut(f)'
        BY <1>1, <1>5, <1>6, <2>2, <3>1, <3>2, <3>3, TileCut
      <3>5. QED
        BY <1>3, <1>6, <1>8, <2>2, <3>4 DEF WorkerCut
    <2>3. QED
      BY <1>3, <2>1, <2>2
  <1>12. QED
    BY <1>2, <1>7, <1>8, <1>9, <1>10, <1>11, Cutting

(* The job of the thumbnail: it has scales to cut, or none. *)
LEMMA RunTilesStep ==
  ASSUME IInv, NEW w \in Workers, RunTiles(w)
  PROVE  IInv'
  <1>1. TypeOK
    BY DEF IInv
  <1>2. /\ WorkerOK(w) /\ scale \in [Workers -> Nat]
        /\ worker[w].at = "tiles" /\ inbox' = inbox
        /\ UNCHANGED <<mainVars, dbVars, queue, next_thread, flags, finished, entries>>
    BY <1>1 DEF RunTiles, TypeOK, WorkerType, QueueType
  <1>3. worker[w].job \in JobType /\ worker[w].job.kind = "tiles" /\ worker[w].job.file \in Files
    BY <1>2, JobsApart DEF WorkerOK
  <1>4. PICK f \in Files : f = worker[w].job.file
    BY <1>3
  <1>5. FirstScale(f) \in Nat /\ Thumbnail[f] \in Nat
    BY Asked
  <1>6. CASE NothingToCut(f)
    <2>1. worker' = [worker EXCEPT ![w].at = "finish"] /\ scale' = scale
      BY <1>4, <1>6 DEF RunTiles, Goto
    <2>2. /\ worker' \in [Workers -> [at : WorkerPlaces, job : JobOrNone]]
          /\ worker'[w].at = "finish" /\ worker'[w].job = worker[w].job
          /\ \A v \in Workers : v # w => worker'[v] = worker[v]
      BY <1>1, <2>1, WorkerGoes DEF WorkerPlaces
    <2>3. WorkerOK(w)'
      BY <1>3, <2>2 DEF WorkerOK
    <2>4. AllCut(f)'
      <3>1. lowest' = lowest /\ lowest[f] \in 0 .. FirstScale(f)
        BY <1>2, <1>6 DEF NothingToCut, dbVars
      <3>2. \A s \in FirstScale(f) .. Thumbnail[f] : lowest'[f] \in 0 .. s
        BY <1>5, <3>1
      <3>3. QED
        BY <3>2 DEF AllCut
    <2>5. WorkerCut(w)'
      BY <1>4, <2>2, <2>4 DEF WorkerCut
    <2>6. QED
      BY <1>2, <2>1, <2>2, <2>3, <2>5, Cutting
  <1>7. CASE ~NothingToCut(f)
    <2>1. worker' = [worker EXCEPT ![w].at = "cut"] /\ scale' = [scale EXCEPT ![w] = FirstScale(f)]
      BY <1>4, <1>7 DEF RunTiles, Goto
    <2>2. /\ worker' \in [Workers -> [at : WorkerPlaces, job : JobOrNone]]
          /\ worker'[w].at = "cut" /\ worker'[w].job = worker[w].job
          /\ \A v \in Workers : v # w => worker'[v] = worker[v]
      BY <1>1, <2>1, WorkerGoes DEF WorkerPlaces
    <2>3. WorkerOK(w)'
      BY <1>3, <2>2 DEF WorkerOK
    <2>4. /\ scale' \in [Workers -> Nat] /\ scale'[w] = FirstScale(f)
          /\ \A v \in Workers : v # w => scale'[v] = scale[v]
      BY <1>2, <1>5, <2>1
    <2>5. CutBelow(f, FirstScale(f))'
      BY <1>5 DEF CutBelow
    <2>6. PICK n \in Nat : n = FirstScale(f)
      BY <1>5
    <2>7. CutBelow(f, n)'
      BY <2>6, <1>5 DEF CutBelow
    <2>8. WorkerCut(w)'
      BY <1>4, <2>2, <2>4, <2>6, <2>7 DEF WorkerCut
    <2>9. QED
      BY <1>2, <2>2, <2>3, <2>4, <2>8, Cutting
  <1>8. QED
    BY <1>6, <1>7

(* The callback in the worker: its file is one the database thread will    *)
(* not find.                                                               *)
LEMMA WorkerAppendsStep ==
  ASSUME IInv, NEW w \in Workers, WorkerAppends(w)
  PROVE  IInv'
  <1>1. TypeOK
    BY DEF IInv
  <1>2. /\ worker[w].at = "append" /\ worker' = [worker EXCEPT ![w].at = "file"]
        /\ entries' = Append(entries, worker[w].job.file)
        /\ UNCHANGED <<mainVars, dbVars, poolVars, flags, finished, inbox>>
    BY DEF WorkerAppends, Goto
  <1>3. /\ worker' \in [Workers -> [at : WorkerPlaces, job : JobOrNone]]
        /\ worker'[w].at = "file" /\ worker'[w].job = worker[w].job
        /\ \A v \in Workers : v # w => worker'[v] = worker[v]
    BY <1>1, <1>2, WorkerGoes DEF WorkerPlaces
  <1>4. worker[w].job \in JobType /\ worker[w].job.kind = "entry" /\ worker[w].job.file \in Files
    BY <1>1, <1>2, JobsApart DEF TypeOK, WorkerType, WorkerOK
  <1>5. PICK g \in Files : g = worker[w].job.file
    BY <1>4
  <1>6. worker[w].job = Entry(g)
    BY <1>4, <1>5, JobsApart DEF Entry
  <1>7. /\ entries' \in Seq(Files) /\ Range(entries') = Range(entries) \cup {g}
        /\ DOMAIN entries' = 1 .. (Len(entries) + 1) /\ DOMAIN entries = 1 .. Len(entries)
        /\ Len(entries) \in Nat
        /\ \A i \in 1 .. Len(entries) : entries'[i] = entries[i]
        /\ entries'[Len(entries) + 1] = g
    <2>1. entries \in Seq(Files) /\ entries' = Append(entries, g)
      BY <1>1, <1>2, <1>5 DEF TypeOK, DataType
    <2>2. QED
      BY <2>1, Added
  <1>8. TypeOK'
    <2>1. WorkerOK(w)'
      BY <1>3, <1>4 DEF WorkerOK
    <2>2. WorkerType'
      BY <1>1, <1>3, <2>1, WorkerTyped
    <2>3. DataType'
      BY <1>1, <1>2, <1>7 DEF TypeOK, DataType
    <2>4. QED
      BY <1>1, <1>2, <2>2, <2>3, TypesKept DEF TypeOK
  <1> SUFFICES ASSUME mode = "thumbgen" PROVE ThumbgenInv'
    BY <1>2, <1>8 DEF IInv, mainVars
  <1>9. EarlyOnce /\ FinishedOnce /\ FinishedCut /\ Awaited
    BY DEF IInv, ThumbgenInv
  <1>10. /\ step' = step /\ todo' = todo /\ group' = group /\ db' = db /\ requests' = requests
         /\ tiles' = tiles /\ finished' = finished /\ inbox' = inbox /\ queue' = queue
         /\ lowest' = lowest /\ scale' = scale
    BY <1>2 DEF mainVars, dbVars, poolVars
  <1>11. \A f \in Files : /\ InPool(f)' => InPool(f)
                          /\ Early(f)' <=> Early(f)
                          /\ (Entry(f) \in finished)' <=> Entry(f) \in finished
    <2>1. \A f \in Files : InPool(f)' => InPool(f)
      BY <1>2, <1>3, <1>10, PoolShrinks
    <2>2. \A f \in Files : Early(f)' <=> Early(f)
      BY <1>10 DEF Early, Unsent, Requested, InDb, Entry, Job
    <2>3. \A f \in Files : (Entry(f) \in finished)' <=> Entry(f) \in finished
      BY <1>10 DEF Entry, Job
    <2>4. QED
      BY <2>1, <2>2, <2>3
  <1>12. EarlyOnce'
    BY <1>9, <1>10 DEF EarlyOnce, Unsent, Requested, InDb, Entry, Job
  <1>13. InPool(g) /\ ~Early(g) /\ Entry(g) \notin finished
    BY <1>2, <1>6, <1>9 DEF InPool, FinishedOnce
  <1>14. FinishedOnce'
    <2>1. \A f \in Files : InPool(f)' => ~Early(f)'
      BY <1>9, <1>11 DEF FinishedOnce
    <2>2. \A f \in Files : f \in Range(entries') => ~Early(f)'
      BY <1>7, <1>9, <1>11, <1>13 DEF FinishedOnce
    <2>3. ASSUME NEW f \in Files, Entry(f) \in finished
          PROVE  /\ ~Early(f)' /\ ~InPool(f)' /\ f \in Range(entries')
                 /\ \A i, k \in DOMAIN entries' : entries'[i] = f /\ entries'[k] = f => i = k
      <3>1. f # g
        BY <1>13, <2>3
      <3>2. \A i \in DOMAIN entries' : entries'[i] = f => i \in DOMAIN entries /\ entries[i] = f
        BY <1>7, <3>1
      <3>3. \A i, k \in DOMAIN entries : entries[i] = f /\ entries[k] = f => i = k
        BY <1>9, <2>3 DEF FinishedOnce
      <3>4. QED
        BY <1>7, <1>9, <1>11, <2>3, <3>2, <3>3 DEF FinishedOnce
    <2>4. QED
      BY <1>11, <2>1, <2>2, <2>3 DEF FinishedOnce
  <1>15. FinishedCut'
    <2>1. CutStays
      BY <1>10, NothingCut
    <2>2. \A v \in Workers : worker'[v].at \in {"cut", "finish"} =>
                               worker'[v] = worker[v] /\ scale'[v] = scale[v]
      BY <1>3, <1>10
    <2>3. \A f \in Files : Job("tiles", f) \in finished' => Job("tiles", f) \in finished
      BY <1>10
    <2>4. QED
      BY <1>9, <2>1, <2>2, <2>3, CutKept
  <1>16. Awaited'
    BY <1>9, <1>10, AwaitedKept
  <1>17. QED
    BY <1>12, <1>14, <1>15, <1>16 DEF ThumbgenInv

(* set_finished(), of thumbnails that have been cut. *)
LEMMA FinishStep ==
  ASSUME IInv, NEW w \in Workers, Finish(w)
  PROVE  IInv'
  <1>1. TypeOK
    BY DEF IInv
  <1>2. /\ worker[w].at = "finish" /\ worker' = [worker EXCEPT ![w].at = "inner"]
        /\ finished' = finished \cup {worker[w].job}
        /\ UNCHANGED <<mainVars, dbVars, poolVars, flags, entries, inbox>>
    BY DEF Finish, Goto
  <1>3. /\ worker' \in [Workers -> [at : WorkerPlaces, job : JobOrNone]]
        /\ worker'[w].at = "inner" /\ worker'[w].job = worker[w].job
        /\ \A v \in Workers : v # w => worker'[v] = worker[v]
    BY <1>1, <1>2, WorkerGoes DEF WorkerPlaces
  <1>4. worker[w].job \in JobType /\ worker[w].job.kind = "tiles" /\ worker[w].job.file \in Files
    BY <1>1, <1>2, JobsApart DEF TypeOK, WorkerType, WorkerOK
  <1>5. PICK g \in Files : worker[w].job = Job("tiles", g) /\ worker[w].job.file = g
    BY <1>4, JobsApart
  <1>6. TypeOK'
    <2>1. WorkerOK(w)'
      BY <1>3 DEF WorkerOK
    <2>2. WorkerType'
      BY <1>1, <1>3, <2>1, WorkerTyped
    <2>3. DataType'
      BY <1>1, <1>2, <1>4 DEF TypeOK, DataType
    <2>4. QED
      BY <1>1, <1>2, <2>2, <2>3, TypesKept DEF TypeOK
  <1> SUFFICES ASSUME mode = "thumbgen" PROVE ThumbgenInv'
    BY <1>2, <1>6 DEF IInv, mainVars
  <1>7. EarlyOnce /\ FinishedOnce /\ FinishedCut /\ Awaited
    BY DEF IInv, ThumbgenInv
  <1>8. /\ step' = step /\ todo' = todo /\ group' = group /\ db' = db /\ requests' = requests
        /\ tiles' = tiles /\ inbox' = inbox /\ queue' = queue /\ entries' = entries
        /\ lowest' = lowest /\ scale' = scale
    BY <1>2 DEF mainVars, dbVars, poolVars
  <1>9. EarlyOnce' /\ FinishedOnce'
    <2>1. \A f \in Files : InPool(f)' => InPool(f)
      BY <1>2, <1>3, <1>8, PoolShrinks
    <2>2. /\ \A f \in Files : Unsent(f)' => Unsent(f)
          /\ \A f \in Files : InDb(f)' => InDb(f)
          /\ step' = 3 => IsInjective(todo')
      BY <1>7, <1>8 DEF Unsent, InDb, Entry, Job, EarlyOnce
    <2>3. \A f \in Files : Entry(f) \in finished' => Entry(f) \in finished
      BY <1>2, <1>5, JobsApart
    <2>4. QED
      BY <1>7, <1>8, <2>1, <2>2, <2>3, EarlyKept
  <1>10. FinishedCut'
    <2>1. AllCut(g)
      <3>1. scale[w] \in Nat
        BY <1>1 DEF TypeOK, QueueType
      <3>2. QED
        BY <1>2, <1>5, <1>7, <3>1 DEF FinishedCut, WorkerCut
    <2>2. \A f \in Files : Job("tiles", f) \in finished' => Job("tiles", f) \in finished \/ f = g
      <3>1. \A f \in Files : Job("tiles", f) = Job("tiles", g) => f = g
        <4>1. \A f \in Files : Job("tiles", f).file = f
          BY DEF Job
        <4>2. QED
          BY ONLY <4>1, Zenon
      <3>2. QED
        BY <1>2, <1>5, <3>1
    <2>3. CutStays
      BY <1>8, NothingCut
    <2>4. \A f \in Files : (Job("tiles", f) \in finished)' => AllCut(f)'
      BY <1>7, <2>1, <2>2, <2>3 DEF FinishedCut, CutStays, Job
    <2>5. \A v \in Workers : WorkerCut(v)'
      BY <1>3, <1>7, <1>8, <2>3 DEF FinishedCut, CutStays, WorkerCut
    <2>6. LowestIsStored'
      BY <1>7, <2>3 DEF FinishedCut, CutStays
    <2>7. QED
      BY <2>4, <2>5, <2>6 DEF FinishedCut
  <1>11. Awaited'
    BY <1>2, <1>7, <1>8, AwaitedKept
  <1>12. QED
    BY <1>9, <1>10, <1>11 DEF ThumbgenInv

(* Every step of a worker keeps the invariant. *)
LEMMA WorkerStepOK ==
  ASSUME IInv, NEW w \in Workers, WorkerStep(w)
  PROVE  IInv'
  <1>1. CASE DeliverTile(w, "tile", "inner") \/ DeliverTile(w, "cut", "finish")
    BY <1>1, DeliverTileStep
  <1>2. CASE Control(w) \/ Pop(w) \/ Fail(w) \/ Announce(w) \/ WorkerAppends(w)
             \/ DeliverFile(w) \/ RunTiles(w) \/ Finish(w) \/ RunTest(w)
    BY <1>2, DeliverFileStep, ControlStep, PopStep, FailStep, AnnounceStep, WorkerAppendsStep, RunTilesStep,
       FinishStep, RunTestStep
  <1>3. QED
    BY <1>1, <1>2 DEF WorkerStep

-----------------------------------------------------------------------------
(* The database thread *)

(* When it does not touch the vector, the handles or the workers, the      *)
(* requests are still in one place.                                        *)
LEMMA DbAlone ==
  ASSUME IInv, TypeOK',
         UNCHANGED <<mainVars, poolVars, finished, entries, requests, worker>>,
         \A f \in Files : InDb(f)' => InDb(f),
         CutStays
  PROVE  IInv'
  <1> SUFFICES ASSUME mode = "thumbgen" PROVE ThumbgenInv'
    BY DEF IInv, mainVars
  <1>1. EarlyOnce /\ FinishedOnce /\ FinishedCut /\ Awaited /\ WorkerType
    BY DEF IInv, ThumbgenInv, TypeOK
  <1>2. /\ step' = step /\ todo' = todo /\ group' = group /\ queue' = queue /\ worker' = worker
        /\ finished' = finished /\ entries' = entries /\ requests' = requests
    BY DEF mainVars, poolVars
  <1>3. EarlyOnce' /\ FinishedOnce'
    <2>1. /\ \A f \in Files : InPool(f)' => InPool(f)
          /\ \A f \in Files : Unsent(f)' => Unsent(f)
          /\ step' = 3 => IsInjective(todo')
      BY <1>1, <1>2 DEF InPool, Unsent, Entry, Job, EarlyOnce
    <2>2. QED
      BY <1>1, <1>2, <2>1, EarlyKept
  <1>4. FinishedCut'
    <2>1. scale' = scale
      BY DEF poolVars
    <2>2. QED
      BY <1>1, <1>2, <2>1, CutKept
  <1>5. Awaited'
    BY <1>1, <1>2, AwaitedKept
  <1>6. QED
    BY <1>3, <1>4, <1>5 DEF ThumbgenInv

(* The database thread's tests of its flags and its change of queues. *)
LEMMA DbControlStep ==
  ASSUME IInv, DbControl
  PROVE  IInv'
  <1>1. TypeOK
    BY DEF IInv
  <1>2. PICK to \in {"test", "exited", "receive", "request"} : db' = [db EXCEPT !.at = to]
    BY DEF DbControl, DbGoto
  <1>3. db' \in [at : DbPlaces, job : JobOrNone] /\ db'.at = to /\ db'.job = db.job
    BY <1>1, <1>2, DbGoes DEF DbPlaces
  <1>4. UNCHANGED <<mainVars, poolVars, flags, finished, entries, inbox, worker,
                    requests, database, tiles, lowest>>
    BY DEF DbControl, OnlyDb
  <1>5. dbquit' \in BOOLEAN
    BY <1>1 DEF DbControl, TypeOK, DbType
  <1>6. DbType'
    BY <1>1, <1>3, <1>4, <1>5 DEF TypeOK, DbType, DbOK
  <1>7. TypeOK'
    BY <1>1, <1>4, <1>6, TypesKept DEF TypeOK
  <1>8. \A f \in Files : InDb(f)' => InDb(f)
    BY <1>3 DEF InDb
  <1>9. CutStays
    BY <1>4, NothingCut
  <1>10. QED
    BY <1>4, <1>7, <1>8, <1>9, DbAlone

(* What is taken out of the receive queue is in the database. *)
LEMMA StoreStep ==
  ASSUME IInv, Store
  PROVE  IInv'
  <1>1. TypeOK
    BY DEF IInv
  <1>2. /\ inbox # <<>> /\ inbox' = Tail(inbox)
        /\ UNCHANGED <<mainVars, db, dbquit, requests, lowest, poolVars, flags, finished, entries, worker>>
    BY DEF Store
  <1>3. /\ Head(inbox) \in Messages /\ inbox' \in Seq(Messages)
        /\ Range(inbox) = {Head(inbox)} \cup Range(inbox')
    <2>1. inbox \in Seq(Messages)
      BY <1>1 DEF TypeOK, DataType
    <2>2. QED
      BY <1>2, <2>1, Shortened
  <1>4. PICK m \in Messages : m = Head(inbox)
    BY <1>3
  <1>5. /\ m.file \in Files /\ database' \subseteq Files /\ tiles' \subseteq Files \X Nat
        /\ tiles \subseteq tiles' /\ (m.kind = "tile" => <<m.file, m.scale>> \in tiles')
    <2>1. /\ m.file \in Files /\ m.scale \in Nat /\ m.kind \in {"file", "tile"}
          /\ database \subseteq Files /\ tiles \subseteq Files \X Nat
      BY <1>1 DEF Messages, TypeOK, DbType
    <2>2. IF m.kind = "file" THEN database' = database \cup {m.file} /\ tiles' = tiles
                             ELSE tiles' = tiles \cup {<<m.file, m.scale>>} /\ database' = database
      BY <1>4 DEF Store
    <2>3. QED
      BY <2>1, <2>2
  <1>6. TypeOK'
    <2>1. DbType'
      BY <1>1, <1>2, <1>5 DEF TypeOK, DbType, DbOK
    <2>2. DataType'
      BY <1>1, <1>2, <1>3 DEF TypeOK, DataType
    <2>3. QED
      BY <1>1, <1>2, <2>1, <2>2, TypesKept DEF TypeOK
  <1>7. \A f \in Files : InDb(f)' => InDb(f)
    BY <1>2 DEF InDb, Entry, Job
  <1>8. \A f \in Files, s \in Nat : Cut(f, s) => Cut(f, s)'
    <2> SUFFICES ASSUME NEW f \in Files, NEW s \in Nat, Cut(f, s) PROVE Cut(f, s)'
      OBVIOUS
    <2>1. PICK c : c = Message("tile", f, s) /\ c' = c
      BY DEF Message
    <2>2. c.kind = "tile" /\ c.file = f /\ c.scale = s
      BY <2>1 DEF Message
    <2>3. <<f, s>> \in tiles \/ m = c \/ c \in Range(inbox')
      BY <1>3, <1>4, <2>1 DEF Cut
    <2>4. <<f, s>> \in tiles' \/ c \in Range(inbox')
      BY <1>5, <2>2, <2>3
    <2>5. QED
      BY <2>1, <2>4 DEF Cut, Message
  <1>9. CutStays
    BY <1>2, <1>5, <1>8, StaysCut
  <1>10. QED
    BY <1>2, <1>6, <1>7, <1>9, DbAlone

(* try_pop() of a request: the thread has it, and the queue no more.       *)
LEMMA TakeRequestStep ==
  ASSUME IInv, TakeRequest
  PROVE  IInv'
  <1>1. TypeOK
    BY DEF IInv
  <1>2. /\ requests # <<>> /\ requests' = Tail(requests) /\ db.at = "request"
        /\ UNCHANGED <<mainVars, dbquit, database, tiles, poolVars, flags, entries, inbox, worker>>
    BY DEF TakeRequest
  <1>3. requests \in Seq(JobType)
    BY <1>1 DEF TypeOK, DbType
  <1>4. /\ Head(requests) \in JobType /\ requests' \in Seq(JobType)
        /\ Head(requests) \in Range(requests)
        /\ Range(requests) = {Head(requests)} \cup Range(requests')
        /\ \A i \in DOMAIN requests' : i + 1 \in DOMAIN requests /\ requests'[i] = requests[i + 1]
                                       /\ i \in Nat
        /\ (\A i, k \in DOMAIN requests : requests[i] = requests[k] /\ requests[i] = Head(requests)
              => i = k) => Head(requests) \notin Range(requests')
    BY <1>2, <1>3, Shortened
  <1>5. PICK j \in JobType : j = Head(requests)
    BY <1>4
  <1>6. j.kind \in JobKinds /\ j.file \in Files /\ j = Job(j.kind, j.file)
    BY JobsApart
  <1>7. \/ db' = [db EXCEPT !.at = "died"] /\ finished' = finished /\ mode # "thumbgen"
        \/ j.kind = "entry" /\ db' = [at |-> "append", job |-> j] /\ finished' = finished
        \/ db' = db /\ finished' = finished \cup {j} /\ mode # "thumbgen"
        \/ db' = [at |-> "hand over", job |-> j] /\ finished' = finished
    BY <1>5, <1>6 DEF TakeRequest, FoundNext
  <1>8. PICK g \in Files, n \in Nat \cup {-1} : g = j.file /\ n = LowestStored(g)
    BY <1>6, LooksForLowest
  <1>9. /\ lowest \in [Files -> Nat \cup {-1}] /\ lowest' \in [Files -> Nat \cup {-1}]
         /\ lowest'[g] \in {lowest[g], n} /\ \A f \in Files : f # g => lowest'[f] = lowest[f]
    <2>1. lowest \in [Files -> Nat \cup {-1}]
      BY <1>1 DEF TypeOK, DbType
    <2>2. lowest' = lowest \/ lowest' = [lowest EXCEPT ![g] = n]
      BY <1>5, <1>8 DEF TakeRequest
    <2>3. QED
      BY <2>1, <2>2
  <1>10. TypeOK'
    <2>1. db \in [at : DbPlaces, job : JobOrNone] /\ DbOK /\ finished \subseteq JobType
      BY <1>1 DEF TypeOK, DbType, DataType
    <2>2. db' \in [at : DbPlaces, job : JobOrNone] /\ DbOK' /\ finished' \subseteq JobType
      <3>1. CASE db' = [db EXCEPT !.at = "died"] /\ finished' = finished
        <4>1. db' \in [at : DbPlaces, job : JobOrNone] /\ db'.at = "died"
          BY <1>1, <3>1, DbGoes DEF DbPlaces
        <4>2. QED
          BY <2>1, <3>1, <4>1 DEF DbOK
      <3>2. CASE j.kind = "entry" /\ db' = [at |-> "append", job |-> j] /\ finished' = finished
        BY <2>1, <3>2 DEF DbOK, DbPlaces, JobOrNone
      <3>3. CASE db' = db /\ finished' = finished \cup {j}
        BY <2>1, <3>3 DEF DbOK
      <3>4. CASE db' = [at |-> "hand over", job |-> j] /\ finished' = finished
        BY <2>1, <3>4 DEF DbOK, DbPlaces, JobOrNone
      <3>5. QED
        BY <1>7, <3>1, <3>2, <3>3, <3>4
    <2>3. DbType'
      BY <1>1, <1>2, <1>4, <1>9, <2>2 DEF TypeOK, DbType
    <2>4. DataType'
      BY <1>1, <1>2, <2>2 DEF TypeOK, DataType
    <2>5. QED
      BY <1>1, <1>2, <2>3, <2>4, TypesKept DEF TypeOK
  <1> SUFFICES ASSUME mode = "thumbgen" PROVE ThumbgenInv'
    BY <1>2, <1>10 DEF IInv, mainVars
  <1>11. EarlyOnce /\ FinishedOnce /\ FinishedCut /\ Awaited
    BY DEF IInv, ThumbgenInv
  <1>12. /\ db'.job = j /\ db'.at \in {"append", "hand over"} /\ finished' = finished
         /\ step' = step /\ todo' = todo /\ group' = group /\ entries' = entries
         /\ tiles' = tiles /\ inbox' = inbox /\ queue' = queue /\ worker' = worker
         /\ scale' = scale
    <2>1. CASE db' = [at |-> "append", job |-> j] /\ finished' = finished
      BY <1>2, <2>1 DEF mainVars, poolVars
    <2>2. CASE db' = [at |-> "hand over", job |-> j] /\ finished' = finished
      BY <1>2, <2>2 DEF mainVars, poolVars
    <2>3. QED
      BY <1>7, <2>1, <2>2
  <1>13. \A f \in Files : /\ InDb(f)' <=> Entry(f) = j
                          /\ Unsent(f)' <=> Unsent(f)
                          /\ Requested(f)' => Requested(f) /\ Entry(f) # j
                          /\ Entry(f) = j => Requested(f)
    <2>1. \A f \in Files : InDb(f)' <=> Entry(f) = j
      BY <1>12 DEF InDb, Entry, Job
    <2>2. \A f \in Files : Unsent(f)' <=> Unsent(f)
      BY <1>12 DEF Unsent
    <2>3. \A f \in Files : Entry(f) = j => Requested(f)
      BY <1>4, <1>5 DEF Requested
    <2>4. \A f \in Files : Entry(f) = j => j \notin Range(requests')
      <3> SUFFICES ASSUME NEW f \in Files, Entry(f) = j PROVE j \notin Range(requests')
        OBVIOUS
      <3>1. j.kind = "entry"
        BY JobsApart DEF Entry, JobKinds
      <3>2. \A i, k \in DOMAIN requests : requests[i] = requests[k] /\ requests[i] = j => i = k
        BY <1>11, <3>1 DEF EarlyOnce
      <3>3. QED
        BY <1>4, <1>5, <3>2
    <2>5. \A f \in Files : Entry(f) \in Range(requests') => Entry(f) \in Range(requests)
      BY <1>4
    <2>6. \A f \in Files : Requested(f)' => Requested(f) /\ Entry(f) # j
      BY <2>4, <2>5 DEF Requested, Entry, Job
    <2>7. QED
      BY <2>1, <2>2, <2>3, <2>6
  <1>14. \A f \in Files : Early(f)' => Early(f)
    BY <1>13 DEF Early
  <1>15. EarlyOnce'
    <2>1. \A i, k \in DOMAIN requests' :
            requests'[i] = requests'[k] /\ requests'[i].kind = "entry" => i = k
      BY <1>4, <1>11 DEF EarlyOnce
    <2>2. \A f \in Files : Unsent(f)' => ~Requested(f)' /\ ~InDb(f)'
      BY <1>11, <1>13 DEF EarlyOnce
    <2>3. \A f \in Files : Requested(f)' => ~InDb(f)'
      BY <1>13
    <2>4. step' = 3 => IsInjective(todo')
      BY <1>11, <1>12 DEF EarlyOnce
    <2>5. QED
      BY <2>1, <2>2, <2>3, <2>4 DEF EarlyOnce
  <1>16. FinishedOnce'
    <2>1. \A f \in Files : InPool(f)' <=> InPool(f)
      BY <1>12 DEF InPool, Entry, Job
    <2>2. QED
      BY <1>11, <1>12, <1>14, <2>1 DEF FinishedOnce, Entry, Job
  <1>17. FinishedCut'
    <2>1. LowestIsStored
      BY <1>11 DEF FinishedCut
    <2>2. \A f \in Files, s \in Nat : Cut(f, s) <=> Cut(f, s)'
      BY <1>12 DEF Cut, Message
    <2>3. \A f \in Files : /\ lowest'[f] # -1 => lowest'[f] \in 0 .. Thumbnail[f] /\ <<f, lowest'[f]>> \in tiles
                           /\ lowest[f] # -1 => lowest'[f] \in 0 .. lowest[f]
      <3> SUFFICES ASSUME NEW f \in Files
                   PROVE  /\ lowest'[f] # -1 =>
                               lowest'[f] \in 0 .. Thumbnail[f] /\ <<f, lowest'[f]>> \in tiles
                          /\ lowest[f] # -1 => lowest'[f] \in 0 .. lowest[f]
        OBVIOUS
      <3>1. CASE lowest'[f] = lowest[f]
        BY <1>9, <2>1, <3>1 DEF LowestIsStored
      <3>2. CASE f = g /\ lowest'[f] = n
        <4>1. /\ n # -1 => n \in 0 .. Thumbnail[f] /\ <<f, n>> \in tiles
              /\ \A s \in 0 .. Thumbnail[f] : <<f, s>> \in tiles => n \in 0 .. s
          BY <1>8, <3>2, LooksForLowest
        <4>2. QED
          BY <2>1, <3>2, <4>1 DEF LowestIsStored
      <3>3. QED
        BY <1>9, <3>1, <3>2
    <2>4. LowestIsStored'
      BY <1>12, <2>3 DEF LowestIsStored
    <2>5. \A f \in Files : AllCut(f) => AllCut(f)'
      <3> SUFFICES ASSUME NEW f \in Files, AllCut(f), NEW s \in FirstScale(f) .. Thumbnail[f]
                   PROVE  Cut(f, s)' \/ lowest'[f] \in 0 .. s
        BY DEF AllCut
      <3>1. s \in Nat /\ (Cut(f, s) \/ lowest[f] \in 0 .. s)
        BY Asked DEF AllCut
      <3>2. lowest[f] \in 0 .. s => lowest'[f] \in 0 .. s
        <4> SUFFICES ASSUME lowest[f] \in 0 .. s PROVE lowest'[f] \in 0 .. s
          OBVIOUS
        <4>1. PICK a \in 0 .. s : a = lowest[f]
          OBVIOUS
        <4>2. a \in Nat /\ a <= s /\ a # -1
          BY <3>1
        <4>3. lowest'[f] \in 0 .. a
          BY <2>3, <4>1, <4>2
        <4>4. QED
          BY <3>1, <4>2, <4>3
      <3>3. QED
        BY <2>2, <3>1, <3>2
    <2>6. \A f \in Files, k \in Nat : CutBelow(f, k) => CutBelow(f, k)'
      <3> SUFFICES ASSUME NEW f \in Files, NEW k \in Nat, CutBelow(f, k),
                          NEW s \in FirstScale(f) .. k - 1
                   PROVE  Cut(f, s)'
        BY DEF CutBelow
      <3>1. s \in Nat
        BY Asked
      <3>2. QED
        BY <2>2, <3>1 DEF CutBelow
    <2>7. CutStays
      BY <2>4, <2>5, <2>6 DEF CutStays
    <2>8. QED
      BY <1>11, <1>12, <2>7, CutKept
  <1>18. Awaited'
    BY <1>11, <1>12, AwaitedKept
  <1>19. QED
    BY <1>15, <1>16, <1>17, <1>18 DEF ThumbgenInv

(* The callback in the database thread, and its handle: the first and only *)
(* time that the file is announced.                                        *)
LEMMA DbAppendsStep ==
  ASSUME IInv, DbAppends
  PROVE  IInv'
  <1>1. TypeOK
    BY DEF IInv
  <1>2. /\ db.at = "append" /\ entries' = Append(entries, db.job.file)
        /\ finished' = finished \cup {db.job} /\ db' = [at |-> "request", job |-> NoJob]
        /\ UNCHANGED <<mainVars, dbquit, requests, database, tiles, lowest, poolVars, flags, inbox, worker>>
    BY DEF DbAppends
  <1>3. db.job \in JobType /\ db.job.kind = "entry" /\ db.job.file \in Files
    BY <1>1, <1>2, JobsApart DEF TypeOK, DbType, DbOK
  <1>4. PICK g \in Files : g = db.job.file
    BY <1>3
  <1>5. db.job = Entry(g)
    BY <1>3, <1>4, JobsApart DEF Entry
  <1>6. /\ entries' \in Seq(Files) /\ Range(entries') = Range(entries) \cup {g}
        /\ DOMAIN entries' = 1 .. (Len(entries) + 1) /\ DOMAIN entries = 1 .. Len(entries)
        /\ Len(entries) \in Nat
        /\ \A i \in 1 .. Len(entries) : entries'[i] = entries[i]
        /\ entries'[Len(entries) + 1] = g
    <2>1. entries \in Seq(Files) /\ entries' = Append(entries, g)
      BY <1>1, <1>2, <1>4 DEF TypeOK, DataType
    <2>2. QED
      BY <2>1, Added
  <1>7. db'.at = "request" /\ db' \in [at : DbPlaces, job : JobOrNone]
    BY <1>2 DEF DbPlaces, JobOrNone
  <1>8. TypeOK'
    <2>1. DbType'
      BY <1>1, <1>2, <1>7 DEF TypeOK, DbType, DbOK
    <2>2. DataType'
      BY <1>1, <1>2, <1>3, <1>6 DEF TypeOK, DataType
    <2>3. QED
      BY <1>1, <1>2, <2>1, <2>2, TypesKept DEF TypeOK
  <1> SUFFICES ASSUME mode = "thumbgen" PROVE ThumbgenInv'
    BY <1>2, <1>8 DEF IInv, mainVars
  <1>9. EarlyOnce /\ FinishedOnce /\ FinishedCut /\ Awaited
    BY DEF IInv, ThumbgenInv
  <1>10. /\ step' = step /\ todo' = todo /\ group' = group /\ requests' = requests
         /\ tiles' = tiles /\ inbox' = inbox /\ queue' = queue /\ worker' = worker
    BY <1>2 DEF mainVars, poolVars
  <1>11. InDb(g) /\ ~Unsent(g) /\ ~Requested(g) /\ ~InPool(g) /\ g \notin Range(entries)
    <2>1. InDb(g)
      BY <1>2, <1>5 DEF InDb
    <2>2. QED
      BY <1>9, <2>1 DEF EarlyOnce, FinishedOnce, Early
  <1>12. \A f \in Files : /\ ~InDb(f)'
                          /\ Unsent(f)' <=> Unsent(f)
                          /\ Requested(f)' <=> Requested(f)
                          /\ InPool(f)' <=> InPool(f)
    <2>1. \A f \in Files : ~InDb(f)'
      BY <1>7 DEF InDb
    <2>2. \A f \in Files : (Unsent(f)' <=> Unsent(f)) /\ (Requested(f)' <=> Requested(f))
      BY <1>10 DEF Unsent, Requested, Entry, Job
    <2>3. \A f \in Files : InPool(f)' <=> InPool(f)
      BY <1>10 DEF InPool, Entry, Job
    <2>4. QED
      BY <2>1, <2>2, <2>3
  <1>13. (\A f \in Files : Early(f)' => Early(f)) /\ ~Early(g)'
    BY <1>11, <1>12 DEF Early
  <1>14. EarlyOnce'
    BY <1>9, <1>10, <1>12 DEF EarlyOnce
  <1>15. FinishedOnce'
    <2>1. \A f \in Files : InPool(f)' => ~Early(f)'
      BY <1>9, <1>12, <1>13 DEF FinishedOnce
    <2>2. \A f \in Files : f \in Range(entries') => ~Early(f)'
      BY <1>6, <1>9, <1>13 DEF FinishedOnce
    <2>3. ASSUME NEW f \in Files, Entry(f) \in finished'
          PROVE  /\ ~Early(f)' /\ ~InPool(f)' /\ f \in Range(entries')
                 /\ \A i, k \in DOMAIN entries' : entries'[i] = f /\ entries'[k] = f => i = k
      <3>1. CASE f = g
        <4>1. \A i \in DOMAIN entries' : entries'[i] = g => i = Len(entries) + 1
          <5>1. \A i \in 1 .. Len(entries) : entries'[i] # g
            BY <1>6, <1>11 DEF Range
          <5>2. QED
            BY <1>6, <5>1
        <4>2. \A i, k \in DOMAIN entries' : entries'[i] = f /\ entries'[k] = f => i = k
          BY <3>1, <4>1
        <4>3. QED
          BY <1>6, <1>11, <1>12, <1>13, <3>1, <4>2
      <3>2. CASE f # g
        <4>1. Entry(f) \in finished
          BY <1>2, <1>5, <2>3, <3>2, JobsApart
        <4>2. \A i \in DOMAIN entries' : entries'[i] = f => i \in DOMAIN entries /\ entries[i] = f
          BY <1>6, <3>2
        <4>3. \A i, k \in DOMAIN entries : entries[i] = f /\ entries[k] = f => i = k
          BY <1>9, <4>1 DEF FinishedOnce
        <4>4. QED
          BY <1>6, <1>9, <1>12, <1>13, <4>1, <4>2, <4>3 DEF FinishedOnce
      <3>3. QED
        BY <3>1, <3>2
    <2>4. QED
      BY <2>1, <2>2, <2>3 DEF FinishedOnce, Entry, Job
  <1>16. FinishedCut'
    <2>1. \A f \in Files : Job("tiles", f) \in finished' => Job("tiles", f) \in finished
      BY <1>2, <1>5, JobsApart
    <2>2. CutStays /\ scale' = scale
      BY <1>2, NothingCut DEF poolVars
    <2>3. QED
      BY <1>9, <1>10, <2>1, <2>2, CutKept
  <1>17. Awaited'
    BY <1>2, <1>9, <1>10, AwaitedKept
  <1>18. QED
    BY <1>14, <1>15, <1>16, <1>17 DEF ThumbgenInv

(* JobManager::request() by the database thread. *)
LEMMA HandOverStep ==
  ASSUME IInv, HandOver
  PROVE  IInv'
  <1>1. TypeOK
    BY DEF IInv
  <1>2. /\ db.at = "hand over" /\ Hand(db.job) /\ db' = [at |-> "request", job |-> NoJob]
        /\ UNCHANGED <<mainVars, dbquit, requests, database, tiles, lowest, flags, finished, entries, inbox>>
    BY DEF HandOver
  <1>3. db.job \in JobType
    BY <1>1, <1>2 DEF TypeOK, DbType, DbOK
  <1>4. PICK j \in JobType : j = db.job
    BY <1>3
  <1>5. /\ QueueType' /\ WorkerType' /\ scale' = scale
        /\ \A w \in Workers : Range(queue'[w]) \subseteq Range(queue[w]) \cup {j}
        /\ \A w \in Workers : worker'[w] = worker[w] \/ worker'[w].at = "look"
    BY <1>1, <1>2, <1>4, Handed
  <1>6. db'.at = "request" /\ db' \in [at : DbPlaces, job : JobOrNone]
    BY <1>2 DEF DbPlaces, JobOrNone
  <1>7. TypeOK'
    <2>1. DbType'
      BY <1>1, <1>2, <1>6 DEF TypeOK, DbType, DbOK
    <2>2. QED
      BY <1>1, <1>2, <1>5, <2>1, TypesKept DEF TypeOK
  <1> SUFFICES ASSUME mode = "thumbgen" PROVE ThumbgenInv'
    BY <1>2, <1>7 DEF IInv, mainVars
  <1>8. EarlyOnce /\ FinishedOnce /\ FinishedCut /\ Awaited
    BY DEF IInv, ThumbgenInv
  <1>9. /\ step' = step /\ todo' = todo /\ group' = group /\ requests' = requests
        /\ tiles' = tiles /\ inbox' = inbox /\ finished' = finished /\ entries' = entries
    BY <1>2 DEF mainVars
  <1>10. \A f \in Files : /\ ~InDb(f)' /\ (Entry(f) = j => InDb(f))
                          /\ Unsent(f)' <=> Unsent(f)
                          /\ Requested(f)' <=> Requested(f)
                          /\ InPool(f)' => InPool(f) \/ Entry(f) = j
    <2>1. \A f \in Files : ~InDb(f)' /\ (Entry(f) = j => InDb(f))
      BY <1>2, <1>4, <1>6 DEF InDb
    <2>2. \A f \in Files : (Unsent(f)' <=> Unsent(f)) /\ (Requested(f)' <=> Requested(f))
      BY <1>9 DEF Unsent, Requested, Entry, Job
    <2>3. \A f \in Files : InPool(f)' => InPool(f) \/ Entry(f) = j
      <3> TAKE f \in Files
      <3>1. PICK e : e = Entry(f) /\ Entry(f)' = e
        BY DEF Entry, Job
      <3>2. QED
        BY <1>5, <3>1 DEF InPool
    <2>4. QED
      BY <2>1, <2>2, <2>3
  <1>11. EarlyOnce'
    BY <1>8, <1>9, <1>10 DEF EarlyOnce
  <1>12. FinishedOnce'
    <2>1. \A f \in Files : Early(f)' => Early(f) /\ ~InDb(f)
      BY <1>8, <1>10 DEF Early, EarlyOnce
    <2>2. \A f \in Files : InPool(f)' => ~Early(f)'
      BY <1>8, <1>10, <2>1 DEF FinishedOnce
    <2>3. \A f \in Files : Entry(f) \in finished => ~InPool(f)'
      BY <1>8, <1>10 DEF FinishedOnce, Early
    <2>4. QED
      BY <1>8, <1>9, <2>1, <2>2, <2>3 DEF FinishedOnce, Entry, Job
  <1>13. FinishedCut'
    <2>1. CutStays
      BY <1>2, NothingCut
    <2>2. QED
      BY <1>5, <1>8, <1>9, <2>1, CutKept
  <1>14. Awaited'
    BY <1>8, <1>9, AwaitedKept
  <1>15. QED
    BY <1>11, <1>12, <1>13, <1>14 DEF ThumbgenInv

-----------------------------------------------------------------------------
(* main() *)

(* main() goes on without the requests, the vector and the handles. *)
LEMMA MainAlone ==
  ASSUME IInv, TypeOK', mode' = mode,
         UNCHANGED <<requests, database, tiles, lowest, queue, scale, finished, entries, inbox>>,
         db' = db \/ db'.at = "started",
         \A w \in Workers : worker'[w] = worker[w] \/ worker'[w].at \in {"test", "look"},
         mode = "thumbgen" =>
           /\ step' = 3 => IsInjective(todo')
           /\ \A f \in Files : Unsent(f)' => Unsent(f)
           /\ Awaited'
  PROVE  IInv'
  <1> SUFFICES ASSUME mode = "thumbgen" PROVE ThumbgenInv'
    BY DEF IInv
  <1>1. EarlyOnce /\ FinishedOnce /\ FinishedCut /\ Awaited /\ TypeOK
    BY DEF IInv, ThumbgenInv
  <1>2. EarlyOnce' /\ FinishedOnce'
    <2>1. \A f \in Files : InDb(f)' => InDb(f)
      BY DEF InDb, Entry, Job
    <2>2. \A f \in Files : InPool(f)' => InPool(f)
      <3> TAKE f \in Files
      <3>1. PICK e : e = Entry(f) /\ Entry(f)' = e
        BY DEF Entry, Job
      <3>2. QED
        BY <3>1 DEF InPool
    <2>3. QED
      BY <1>1, <2>1, <2>2, EarlyKept
  <1>3. FinishedCut'
    <2>1. CutStays
      BY NothingCut
    <2>2. QED
      BY <1>1, <2>1, CutKept
  <1>4. QED
    BY <1>2, <1>3 DEF ThumbgenInv

(* A thread is started. *)
LEMMA StartStep ==
  ASSUME IInv, Start
  PROVE  IInv'
  <1>1. TypeOK
    BY DEF IInv
  <1>2. /\ Doing \in {"start workers", "start database"} /\ Advance
        /\ UNCHANGED <<mutex, group, finished, entries, dbquit, requests, database, tiles,
                       lowest, poolVars, flags, inbox>>
    BY DEF Start
  <1>3. ~flagged
    BY <1>1, <1>2 DEF TypeOK, MainType, WorkerLoops
  <1>4. /\ step' = step + 1 /\ mode' = mode /\ step' \in Nat \ {0} /\ flagged' = flagged
        /\ todo' = IF step < Len(Script[mode]) THEN Loop(Script[mode][step + 1], entries) ELSE <<>>
        /\ (Doing \in FileLoops => todo \in Seq(Files))'
        /\ (Doing \in WorkerLoops => todo \in Seq(Workers))'
    BY <1>1, <1>2, <1>3, NextLoop
  <1>5. /\ db' = db \/ (db' = [db EXCEPT !.at = "started"])
        /\ worker' = worker \/ worker' = [w \in Workers |-> [at |-> "test", job |-> NoJob]]
    BY DEF Start
  <1>6. DbType' /\ (db' = db \/ db'.at = "started")
    <2>1. CASE db' = db
      BY <1>1, <1>2, <2>1 DEF TypeOK, DbType, DbOK
    <2>2. CASE db' = [db EXCEPT !.at = "started"]
      <3>1. db' \in [at : DbPlaces, job : JobOrNone] /\ db'.at = "started"
        BY <1>1, <2>2, DbGoes DEF DbPlaces
      <3>2. QED
        BY <1>1, <1>2, <3>1 DEF TypeOK, DbType, DbOK
    <2>3. QED
      BY <1>5, <2>1, <2>2
  <1>7. WorkerType' /\ \A w \in Workers : worker'[w] = worker[w] \/ worker'[w].at \in {"test", "look"}
    <2>1. CASE worker' = worker
      BY <1>1, <2>1, TypesKept
    <2>2. CASE worker' = [w \in Workers |-> [at |-> "test", job |-> NoJob]]
      <3> DEFINE c == [at |-> "test", job |-> NoJob]
      <3>1. c \in [at : WorkerPlaces, job : JobOrNone] /\ c.at = "test"
        BY DEF WorkerPlaces, JobOrNone
      <3> HIDE DEF c
      <3>2. worker' = [w \in Workers |-> c]
        BY <2>2 DEF c
      <3>3. QED
        BY <3>1, <3>2 DEF WorkerType, WorkerOK
    <2>3. QED
      BY <1>5, <2>1, <2>2
  <1>8. MainType'
    BY <1>1, <1>2, <1>3, <1>4 DEF TypeOK, MainType
  <1>9. TypeOK'
    BY <1>1, <1>2, <1>6, <1>7, <1>8, TypesKept DEF TypeOK
  <1>10. ASSUME mode = "thumbgen"
         PROVE  /\ step' = 3 => IsInjective(todo')
                /\ \A f \in Files : Unsent(f)' => Unsent(f)
                /\ Awaited'
    <2>1. step \in {1, 2}
      BY <1>1, <1>2, <1>10, ThumbgenDoing DEF TypeOK, MainType
    <2>2. step' = 3 => todo' = [i \in Files |-> i]
      <3>1. Script[mode] = ThumbgenScript /\ Len(ThumbgenScript) = 10
            /\ ThumbgenScript[3] = "request files"
        BY <1>10 DEF Script, ThumbgenScript
      <3>2. step = 2 => todo' = Loop("request files", entries)
        <4>1. step = 2 => step < Len(Script[mode]) /\ step + 1 = 3
          <5>1. Len(Script[mode]) = 10
            BY ONLY <3>1, Zenon
          <5>2. QED
            BY <5>1
        <4>2. step = 2 => todo' = Loop(Script[mode][3], entries)
          BY ONLY <1>4, <4>1
        <4>3. QED
          BY ONLY <3>1, <4>2, Zenon
      <3>3. Loop("request files", entries) = [i \in Files |-> i]
        BY DEF Loop
      <3>4. step' = 3 => step = 2
        BY <1>4, <2>1
      <3>5. QED
        BY ONLY <3>2, <3>3, <3>4, Zenon
    <2>3. step' \in {2, 3}
      BY <1>4, <2>1
    <2>4. step' = 3 => IsInjective(todo') /\ \A f \in Files : f \in Range(todo')
      BY <2>2, Counted
    <2>5. \A f \in Files : Unsent(f)' => Unsent(f)
      BY <2>1 DEF Unsent
    <2>6. Awaited'
      BY <2>3, <2>4 DEF Awaited
    <2>7. QED
      BY <2>4, <2>5, <2>6
  <1>11. UNCHANGED <<requests, database, tiles, lowest, queue, scale, finished, entries, inbox>>
    BY <1>2 DEF poolVars
  <1>12. QED
    BY <1>4, <1>6, <1>7, <1>9, <1>10, <1>11, MainAlone

(* A loop is over, or the user ends the viewer. *)
LEMMA EndLoopStep ==
  ASSUME IInv, EndLoop
  PROVE  IInv'
  <1>1. TypeOK
    BY DEF IInv
  <1>2. /\ Doing \in FileLoops \cup WorkerLoops /\ Advance
        /\ todo = <<>> \/ Doing = "run viewer"
        /\ UNCHANGED <<mutex, group, finished, entries, dbVars, poolVars, flags, inbox, worker>>
    BY DEF EndLoop, FileLoops, WorkerLoops
  <1>3. ~flagged
    BY <1>1, <1>2 DEF TypeOK, MainType, WorkerLoops
  <1>4. /\ step' = step + 1 /\ mode' = mode /\ step' \in Nat \ {0} /\ flagged' = flagged
        /\ (Doing \in FileLoops => todo \in Seq(Files))'
        /\ (Doing \in WorkerLoops => todo \in Seq(Workers))'
    BY <1>1, <1>2, <1>3, NextLoop
  <1>5. MainType'
    BY <1>1, <1>2, <1>3, <1>4 DEF TypeOK, MainType
  <1>6. TypeOK'
    BY <1>1, <1>2, <1>5, TypesKept DEF TypeOK
  <1>7. ASSUME mode = "thumbgen"
        PROVE  /\ step' = 3 => IsInjective(todo')
               /\ \A f \in Files : Unsent(f)' => Unsent(f)
               /\ Awaited'
    <2>1. step \in Nat \ {0} /\ todo = <<>> /\ (step = 3 \/ step = 5 \/ step > 6)
      <3>1. step \in Nat \ {0}
        BY <1>1 DEF TypeOK, MainType
      <3>2. QED
        BY <1>2, <1>7, <3>1, ThumbgenDoing DEF FileLoops, WorkerLoops
    <2>2. Range(todo) = {}
      BY <2>1 DEF Range
    <2>3. \A f \in Files : Unsent(f)' => Unsent(f)
      BY <1>4, <2>1 DEF Unsent
    <2>4. Awaited /\ group' = group /\ finished' = finished
      BY <1>2, <1>7 DEF IInv, ThumbgenInv
    <2>5. Awaited'
      <3> SUFFICES ASSUME NEW f \in Files
                   PROVE  /\ step' = 3 => f \in Range(todo') \/ Entry(f) \in group
                          /\ step' = 4 => Entry(f) \in group
                          /\ step' > 4 => Entry(f) \in finished
                          /\ step' = 5 => f \in Range(todo') \/ Job("tiles", f) \in group
                          /\ step' = 6 => Job("tiles", f) \in group
                          /\ step' > 6 => Job("tiles", f) \in finished
        BY <2>4 DEF Awaited, Entry, Job
      <3>1. CASE step = 3
        BY <1>4, <2>2, <2>4, <3>1 DEF Awaited
      <3>2. CASE step = 5
        BY <1>4, <2>2, <2>4, <3>2 DEF Awaited
      <3>3. CASE step > 6
        BY <1>4, <2>1, <2>4, <3>3 DEF Awaited
      <3>4. QED
        BY <2>1, <3>1, <3>2, <3>3
    <2>6. step' # 3
      BY <1>4, <2>1
    <2>7. QED
      BY <2>3, <2>5, <2>6
  <1>8. UNCHANGED <<requests, database, tiles, lowest, queue, scale, finished, entries, inbox, db, worker>>
    BY <1>2 DEF poolVars, dbVars
  <1>9. QED
    BY <1>4, <1>6, <1>7, <1>8, MainAlone

(* JobHandleGroup::wait(): everything waited for is finished. *)
LEMMA WaitStep ==
  ASSUME IInv, Wait
  PROVE  IInv'
  <1>1. TypeOK
    BY DEF IInv
  <1>2. /\ Doing = "wait" /\ group \subseteq finished /\ group' = {} /\ Advance
        /\ UNCHANGED <<mutex, finished, entries, dbVars, poolVars, flags, inbox, worker>>
    BY DEF Wait
  <1>3. ~flagged
    BY <1>1, <1>2 DEF TypeOK, MainType, WorkerLoops
  <1>4. /\ step' = step + 1 /\ mode' = mode /\ step' \in Nat \ {0} /\ flagged' = flagged
        /\ todo' = IF step < Len(Script[mode]) THEN Loop(Script[mode][step + 1], entries) ELSE <<>>
        /\ (Doing \in FileLoops => todo \in Seq(Files))'
        /\ (Doing \in WorkerLoops => todo \in Seq(Workers))'
    BY <1>1, <1>2, <1>3, NextLoop
  <1>5. MainType'
    BY <1>1, <1>2, <1>3, <1>4 DEF TypeOK, MainType
  <1>6. TypeOK'
    BY <1>1, <1>2, <1>5, TypesKept DEF TypeOK
  <1>7. ASSUME mode = "thumbgen"
        PROVE  /\ step' = 3 => IsInjective(todo')
               /\ \A f \in Files : Unsent(f)' => Unsent(f)
               /\ Awaited'
    <2>1. step \in {4, 6}
      BY <1>1, <1>2, <1>7, ThumbgenDoing DEF TypeOK, MainType
    <2>2. step = 4 => todo' = entries
      <3>1. Script[mode] = ThumbgenScript /\ Len(ThumbgenScript) = 10
            /\ ThumbgenScript[5] = "request tiles"
        BY <1>7 DEF Script, ThumbgenScript
      <3>2. step = 4 => todo' = Loop("request tiles", entries)
        <4>1. step = 4 => step < Len(Script[mode]) /\ step + 1 = 5
          <5>1. Len(Script[mode]) = 10
            BY ONLY <3>1, Zenon
          <5>2. QED
            BY <5>1
        <4>2. step = 4 => todo' = Loop(Script[mode][5], entries)
          BY ONLY <1>4, <4>1
        <4>3. QED
          BY ONLY <3>1, <4>2, Zenon
      <3>3. Loop("request tiles", entries) = entries
        BY DEF Loop
      <3>4. QED
        BY <3>2, <3>3
    <2>3. Awaited /\ FinishedOnce /\ finished' = finished
      BY <1>2, <1>7 DEF IInv, ThumbgenInv
    <2>4. Awaited'
      <3> SUFFICES ASSUME NEW f \in Files
                   PROVE  /\ step' = 3 => f \in Range(todo') \/ Entry(f) \in group'
                          /\ step' = 4 => Entry(f) \in group'
                          /\ step' > 4 => Entry(f) \in finished
                          /\ step' = 5 => f \in Range(todo') \/ Job("tiles", f) \in group'
                          /\ step' = 6 => Job("tiles", f) \in group'
                          /\ step' > 6 => Job("tiles", f) \in finished
        BY <2>3 DEF Awaited, Entry, Job
      <3>1. CASE step = 4
        <4>1. Entry(f) \in finished
          BY <1>2, <2>3, <3>1 DEF Awaited
        <4>2. f \in Range(todo')
          BY <2>2, <2>3, <3>1, <4>1 DEF FinishedOnce
        <4>3. step' = 5
          BY <1>4, <3>1
        <4>4. QED
          BY <4>1, <4>2, <4>3
      <3>2. CASE step = 6
        <4>1. Entry(f) \in finished /\ Job("tiles", f) \in finished
          BY <1>2, <2>3, <3>2 DEF Awaited
        <4>2. step' = 7
          BY <1>4, <3>2
        <4>3. QED
          BY <4>1, <4>2
      <3>3. QED
        BY <2>1, <3>1, <3>2
    <2>5. \A f \in Files : Unsent(f)' => Unsent(f)
      BY <1>4, <2>1 DEF Unsent
    <2>6. step' # 3
      BY <1>4, <2>1
    <2>7. QED
      BY <2>4, <2>5, <2>6
  <1>8. UNCHANGED <<requests, database, tiles, lowest, queue, scale, finished, entries, inbox, db, worker>>
    BY <1>2 DEF poolVars, dbVars
  <1>9. QED
    BY <1>4, <1>6, <1>7, <1>8, MainAlone

(* The steps of the shutdown: main() is past its waits, and only goes on. *)
LEMMA ShuttingDown ==
  ASSUME IInv, TypeOK', mode' = mode,
         UNCHANGED <<requests, database, tiles, lowest, queue, scale, finished, entries, inbox, db>>,
         \A w \in Workers : worker'[w] = worker[w] \/ worker'[w].at = "look",
         mode = "thumbgen" => step > 6, step' = step \/ step' = step + 1
  PROVE  IInv'
  <1>1. ASSUME mode = "thumbgen"
        PROVE  /\ step' = 3 => IsInjective(todo')
               /\ \A f \in Files : Unsent(f)' => Unsent(f)
               /\ Awaited'
    <2>1. step \in Nat \ {0} /\ Awaited
      BY <1>1 DEF IInv, ThumbgenInv, TypeOK, MainType
    <2>2. step > 6 /\ step' > 6 /\ step' \in Nat
      BY <1>1, <2>1
    <2>3. \A f \in Files : Entry(f) \in finished /\ Job("tiles", f) \in finished
      BY <2>1, <2>2 DEF Awaited
    <2>4. step' > 4 /\ step' \notin {3, 4, 5, 6} /\ finished' = finished
      BY <2>2
    <2>5. \A f \in Files : (Entry(f) \in finished)' /\ (Job("tiles", f) \in finished)'
      BY <2>3, <2>4 DEF Entry, Job
    <2>6. Awaited'
      BY <2>4, <2>5 DEF Awaited
    <2>7. \A f \in Files : Unsent(f)' => Unsent(f)
      BY <2>2 DEF Unsent
    <2>8. QED
      BY <2>4, <2>6, <2>7
  <1>2. QED
    BY <1>1, MainAlone

(* main() sets the flag of a worker, ... *)
LEMMA FlagWorkerStep ==
  ASSUME IInv, FlagWorker
  PROVE  IInv'
  <1>1. TypeOK
    BY DEF IInv
  <1>2. /\ Doing \in WorkerLoops /\ todo # <<>> /\ flagged' = TRUE
        /\ mode' = mode /\ step' = step /\ todo' = todo /\ mutex' = mutex /\ group' = group
        /\ UNCHANGED <<finished, entries, dbVars, poolVars, dbabort, inbox, worker>>
    BY DEF FlagWorker, WorkerLoops
  <1>3. quit' \in [Workers -> BOOLEAN] /\ abort' \in [Workers -> BOOLEAN]
    BY <1>1 DEF FlagWorker, TypeOK, FlagType
  <1>4. Doing' = Doing
    BY <1>2 DEF Doing
  <1>5. MainType'
    BY <1>1, <1>2, <1>4 DEF TypeOK, MainType
  <1>6. FlagType'
    BY <1>1, <1>2, <1>3 DEF TypeOK, FlagType
  <1>7. TypeOK'
    BY <1>1, <1>2, <1>5, <1>6, TypesKept DEF TypeOK
  <1>8. mode = "thumbgen" => step > 6
    BY <1>1, <1>2, ThumbgenDoing DEF TypeOK, MainType, WorkerLoops
  <1>9. UNCHANGED <<requests, database, tiles, lowest, queue, scale, finished, entries, inbox, db, worker>>
    BY <1>2 DEF poolVars, dbVars
  <1>10. QED
    BY <1>2, <1>7, <1>8, <1>9, ShuttingDown

(* ... wakes it up, ... *)
LEMMA WakeWorkerStep ==
  ASSUME IInv, WakeWorker
  PROVE  IInv'
  <1>1. TypeOK
    BY DEF IInv
  <1>2. /\ Doing \in WorkerLoops /\ flagged /\ flagged' = FALSE /\ todo' = Tail(todo)
        /\ mode' = mode /\ step' = step /\ mutex' = mutex /\ group' = group
        /\ UNCHANGED <<finished, entries, dbVars, poolVars, flags, inbox>>
    BY DEF WakeWorker, WorkerLoops
  <1>3. todo \in Seq(Workers) /\ todo # <<>>
    BY <1>1, <1>2 DEF TypeOK, MainType
  <1>4. Head(todo) \in Workers /\ todo' \in Seq(Workers)
    BY <1>2, <1>3, Shortened
  <1>5. PICK w \in Workers : w = Head(todo)
    BY <1>4
  <1>6. WorkerType' /\ \A v \in Workers : worker'[v] = worker[v] \/ worker'[v].at = "look"
    <2>1. CASE worker' = worker
      BY <1>1, <2>1, TypesKept
    <2>2. CASE worker' = [worker EXCEPT ![w].at = "look"]
      <3>1. /\ worker' \in [Workers -> [at : WorkerPlaces, job : JobOrNone]]
            /\ worker'[w].at = "look" /\ \A v \in Workers : v # w => worker'[v] = worker[v]
        BY <1>1, <2>2, WorkerGoes DEF WorkerPlaces
      <3>2. QED
        BY <1>1, <3>1 DEF TypeOK, WorkerType, WorkerOK
    <2>3. QED
      BY <1>5, <2>1, <2>2 DEF WakeWorker
  <1>7. Doing' = Doing
    BY <1>2 DEF Doing
  <1>8. MainType'
    BY <1>1, <1>2, <1>4, <1>7 DEF TypeOK, MainType, FileLoops, WorkerLoops
  <1>9. TypeOK'
    BY <1>1, <1>2, <1>6, <1>8, TypesKept DEF TypeOK
  <1>10. mode = "thumbgen" => step > 6
    BY <1>1, <1>2, ThumbgenDoing DEF TypeOK, MainType, WorkerLoops
  <1>11. UNCHANGED <<requests, database, tiles, lowest, queue, scale, finished, entries, inbox, db>>
    BY <1>2 DEF poolVars, dbVars
  <1>12. QED
    BY <1>2, <1>6, <1>9, <1>10, <1>11, ShuttingDown

(* ... does the same to the database thread, ... *)
LEMMA FlagDatabaseStep ==
  ASSUME IInv, FlagDatabase
  PROVE  IInv'
  <1>1. TypeOK
    BY DEF IInv
  <1>2. /\ Doing \in {"stop database", "abort database"} /\ Advance
        /\ dbquit' = TRUE /\ dbabort' \in BOOLEAN
        /\ UNCHANGED <<mutex, group, finished, entries, db, requests, database, tiles,
                       lowest, poolVars, quit, abort, inbox, worker>>
    BY DEF FlagDatabase
  <1>3. ~flagged
    BY <1>1, <1>2 DEF TypeOK, MainType, WorkerLoops
  <1>4. /\ step' = step + 1 /\ mode' = mode /\ step' \in Nat \ {0} /\ flagged' = flagged
        /\ (Doing \in FileLoops => todo \in Seq(Files))'
        /\ (Doing \in WorkerLoops => todo \in Seq(Workers))'
    BY <1>1, <1>2, <1>3, NextLoop
  <1>5. MainType'
    BY <1>1, <1>2, <1>3, <1>4 DEF TypeOK, MainType
  <1>6. DbType' /\ FlagType'
    BY <1>1, <1>2 DEF TypeOK, DbType, DbOK, FlagType
  <1>7. TypeOK'
    BY <1>1, <1>2, <1>5, <1>6, TypesKept DEF TypeOK
  <1>8. mode = "thumbgen" => step > 6
    BY <1>1, <1>2, ThumbgenDoing DEF TypeOK, MainType
  <1>9. UNCHANGED <<requests, database, tiles, lowest, queue, scale, finished, entries, inbox, db, worker>>
    BY <1>2 DEF poolVars
  <1>10. QED
    BY <1>4, <1>7, <1>8, <1>9, ShuttingDown

(* ... and waits for their ends. *)
LEMMA JoinStep ==
  ASSUME IInv, JoinWorkers \/ JoinDatabase
  PROVE  IInv'
  <1>1. TypeOK
    BY DEF IInv
  <1>2. /\ Doing \in {"join workers", "join database"}
        /\ Advance \/ UNCHANGED <<mode, step, todo, flagged>>
        /\ group' = group
        /\ UNCHANGED <<finished, entries, dbVars, poolVars, flags, inbox, worker>>
    BY DEF JoinWorkers, JoinDatabase
  <1>3. mutex' \in {"free", "main"}
    BY <1>1 DEF JoinWorkers, JoinDatabase, TypeOK, MainType
  <1>4. ~flagged
    BY <1>1, <1>2 DEF TypeOK, MainType, WorkerLoops
  <1>5. MainType' /\ mode' = mode /\ (step' = step \/ step' = step + 1)
    <2>1. CASE Advance
      <3>1. /\ step' = step + 1 /\ mode' = mode /\ step' \in Nat \ {0} /\ flagged' = flagged
            /\ (Doing \in FileLoops => todo \in Seq(Files))'
            /\ (Doing \in WorkerLoops => todo \in Seq(Workers))'
        BY <1>1, <1>4, <2>1, NextLoop
      <3>2. QED
        BY <1>1, <1>2, <1>3, <1>4, <3>1 DEF TypeOK, MainType
    <2>2. CASE UNCHANGED <<mode, step, todo, flagged>>
      <3>1. Doing' = Doing
        BY <2>2 DEF Doing
      <3>2. QED
        BY <1>1, <1>2, <1>3, <2>2, <3>1 DEF TypeOK, MainType
    <2>3. QED
      BY <1>2, <2>1, <2>2
  <1>6. TypeOK'
    BY <1>1, <1>2, <1>5, TypesKept DEF TypeOK
  <1>7. mode = "thumbgen" => step > 6
    BY <1>1, <1>2, ThumbgenDoing DEF TypeOK, MainType
  <1>8. UNCHANGED <<requests, database, tiles, lowest, queue, scale, finished, entries, inbox, db, worker>>
    BY <1>2 DEF poolVars, dbVars
  <1>9. QED
    BY <1>5, <1>6, <1>7, <1>8, ShuttingDown

(* galapix test asks the pool itself. *)
LEMMA RequestTestStep ==
  ASSUME IInv, RequestTest
  PROVE  IInv'
  <1>1. TypeOK
    BY DEF IInv
  <1>2. /\ Doing = "request tests" /\ todo # <<>> /\ Hand(Job("test job", Head(todo)))
        /\ group' = group \cup {Job("test job", Head(todo))} /\ todo' = Tail(todo)
        /\ mode' = mode /\ step' = step /\ flagged' = flagged /\ mutex' = mutex
        /\ UNCHANGED <<finished, entries, dbVars, flags, inbox>>
    BY DEF RequestTest
  <1>3. todo \in Seq(Files)
    BY <1>1, <1>2 DEF TypeOK, MainType, FileLoops
  <1>4. Head(todo) \in Files /\ todo' \in Seq(Files)
    BY <1>2, <1>3, Shortened
  <1>5. Job("test job", Head(todo)) \in JobType
    BY <1>4, JobsApart DEF JobKinds
  <1>6. PICK j \in JobType : j = Job("test job", Head(todo))
    BY <1>5
  <1>7. QueueType' /\ WorkerType'
    BY <1>1, <1>2, <1>6, Handed
  <1>8. Doing' = Doing /\ ~flagged
    BY <1>1, <1>2 DEF Doing, TypeOK, MainType, WorkerLoops
  <1>9. MainType'
    BY <1>1, <1>2, <1>4, <1>6, <1>8 DEF TypeOK, MainType, FileLoops, WorkerLoops
  <1>10. TypeOK'
    BY <1>1, <1>2, <1>7, <1>9, TypesKept DEF TypeOK
  <1>11. mode # "thumbgen"
    BY <1>1, <1>2, ThumbgenDoing DEF TypeOK, MainType
  <1>12. QED
    BY <1>2, <1>10, <1>11 DEF IInv

(* request_file() and request_tiles(): the request goes from main() to the *)
(* queue.                                                                  *)
LEMMA RequestFileStep ==
  ASSUME IInv, RequestFile
  PROVE  IInv'
  <1>1. TypeOK
    BY DEF IInv
  <1> DEFINE kind == IF Doing = "request tiles" THEN "tiles" ELSE "entry"
  <1>2. /\ Doing \in {"request files", "request tiles", "run viewer"} /\ todo # <<>>
        /\ requests' = Append(requests, Job(kind, Head(todo)))
        /\ group' = IF mode = "thumbgen" THEN group \cup {Job(kind, Head(todo))} ELSE group
        /\ todo' = Tail(todo)
        /\ mode' = mode /\ step' = step /\ flagged' = flagged /\ mutex' = mutex
        /\ UNCHANGED <<finished, entries, db, dbquit, database, tiles, lowest, poolVars, flags, inbox, worker>>
    BY DEF RequestFile
  <1>3. kind \in {"tiles", "entry"} /\ (kind = "tiles" <=> Doing = "request tiles")
    OBVIOUS
  <1> HIDE DEF kind
  <1>4. todo \in Seq(Files)
    BY <1>1, <1>2 DEF TypeOK, MainType, FileLoops
  <1>5. /\ Head(todo) \in Files /\ todo' \in Seq(Files) /\ Head(todo) \in Range(todo)
        /\ Range(todo) = {Head(todo)} \cup Range(todo')
        /\ \A i \in DOMAIN todo' : i + 1 \in DOMAIN todo /\ todo'[i] = todo[i + 1] /\ i \in Nat
        /\ (\A i, k \in DOMAIN todo : todo[i] = todo[k] /\ todo[i] = Head(todo) => i = k)
              => Head(todo) \notin Range(todo')
    BY <1>2, <1>4, Shortened
  <1>6. PICK g \in Files : g = Head(todo)
    BY <1>5
  <1>7. Job(kind, g) \in JobType /\ Job(kind, g).kind = kind /\ Job(kind, g).file = g
    BY <1>3, JobsApart DEF JobKinds
  <1>8. PICK j \in JobType : j = Job(kind, g)
    BY <1>7
  <1>9. /\ requests' \in Seq(JobType) /\ Range(requests') = Range(requests) \cup {j}
        /\ DOMAIN requests' = 1 .. (Len(requests) + 1) /\ DOMAIN requests = 1 .. Len(requests)
        /\ Len(requests) \in Nat
        /\ \A i \in 1 .. Len(requests) : requests'[i] = requests[i]
        /\ requests'[Len(requests) + 1] = j
    <2>1. requests \in Seq(JobType) /\ requests' = Append(requests, j)
      BY <1>1, <1>2, <1>6, <1>8 DEF TypeOK, DbType
    <2>2. QED
      BY <2>1, Added
  <1>10. group' = IF mode = "thumbgen" THEN group \cup {j} ELSE group
    BY <1>2, <1>6, <1>8
  <1>11. TypeOK'
    <2>1. Doing' = Doing /\ ~flagged
      BY <1>1, <1>2 DEF Doing, TypeOK, MainType, WorkerLoops
    <2>2. Doing \notin WorkerLoops
      BY <1>2 DEF WorkerLoops
    <2>3. MainType'
      BY <1>1, <1>2, <1>5, <1>10, <2>1, <2>2 DEF TypeOK, MainType
    <2>4. DbType'
      BY <1>1, <1>2, <1>9 DEF TypeOK, DbType, DbOK
    <2>5. QED
      BY <1>1, <1>2, <2>3, <2>4, TypesKept DEF TypeOK
  <1> SUFFICES ASSUME mode = "thumbgen" PROVE ThumbgenInv'
    BY <1>2, <1>11 DEF IInv
  <1>12. EarlyOnce /\ FinishedOnce /\ FinishedCut /\ Awaited
    BY DEF IInv, ThumbgenInv
  <1>13. /\ (step = 3 /\ kind = "entry") \/ (step = 5 /\ kind = "tiles")
    BY <1>1, <1>2, <1>3, ThumbgenDoing DEF TypeOK, MainType
  <1>14. /\ db' = db /\ tiles' = tiles /\ inbox' = inbox /\ queue' = queue /\ worker' = worker
         /\ finished' = finished /\ entries' = entries /\ group' = group \cup {j} /\ step' = step
         /\ lowest' = lowest /\ scale' = scale
    BY <1>2, <1>10 DEF poolVars
  <1>15. \A f \in Files : /\ InDb(f)' <=> InDb(f)
                          /\ InPool(f)' <=> InPool(f)
                          /\ Unsent(f)' => Unsent(f)
                          /\ Requested(f)' <=> Requested(f) \/ Entry(f) = j
                          /\ Entry(f) = j => Unsent(f) /\ ~Unsent(f)'
    <2>1. \A f \in Files : (InDb(f)' <=> InDb(f)) /\ (InPool(f)' <=> InPool(f))
      BY <1>14 DEF InDb, InPool, Entry, Job
    <2>2. \A f \in Files : Unsent(f)' => Unsent(f)
      BY <1>5, <1>14 DEF Unsent
    <2>3. \A f \in Files : Requested(f)' <=> Requested(f) \/ Entry(f) = j
      <3> TAKE f \in Files
      <3>1. PICK e : e = Entry(f) /\ Entry(f)' = e
        BY DEF Entry, Job
      <3>2. QED
        BY <1>9, <3>1 DEF Requested
    <2>4. ASSUME NEW f \in Files, Entry(f) = j PROVE Unsent(f) /\ ~Unsent(f)'
      <3>1. Entry(f).kind = "entry" /\ Entry(f).file = f
        BY DEF Entry, Job
      <3>2. kind = "entry" /\ f = g
        BY <1>7, <1>8, <2>4, <3>1
      <3>3. step = 3
        BY <1>13, <3>2
      <3>4. \A i, k \in DOMAIN todo : todo[i] = todo[k] => i = k
        BY <1>12, <3>3 DEF EarlyOnce, IsInjective
      <3>5. g \in Range(todo) /\ g \notin Range(todo')
        BY <1>5, <1>6, <3>4
      <3>6. QED
        BY <1>14, <3>2, <3>3, <3>5 DEF Unsent
    <2>5. QED
      BY <2>1, <2>2, <2>3, <2>4
  <1>16. \A f \in Files : Early(f)' => Early(f)
    BY <1>15 DEF Early
  <1>17. EarlyOnce'
    <2>1. step' = 3 => IsInjective(todo')
      <3>1. CASE step = 3
        <4>1. \A i, k \in DOMAIN todo : todo[i] = todo[k] => i = k
          BY <1>12, <3>1 DEF EarlyOnce, IsInjective
        <4>2. \A i, k \in DOMAIN todo' : todo'[i] = todo'[k] => i = k
          BY <1>5, <4>1
        <4>3. QED
          BY <4>2 DEF IsInjective
      <3>2. QED
        BY <1>14, <3>1
    <2>2. ASSUME NEW i \in DOMAIN requests', NEW k \in DOMAIN requests',
                 requests'[i] = requests'[k], requests'[i].kind = "entry"
          PROVE  i = k
      <3>1. \A n \in DOMAIN requests : requests[n].kind = "entry" => requests[n] # j
        <4> SUFFICES ASSUME NEW n \in DOMAIN requests, requests[n] = j, j.kind = "entry"
                     PROVE  FALSE
          OBVIOUS
        <4>1. j = Entry(g)
          BY <1>7, <1>8 DEF Entry
        <4>2. Requested(g) /\ Unsent(g)
          BY <1>15, <4>1 DEF Requested, Range
        <4>3. QED
          BY <1>12, <4>2 DEF EarlyOnce
      <3>2. CASE i = Len(requests) + 1 \/ k = Len(requests) + 1
        BY <1>9, <2>2, <3>1, <3>2
      <3>3. CASE i # Len(requests) + 1 /\ k # Len(requests) + 1
        <4>1. i \in DOMAIN requests /\ k \in DOMAIN requests
          BY <1>9, <3>3
        <4>2. requests[i] = requests[k] /\ requests[i].kind = "entry"
          BY <1>9, <2>2, <4>1
        <4>3. QED
          BY <1>12, <4>1, <4>2 DEF EarlyOnce
      <3>4. QED
        BY <3>2, <3>3
    <2>3. \A f \in Files : Unsent(f)' => ~Requested(f)' /\ ~InDb(f)'
      BY <1>12, <1>15 DEF EarlyOnce
    <2>4. \A f \in Files : Requested(f)' => ~InDb(f)'
      BY <1>12, <1>15 DEF EarlyOnce
    <2>5. QED
      BY <2>1, <2>2, <2>3, <2>4 DEF EarlyOnce
  <1>18. FinishedOnce'
    BY <1>12, <1>14, <1>15, <1>16 DEF FinishedOnce, Entry, Job
  <1>19. FinishedCut'
    <2>1. CutStays
      BY <1>14, NothingCut
    <2>2. QED
      BY <1>12, <1>14, <2>1, CutKept
  <1>20. Awaited'
    <2> SUFFICES ASSUME NEW f \in Files
                 PROVE  /\ step = 3 => f \in Range(todo') \/ Entry(f) \in group'
                        /\ step = 5 => f \in Range(todo') \/ Job("tiles", f) \in group'
                        /\ step > 4 => Entry(f) \in finished
      <3>1. step \in {3, 5} /\ step' = step /\ finished' = finished
        BY <1>13, <1>14
      <3>2. \A f \in Files : Entry(f)' = Entry(f) /\ Job("tiles", f)' = Job("tiles", f)
        BY DEF Entry, Job
      <3>3. step' \notin {4, 6} /\ ~(step' > 6)
        BY <3>1
      <3>4. QED
        BY <3>1, <3>2, <3>3 DEF Awaited
    <2>1. f \in Range(todo) => f \in Range(todo') \/ f = g
      BY <1>5, <1>6
    <2>2. CASE step = 3
      BY <1>8, <1>12, <1>13, <1>14, <2>1, <2>2 DEF Awaited, Entry
    <2>3. CASE step = 5
      BY <1>8, <1>12, <1>13, <1>14, <2>1, <2>3 DEF Awaited
    <2>4. QED
      BY <1>13, <2>2, <2>3
  <1>21. QED
    BY <1>17, <1>18, <1>19, <1>20 DEF ThumbgenInv

-----------------------------------------------------------------------------
(* The theorems *)

(* No thread runs and nothing is finished. *)
LEMMA Initially == Init => IInv
  <1> SUFFICES ASSUME Init PROVE IInv
    OBVIOUS
  <1>1. /\ mode \in Modes /\ step = 1 /\ todo = <<>> /\ flagged = FALSE /\ mutex = "free"
        /\ group = {} /\ finished = {} /\ entries = <<>> /\ requests = <<>> /\ inbox = <<>>
        /\ database \subseteq Files /\ tiles \subseteq TilesOf(database)
        /\ lowest = [f \in Files |-> -1] /\ scale = [w \in Workers |-> 0]
        /\ db = [at |-> "nothing", job |-> NoJob] /\ dbquit = FALSE /\ dbabort = FALSE
        /\ queue = [w \in Workers |-> <<>>] /\ next_thread = 1
        /\ quit = [w \in Workers |-> FALSE] /\ abort = quit
    BY DEF Init
  <1>2. /\ worker \in [Workers -> [at : WorkerPlaces, job : JobOrNone]]
        /\ \A w \in Workers : worker[w].at = "nothing"
    <2> DEFINE c == [at |-> "nothing", job |-> NoJob]
    <2>1. c \in [at : WorkerPlaces, job : JobOrNone] /\ c.at = "nothing"
      BY DEF WorkerPlaces, JobOrNone
    <2>2. worker = [w \in Workers |-> c]
      BY DEF Init
    <2> HIDE DEF c
    <2>3. QED
      BY <2>1, <2>2
  <1>3. MainType
    <2>1. mode \in {"view", "thumbgen", "filegen", "test"}
      BY <1>1, ModesAssumption
    <2>2. todo \in Seq(Files) /\ todo \in Seq(Workers)
      BY <1>1
    <2>3. step \in Nat \ {0} /\ flagged = FALSE /\ mutex \in {"free", "main"}
          /\ group \subseteq JobType
      BY <1>1
    <2>4. QED
      BY <2>1, <2>2, <2>3 DEF MainType
  <1>4. DbType
    <2>1. db.at = "nothing" /\ db \in [at : DbPlaces, job : JobOrNone]
      BY <1>1 DEF DbPlaces, JobOrNone
    <2>2. /\ requests = <<>> /\ dbquit = FALSE /\ database \subseteq Files
          /\ tiles \subseteq Files \X Nat /\ lowest \in [Files -> Nat \cup {-1}]
      <3>1. \A f \in Files : Thumbnail[f] \in Nat
        BY ModesAssumption
      <3>2. TilesOf(database) \subseteq Files \X Nat
        BY <1>1, <3>1 DEF TilesOf
      <3>3. QED
        BY <1>1, <3>2
    <2>3. requests \in Seq(JobType)
      BY <2>2
    <2>4. dbquit \in BOOLEAN
      BY <2>2
    <2>5. QED
      BY <2>1, <2>2, <2>3, <2>4 DEF DbType, DbOK
  <1>5. QueueType /\ FlagType /\ DataType
    <2>1. /\ queue \in [Workers -> Seq(JobType)] /\ next_thread \in Workers
          /\ scale \in [Workers -> Nat]
      BY <1>1, Counted
    <2>2. quit \in [Workers -> BOOLEAN] /\ abort \in [Workers -> BOOLEAN] /\ dbabort \in BOOLEAN
      BY <1>1
    <2>3. finished \subseteq JobType /\ entries \in Seq(Files) /\ inbox \in Seq(Messages)
      BY <1>1
    <2>4. QED
      BY <2>1, <2>2, <2>3 DEF QueueType, FlagType, DataType
  <1>6. WorkerType
    BY <1>2 DEF WorkerType, WorkerOK
  <1>7. EarlyOnce
    BY <1>1 DEF EarlyOnce, Requested, InDb, Range
  <1>8. FinishedOnce
    BY <1>1, <1>2 DEF FinishedOnce, InPool, Range
  <1>9. FinishedCut /\ Awaited
    BY <1>1, <1>2 DEF FinishedCut, WorkerCut, LowestIsStored, Awaited
  <1>10. QED
    BY <1>3, <1>4, <1>5, <1>6, <1>7, <1>8, <1>9 DEF IInv, TypeOK, ThumbgenInv

(* Every step keeps the invariant. *)
LEMMA Step == IInv /\ [Next]_vars => IInv'
  <1> SUFFICES ASSUME IInv, [Next]_vars PROVE IInv'
    OBVIOUS
  <1>1. CASE UNCHANGED vars
    <2>1. /\ UNCHANGED <<mainVars, dbVars, poolVars, flags, finished, entries, inbox, worker>>
          /\ TypeOK
      BY <1>1 DEF vars, IInv
    <2>2. TypeOK'
      BY <2>1, TypesKept DEF TypeOK
    <2>3. (\A f \in Files : InDb(f)' => InDb(f)) /\ CutStays
      BY <2>1, NothingCut DEF InDb, Entry, Job, dbVars
    <2>4. UNCHANGED <<mainVars, poolVars, finished, entries, requests, worker>>
      BY <2>1 DEF dbVars
    <2>5. QED
      BY <2>2, <2>3, <2>4, DbAlone
  <1>2. CASE MainStep
    BY <1>2, StartStep, RequestFileStep, RequestTestStep, EndLoopStep, WaitStep, FlagWorkerStep,
       WakeWorkerStep, FlagDatabaseStep, JoinStep DEF MainStep
  <1>3. CASE DbStep
    BY <1>3, DbControlStep, StoreStep, TakeRequestStep, DbAppendsStep, HandOverStep DEF DbStep
  <1>4. CASE \E w \in Workers : WorkerStep(w)
    BY <1>4, WorkerStepOK
  <1>5. QED
    BY <1>1, <1>2, <1>3, <1>4 DEF Next

(* In every mode the threads hold jobs of the kind their place calls for,  *)
(* and what main() loops over are files where it requests and workers      *)
(* where it stops them (galapix.cpp:78-106, 250-461).                      *)
THEOREM TypeCorrect == Spec => []TypeOK
  <1>1. IInv => TypeOK
    BY DEF IInv
  <1>2. QED
    BY <1>1, Initially, Step, PTL DEF Spec

(* However many files and workers there are, no thread appends to          *)
(* thumbgen's vector once main() reads it, and every file is in it once:   *)
(* main() gets past the wait only if the database thread finished every    *)
(* handle, so that no worker ever had one of the requests                  *)
(* (galapix.cpp:289-317, database_thread.cpp:121-165).                     *)
THEOREM ReadsAloneHolds == Spec => []ReadsAlone
  <1>1. IInv => ReadsAlone
    <2> SUFFICES ASSUME IInv, mode = "thumbgen", step > 4
                 PROVE  /\ db.at # "append" /\ \A w \in Workers : worker[w].at # "append"
                        /\ IsInjective(entries) /\ Range(entries) = Files
      BY DEF ReadsAlone
    <2>1. TypeOK /\ FinishedOnce /\ \A f \in Files : Entry(f) \in finished
      BY DEF IInv, ThumbgenInv, Awaited
    <2>2. \A j \in JobType : j.kind = "entry" => \E f \in Files : j = Entry(f)
      BY JobsApart DEF Entry
    <2>3. db.at # "append"
      <3> SUFFICES ASSUME db.at = "append" PROVE FALSE
        OBVIOUS
      <3>1. PICK f \in Files : db.job = Entry(f)
        BY <2>1, <2>2 DEF TypeOK, DbType, DbOK
      <3>2. QED
        BY <2>1, <3>1 DEF FinishedOnce, Early, InDb
    <2>4. ASSUME NEW w \in Workers, worker[w].at = "append" PROVE FALSE
      <3>1. PICK f \in Files : worker[w].job = Entry(f)
        BY <2>1, <2>2, <2>4 DEF TypeOK, WorkerType, WorkerOK
      <3>2. QED
        BY <2>1, <2>4, <3>1 DEF FinishedOnce, InPool
    <2>5. entries \in Seq(Files)
      BY <2>1 DEF TypeOK, DataType
    <2>6. IsInjective(entries)
      <3>1. \A i \in DOMAIN entries : entries[i] \in Files
        BY <2>5
      <3>2. QED
        BY <2>1, <3>1 DEF FinishedOnce, IsInjective
    <2>7. Range(entries) = Files
      BY <2>1, <2>5 DEF FinishedOnce, Range
    <2>8. QED
      BY <2>3, <2>4, <2>6, <2>7
  <1>2. QED
    BY <1>1, Initially, Step, PTL DEF Spec

(* When main() begins to stop the threads, every tile thumbgen asked for   *)
(* has been cut, or the database thread had found one of its scale or of a *)
(* smaller one, of which the job is told the smallest: a handle is only    *)
(* finished after the last scale the job was left with, or at once if it   *)
(* was left with none, and the second wait is for a handle of every file   *)
(* (galapix.cpp:303-324, multiple_tile_generation_job.hpp:55-73).          *)
THEOREM ThumbnailsCutHolds == Spec => []ThumbnailsCut
  <1>1. IInv => ThumbnailsCut
    BY DEF IInv, ThumbgenInv, Awaited, FinishedCut, AllCut, ThumbnailsCut
  <1>2. QED
    BY <1>1, Initially, Step, PTL DEF Spec
===============================================================================
