------------------------- MODULE DatabaseThreadProofs -------------------------
(***************************************************************************)
(* Theorems about DatabaseThread, for any number of requests and workers,  *)
(* any size of the receive queue, every image and whatever the database    *)
(* holds when the program starts.                                          *)
(***************************************************************************)
EXTENDS DatabaseThread, FiniteSetTheorems, SequenceTheorems, WellFoundedInduction, TLAPS

JobStates == {"kWaiting", "kRunning", "kDone", "kAborted"}
JobType ==
  [state : JobStates, db : Ranges \cup {Empty}, range : Ranges \cup {Empty},
   requests : SUBSET Requests, late : SUBSET Requests, tiles : SUBSET AllTiles]

Pcs == {"idle", "starting", "cutting", "calling", "finishing", "over"}
WorkerType == [pc : Pcs, job : Jobs \cup {NoJob}, cut : Int \X Int]

TileMessages    == {TileMessage(r) : r \in Requests}
RemovalMessages == {RemovalMessage(j) : j \in Jobs}

TypeOK ==
  /\ jpeg \in BOOLEAN
  /\ wants \in [Requests -> AllTiles \cup {NoTile}]
  /\ aborted \subseteq Requests
  /\ answered \in [Requests -> Nat]
  /\ inbox \in Seq(TileMessages \cup RemovalMessages)
  /\ outbox \in Seq(AllTiles)
  /\ stored \in [AllTiles -> Nat]
  /\ at \in {"receive", "request", "hand over", "track", "crashed"}
  /\ fresh \in Jobs \cup {NoJob}
  /\ tracked \in Seq(Jobs)
  /\ made \in Nat /\ made <= Cardinality(Requests)
  /\ job \in [Jobs -> JobType]
  /\ queue \in [Workers -> Seq(Jobs)]
  /\ next_thread \in Workers
  /\ worker \in [Workers -> WorkerType]

(* A job is in one place: with the database thread, in one queue or with   *)
(* one worker.                                                             *)
InQueue(j, w) == j \in Range(queue[w])

Apart ==
  /\ \A w, v \in Workers : worker[w].job = worker[v].job /\ worker[w].job # NoJob => w = v
  /\ \A w, v \in Workers : worker[w].job \notin Range(queue[v])
  /\ \A w, v \in Workers : \A i \in DOMAIN queue[w], k \in DOMAIN queue[v] :
       queue[w][i] = queue[v][k] => w = v /\ i = k
  /\ at = "hand over" =>
       \A w \in Workers : worker[w].job # fresh /\ fresh \notin Range(queue[w])

(* The order tiles are cut in. *)
Before(s, t) == s[1] < t[1] \/ (s[1] = t[1] /\ s[2] < t[2])

(* Where a job is tells its state, and how far it is what it has cut.      *)
WorkerOK(w) ==
  LET j == worker[w].job
  IN  /\ worker[w].pc = "idle" <=> j = NoJob
      /\ j # NoJob => j \in Made
      /\ worker[w].pc = "starting" => job[j].state = "kWaiting"
      /\ worker[w].pc \in {"cutting", "calling", "finishing"} =>
           job[j].state = "kRunning" /\ job[j].range \in Ranges
      /\ worker[w].pc = "over" => job[j].state \in {"kAborted", "kDone"}
      /\ worker[w].pc \in {"cutting", "calling"} => worker[w].cut \in AllTiles
      /\ worker[w].pc = "cutting" => \A t \in job[j].tiles : Before(t, worker[w].cut)
      /\ worker[w].pc = "calling" =>
           \A t \in job[j].tiles : Before(t, worker[w].cut) \/ t = worker[w].cut

Waits(j) == j \in Made /\ job[j].state = "kWaiting"

Placed ==
  /\ \A w \in Workers : WorkerOK(w)
  /\ \A w \in Workers : \A i \in DOMAIN queue[w] : Waits(queue[w][i])
  /\ at = "hand over" => Waits(fresh)

JobOK(j) ==
  /\ job[j].state = "kWaiting" => job[j].late = {} /\ job[j].tiles = {}
  /\ IF j \in Made THEN job[j].requests # {}
                   ELSE job[j].state = "kWaiting" /\ job[j].requests = {}
  /\ ~jpeg /\ job[j].state = "kRunning" => job[j].range = [min |-> 0, max |-> Thumb]

(* A request is in the inbox or with one job. *)
Held(j) == job[j].requests \cup job[j].late

RequestsApart ==
  /\ \A i, k \in DOMAIN inbox : inbox[i] = inbox[k] /\ inbox[i] \in TileMessages => i = k
  /\ \A j \in Jobs : \A r \in Held(j) : TileMessage(r) \notin Range(inbox)
  /\ \A j, k \in Jobs : j # k => Held(j) \cap Held(k) = {}
  /\ \A j \in Jobs : job[j].requests \cap job[j].late = {}

Asked(r) == wants[r] # NoTile

(* It is not answered before its turn comes. *)
Unanswered ==
  /\ \A r \in Requests : TileMessage(r) \in Range(inbox) => Asked(r) /\ answered[r] = 0
  /\ \A r \in Requests : ~Asked(r) => answered[r] = 0
  /\ \A j \in Jobs : \A r \in Held(j) : Asked(r)
  /\ \A j \in Jobs : \A r \in job[j].late : answered[r] = 0
  /\ \A j \in Jobs : job[j].state = "kWaiting" => \A r \in job[j].requests : answered[r] = 0
  /\ \A w \in Workers : worker[w].pc \in {"cutting", "calling"} =>
       \A r \in job[worker[w].job].requests : answered[r] = 0 \/ Before(wants[r], worker[w].cut)

(* The jobs the database thread remembers. *)
Remembered ==
  /\ fresh # NoJob <=> at \in {"hand over", "track"}
  /\ fresh # NoJob => fresh \in Made
  /\ Range(tracked) \subseteq Made
  /\ fresh \notin Range(tracked)
  /\ \A i, k \in DOMAIN tracked : tracked[i] = tracked[k] => i = k
  /\ \A j \in Jobs : RemovalMessage(j) \in Range(inbox) => ~Unfinished(j)

(* An unfinished job of an image that is no JPEG is the one generate_tile() *)
(* would find.                                                              *)
OnlyNewestRuns ==
  ~jpeg => \A j \in Made : Unfinished(j) =>
             IF fresh # NoJob THEN j = fresh ELSE tracked # <<>> /\ j = Head(tracked)

IInv ==
  /\ TypeOK
  /\ Apart
  /\ Placed
  /\ \A j \in Jobs : JobOK(j)
  /\ RequestsApart
  /\ Unanswered
  /\ AnsweredOnce
  /\ Remembered
  /\ OnlyNewestWaits
  /\ OnlyNewestRuns
  /\ ToBeRemoved
  /\ TilesArrive

-----------------------------------------------------------------------------
(* Data *)

(* A set of scales, -1 included, has a lowest member, and Min finds it.    *)
LEMMA LowestScale ==
  ASSUME NEW S, S \subseteq Nat \cup {-1}, S # {}
  PROVE  Min(S) \in S /\ \A n \in S : Min(S) <= n
  <1> DEFINE R == StrictSubsetOrdering(Int)
             T == {-1 .. n : n \in S}
  <1>0. S \subseteq Int
    OBVIOUS
  <1>1. T # {} /\ T \subseteq FiniteSubsetsOf(Int)
    <2>1. \A n \in S : IsFiniteSet(-1 .. n) /\ (-1 .. n) \subseteq Int
      BY <1>0, FS_Interval
    <2>2. QED
      BY <2>1 DEF FiniteSubsetsOf
  <1>2. IsWellFoundedOn(R, FiniteSubsetsOf(Int))
    BY FS_StrictSubsetOrderingWellFounded
  <1> HIDE DEF R, T
  <1>3. PICK x \in T : \A y \in T : ~(<<y, x>> \in R)
    BY ONLY <1>1, <1>2, WFMin
  <1>4. PICK m \in S : x = -1 .. m
    BY <1>3 DEF T
  <1>5. ASSUME NEW n \in S, ~(m <= n) PROVE FALSE
    <2>1. -1 .. n \in T
      BY DEF T
    <2>2. (-1 .. n) \subseteq (-1 .. m) /\ m \in (-1 .. m) /\ m \notin (-1 .. n)
      BY <1>0, <1>5
    <2>3. (-1 .. n) \in SUBSET Int /\ (-1 .. m) \in SUBSET Int
      OBVIOUS
    <2>4. <<-1 .. n, -1 .. m>> \in R
      BY <2>2, <2>3 DEF R, StrictSubsetOrdering
    <2>5. QED
      BY <1>3, <1>4, <2>1, <2>4
  <1>6. \E k \in S : \A n \in S : k <= n
    BY <1>5
  <1>7. QED
    BY ONLY <1>6 DEF Min

(* The highest of those of an image, of which there is one as Thumb bounds *)
(* them.                                                                   *)
LEMMA HighestScale ==
  ASSUME NEW S, S \subseteq Scales, S # {}
  PROVE  Max(S) \in S /\ \A n \in S : n <= Max(S)
  <1>1. Thumb \in Nat
    BY GridAssumption DEF Thumb
  <1> DEFINE T == {Thumb - n : n \in S}
  <1>2. T \subseteq Nat \cup {-1} /\ T # {}
    <2>1. \A n \in S : Thumb - n \in Nat
      BY <1>1 DEF Scales
    <2>2. QED
      BY <2>1
  <1>3. PICK k \in T : \A n \in T : k <= n
    <2> HIDE DEF T
    <2>1. QED
      BY <1>2, LowestScale
  <1>4. PICK m \in S : k = Thumb - m
    BY <1>3
  <1>5. ASSUME NEW n \in S PROVE n <= m
    <2>1. k <= Thumb - n /\ n \in Int /\ m \in Int
      BY <1>3 DEF Scales
    <2>2. QED
      BY <1>1, <1>4, <2>1
  <1>6. \E x \in S : \A n \in S : n <= x
    BY <1>5
  <1>7. QED
    BY ONLY <1>6 DEF Max

(* The tiles of the image are positions within the grid.                   *)
LEMMA TilesOnGrid ==
  /\ Thumb \in Nat /\ Scales \subseteq Nat
  /\ \A s \in Scales : <<s, 0>> \in AllTiles
  /\ \A t \in AllTiles : /\ t = <<t[1], t[2]>> /\ t[1] \in Scales /\ t[2] \in Nat
                         /\ t[2] < Grid[t[1] + 1] /\ Scale(t) = t[1]
  /\ \A s \in Scales, i \in Nat : i < Grid[s + 1] => <<s, i>> \in AllTiles
  /\ NoTile \notin AllTiles
  <1>1. Thumb \in Nat /\ \A s \in Scales : s \in Nat /\ Grid[s + 1] \in Nat \ {0}
    BY GridAssumption DEF Thumb, Scales
  <1>2. \A s \in Scales, i \in Nat : i < Grid[s + 1] => <<s, i>> \in TilesAt(s)
    BY <1>1 DEF TilesAt
  <1>3. \A s \in Scales, i \in Nat : i < Grid[s + 1] => <<s, i>> \in AllTiles
    BY <1>2 DEF AllTiles
  <1>4. ASSUME NEW t \in AllTiles
        PROVE  /\ t = <<t[1], t[2]>> /\ t[1] \in Scales /\ t[2] \in Nat
               /\ t[2] < Grid[t[1] + 1] /\ Scale(t) = t[1]
    <2>1. PICK s \in Scales : t \in TilesAt(s)
      BY DEF AllTiles
    <2>2. PICK i \in 0 .. (Grid[s + 1] - 1) : t = <<s, i>>
      BY <2>1 DEF TilesAt
    <2>3. QED
      BY <2>1, <2>2, <1>1 DEF Scale
  <1>5. NoTile \notin AllTiles
    BY <1>1, <1>4 DEF NoTile
  <1>6. QED
    BY <1>1, <1>3, <1>4, <1>5

(* The next tile is a later one, and on the grid if its scale is.          *)
LEMMA NextTileAfter ==
  ASSUME NEW t \in AllTiles
  PROVE  /\ Before(t, NextTile(t)) /\ ~Before(t, t)
         /\ \A u \in AllTiles : Before(u, t) => Before(u, NextTile(t))
         /\ NextTile(t) \in Int \X Int
         /\ \A m \in Scales : Scale(NextTile(t)) <= m => NextTile(t) \in AllTiles
  <1>1. t[1] \in Nat /\ t[2] \in Nat /\ t[1] \in Scales /\ t[2] < Grid[t[1] + 1]
    BY TilesOnGrid
  <1>2. CASE t[2] + 1 < Grid[t[1] + 1]
    <2>1. NextTile(t) = <<t[1], t[2] + 1>>
      BY <1>2 DEF NextTile
    <2>2. NextTile(t) \in AllTiles
      BY <2>1, <1>1, <1>2, TilesOnGrid
    <2>3. QED
      BY <2>1, <2>2, <1>1, TilesOnGrid DEF Before
  <1>3. CASE ~(t[2] + 1 < Grid[t[1] + 1])
    <2>1. NextTile(t) = <<t[1] + 1, 0>>
      BY <1>3 DEF NextTile
    <2>2. ASSUME NEW m \in Scales, Scale(NextTile(t)) <= m
          PROVE  NextTile(t) \in AllTiles
      <3>1. t[1] + 1 \in Scales
        BY <2>1, <2>2, <1>1, GridAssumption DEF Scale, Scales, Thumb
      <3>2. QED
        BY <2>1, <3>1, TilesOnGrid
    <2>3. QED
      BY <2>1, <2>2, <1>1, TilesOnGrid DEF Before
  <1>4. QED
    BY <1>2, <1>3

(* Whatever was asked for and whatever the database holds, the scales of a *)
(* job are a non-empty range of those the image has.                       *)
LEMMA StartScalesOK ==
  ASSUME NEW d \in Ranges \cup {Empty}, NEW wanted, wanted \subseteq Scales, NEW j \in BOOLEAN
  PROVE  /\ StartScales(j, d, wanted) \in Ranges
         /\ ~j => StartScales(j, d, wanted) = [min |-> 0, max |-> Thumb]
  <1> DEFINE max == IF d.min # -1 THEN d.min - 1 ELSE Thumb
             min == Min({max} \cup wanted)
  <1>1. max \in Scales \cup {-1}
    BY TilesOnGrid DEF Ranges, Empty, Scales
  <1>2. min \in {max} \cup wanted /\ min <= max
    BY <1>1, TilesOnGrid, LowestScale
  <1>3. [min |-> 0, max |-> Thumb] \in Ranges
    BY TilesOnGrid DEF Ranges, Scales
  <1>4. min # -1 /\ max # -1 => [min |-> min, max |-> max] \in Ranges
    BY <1>1, <1>2, TilesOnGrid DEF Ranges
  <1>5. StartScales(j, d, wanted) =
          IF ~j \/ min = -1 \/ max = -1
          THEN [min |-> 0, max |-> Thumb] ELSE [min |-> min, max |-> max]
    BY DEF StartScales
  <1>6. QED
    BY <1>3, <1>4, <1>5

(* What a job is told of the database is a range of scales, or none.       *)
LEMMA ScalesToldOK ==
  ASSUME NEW s
  PROVE  ScalesTold(s) \in Ranges \cup {Empty}
  <1> DEFINE scales == {Scale(t) : t \in {u \in AllTiles : stored[u] > 0}}
  <1>1. scales \subseteq Scales
    BY TilesOnGrid
  <1>2. ASSUME scales # {} PROVE [min |-> Min(scales), max |-> Max(scales)] \in Ranges
    <2>1. scales \subseteq Nat \cup {-1}
      BY <1>1, TilesOnGrid
    <2> HIDE DEF scales
    <2>2. Min(scales) \in scales /\ \A n \in scales : Min(scales) <= n
      BY <1>2, <2>1, LowestScale
    <2>3. Max(scales) \in scales
      BY <1>1, <1>2, HighestScale
    <2>4. QED
      BY <1>1, <2>2, <2>3 DEF Ranges
  <1>3. ScalesInDatabase = IF scales = {} THEN Empty ELSE [min |-> Min(scales), max |-> Max(scales)]
    BY DEF ScalesInDatabase
  <1> HIDE DEF scales
  <1>4. QED
    BY <1>2, <1>3 DEF ScalesTold

(* Sequences: what is appended is added, ...                               *)
LEMMA Added ==
  ASSUME NEW S, NEW q \in Seq(S), NEW e \in S
  PROVE  /\ Append(q, e) \in Seq(S) /\ Range(Append(q, e)) = Range(q) \cup {e}
         /\ DOMAIN Append(q, e) = 1 .. (Len(q) + 1)
         /\ \A i \in 1 .. Len(q) : Append(q, e)[i] = q[i]
         /\ Append(q, e)[Len(q) + 1] = e
  <1>1. Append(q, e) \in Seq(S) /\ Len(Append(q, e)) = Len(q) + 1
        /\ \A i \in 1 .. Len(q) : Append(q, e)[i] = q[i]
        /\ Append(q, e)[Len(q) + 1] = e
    BY AppendProperties
  <1>2. DOMAIN Append(q, e) = 1 .. (Len(q) + 1) /\ DOMAIN q = 1 .. Len(q)
        /\ Len(q) \in Nat
    BY <1>1
  <1>3. Range(Append(q, e)) \subseteq Range(q) \cup {e}
    BY <1>1, <1>2 DEF Range
  <1>4. Range(q) \subseteq Range(Append(q, e))
    BY <1>1, <1>2 DEF Range
  <1>5. e \in Range(Append(q, e))
    BY <1>1, <1>2 DEF Range
  <1>6. QED
    BY <1>1, <1>2, <1>3, <1>4, <1>5

(* ... and what is taken was the first.                                    *)
LEMMA Shortened ==
  ASSUME NEW S, NEW q \in Seq(S), q # << >>
  PROVE  /\ Head(q) \in S /\ Tail(q) \in Seq(S)
         /\ 1 \in DOMAIN q /\ q[1] = Head(q)
         /\ DOMAIN q = 1 .. Len(q) /\ Len(q) \in Nat \ {0}
         /\ DOMAIN Tail(q) = 1 .. (Len(q) - 1)
         /\ \A i \in 1 .. (Len(q) - 1) : Tail(q)[i] = q[i + 1]
         /\ Range(q) = {Head(q)} \cup Range(Tail(q))
  <1>1. /\ Head(q) \in S /\ Tail(q) \in Seq(S) /\ q[1] = Head(q)
        /\ DOMAIN q = 1 .. Len(q) /\ Len(q) \in Nat \ {0}
        /\ DOMAIN Tail(q) = 1 .. (Len(q) - 1)
        /\ \A i \in 1 .. (Len(q) - 1) : Tail(q)[i] = q[i + 1]
    BY HeadTailProperties
  <1>2. Range(q) \subseteq {Head(q)} \cup Range(Tail(q))
    <2> SUFFICES ASSUME NEW i \in DOMAIN q PROVE q[i] \in {Head(q)} \cup Range(Tail(q))
      BY DEF Range
    <2>1. CASE i = 1
      BY <1>1, <2>1
    <2>2. CASE i # 1
      <3>1. i - 1 \in DOMAIN Tail(q) /\ Tail(q)[i - 1] = q[i]
        BY <1>1, <2>2
      <3>2. QED
        BY <3>1 DEF Range
    <2>3. QED
      BY <2>1, <2>2
  <1>3. {Head(q)} \cup Range(Tail(q)) \subseteq Range(q)
    BY <1>1 DEF Range
  <1>4. QED
    BY <1>1, <1>2, <1>3

(* erase() of the only entry of a list that is the job.                    *)
LEMMA Erased ==
  ASSUME NEW S, NEW q \in Seq(S), NEW e, \A i, k \in DOMAIN q : q[i] = q[k] => i = k
  PROVE  /\ RemoveFirst(q, e) \in Seq(S)
         /\ Range(RemoveFirst(q, e)) = Range(q) \ {e}
         /\ \A i \in DOMAIN RemoveFirst(q, e) :
              \E k \in DOMAIN q : RemoveFirst(q, e)[i] = q[k] /\ k >= i
         /\ \A i, k \in DOMAIN RemoveFirst(q, e) :
              RemoveFirst(q, e)[i] = RemoveFirst(q, e)[k] => i = k
         /\ q # << >> /\ e # Head(q) =>
              RemoveFirst(q, e) # << >> /\ Head(RemoveFirst(q, e)) = Head(q)
  <1>1. DOMAIN q = 1 .. Len(q) /\ Len(q) \in Nat
    OBVIOUS
  <1>2. CASE e \notin Range(q)
    <2>1. RemoveFirst(q, e) = q
      BY <1>1, <1>2 DEF RemoveFirst, Range
    <2>2. QED
      BY <1>1, <1>2, <2>1 DEF Range
  <1>3. CASE e \in Range(q)
    <2>1. PICK n \in 1 .. Len(q) : q[n] = e
      BY <1>1, <1>3 DEF Range
    <2>2. {k \in 1 .. Len(q) : q[k] = e} = {n}
      BY <1>1, <2>1
    <2>3. Min({n}) = n
      BY DEF Min
    <2>4. SelectInSeq(q, LAMBDA v : v = e) = n
      BY <2>2, <2>3 DEF SelectInSeq
    <2> DEFINE s == RemoveFirst(q, e)
    <2>5. s = SubSeq(q, 1, n - 1) \o SubSeq(q, n + 1, Len(q))
      BY <1>1, <2>1, <2>4 DEF RemoveFirst, RemoveAt
    <2>6. /\ SubSeq(q, 1, n - 1) \in Seq(S) /\ Len(SubSeq(q, 1, n - 1)) = n - 1
          /\ \A i \in 1 .. (n - 1) : SubSeq(q, 1, n - 1)[i] = q[i]
      BY <1>1
    <2>7. /\ SubSeq(q, n + 1, Len(q)) \in Seq(S) /\ Len(SubSeq(q, n + 1, Len(q))) = Len(q) - n
          /\ \A i \in 1 .. (Len(q) - n) : SubSeq(q, n + 1, Len(q))[i] = q[n + i]
      <3> DEFINE b == SubSeq(q, n + 1, Len(q))
      <3>1. b = [i \in 1 .. (Len(q) - (n + 1) + 1) |-> q[i + (n + 1) - 1]]
        BY <1>1 DEF SubSeq
      <3>2. Len(q) - (n + 1) + 1 = Len(q) - n /\ Len(q) - n \in Nat
        BY <1>1
      <3> HIDE DEF b
      <3>3. DOMAIN b = 1 .. (Len(q) - n)
        BY <3>1, <3>2
      <3>4. ASSUME NEW i \in 1 .. (Len(q) - n) PROVE b[i] = q[n + i] /\ b[i] \in S
        <4>1. i + (n + 1) - 1 = n + i /\ n + i \in DOMAIN q
          BY <1>1
        <4>2. QED
          BY <3>1, <3>2, <4>1
      <3>5. b \in Seq(S) /\ Len(b) = Len(q) - n
        <4>1. b \in [1 .. (Len(q) - n) -> S]
          BY <3>1, <3>3, <3>4
        <4> DEFINE k == Len(q) - n
        <4> HIDE DEF k
        <4>2. b \in [1 .. k -> S] /\ k \in Nat
          BY <3>2, <4>1 DEF k
        <4>3. b \in Seq(S) /\ Len(b) = k
          BY <4>2
        <4>4. QED
          BY <4>3 DEF k
      <3>6. QED
        BY <3>4, <3>5 DEF b
    <2> DEFINE a == SubSeq(q, 1, n - 1)
               b == SubSeq(q, n + 1, Len(q))
    <2>8. /\ a \o b \in Seq(S) /\ Len(a \o b) = Len(a) + Len(b)
          /\ \A i \in 1 .. (Len(a) + Len(b)) : (a \o b)[i] = IF i <= Len(a) THEN a[i] ELSE b[i - Len(a)]
      <3> HIDE DEF a, b
      <3>1. a \in Seq(S) /\ b \in Seq(S)
        BY <2>6, <2>7 DEF a, b
      <3>2. QED
        BY <3>1, ConcatProperties
    <2>9. /\ s \in Seq(S) /\ DOMAIN s = 1 .. (Len(q) - 1)
          /\ \A i \in 1 .. (Len(q) - 1) : s[i] = IF i < n THEN q[i] ELSE q[i + 1]
      <3> HIDE DEF a, b, s
      <3>1. /\ s = a \o b /\ Len(a) = n - 1 /\ Len(b) = Len(q) - n
            /\ \A i \in 1 .. (n - 1) : a[i] = q[i]
            /\ \A i \in 1 .. (Len(q) - n) : b[i] = q[n + i]
        BY <2>5, <2>6, <2>7 DEF a, b, s
      <3>2. s \in Seq(S) /\ Len(s) = Len(q) - 1
        <4>1. s \in Seq(S) /\ Len(s) = Len(a) + Len(b)
          BY <2>8, <3>1
        <4>2. QED
          BY <1>1, <3>1, <4>1
      <3>3. ASSUME NEW i \in 1 .. (Len(q) - 1) PROVE s[i] = IF i < n THEN q[i] ELSE q[i + 1]
        <4>1. s[i] = IF i <= n - 1 THEN a[i] ELSE b[i - (n - 1)]
          BY <1>1, <2>8, <3>1
        <4>2. CASE i < n
          BY <3>1, <4>1, <4>2
        <4>3. CASE ~(i < n)
          <5>1. i - (n - 1) \in 1 .. (Len(q) - n) /\ n + (i - (n - 1)) = i + 1
            BY <1>1, <4>3
          <5>2. QED
            BY <3>1, <4>1, <4>3, <5>1
        <4>4. QED
          BY <4>2, <4>3
      <3>4. QED
        BY <3>2, <3>3
    <2> HIDE DEF s
    <2>10. \A i \in DOMAIN s : \E k \in DOMAIN q : s[i] = q[k] /\ k >= i /\ k # n
      <3> TAKE i \in DOMAIN s
      <3>1. i \in DOMAIN q /\ i + 1 \in DOMAIN q /\ i \in Nat
        BY <1>1, <2>9
      <3>2. QED
        BY <2>9, <3>1
    <2>11. Range(s) = Range(q) \ {e}
      <3>1. Range(s) \subseteq Range(q) \ {e}
        <4>1. \A i \in DOMAIN s : s[i] \in Range(q) /\ s[i] # e
          BY <1>1, <2>1, <2>10 DEF Range
        <4>2. QED
          BY <4>1 DEF Range
      <3>2. ASSUME NEW k \in DOMAIN q, q[k] # e PROVE q[k] \in Range(s)
        <4>1. CASE k < n
          <5>1. k \in DOMAIN s /\ s[k] = q[k]
            BY <1>1, <2>9, <4>1
          <5>2. QED
            BY <5>1 DEF Range
        <4>2. CASE k > n
          <5>1. k - 1 \in DOMAIN s /\ s[k - 1] = q[k]
            BY <1>1, <2>9, <4>2
          <5>2. QED
            BY <5>1 DEF Range
        <4>3. QED
          BY <1>1, <2>1, <3>2, <4>1, <4>2
      <3>3. QED
        BY <3>1, <3>2 DEF Range
    <2>12. ASSUME NEW i \in DOMAIN s, NEW k \in DOMAIN s, s[i] = s[k] PROVE i = k
      <3> DEFINE f(x) == IF x < n THEN x ELSE x + 1
      <3>1. f(i) \in DOMAIN q /\ f(k) \in DOMAIN q /\ s[i] = q[f(i)] /\ s[k] = q[f(k)]
        BY <1>1, <2>9
      <3>2. f(i) = f(k)
        BY <2>12, <3>1
      <3>3. i \in Nat /\ k \in Nat
        BY <1>1, <2>9
      <3>4. QED
        BY <3>2, <3>3
    <2>13. q # << >> /\ e # Head(q) => s # << >> /\ Head(s) = Head(q)
      BY <1>1, <2>1, <2>9
    <2>14. QED
      BY <2>9, <2>10, <2>11, <2>12, <2>13 DEF s
  <1>4. QED
    BY <1>2, <1>3

-----------------------------------------------------------------------------
(* What a step does to the jobs, the workers and the queues, field by field *)

(* Numbers of requests and jobs, and the workers in their circle. *)
LEMMA Constants ==
  /\ Cardinality(Requests) \in Nat
  /\ \A j \in Jobs : j \in Int /\ j # NoJob
  /\ Workers \subseteq Int
  /\ \A w \in Workers : (w + 1) % NumWorkers \in Workers
  <1>1. Cardinality(Requests) \in Nat
    BY ServiceAssumption, FS_CardinalityType
  <1>2. \A w \in Workers : w + 1 \in Int /\ NumWorkers \in Nat \ {0}
    BY ServiceAssumption DEF Workers
  <1>3. \A w \in Workers : (w + 1) % NumWorkers \in Workers
    BY <1>2 DEF Workers
  <1>4. QED
    BY <1>1, <1>3 DEF Jobs, NoJob, Workers

(* No two messages are the same but for the same request or the same job. *)
LEMMA Messages ==
  /\ \A r, s \in Requests : TileMessage(r) = TileMessage(s) => r = s
  /\ \A j, k \in Jobs : RemovalMessage(j) = RemovalMessage(k) => j = k
  /\ \A r \in Requests, j \in Jobs : TileMessage(r) # RemovalMessage(j)
  /\ TileMessages \cap RemovalMessages = {}
  BY DEF TileMessage, RemovalMessage, TileMessages, RemovalMessages

(* What the types say of the jobs the program knows. *)
LEMMA KnownJobs ==
  ASSUME TypeOK
  PROVE  /\ Made \subseteq Jobs /\ \A j \in Jobs : j \in Made <=> j <= made
         /\ fresh \in Jobs \cup {NoJob} /\ NoJob \notin Jobs /\ NoJob \notin Made
         /\ tracked \in Seq(Jobs) /\ Range(tracked) \subseteq Jobs
         /\ \A i \in DOMAIN tracked : tracked[i] \in Jobs
         /\ \A w \in Workers : /\ queue[w] \in Seq(Jobs) /\ Range(queue[w]) \subseteq Jobs
                              /\ \A i \in DOMAIN queue[w] : queue[w][i] \in Jobs
  <1>1. made \in Nat /\ made <= Cardinality(Requests)
    BY DEF TypeOK
  <1>2. Made \subseteq Jobs /\ \A j \in Jobs : j \in Made <=> j <= made
    BY <1>1, Constants DEF Made, Jobs
  <1>3. fresh \in Jobs \cup {NoJob} /\ tracked \in Seq(Jobs) /\ queue \in [Workers -> Seq(Jobs)]
    BY DEF TypeOK
  <1>4. \A q \in Seq(Jobs) : Range(q) \subseteq Jobs /\ \A i \in DOMAIN q : q[i] \in Jobs
    BY DEF Range
  <1>5. NoJob \notin Jobs
    BY DEF NoJob, Jobs
  <1>6. QED
    BY <1>2, <1>3, <1>4, <1>5

(* A job has the fields of its type, ... *)
LEMMA JobFields ==
  ASSUME TypeOK, NEW j \in Jobs
  PROVE  /\ job[j].state \in JobStates
         /\ job[j].db \in Ranges \cup {Empty} /\ job[j].range \in Ranges \cup {Empty}
         /\ job[j].requests \subseteq Requests /\ job[j].late \subseteq Requests
         /\ job[j].tiles \subseteq AllTiles
  BY DEF TypeOK, JobType

(* ... and a worker too. *)
LEMMA WorkerFields ==
  ASSUME TypeOK, NEW w \in Workers
  PROVE  /\ worker[w].pc \in Pcs /\ worker[w].job \in Jobs \cup {NoJob}
         /\ worker[w].cut \in Int \X Int
  BY DEF TypeOK, WorkerType

(* One field of a job is changed, ... *)
LEMMA StateSet ==
  ASSUME TypeOK, NEW j \in Jobs, NEW s \in JobStates, job' = [job EXCEPT ![j].state = s]
  PROVE  /\ job' \in [Jobs -> JobType] /\ job'[j].state = s
         /\ \A k \in Jobs : /\ k # j => job'[k] = job[k]
                            /\ job'[k].db = job[k].db /\ job'[k].range = job[k].range
                            /\ job'[k].requests = job[k].requests
                            /\ job'[k].late = job[k].late /\ job'[k].tiles = job[k].tiles
  <1>1. \A c \in JobType : LET d == [c EXCEPT !.state = s]
                           IN  /\ d \in JobType /\ d.state = s /\ d.db = c.db /\ d.range = c.range
                               /\ d.requests = c.requests /\ d.late = c.late /\ d.tiles = c.tiles
    BY DEF JobType
  <1>2. job \in [Jobs -> JobType]
    BY DEF TypeOK
  <1> DEFINE d == [job[j] EXCEPT !.state = s]
  <1>3. job' = [job EXCEPT ![j] = d]
    OBVIOUS
  <1>4. /\ d \in JobType /\ d.state = s /\ d.db = job[j].db /\ d.range = job[j].range
        /\ d.requests = job[j].requests /\ d.late = job[j].late /\ d.tiles = job[j].tiles
    BY <1>1, <1>2
  <1> HIDE DEF d
  <1>5. QED
    BY <1>2, <1>3, <1>4

(* ... or two of them. *)
LEMMA RangeSet ==
  ASSUME TypeOK, NEW j \in Jobs, NEW g \in Ranges,
         job' = [job EXCEPT ![j].state = "kRunning", ![j].range = g]
  PROVE  /\ job' \in [Jobs -> JobType] /\ job'[j].state = "kRunning" /\ job'[j].range = g
         /\ \A k \in Jobs : /\ k # j => job'[k] = job[k]
                            /\ job'[k].db = job[k].db
                            /\ job'[k].requests = job[k].requests
                            /\ job'[k].late = job[k].late /\ job'[k].tiles = job[k].tiles
  <1>1. \A c \in JobType :
          LET d == [c EXCEPT !.state = "kRunning", !.range = g]
          IN  /\ d \in JobType /\ d.state = "kRunning" /\ d.range = g /\ d.db = c.db
              /\ d.requests = c.requests /\ d.late = c.late /\ d.tiles = c.tiles
    BY DEF JobType, JobStates
  <1>2. job \in [Jobs -> JobType]
    BY DEF TypeOK
  <1> DEFINE d == [job[j] EXCEPT !.state = "kRunning", !.range = g]
  <1>3. job' = [job EXCEPT ![j] = d]
    BY <1>2
  <1>4. /\ d \in JobType /\ d.state = "kRunning" /\ d.range = g /\ d.db = job[j].db
        /\ d.requests = job[j].requests /\ d.late = job[j].late /\ d.tiles = job[j].tiles
    BY <1>1, <1>2
  <1> HIDE DEF d
  <1>5. QED
    BY <1>2, <1>3, <1>4

(* process_tile() adds a tile to those the job has cut. *)
LEMMA TileAdded ==
  ASSUME TypeOK, NEW j \in Jobs, NEW t \in AllTiles,
         job' = [job EXCEPT ![j].tiles = @ \cup {t}]
  PROVE  /\ job' \in [Jobs -> JobType] /\ job'[j].tiles = job[j].tiles \cup {t}
         /\ \A k \in Jobs : /\ k # j => job'[k] = job[k]
                            /\ job'[k].state = job[k].state
                            /\ job'[k].db = job[k].db /\ job'[k].range = job[k].range
                            /\ job'[k].requests = job[k].requests /\ job'[k].late = job[k].late
  <1>1. \A c \in JobType :
          LET d == [c EXCEPT !.tiles = @ \cup {t}]
          IN  /\ d \in JobType /\ d.tiles = c.tiles \cup {t} /\ d.state = c.state
              /\ d.db = c.db /\ d.range = c.range
              /\ d.requests = c.requests /\ d.late = c.late
    BY DEF JobType
  <1>2. job \in [Jobs -> JobType]
    BY DEF TypeOK
  <1> DEFINE d == [job[j] EXCEPT !.tiles = @ \cup {t}]
  <1>3. job' = [job EXCEPT ![j] = d]
    BY <1>2
  <1>4. /\ d \in JobType /\ d.tiles = job[j].tiles \cup {t} /\ d.state = job[j].state
        /\ d.db = job[j].db /\ d.range = job[j].range
        /\ d.requests = job[j].requests /\ d.late = job[j].late
    BY <1>1, <1>2
  <1> HIDE DEF d
  <1>5. QED
    BY <1>2, <1>3, <1>4

(* At the end of run() the job is done and no late request is left. *)
LEMMA JobEnded ==
  ASSUME TypeOK, NEW j \in Jobs,
         job' = [job EXCEPT ![j].state = "kDone", ![j].late = {}]
  PROVE  /\ job' \in [Jobs -> JobType] /\ job'[j].state = "kDone" /\ job'[j].late = {}
         /\ \A k \in Jobs : /\ k # j => job'[k] = job[k]
                            /\ job'[k].db = job[k].db /\ job'[k].range = job[k].range
                            /\ job'[k].requests = job[k].requests /\ job'[k].tiles = job[k].tiles
  <1>1. \A c \in JobType :
          LET d == [c EXCEPT !.state = "kDone", !.late = {}]
          IN  /\ d \in JobType /\ d.state = "kDone" /\ d.late = {} /\ d.db = c.db
              /\ d.range = c.range /\ d.requests = c.requests /\ d.tiles = c.tiles
    BY DEF JobType, JobStates
  <1>2. job \in [Jobs -> JobType]
    BY DEF TypeOK
  <1> DEFINE d == [job[j] EXCEPT !.state = "kDone", !.late = {}]
  <1>3. job' = [job EXCEPT ![j] = d]
    BY <1>2
  <1>4. /\ d \in JobType /\ d.state = "kDone" /\ d.late = {} /\ d.db = job[j].db
        /\ d.range = job[j].range /\ d.requests = job[j].requests /\ d.tiles = job[j].tiles
    BY <1>1, <1>2
  <1> HIDE DEF d
  <1>5. QED
    BY <1>2, <1>3, <1>4

(* A request joins the job: among those it waits for, or those that come   *)
(* late.                                                                   *)
LEMMA RequestJoined ==
  ASSUME TypeOK, NEW j \in Jobs, NEW r \in Requests, job' = Joined(j, r)
  PROVE  /\ job' \in [Jobs -> JobType]
         /\ job'[j].requests = IF job[j].state = "kWaiting" THEN job[j].requests \cup {r}
                                                            ELSE job[j].requests
         /\ job'[j].late = IF job[j].state = "kRunning" THEN job[j].late \cup {r}
                                                        ELSE job[j].late
         /\ \A k \in Jobs : /\ k # j => job'[k] = job[k]
                            /\ job'[k].state = job[k].state /\ job'[k].db = job[k].db
                            /\ job'[k].range = job[k].range /\ job'[k].tiles = job[k].tiles
  <1>1. \A c \in JobType, rs, ls \in SUBSET Requests :
          LET d == [c EXCEPT !.requests = rs, !.late = ls]
          IN  /\ d \in JobType /\ d.requests = rs /\ d.late = ls /\ d.state = c.state
              /\ d.db = c.db /\ d.range = c.range /\ d.tiles = c.tiles
    BY DEF JobType
  <1>2. job \in [Jobs -> JobType]
    BY DEF TypeOK
  <1> DEFINE rs == IF job[j].state = "kWaiting" THEN job[j].requests \cup {r} ELSE job[j].requests
             ls == IF job[j].state = "kRunning" THEN job[j].late \cup {r} ELSE job[j].late
             d  == [job[j] EXCEPT !.requests = rs, !.late = ls]
  <1>3. job' = [job EXCEPT ![j] = d]
    BY <1>2 DEF Joined
  <1>4. rs \in SUBSET Requests /\ ls \in SUBSET Requests /\ job[j] \in JobType
    BY <1>2, JobFields
  <1>5. /\ d \in JobType /\ d.requests = rs /\ d.late = ls /\ d.state = job[j].state
        /\ d.db = job[j].db /\ d.range = job[j].range /\ d.tiles = job[j].tiles
    <2> HIDE DEF rs, ls
    <2>1. \A a, b \in SUBSET Requests :
            LET e == [job[j] EXCEPT !.requests = a, !.late = b]
            IN  /\ e \in JobType /\ e.requests = a /\ e.late = b /\ e.state = job[j].state
                /\ e.db = job[j].db /\ e.range = job[j].range /\ e.tiles = job[j].tiles
      BY <1>1, <1>4, Zenon
    <2>2. QED
      BY <1>4, <2>1, Zenon
  <1> HIDE DEF d
  <1>6. QED
    BY <1>2, <1>3, <1>5

(* The job made for a request is waiting and has that request alone. *)
LEMMA JobCreated ==
  ASSUME TypeOK, NEW j \in Jobs, NEW r \in Requests, NEW s,
         job' = [job EXCEPT ![j] = NewJob(ScalesTold(s), {r})]
  PROVE  /\ job' \in [Jobs -> JobType]
         /\ job'[j].state = "kWaiting" /\ job'[j].requests = {r}
         /\ job'[j].late = {} /\ job'[j].tiles = {}
         /\ \A k \in Jobs : k # j => job'[k] = job[k]
  <1> DEFINE d == NewJob(ScalesTold(s), {r})
  <1>1. ScalesTold(s) \in Ranges \cup {Empty}
    BY ScalesToldOK
  <1>2. /\ d \in JobType /\ d.state = "kWaiting" /\ d.requests = {r}
        /\ d.late = {} /\ d.tiles = {}
    BY <1>1 DEF NewJob, JobType, JobStates
  <1>3. job \in [Jobs -> JobType]
    BY DEF TypeOK
  <1> HIDE DEF d
  <1>4. job' = [job EXCEPT ![j] = d]
    BY DEF d
  <1>5. QED
    BY <1>2, <1>3, <1>4

(* What a worker does next, and what it has in hand. *)
LEMMA WorkerMoved ==
  ASSUME TypeOK, NEW w \in Workers, NEW p \in Pcs, worker' = [worker EXCEPT ![w].pc = p]
  PROVE  /\ worker' \in [Workers -> WorkerType] /\ worker'[w].pc = p
         /\ \A v \in Workers : /\ v # w => worker'[v] = worker[v]
                               /\ worker'[v].job = worker[v].job /\ worker'[v].cut = worker[v].cut
  <1>1. \A c \in WorkerType : LET d == [c EXCEPT !.pc = p]
                              IN  d \in WorkerType /\ d.pc = p /\ d.job = c.job /\ d.cut = c.cut
    BY DEF WorkerType
  <1>2. worker \in [Workers -> WorkerType]
    BY DEF TypeOK
  <1> DEFINE d == [worker[w] EXCEPT !.pc = p]
  <1>3. worker' = [worker EXCEPT ![w] = d]
    BY <1>2
  <1>4. d \in WorkerType /\ d.pc = p /\ d.job = worker[w].job /\ d.cut = worker[w].cut
    BY <1>1, <1>2
  <1> HIDE DEF d
  <1>5. QED
    BY <1>2, <1>3, <1>4

(* The worker changes the job it has in hand, ... *)
LEMMA WorkerTook ==
  ASSUME TypeOK, NEW w \in Workers, NEW p \in Pcs, NEW j \in Jobs,
         worker' = [worker EXCEPT ![w].pc = p, ![w].job = j]
  PROVE  /\ worker' \in [Workers -> WorkerType] /\ worker'[w].pc = p /\ worker'[w].job = j
         /\ \A v \in Workers : v # w => worker'[v] = worker[v]
  <1>1. \A c \in WorkerType : LET d == [c EXCEPT !.pc = p, !.job = j]
                              IN  d \in WorkerType /\ d.pc = p /\ d.job = j
    BY DEF WorkerType
  <1>2. worker \in [Workers -> WorkerType]
    BY DEF TypeOK
  <1> DEFINE d == [worker[w] EXCEPT !.pc = p, !.job = j]
  <1>3. worker' = [worker EXCEPT ![w] = d]
    BY <1>2
  <1>4. d \in WorkerType /\ d.pc = p /\ d.job = j
    BY <1>1, <1>2
  <1> HIDE DEF d
  <1>5. QED
    BY <1>2, <1>3, <1>4

(* ... goes on to the next tile, ... *)
LEMMA WorkerCuts ==
  ASSUME TypeOK, NEW w \in Workers, NEW p \in Pcs, NEW t \in Int \X Int,
         worker' = [worker EXCEPT ![w].cut = t, ![w].pc = p]
  PROVE  /\ worker' \in [Workers -> WorkerType] /\ worker'[w].pc = p /\ worker'[w].cut = t
         /\ \A v \in Workers : /\ v # w => worker'[v] = worker[v]
                               /\ worker'[v].job = worker[v].job
  <1>1. \A c \in WorkerType : LET d == [c EXCEPT !.cut = t, !.pc = p]
                              IN  d \in WorkerType /\ d.pc = p /\ d.cut = t /\ d.job = c.job
    BY DEF WorkerType
  <1>2. worker \in [Workers -> WorkerType]
    BY DEF TypeOK
  <1> DEFINE d == [worker[w] EXCEPT !.cut = t, !.pc = p]
  <1>3. worker' = [worker EXCEPT ![w] = d]
    BY <1>2
  <1>4. d \in WorkerType /\ d.pc = p /\ d.cut = t /\ d.job = worker[w].job
    BY <1>1, <1>2
  <1> HIDE DEF d
  <1>5. QED
    BY <1>2, <1>3, <1>4

(* ... or begins with the first. *)
LEMMA WorkerStarts ==
  ASSUME TypeOK, NEW w \in Workers, NEW p \in Pcs, NEW t \in Int \X Int,
         worker' = [worker EXCEPT ![w].pc = p, ![w].cut = t]
  PROVE  /\ worker' \in [Workers -> WorkerType] /\ worker'[w].pc = p /\ worker'[w].cut = t
         /\ \A v \in Workers : /\ v # w => worker'[v] = worker[v]
                               /\ worker'[v].job = worker[v].job
  <1>1. \A c \in WorkerType : LET d == [c EXCEPT !.pc = p, !.cut = t]
                              IN  d \in WorkerType /\ d.pc = p /\ d.cut = t /\ d.job = c.job
    BY DEF WorkerType
  <1>2. worker \in [Workers -> WorkerType]
    BY DEF TypeOK
  <1> DEFINE d == [worker[w] EXCEPT !.pc = p, !.cut = t]
  <1>3. worker' = [worker EXCEPT ![w] = d]
    BY <1>2
  <1>4. d \in WorkerType /\ d.pc = p /\ d.cut = t /\ d.job = worker[w].job
    BY <1>1, <1>2
  <1> HIDE DEF d
  <1>5. QED
    BY <1>2, <1>3, <1>4

(* The callbacks of some requests are called. *)
LEMMA Answered ==
  ASSUME TypeOK, NEW rs \in SUBSET Requests,
         answered' = [r \in Requests |-> IF r \in rs THEN answered[r] + 1 ELSE answered[r]]
  PROVE  /\ answered' \in [Requests -> Nat]
         /\ \A r \in Requests : /\ r \in rs => answered'[r] = answered[r] + 1
                               /\ r \notin rs => answered'[r] = answered[r]
  <1>1. \A r \in Requests : answered[r] \in Nat
    BY DEF TypeOK
  <1>2. QED
    BY <1>1

(* A message leaves the inbox: each request has been there once only.      *)
LEMMA MessageTaken ==
  ASSUME TypeOK, RequestsApart, NEW m, Take(m)
  PROVE  /\ m \in TileMessages \cup RemovalMessages /\ m \in Range(inbox)
         /\ inbox' \in Seq(TileMessages \cup RemovalMessages)
         /\ Range(inbox) = {m} \cup Range(inbox')
         /\ m \in TileMessages => m \notin Range(inbox')
         /\ \A i, k \in DOMAIN inbox' :
              inbox'[i] = inbox'[k] /\ inbox'[i] \in TileMessages => i = k
  <1> DEFINE M == TileMessages \cup RemovalMessages
  <1>1. inbox \in Seq(M) /\ inbox # << >> /\ m = Head(inbox) /\ inbox' = Tail(inbox)
    BY DEF TypeOK, Take
  <1> HIDE DEF M
  <1>2. /\ Head(inbox) \in M /\ Tail(inbox) \in Seq(M)
        /\ 1 \in DOMAIN inbox /\ inbox[1] = Head(inbox)
        /\ DOMAIN inbox = 1 .. Len(inbox) /\ Len(inbox) \in Nat \ {0}
        /\ DOMAIN Tail(inbox) = 1 .. (Len(inbox) - 1)
        /\ \A i \in 1 .. (Len(inbox) - 1) : Tail(inbox)[i] = inbox[i + 1]
        /\ Range(inbox) = {Head(inbox)} \cup Range(Tail(inbox))
    BY ONLY <1>1, Shortened
  <1>3. \A i, k \in DOMAIN inbox : inbox[i] = inbox[k] /\ inbox[i] \in TileMessages => i = k
    BY DEF RequestsApart
  <1>4. \A i \in DOMAIN inbox' : /\ i + 1 \in DOMAIN inbox /\ inbox'[i] = inbox[i + 1]
                                 /\ i \in Nat /\ i + 1 # 1
    BY <1>1, <1>2
  <1>5. \A i, k \in DOMAIN inbox' : inbox'[i] = inbox'[k] /\ inbox'[i] \in TileMessages => i = k
    <2> TAKE i, k \in DOMAIN inbox'
    <2>1. inbox'[i] = inbox'[k] /\ inbox'[i] \in TileMessages => i + 1 = k + 1
      BY <1>3, <1>4
    <2>2. QED
      BY <1>4, <2>1
  <1>6. m \in TileMessages => m \notin Range(inbox')
    <2> SUFFICES ASSUME m \in TileMessages, NEW i \in DOMAIN inbox', inbox'[i] = m PROVE FALSE
      BY DEF Range
    <2>1. inbox[i + 1] = inbox[1] /\ inbox[1] \in TileMessages /\ i + 1 \in DOMAIN inbox
      BY <1>1, <1>2, <1>4
    <2>2. QED
      BY <1>2, <1>3, <1>4, <2>1
  <1>7. QED
    BY <1>1, <1>2, <1>5, <1>6 DEF M

-----------------------------------------------------------------------------
(* The variables a part of the invariant depends on: a step that leaves    *)
(* them alone keeps it.                                                    *)

SameHands == \A w \in Workers : worker'[w].job = worker[w].job
SameStates == \A j \in Jobs : job'[j].state = job[j].state
SameRequests ==
  \A j \in Jobs : job'[j].requests = job[j].requests /\ job'[j].late = job[j].late

(* Nobody passes a job on. *)
LEMMA ApartKept ==
  ASSUME Apart, SameHands, queue' = queue,
         at' = "hand over" => at = "hand over" /\ fresh' = fresh
  PROVE  Apart'
  <1>1. \A w \in Workers : worker'[w].job = worker[w].job
    BY DEF SameHands
  <1>2. \A w, v \in Workers : worker'[w].job = worker'[v].job /\ worker'[w].job # NoJob => w = v
    BY <1>1 DEF Apart
  <1>3. \A w, v \in Workers : worker'[w].job \notin Range(queue'[v])
    BY <1>1 DEF Apart
  <1>4. ASSUME at' = "hand over"
        PROVE  \A w \in Workers : worker'[w].job # fresh' /\ fresh' \notin Range(queue'[w])
    BY <1>1, <1>4 DEF Apart
  <1>5. (\A w, v \in Workers : \A i \in DOMAIN queue[w], k \in DOMAIN queue[v] :
           queue[w][i] = queue[v][k] => w = v /\ i = k)'
    BY DEF Apart
  <1>6. QED
    BY <1>2, <1>3, <1>4, <1>5 DEF Apart

(* Jobs stay where they are, in the state they are in. *)
LEMMA PlacedKept ==
  ASSUME Placed, worker' = worker, queue' = queue, made' = made,
         SameStates, TypeOK, Apart,
         \A j \in Jobs : job'[j].range = job[j].range /\ job'[j].tiles = job[j].tiles,
         at' = "hand over" => at = "hand over" /\ fresh' = fresh
  PROVE  Placed'
  <1>1. \A w \in Workers : WorkerOK(w)'
    <2> TAKE w \in Workers
    <2> DEFINE j == worker[w].job
    <2>1. j \in Jobs \cup {NoJob}
      BY WorkerFields
    <2>2. CASE j = NoJob
      BY <2>2, WorkerFields DEF Placed, WorkerOK, Pcs
    <2>3. CASE j # NoJob
      <3>1. job'[j].state = job[j].state /\ job'[j].range = job[j].range
            /\ job'[j].tiles = job[j].tiles
        BY <2>1, <2>3 DEF SameStates
      <3>2. QED
        BY <3>1 DEF Placed, WorkerOK, Made
    <2>4. QED
      BY <2>2, <2>3
  <1>2. \A w \in Workers : \A i \in DOMAIN queue[w] : queue[w][i] \in Jobs
    BY KnownJobs
  <1>3. \A j \in Jobs : Waits(j) => Waits(j)'
    BY DEF Waits, Made, SameStates
  <1>4. \A w \in Workers : \A i \in DOMAIN queue[w] : Waits(queue[w][i])'
    BY <1>2, <1>3 DEF Placed
  <1>5. ASSUME at' = "hand over" PROVE Waits(fresh)'
    <2>1. at = "hand over" /\ fresh' = fresh
      BY <1>5
    <2>2. Waits(fresh)
      BY <2>1 DEF Placed
    <2>3. fresh \in Jobs
      BY <2>2, KnownJobs DEF Waits
    <2>4. QED
      BY <1>3, <2>1, <2>2, <2>3 DEF Waits, Made, SameStates
  <1>6. QED
    BY <1>1, <1>4, <1>5 DEF Placed

(* Jobs do not change. *)
LEMMA JobOKKept ==
  ASSUME \A j \in Jobs : JobOK(j), job' = job, made' = made, jpeg' = jpeg
  PROVE  (\A j \in Jobs : JobOK(j))'
  BY DEF JobOK, Made

(* Requests stay where they are. *)
LEMMA RequestsApartKept ==
  ASSUME RequestsApart, inbox' = inbox, SameRequests
  PROVE  RequestsApart'
  BY DEF RequestsApart, SameRequests, Held

(* The list does not change, and no job that is over comes to life. *)
LEMMA RememberedKept ==
  ASSUME Remembered, TypeOK, inbox' = inbox, tracked' = tracked, fresh' = fresh,
         at \in {"hand over", "track"} <=> at' \in {"hand over", "track"},
         made' = made, \A j \in Jobs : Unfinished(j)' => Unfinished(j)
  PROVE  Remembered'
  BY DEF Remembered, Made

(* No job goes back to waiting. *)
LEMMA OnlyNewestWaitsKept ==
  ASSUME OnlyNewestWaits, TypeOK, tracked' = tracked, fresh' = fresh,
         \A j \in Jobs : job'[j].state = "kWaiting" => job[j].state = "kWaiting"
  PROVE  OnlyNewestWaits'
  <1>1. \A i \in DOMAIN tracked : tracked[i] \in Jobs
    BY KnownJobs
  <1>2. QED
    BY <1>1 DEF OnlyNewestWaits

(* No job that is over comes to life. *)
LEMMA OnlyNewestRunsKept ==
  ASSUME OnlyNewestRuns, TypeOK, jpeg' = jpeg, tracked' = tracked, fresh' = fresh, made' = made,
         \A j \in Jobs : Unfinished(j)' => Unfinished(j)
  PROVE  OnlyNewestRuns'
  <1>1. Made \subseteq Jobs
    BY KnownJobs
  <1>2. QED
    BY <1>1 DEF OnlyNewestRuns, Made

(* Jobs stay where they are, and no message that removes one is taken. *)
LEMMA ToBeRemovedKept ==
  ASSUME ToBeRemoved, SameHands, queue' = queue, tracked' = tracked, fresh' = fresh,
         at = "hand over" => at' = "hand over",
         \A j \in Jobs : RemovalMessage(j) \in Range(inbox) => RemovalMessage(j) \in Range(inbox)',
         TypeOK
  PROVE  ToBeRemoved'
  <1>1. Range(tracked) \subseteq Jobs /\ fresh \in Jobs \cup {NoJob}
    BY KnownJobs
  <1>2. QED
    BY <1>1 DEF ToBeRemoved, SameHands

(* Nothing is cut, stored or sent. *)
LEMMA TilesArriveKept ==
  ASSUME TilesArrive, TypeOK, stored' = stored, outbox' = outbox, made' = made,
         \A j \in Jobs : job'[j].tiles = job[j].tiles
  PROVE  TilesArrive'
  <1>1. Made \subseteq Jobs /\ Made' = Made
    BY KnownJobs DEF Made
  <1>2. \A t \in AllTiles : {j \in Made' : t \in job'[j].tiles} = {j \in Made : t \in job[j].tiles}
    BY <1>1
  <1>3. QED
    BY <1>1, <1>2 DEF TilesArrive

(* Nobody is answered, and no request is asked again. *)
LEMMA UnansweredKept ==
  ASSUME Unanswered, wants' = wants, answered' = answered, job' = job, worker' = worker,
         \A r \in Requests : TileMessage(r) \in Range(inbox)' => TileMessage(r) \in Range(inbox)
  PROVE  Unanswered'
  BY DEF Unanswered, Asked, Held

-----------------------------------------------------------------------------
(* Steps of the viewer *)

(* DatabaseThread::request_tile(): the handle is new, so its message is the only one. *)
LEMMA RequestTileStep ==
  ASSUME IInv, NEW r \in Requests, NEW tile \in AllTiles, RequestTile(r, tile)
  PROVE  IInv'
  <1> DEFINE m == TileMessage(r)
             M == TileMessages \cup RemovalMessages
  <1>1. /\ TypeOK /\ Apart /\ Placed /\ (\A j \in Jobs : JobOK(j)) /\ RequestsApart
        /\ Unanswered /\ AnsweredOnce /\ Remembered /\ OnlyNewestWaits /\ OnlyNewestRuns
        /\ ToBeRemoved /\ TilesArrive
    BY DEF IInv
  <1>2. /\ ~Asked(r) /\ wants' = [wants EXCEPT ![r] = tile] /\ inbox' = Append(inbox, m)
        /\ UNCHANGED <<jpeg, aborted, answered, outbox, stored, at, fresh, tracked, made,
                       job, failed, queue, next_thread, worker>>
    BY DEF RequestTile, Asked, jobVars, poolVars
  <1>3. m \in M /\ m \in TileMessages /\ inbox \in Seq(M)
    BY <1>1 DEF TypeOK, TileMessages
  <1>4. /\ inbox' \in Seq(M) /\ Range(inbox') = Range(inbox) \cup {m}
        /\ DOMAIN inbox' = 1 .. (Len(inbox) + 1)
        /\ \A i \in 1 .. Len(inbox) : inbox'[i] = inbox[i]
        /\ inbox'[Len(inbox) + 1] = m
    <2> HIDE DEF m, M
    <2>1. QED
      BY <1>2, <1>3, Added
  <1>5. m \notin Range(inbox) /\ \A j \in Jobs : r \notin Held(j)
    BY <1>1, <1>2 DEF Unanswered
  <1>6. TypeOK'
    BY <1>1, <1>2, <1>4 DEF TypeOK
  <1>7. Apart' /\ Placed' /\ (\A j \in Jobs : JobOK(j))'
    BY <1>1, <1>2, ApartKept, PlacedKept, JobOKKept DEF SameHands, SameStates
  <1>8. RequestsApart'
    <2>1. \A i, k \in DOMAIN inbox' : inbox'[i] = inbox'[k] /\ inbox'[i] \in TileMessages => i = k
      <3>1. \A i \in 1 .. Len(inbox) : i \in DOMAIN inbox /\ inbox'[i] = inbox[i] /\ inbox'[i] # m
        BY <1>3, <1>4, <1>5 DEF Range
      <3>2. QED
        BY <1>1, <1>4, <3>1 DEF RequestsApart
    <2>2. \A j \in Jobs : \A s \in Held(j) : TileMessage(s) \notin Range(inbox')
      <3> SUFFICES ASSUME NEW j \in Jobs, NEW s \in Held(j) PROVE TileMessage(s) \notin Range(inbox')
        OBVIOUS
      <3>1. s \in Requests /\ s # r
        BY <1>1, <1>5, JobFields DEF Held
      <3>2. QED
        BY <1>1, <1>4, <3>1, Messages DEF RequestsApart
    <2>3. QED
      BY <1>1, <1>2, <2>1, <2>2 DEF RequestsApart, Held
  <1>9. Unanswered'
    <2>1. \A s \in Requests : /\ s # r => wants'[s] = wants[s]
                              /\ Asked(s)' <=> Asked(s) \/ s = r
      BY <1>1, <1>2, TilesOnGrid DEF TypeOK, Asked
    <2>2. answered[r] = 0
      BY <1>1, <1>2 DEF Unanswered
    <2>3. \A s \in Requests : TileMessage(s) \in Range(inbox') =>
                              TileMessage(s) \in Range(inbox) \/ s = r
      BY <1>4, Messages
    <2>4. \A j \in Jobs : \A s \in Held(j) : s \in Requests /\ s # r
      BY <1>1, <1>5, JobFields DEF Held
    <2>5. \A w \in Workers : worker[w].pc \in {"cutting", "calling"} => worker[w].job \in Jobs
      BY <1>1, WorkerFields DEF Placed, WorkerOK
    <2>6. \A w \in Workers : worker[w].pc \in {"cutting", "calling"} =>
            \A s \in job[worker[w].job].requests : wants'[s] = wants[s]
      BY <2>1, <2>4, <2>5 DEF Held
    <2>7. QED
      BY <1>1, <1>2, <2>1, <2>2, <2>3, <2>4, <2>6 DEF Unanswered, Held
  <1>10. Remembered'
    BY <1>1, <1>2, <1>4, Messages DEF Remembered, Made, Unfinished
  <1>11. AnsweredOnce' /\ OnlyNewestWaits' /\ OnlyNewestRuns' /\ TilesArrive'
    BY <1>1, <1>2, OnlyNewestWaitsKept, OnlyNewestRunsKept, TilesArriveKept
       DEF AnsweredOnce, Unfinished
  <1>12. ToBeRemoved'
    BY <1>1, <1>2, <1>4, ToBeRemovedKept DEF SameHands
  <1>13. QED
    BY <1>6, <1>7, <1>8, <1>9, <1>10, <1>11, <1>12 DEF IInv

(* JobHandle::set_aborted() is noticed later. *)
LEMMA SetAbortedStep ==
  ASSUME IInv, NEW r \in Requests, SetAborted(r)
  PROVE  IInv'
  <1>1. /\ TypeOK /\ Apart /\ Placed /\ (\A j \in Jobs : JobOK(j)) /\ RequestsApart
        /\ Unanswered /\ AnsweredOnce /\ Remembered /\ OnlyNewestWaits /\ OnlyNewestRuns
        /\ ToBeRemoved /\ TilesArrive
    BY DEF IInv
  <1>2. /\ aborted' = aborted \cup {r}
        /\ UNCHANGED <<jpeg, wants, answered, inbox, outbox, stored, at, fresh, tracked, made,
                       job, failed, queue, next_thread, worker>>
    BY DEF SetAborted, threadVars, jobVars, poolVars
  <1>3. TypeOK'
    BY <1>1, <1>2 DEF TypeOK
  <1>4. Apart' /\ Placed' /\ (\A j \in Jobs : JobOK(j))'
    BY <1>1, <1>2, ApartKept, PlacedKept, JobOKKept DEF SameHands, SameStates
  <1>5. RequestsApart' /\ Unanswered' /\ AnsweredOnce'
    BY <1>1, <1>2, RequestsApartKept, UnansweredKept DEF SameRequests, AnsweredOnce
  <1>6. Remembered' /\ ToBeRemoved' /\ TilesArrive'
    BY <1>1, <1>2, RememberedKept, ToBeRemovedKept, TilesArriveKept DEF SameHands, Unfinished
  <1>7. OnlyNewestWaits' /\ OnlyNewestRuns'
    BY <1>1, <1>2, OnlyNewestWaitsKept, OnlyNewestRunsKept DEF Unfinished
  <1>8. QED
    BY <1>3, <1>4, <1>5, <1>6, <1>7 DEF IInv

-----------------------------------------------------------------------------
(* Steps of the database thread *)

(* The request it takes is the only one of its handle: it is with no job   *)
(* and has not been answered.                                              *)
LEMMA RequestTaken ==
  ASSUME IInv, NEW r \in Requests, Take(TileMessage(r))
  PROVE  /\ at = "request" /\ fresh = NoJob
         /\ Asked(r) /\ wants[r] \in AllTiles /\ answered[r] = 0
         /\ \A j \in Jobs : r \notin Held(j)
         /\ inbox' \in Seq(TileMessages \cup RemovalMessages)
         /\ \A i, k \in DOMAIN inbox' :
              inbox'[i] = inbox'[k] /\ inbox'[i] \in TileMessages => i = k
         /\ \A s \in Requests : TileMessage(s) \in Range(inbox') <=>
                                TileMessage(s) \in Range(inbox) /\ s # r
         /\ \A j \in Jobs : RemovalMessage(j) \in Range(inbox') <=>
                            RemovalMessage(j) \in Range(inbox)
  <1> DEFINE m == TileMessage(r)
  <1>1. TypeOK /\ RequestsApart /\ Unanswered /\ Remembered
    BY DEF IInv
  <1>2. m \in TileMessages
    BY DEF TileMessages
  <1>3. /\ m \in Range(inbox) /\ Range(inbox) = {m} \cup Range(inbox') /\ m \notin Range(inbox')
        /\ inbox' \in Seq(TileMessages \cup RemovalMessages)
        /\ \A i, k \in DOMAIN inbox' :
             inbox'[i] = inbox'[k] /\ inbox'[i] \in TileMessages => i = k
    <2> HIDE DEF m
    <2>1. Take(m)
      BY DEF m
    <2>2. QED
      BY <1>1, <1>2, <2>1, MessageTaken
  <1>4. Asked(r) /\ answered[r] = 0
    BY <1>1, <1>3 DEF Unanswered
  <1>5. wants[r] \in AllTiles
    BY <1>1, <1>4 DEF TypeOK, Asked
  <1>6. \A j \in Jobs : r \notin Held(j)
    BY <1>1, <1>3 DEF RequestsApart
  <1>7. at = "request" /\ fresh = NoJob
    BY <1>1 DEF Take, Remembered
  <1>8. \A s \in Requests : TileMessage(s) \in Range(inbox') <=>
                            TileMessage(s) \in Range(inbox) /\ s # r
    BY <1>3, Messages
  <1>9. \A j \in Jobs : RemovalMessage(j) \in Range(inbox') <=> RemovalMessage(j) \in Range(inbox)
    BY <1>3, Messages
  <1>10. QED
    BY <1>3, <1>4, <1>5, <1>6, <1>7, <1>8, <1>9

(* If no job gets it, that is all there is to it. *)
LEMMA RequestGone ==
  ASSUME IInv, NEW r \in Requests, Take(TileMessage(r)), job' = job
  PROVE  RequestsApart'
  <1>1. /\ \A i, k \in DOMAIN inbox' : inbox'[i] = inbox'[k] /\ inbox'[i] \in TileMessages => i = k
        /\ \A s \in Requests : TileMessage(s) \in Range(inbox') => TileMessage(s) \in Range(inbox)
    BY RequestTaken
  <1>2. RequestsApart /\ TypeOK
    BY DEF IInv
  <1>3. \A j \in Jobs : Held(j) \subseteq Requests
    BY <1>2, JobFields DEF Held
  <1>4. QED
    BY <1>1, <1>2, <1>3 DEF RequestsApart, Held

(* The database thread changes from one queue to the other. *)
LEMMA QueueEmptyStep ==
  ASSUME IInv, QueueEmpty
  PROVE  IInv'
  <1>1. /\ TypeOK /\ Apart /\ Placed /\ (\A j \in Jobs : JobOK(j)) /\ RequestsApart
        /\ Unanswered /\ AnsweredOnce /\ Remembered /\ OnlyNewestWaits /\ OnlyNewestRuns
        /\ ToBeRemoved /\ TilesArrive
    BY DEF IInv
  <1>2. /\ at \in {"receive", "request"} /\ at' \in {"receive", "request"}
        /\ UNCHANGED <<jpeg, wants, aborted, answered, inbox, outbox, stored, fresh, tracked,
                       made, job, failed, queue, next_thread, worker>>
    BY DEF QueueEmpty, requestVars, jobVars, poolVars
  <1>3. TypeOK'
    BY <1>1, <1>2 DEF TypeOK
  <1>4. Apart' /\ Placed' /\ (\A j \in Jobs : JobOK(j))'
    BY <1>1, <1>2, ApartKept, PlacedKept, JobOKKept DEF SameHands, SameStates
  <1>5. RequestsApart' /\ Unanswered' /\ AnsweredOnce'
    BY <1>1, <1>2, RequestsApartKept, UnansweredKept DEF SameRequests, AnsweredOnce
  <1>6. Remembered' /\ ToBeRemoved' /\ TilesArrive'
    BY <1>1, <1>2, RememberedKept, ToBeRemovedKept, TilesArriveKept DEF SameHands, Unfinished
  <1>7. OnlyNewestWaits' /\ OnlyNewestRuns'
    BY <1>1, <1>2, OnlyNewestWaitsKept, OnlyNewestRunsKept DEF Unfinished
  <1>8. QED
    BY <1>3, <1>4, <1>5, <1>6, <1>7 DEF IInv

(* An aborted request is forgotten. *)
LEMMA DropAbortedStep ==
  ASSUME IInv, NEW r \in Requests, DropAborted(r)
  PROVE  IInv'
  <1>1. /\ TypeOK /\ Apart /\ Placed /\ (\A j \in Jobs : JobOK(j)) /\ RequestsApart
        /\ Unanswered /\ AnsweredOnce /\ Remembered /\ OnlyNewestWaits /\ OnlyNewestRuns
        /\ ToBeRemoved /\ TilesArrive
    BY DEF IInv
  <1>2. /\ Take(TileMessage(r))
        /\ UNCHANGED <<jpeg, wants, aborted, answered, outbox, stored, at, fresh, tracked,
                       made, job, failed, queue, next_thread, worker>>
    BY DEF DropAborted, requestVars, jobVars, poolVars
  <1>3. /\ inbox' \in Seq(TileMessages \cup RemovalMessages)
        /\ \A s \in Requests : TileMessage(s) \in Range(inbox') => TileMessage(s) \in Range(inbox)
        /\ \A j \in Jobs : RemovalMessage(j) \in Range(inbox') <=>
                           RemovalMessage(j) \in Range(inbox)
    BY <1>2, RequestTaken
  <1>4. TypeOK'
    BY <1>1, <1>2, <1>3 DEF TypeOK
  <1>5. Apart' /\ Placed' /\ (\A j \in Jobs : JobOK(j))'
    BY <1>1, <1>2, ApartKept, PlacedKept, JobOKKept DEF SameHands, SameStates
  <1>6. RequestsApart' /\ Unanswered' /\ AnsweredOnce'
    BY <1>1, <1>2, <1>3, RequestGone, UnansweredKept DEF AnsweredOnce
  <1>7. Remembered'
    BY <1>1, <1>2, <1>3 DEF Remembered, Made, Unfinished
  <1>8. ToBeRemoved' /\ TilesArrive'
    BY <1>1, <1>2, <1>3, ToBeRemovedKept, TilesArriveKept DEF SameHands
  <1>9. OnlyNewestWaits' /\ OnlyNewestRuns'
    BY <1>1, <1>2, OnlyNewestWaitsKept, OnlyNewestRunsKept DEF Unfinished
  <1>10. QED
    BY <1>4, <1>5, <1>6, <1>7, <1>8, <1>9 DEF IInv

(* The program ends. *)
LEMMA AssertionFailsStep ==
  ASSUME IInv, NEW r \in Requests, AssertionFails(r)
  PROVE  IInv'
  <1>1. /\ TypeOK /\ Apart /\ Placed /\ (\A j \in Jobs : JobOK(j)) /\ RequestsApart
        /\ Unanswered /\ AnsweredOnce /\ Remembered /\ OnlyNewestWaits /\ OnlyNewestRuns
        /\ ToBeRemoved /\ TilesArrive
    BY DEF IInv
  <1>2. /\ Take(TileMessage(r)) /\ at' = "crashed"
        /\ UNCHANGED <<jpeg, wants, aborted, answered, outbox, stored, fresh, tracked,
                       made, job, failed, queue, next_thread, worker>>
    BY DEF AssertionFails, Missing, requestVars, jobVars, poolVars
  <1>3. /\ at = "request"
        /\ inbox' \in Seq(TileMessages \cup RemovalMessages)
        /\ \A s \in Requests : TileMessage(s) \in Range(inbox') => TileMessage(s) \in Range(inbox)
        /\ \A j \in Jobs : RemovalMessage(j) \in Range(inbox') <=>
                           RemovalMessage(j) \in Range(inbox)
    BY <1>2, RequestTaken
  <1>4. TypeOK'
    BY <1>1, <1>2, <1>3 DEF TypeOK
  <1>5. Apart' /\ Placed' /\ (\A j \in Jobs : JobOK(j))'
    BY <1>1, <1>2, ApartKept, PlacedKept, JobOKKept DEF SameHands, SameStates
  <1>6. RequestsApart' /\ Unanswered' /\ AnsweredOnce'
    BY <1>1, <1>2, <1>3, RequestGone, UnansweredKept DEF AnsweredOnce
  <1>7. Remembered'
    BY <1>1, <1>2, <1>3 DEF Remembered, Made, Unfinished
  <1>8. ToBeRemoved' /\ TilesArrive'
    BY <1>1, <1>2, <1>3, ToBeRemovedKept, TilesArriveKept DEF SameHands
  <1>9. OnlyNewestWaits' /\ OnlyNewestRuns'
    BY <1>1, <1>2, OnlyNewestWaitsKept, OnlyNewestRunsKept DEF Unfinished
  <1>10. QED
    BY <1>4, <1>5, <1>6, <1>7, <1>8, <1>9 DEF IInv

(* The tile is in the database: an answer, and no other that was given. *)
LEMMA AnswerFromDatabaseStep ==
  ASSUME IInv, NEW r \in Requests, AnswerFromDatabase(r)
  PROVE  IInv'
  <1>1. /\ TypeOK /\ Apart /\ Placed /\ (\A j \in Jobs : JobOK(j)) /\ RequestsApart
        /\ Unanswered /\ AnsweredOnce /\ Remembered /\ OnlyNewestWaits /\ OnlyNewestRuns
        /\ ToBeRemoved /\ TilesArrive
    BY DEF IInv
  <1>2. /\ Take(TileMessage(r))
        /\ answered' = [s \in Requests |-> IF s \in {r} THEN answered[s] + 1 ELSE answered[s]]
        /\ UNCHANGED <<jpeg, wants, aborted, outbox, stored, at, fresh, tracked,
                       made, job, failed, queue, next_thread, worker>>
    BY DEF AnswerFromDatabase, Answer, jobVars, poolVars
  <1>3. /\ Asked(r) /\ answered[r] = 0 /\ \A j \in Jobs : r \notin Held(j)
        /\ inbox' \in Seq(TileMessages \cup RemovalMessages)
        /\ \A s \in Requests : TileMessage(s) \in Range(inbox') =>
                               TileMessage(s) \in Range(inbox) /\ s # r
        /\ \A j \in Jobs : RemovalMessage(j) \in Range(inbox') <=>
                           RemovalMessage(j) \in Range(inbox)
    BY <1>2, RequestTaken
  <1>4. answered' \in [Requests -> Nat] /\ answered'[r] = 1
        /\ \A s \in Requests : s # r => answered'[s] = answered[s]
    <2>1. /\ answered' \in [Requests -> Nat]
          /\ \A s \in Requests : /\ s \in {r} => answered'[s] = answered[s] + 1
                                 /\ s \notin {r} => answered'[s] = answered[s]
      BY <1>1, <1>2, {r} \in SUBSET Requests, Answered
    <2>2. QED
      BY <1>3, <2>1
  <1>5. TypeOK'
    BY <1>1, <1>2, <1>3, <1>4 DEF TypeOK
  <1>6. Apart' /\ Placed' /\ (\A j \in Jobs : JobOK(j))'
    BY <1>1, <1>2, ApartKept, PlacedKept, JobOKKept DEF SameHands, SameStates
  <1>7. RequestsApart'
    BY <1>1, <1>2, RequestGone
  <1>8. Unanswered'
    <2>1. \A j \in Jobs : \A s \in Held(j) : s \in Requests /\ answered'[s] = answered[s]
      BY <1>1, <1>3, <1>4, JobFields DEF Held
    <2>2. \A w \in Workers : worker[w].pc \in {"cutting", "calling"} => worker[w].job \in Jobs
      BY <1>1, WorkerFields DEF Placed, WorkerOK
    <2>3. QED
      BY <1>1, <1>2, <1>3, <1>4, <2>1, <2>2 DEF Unanswered, Asked, Held
  <1>9. AnsweredOnce'
    BY <1>1, <1>4 DEF AnsweredOnce
  <1>10. Remembered'
    BY <1>1, <1>2, <1>3 DEF Remembered, Made, Unfinished
  <1>11. ToBeRemoved' /\ TilesArrive'
    BY <1>1, <1>2, <1>3, ToBeRemovedKept, TilesArriveKept DEF SameHands
  <1>12. OnlyNewestWaits' /\ OnlyNewestRuns'
    BY <1>1, <1>2, OnlyNewestWaitsKept, OnlyNewestRunsKept DEF Unfinished
  <1>13. QED
    BY <1>5, <1>6, <1>7, <1>8, <1>9, <1>10, <1>11, <1>12 DEF IInv

(* The tracked job takes the request: now, late, or with an answer. *)
LEMMA JoinJobStep ==
  ASSUME IInv, NEW r \in Requests, JoinJob(r)
  PROVE  IInv'
  <1>1. /\ TypeOK /\ Apart /\ Placed /\ (\A i \in Jobs : JobOK(i)) /\ RequestsApart
        /\ Unanswered /\ AnsweredOnce /\ Remembered /\ OnlyNewestWaits /\ OnlyNewestRuns
        /\ ToBeRemoved /\ TilesArrive
    BY DEF IInv
  <1>2. PICK j \in Jobs : j = Tracked /\ j \in Made
    <2>1. tracked # << >> /\ Tracked = Head(tracked)
      BY DEF JoinJob, Tracked
    <2>2. 1 \in DOMAIN tracked /\ tracked[1] = Tracked
      BY <1>1, <2>1, KnownJobs, Shortened
    <2>3. Tracked \in Made
      BY <1>1, <2>2 DEF Remembered, Range
    <2>4. QED
      BY <1>1, <2>3, KnownJobs
  <1> DEFINE rs == IF job[j].state = "kDone" THEN {r} ELSE {}
  <1>3. /\ Take(TileMessage(r)) /\ Accepts(j, wants[r]) /\ job' = Joined(j, r)
        /\ answered' = [s \in Requests |-> IF s \in rs THEN answered[s] + 1 ELSE answered[s]]
        /\ UNCHANGED <<jpeg, wants, aborted, outbox, stored, at, fresh, tracked,
                       made, failed, queue, next_thread, worker>>
    BY <1>2 DEF JoinJob, Missing, Answer, poolVars
  <1>4. /\ Asked(r) /\ answered[r] = 0 /\ \A k \in Jobs : r \notin Held(k)
        /\ inbox' \in Seq(TileMessages \cup RemovalMessages)
        /\ \A i, k \in DOMAIN inbox' :
             inbox'[i] = inbox'[k] /\ inbox'[i] \in TileMessages => i = k
        /\ \A s \in Requests : TileMessage(s) \in Range(inbox') <=>
                               TileMessage(s) \in Range(inbox) /\ s # r
        /\ \A k \in Jobs : RemovalMessage(k) \in Range(inbox') <=>
                           RemovalMessage(k) \in Range(inbox)
    BY <1>3, RequestTaken
  <1>5. /\ job' \in [Jobs -> JobType]
        /\ job'[j].requests = IF job[j].state = "kWaiting" THEN job[j].requests \cup {r}
                                                           ELSE job[j].requests
        /\ job'[j].late = IF job[j].state = "kRunning" THEN job[j].late \cup {r}
                                                       ELSE job[j].late
        /\ \A k \in Jobs : /\ k # j => job'[k] = job[k]
                           /\ job'[k].state = job[k].state /\ job'[k].db = job[k].db
                           /\ job'[k].range = job[k].range /\ job'[k].tiles = job[k].tiles
    BY <1>1, <1>3, <1>2, RequestJoined
  <1>6. /\ answered' \in [Requests -> Nat]
        /\ \A s \in Requests : s # r => answered'[s] = answered[s]
        /\ answered'[r] = IF job[j].state = "kDone" THEN 1 ELSE 0
    <2> rs \in SUBSET Requests
      OBVIOUS
    <2> HIDE DEF rs
    <2>1. /\ answered' \in [Requests -> Nat]
          /\ \A s \in Requests : /\ s \in rs => answered'[s] = answered[s] + 1
                                 /\ s \notin rs => answered'[s] = answered[s]
      BY <1>1, <1>3, Answered
    <2>2. QED
      BY <1>4, <2>1 DEF rs
  <1>7. /\ \A k \in Jobs : Held(k)' \subseteq Held(k) \cup {r} /\ (k # j => Held(k)' = Held(k))
        /\ \A k \in Jobs : Held(k) \subseteq Requests
        /\ r \in Held(j)' => job[j].state \in {"kWaiting", "kRunning"}
    <2>1. \A k \in Jobs : Held(k) \subseteq Requests
      BY <1>1, JobFields DEF Held
    <2>2. \A k \in Jobs : k # j => Held(k)' = Held(k)
      BY <1>5 DEF Held
    <2>3. job'[j].requests \subseteq job[j].requests \cup {r}
          /\ job'[j].late \subseteq job[j].late \cup {r}
      BY <1>5
    <2>4. Held(j)' \subseteq Held(j) \cup {r}
      BY <2>3 DEF Held
    <2>5. r \in Held(j)' => job[j].state \in {"kWaiting", "kRunning"}
      BY <1>2, <1>4, <1>5 DEF Held
    <2>6. QED
      BY <2>1, <2>2, <2>4, <2>5
  <1>8. TypeOK'
    BY <1>1, <1>3, <1>4, <1>5, <1>6 DEF TypeOK
  <1>9. Apart' /\ Placed'
    BY <1>1, <1>3, <1>5, ApartKept, PlacedKept DEF SameHands, SameStates
  <1>10. (\A k \in Jobs : JobOK(k))'
    <2> SUFFICES ASSUME NEW k \in Jobs PROVE JobOK(k)'
      BY DEF Jobs
    <2>1. JobOK(k) /\ Made' = Made
      BY <1>1, <1>3 DEF Made
    <2>2. CASE k # j
      BY <1>3, <1>5, <2>1, <2>2 DEF JobOK
    <2>3. CASE k = j
      BY <1>3, <1>2, <1>5, <2>1, <2>3 DEF JobOK
    <2>4. QED
      BY <2>2, <2>3
  <1>11. RequestsApart'
    <2>1. \A k \in Jobs : \A s \in Held(k)' : TileMessage(s) \notin Range(inbox')
      BY <1>1, <1>4, <1>7 DEF RequestsApart
    <2>2. \A k, l \in Jobs : k # l => Held(k)' \cap Held(l)' = {}
      BY <1>1, <1>4, <1>7 DEF RequestsApart
    <2>3. \A k \in Jobs : job'[k].requests \cap job'[k].late = {}
      BY <1>1, <1>4, <1>5 DEF RequestsApart, Held
    <2>4. QED
      BY <1>4, <2>1, <2>2, <2>3 DEF RequestsApart
  <1>12. Unanswered'
    <2>1. \A k \in Jobs : \A s \in Held(k)' : Asked(s)'
      BY <1>1, <1>3, <1>4, <1>7 DEF Unanswered, Asked
    <2>2. \A k \in Jobs : \A s \in job'[k].late : answered'[s] = 0
      <3> SUFFICES ASSUME NEW k \in Jobs, NEW s \in job'[k].late PROVE answered'[s] = 0
        OBVIOUS
      <3>1. CASE s = r
        BY <1>4, <1>5, <1>6, <3>1 DEF Held
      <3>2. CASE s # r
        BY <1>1, <1>5, <1>6, <1>7, <3>2 DEF Unanswered, Held
      <3>3. QED
        BY <3>1, <3>2
    <2>3. \A k \in Jobs : job'[k].state = "kWaiting" => \A s \in job'[k].requests : answered'[s] = 0
      <3> SUFFICES ASSUME NEW k \in Jobs, job'[k].state = "kWaiting", NEW s \in job'[k].requests
                   PROVE  answered'[s] = 0
        OBVIOUS
      <3>1. job[k].state = "kWaiting"
        BY <1>5
      <3>2. CASE s = r
        BY <1>4, <1>5, <1>6, <3>1, <3>2 DEF Held
      <3>3. CASE s # r
        BY <1>1, <1>5, <1>6, <1>7, <3>1, <3>3 DEF Unanswered, Held
      <3>4. QED
        BY <3>2, <3>3
    <2>4. ASSUME NEW w \in Workers, worker[w].pc \in {"cutting", "calling"},
                 NEW s \in job'[worker[w].job].requests
          PROVE  answered'[s] = 0 \/ Before(wants[s], worker[w].cut)
      <3> DEFINE k == worker[w].job
      <3>1. k \in Jobs /\ job[k].state = "kRunning"
        BY <1>1, <2>4, WorkerFields DEF Placed, WorkerOK
      <3>2. job'[k].requests = job[k].requests
        BY <1>5, <3>1
      <3>3. s \in Held(k) /\ s # r /\ s \in Requests
        BY <1>4, <1>7, <2>4, <3>1, <3>2 DEF Held
      <3>4. answered[s] = 0 \/ Before(wants[s], worker[w].cut)
        BY <1>1, <2>4, <3>2 DEF Unanswered
      <3>5. QED
        BY <1>6, <3>3, <3>4
    <2>5. /\ \A s \in Requests : TileMessage(s) \in Range(inbox') => Asked(s)' /\ answered'[s] = 0
          /\ \A s \in Requests : ~Asked(s)' => answered'[s] = 0
      BY <1>1, <1>3, <1>4, <1>6 DEF Unanswered, Asked
    <2>6. QED
      BY <1>3, <2>1, <2>2, <2>3, <2>4, <2>5 DEF Unanswered
  <1>13. AnsweredOnce'
    BY <1>1, <1>6 DEF AnsweredOnce
  <1>14. Remembered'
    BY <1>1, <1>3, <1>4, <1>5 DEF Remembered, Made, Unfinished
  <1>15. ToBeRemoved' /\ TilesArrive'
    BY <1>1, <1>3, <1>4, <1>5, ToBeRemovedKept, TilesArriveKept DEF SameHands
  <1>16. OnlyNewestWaits' /\ OnlyNewestRuns'
    BY <1>1, <1>3, <1>5, OnlyNewestWaitsKept, OnlyNewestRunsKept DEF Unfinished
  <1>17. QED
    BY <1>8, <1>9, <1>10, <1>11, <1>12, <1>13, <1>14, <1>15, <1>16 DEF IInv

(* request_job_removal()'s message comes after the job's end. *)
LEMMA RemoveJobStep ==
  ASSUME IInv, NEW j \in Jobs, RemoveJob(j)
  PROVE  IInv'
  <1> DEFINE m == RemovalMessage(j)
  <1>1. /\ TypeOK /\ Apart /\ Placed /\ (\A i \in Jobs : JobOK(i)) /\ RequestsApart
        /\ Unanswered /\ AnsweredOnce /\ Remembered /\ OnlyNewestWaits /\ OnlyNewestRuns
        /\ ToBeRemoved /\ TilesArrive
    BY DEF IInv
  <1>2. /\ Take(m) /\ tracked' = RemoveFirst(tracked, j)
        /\ UNCHANGED <<jpeg, wants, aborted, answered, outbox, stored, at, fresh,
                       made, job, failed, queue, next_thread, worker>>
    BY DEF RemoveJob, requestVars, jobVars, poolVars
  <1>3. /\ m \in Range(inbox) /\ Range(inbox) = {m} \cup Range(inbox')
        /\ inbox' \in Seq(TileMessages \cup RemovalMessages)
        /\ \A i, k \in DOMAIN inbox' :
             inbox'[i] = inbox'[k] /\ inbox'[i] \in TileMessages => i = k
    <2> HIDE DEF m
    <2>1. QED
      BY <1>1, <1>2, MessageTaken
  <1>4. /\ ~Unfinished(j) /\ at = "request" /\ fresh = NoJob
    BY <1>1, <1>2, <1>3 DEF Remembered, Take
  <1>5. /\ tracked' \in Seq(Jobs) /\ Range(tracked') = Range(tracked) \ {j}
        /\ \A i \in DOMAIN tracked' : \E k \in DOMAIN tracked : tracked'[i] = tracked[k] /\ k >= i
        /\ \A i, k \in DOMAIN tracked' : tracked'[i] = tracked'[k] => i = k
        /\ tracked # << >> /\ j # Head(tracked) =>
             tracked' # << >> /\ Head(tracked') = Head(tracked)
    <2>1. tracked \in Seq(Jobs) /\ \A i, k \in DOMAIN tracked : tracked[i] = tracked[k] => i = k
      BY <1>1, KnownJobs DEF Remembered
    <2>2. QED
      BY <1>2, <2>1, Erased
  <1>6. /\ \A s \in Requests : TileMessage(s) \in Range(inbox') => TileMessage(s) \in Range(inbox)
        /\ \A k \in Jobs : k # j => (RemovalMessage(k) \in Range(inbox') <=>
                                     RemovalMessage(k) \in Range(inbox))
    BY <1>3, Messages
  <1>7. TypeOK'
    BY <1>1, <1>2, <1>3, <1>5 DEF TypeOK
  <1>8. Apart' /\ Placed' /\ (\A k \in Jobs : JobOK(k))'
    BY <1>1, <1>2, ApartKept, PlacedKept, JobOKKept DEF SameHands, SameStates
  <1>9. RequestsApart'
    <2>1. \A k \in Jobs : Held(k) \subseteq Requests
      BY <1>1, JobFields DEF Held
    <2>2. QED
      BY <1>1, <1>2, <1>3, <1>6, <2>1 DEF RequestsApart, Held
  <1>10. Unanswered' /\ AnsweredOnce' /\ TilesArrive'
    BY <1>1, <1>2, <1>6, UnansweredKept, TilesArriveKept DEF AnsweredOnce
  <1>11. Remembered'
    <2>1. \A k \in Jobs : RemovalMessage(k) \in Range(inbox') => ~Unfinished(k)
      BY <1>1, <1>4, <1>6 DEF Remembered
    <2>2. QED
      BY <1>1, <1>2, <1>4, <1>5, <2>1 DEF Remembered, Made, Unfinished
  <1>12. OnlyNewestWaits'
    <2>1. ASSUME NEW i \in DOMAIN tracked', i # 1 PROVE job[tracked'[i]].state # "kWaiting"
      <3>1. PICK k \in DOMAIN tracked : tracked'[i] = tracked[k] /\ k >= i
        BY <1>5
      <3>2. i \in 1 .. Len(tracked') /\ k \in 1 .. Len(tracked)
        BY <1>1, <1>5, KnownJobs
      <3>3. k # 1
        BY <2>1, <3>1, <3>2, <1>1, <1>5, KnownJobs
      <3>4. QED
        BY <1>1, <3>1, <3>3 DEF OnlyNewestWaits
    <2>2. QED
      BY <1>2, <1>4, <2>1 DEF OnlyNewestWaits
  <1>13. OnlyNewestRuns'
    <2>1. ASSUME ~jpeg, NEW k \in Made, Unfinished(k) PROVE tracked' # << >> /\ k = Head(tracked')
      <3>1. tracked # << >> /\ k = Head(tracked)
        BY <1>1, <1>4, <2>1 DEF OnlyNewestRuns
      <3>2. j # k
        BY <1>4, <2>1
      <3>3. QED
        BY <1>5, <3>1, <3>2
    <2>2. QED
      BY <1>2, <1>4, <2>1 DEF OnlyNewestRuns, Made, Unfinished
  <1>14. ToBeRemoved'
    <2>1. Range(tracked) \subseteq Jobs /\ fresh = NoJob
      BY <1>1, <1>4, KnownJobs
    <2>2. ASSUME NEW k \in Range(tracked')
          PROVE  \/ \E w \in Workers : k \in Range(queue[w]) \/ worker[w].job = k
                 \/ RemovalMessage(k) \in Range(inbox')
      <3>1. k \in Range(tracked) /\ k # j /\ k \in Jobs /\ k # NoJob
        BY <1>5, <2>1, <2>2, Constants
      <3>2. QED
        BY <1>1, <1>4, <1>6, <3>1 DEF ToBeRemoved
    <2>3. QED
      BY <1>2, <1>4, <2>2 DEF ToBeRemoved
  <1>15. QED
    BY <1>7, <1>8, <1>9, <1>10, <1>11, <1>12, <1>13, <1>14 DEF IInv

-----------------------------------------------------------------------------
(* How often a tile is in the outbox *)

Copies(q, t) == {i \in DOMAIN q : q[i] = t}

(* A tile is added at the end of the outbox, ... *)
LEMMA CopiesAdded ==
  ASSUME NEW S, NEW q \in Seq(S), NEW e \in S, NEW t
  PROVE  /\ Cardinality(Copies(q, t)) \in Nat
         /\ Cardinality(Copies(Append(q, e), t)) =
              Cardinality(Copies(q, t)) + (IF e = t THEN 1 ELSE 0)
  <1> DEFINE n == Len(q) + 1
             p == Append(q, e)
  <1>1. DOMAIN q = 1 .. Len(q) /\ Len(q) \in Nat
    OBVIOUS
  <1>2. /\ DOMAIN p = 1 .. n /\ p[n] = e
        /\ \A i \in 1 .. Len(q) : p[i] = q[i]
    BY Added
  <1>3. IsFiniteSet(Copies(q, t))
    <2>1. IsFiniteSet(1 .. Len(q))
      BY <1>1, FS_Interval
    <2>2. Copies(q, t) \subseteq 1 .. Len(q)
      BY <1>1 DEF Copies
    <2>3. QED
      BY <2>1, <2>2, FS_Subset
  <1>4. Cardinality(Copies(q, t)) \in Nat
    BY <1>3, FS_CardinalityType
  <1> HIDE DEF p
  <1>5. CASE e = t
    <2>1. Copies(p, t) = Copies(q, t) \cup {n} /\ n \notin Copies(q, t)
      BY <1>1, <1>2, <1>5 DEF Copies
    <2>2. Cardinality(Copies(p, t)) = Cardinality(Copies(q, t)) + 1
      BY <1>3, <2>1, FS_AddElement
    <2>3. QED
      BY <1>4, <1>5, <2>2 DEF p
  <1>6. CASE e # t
    <2>1. Copies(p, t) = Copies(q, t)
      BY <1>1, <1>2, <1>6 DEF Copies
    <2>2. QED
      BY <1>4, <1>6, <2>1 DEF p
  <1>7. QED
    BY <1>5, <1>6

(* ... or taken from its front. *)
LEMMA CopiesTaken ==
  ASSUME NEW S, NEW q \in Seq(S), q # << >>, NEW t
  PROVE  /\ Cardinality(Copies(Tail(q), t)) \in Nat
         /\ Cardinality(Copies(q, t)) =
              Cardinality(Copies(Tail(q), t)) + (IF Head(q) = t THEN 1 ELSE 0)
  <1> DEFINE p == Tail(q)
             A == Copies(p, t)
             B == Copies(q, t) \ {1}
             f == [i \in A |-> i + 1]
  <1>1. /\ p \in Seq(S) /\ 1 \in DOMAIN q /\ q[1] = Head(q)
        /\ DOMAIN q = 1 .. Len(q) /\ Len(q) \in Nat \ {0}
        /\ DOMAIN p = 1 .. (Len(q) - 1)
        /\ \A i \in 1 .. (Len(q) - 1) : p[i] = q[i + 1]
    BY Shortened
  <1> HIDE DEF p
  <1>2. IsFiniteSet(A) /\ IsFiniteSet(Copies(q, t))
    <2>1. IsFiniteSet(1 .. Len(q))
      BY <1>1, FS_Interval
    <2>2. A \subseteq 1 .. Len(q) /\ Copies(q, t) \subseteq 1 .. Len(q)
      BY <1>1 DEF Copies
    <2> HIDE DEF A
    <2>3. QED
      BY <2>1, <2>2, FS_Subset
  <1>3. IsFiniteSet(B)
    BY <1>2, FS_RemoveElement
  <1>4. f \in Bijection(A, B)
    <2>1. f \in [A -> B]
      BY <1>1 DEF Copies
    <2>2. \A i, k \in A : f[i] = f[k] => i = k
      BY <1>1 DEF Copies
    <2>3. \A k \in B : \E i \in A : f[i] = k
      <3> TAKE k \in B
      <3>1. k - 1 \in A /\ f[k - 1] = k
        BY <1>1 DEF Copies
      <3>2. QED
        BY <3>1
    <2> HIDE DEF f, A, B
    <2>4. QED
      BY <2>1, <2>2, <2>3 DEF Bijection, Injection, Surjection, IsInjective
  <1>5. Cardinality(A) = Cardinality(B) /\ Cardinality(A) \in Nat
    <2> HIDE DEF f, A, B
    <2>1. QED
      BY <1>2, <1>3, <1>4, FS_Bijection, FS_CardinalityType DEF ExistsBijection
  <1>6. CASE Head(q) = t
    <2>1. 1 \in Copies(q, t)
      BY <1>1, <1>6 DEF Copies
    <2>2. Cardinality(B) = Cardinality(Copies(q, t)) - 1 /\ Cardinality(Copies(q, t)) \in Nat
      BY <1>2, <2>1, FS_RemoveElement, FS_CardinalityType
    <2>3. QED
      BY <1>5, <1>6, <2>2 DEF p
  <1>7. CASE Head(q) # t
    <2>1. B = Copies(q, t)
      BY <1>1, <1>7 DEF Copies
    <2> HIDE DEF f, A, B
    <2>2. Cardinality(Copies(q, t)) = Cardinality(A) + 0
      BY <1>5, <2>1
    <2>3. QED
      BY <1>5, <1>7, <2>2 DEF A, p
  <1>8. QED
    BY <1>6, <1>7

(* The jobs that have cut a tile. *)
CutBy(t) == {j \in Made : t \in job[j].tiles}

(* They are finitely many. *)
LEMMA Cut ==
  ASSUME TypeOK
  PROVE  \A t : IsFiniteSet(CutBy(t)) /\ Cardinality(CutBy(t)) \in Nat
  <1>1. IsFiniteSet(Made)
    <2>1. made \in Nat
      BY DEF TypeOK
    <2>2. QED
      BY <2>1, FS_Interval DEF Made
  <1>2. \A t : CutBy(t) \subseteq Made
    BY DEF CutBy
  <1>3. QED
    BY <1>1, <1>2, FS_Subset, FS_CardinalityType

(* receive_tile(): what was once more in the outbox is once more in the database. *)
LEMMA StoreTileStep ==
  ASSUME IInv, StoreTile
  PROVE  IInv'
  <1>1. /\ TypeOK /\ Apart /\ Placed /\ (\A j \in Jobs : JobOK(j)) /\ RequestsApart
        /\ Unanswered /\ AnsweredOnce /\ Remembered /\ OnlyNewestWaits /\ OnlyNewestRuns
        /\ ToBeRemoved /\ TilesArrive
    BY DEF IInv
  <1>2. /\ outbox # << >> /\ outbox' = Tail(outbox)
        /\ stored' = [stored EXCEPT ![Head(outbox)] = @ + 1]
        /\ UNCHANGED <<jpeg, wants, aborted, answered, inbox, at, fresh, tracked,
                       made, job, failed, queue, next_thread, worker>>
    BY DEF StoreTile, requestVars, jobVars, poolVars
  <1>3. outbox \in Seq(AllTiles) /\ stored \in [AllTiles -> Nat]
    BY <1>1 DEF TypeOK
  <1>4. Head(outbox) \in AllTiles /\ outbox' \in Seq(AllTiles)
    BY <1>2, <1>3, Shortened
  <1>5. /\ stored' \in [AllTiles -> Nat]
        /\ \A t \in AllTiles : stored'[t] = stored[t] + (IF Head(outbox) = t THEN 1 ELSE 0)
    BY <1>2, <1>3, <1>4
  <1>6. TypeOK'
    BY <1>1, <1>2, <1>4, <1>5 DEF TypeOK
  <1>7. TilesArrive'
    <2> SUFFICES ASSUME NEW t \in AllTiles
                 PROVE  LET copies == stored'[t] + Cardinality(Copies(outbox', t))
                            cut    == Cardinality(CutBy(t)')
                        IN  copies \in {cut, cut + 1}
      BY DEF TilesArrive, Copies, CutBy
    <2>1. /\ Cardinality(Copies(outbox', t)) \in Nat
          /\ Cardinality(Copies(outbox, t)) =
               Cardinality(Copies(outbox', t)) + (IF Head(outbox) = t THEN 1 ELSE 0)
      BY <1>2, <1>3, CopiesTaken
    <2>2. stored'[t] + Cardinality(Copies(outbox', t)) = stored[t] + Cardinality(Copies(outbox, t))
      BY <1>3, <1>5, <2>1
    <2>3. CutBy(t)' = CutBy(t)
      BY <1>2 DEF CutBy, Made
    <2>4. LET copies == stored[t] + Cardinality(Copies(outbox, t))
              cut    == Cardinality(CutBy(t))
          IN  copies \in {cut, cut + 1}
      BY <1>1 DEF TilesArrive, Copies, CutBy
    <2>5. QED
      BY <2>2, <2>3, <2>4
  <1>8. Apart' /\ Placed' /\ (\A j \in Jobs : JobOK(j))'
    BY <1>1, <1>2, ApartKept, PlacedKept, JobOKKept DEF SameHands, SameStates
  <1>9. RequestsApart' /\ Unanswered' /\ AnsweredOnce'
    BY <1>1, <1>2, RequestsApartKept, UnansweredKept DEF SameRequests, AnsweredOnce
  <1>10. Remembered' /\ ToBeRemoved'
    BY <1>1, <1>2, RememberedKept, ToBeRemovedKept DEF SameHands, Unfinished
  <1>11. OnlyNewestWaits' /\ OnlyNewestRuns'
    BY <1>1, <1>2, OnlyNewestWaitsKept, OnlyNewestRunsKept DEF Unfinished
  <1>12. QED
    BY <1>6, <1>7, <1>8, <1>9, <1>10, <1>11 DEF IInv

(* From here on a worker may have the job. *)
LEMMA HandOverStep ==
  ASSUME IInv, HandOver
  PROVE  IInv'
  <1> DEFINE n == next_thread
  <1>1. /\ TypeOK /\ Apart /\ Placed /\ (\A j \in Jobs : JobOK(j)) /\ RequestsApart
        /\ Unanswered /\ AnsweredOnce /\ Remembered /\ OnlyNewestWaits /\ OnlyNewestRuns
        /\ ToBeRemoved /\ TilesArrive
    BY DEF IInv
  <1>2. /\ at = "hand over" /\ at' = "track"
        /\ queue' = [queue EXCEPT ![next_thread] = Append(@, fresh)]
        /\ next_thread' = (next_thread + 1) % NumWorkers
        /\ UNCHANGED <<jpeg, wants, aborted, answered, inbox, outbox, stored, fresh, tracked,
                       made, job, failed, worker>>
    BY DEF HandOver, NextThread, requestVars, jobVars
  <1>3. PICK v \in Workers : v = next_thread
    BY <1>1 DEF TypeOK
  <1>4. fresh \in Made /\ fresh \in Jobs /\ job[fresh].state = "kWaiting"
    BY <1>1, <1>2, KnownJobs DEF Placed, Waits
  <1>5. queue \in [Workers -> Seq(Jobs)]
    BY <1>1 DEF TypeOK
  <1>6. /\ queue' \in [Workers -> Seq(Jobs)]
        /\ \A w \in Workers : w # v => queue'[w] = queue[w]
        /\ queue'[v] = Append(queue[v], fresh)
    <2>1. Append(queue[v], fresh) \in Seq(Jobs)
      BY <1>4, <1>5, Added
    <2>2. QED
      BY <1>2, <1>3, <1>5, <2>1
  <1>7. /\ Range(queue'[v]) = Range(queue[v]) \cup {fresh}
        /\ DOMAIN queue'[v] = 1 .. (Len(queue[v]) + 1)
        /\ \A i \in 1 .. Len(queue[v]) : queue'[v][i] = queue[v][i]
        /\ queue'[v][Len(queue[v]) + 1] = fresh
        /\ DOMAIN queue[v] = 1 .. Len(queue[v])
    <2>1. queue[v] \in Seq(Jobs)
      BY <1>5
    <2>2. QED
      BY <1>4, <1>6, <2>1, Added
  <1>8. TypeOK'
    BY <1>1, <1>2, <1>6, Constants DEF TypeOK
  <1>9. Apart'
    <2>1. \A w \in Workers : worker[w].job # fresh /\ fresh \notin Range(queue[w])
      BY <1>1, <1>2 DEF Apart
    <2>2. \A w, u \in Workers : worker'[w].job = worker'[u].job /\ worker'[w].job # NoJob => w = u
      BY <1>1, <1>2 DEF Apart
    <2>3. \A w, u \in Workers : worker'[w].job \notin Range(queue'[u])
      <3> TAKE w, u \in Workers
      <3>1. worker[w].job \notin Range(queue[u])
        BY <1>1 DEF Apart
      <3>2. QED
        BY <1>2, <1>6, <1>7, <2>1, <3>1
    <2>4. ASSUME NEW w \in Workers, NEW u \in Workers,
                 NEW i \in DOMAIN queue'[w], NEW k \in DOMAIN queue'[u],
                 queue'[w][i] = queue'[u][k]
          PROVE  w = u /\ i = k
      <3>1. \A x \in Workers : \A l \in DOMAIN queue'[x] :
              \/ l \in DOMAIN queue[x] /\ queue'[x][l] = queue[x][l]
                 /\ queue[x][l] \in Range(queue[x])
              \/ x = v /\ l = Len(queue[v]) + 1 /\ queue'[x][l] = fresh
        <4> TAKE x \in Workers
        <4> TAKE l \in DOMAIN queue'[x]
        <4>1. CASE x # v
          BY <1>6, <4>1 DEF Range
        <4>2. CASE x = v /\ l \in 1 .. Len(queue[v])
          BY <1>7, <4>2 DEF Range
        <4>3. CASE x = v /\ l \notin 1 .. Len(queue[v])
          <5>1. l \in 1 .. (Len(queue[v]) + 1) /\ Len(queue[v]) \in Nat
            BY <1>5, <1>7, <4>3
          <5>2. QED
            BY <1>7, <4>3, <5>1
        <4>4. QED
          BY <4>1, <4>2, <4>3
      <3>2. CASE queue'[w][i] = fresh
        BY <2>1, <2>4, <3>1, <3>2
      <3>3. CASE queue'[w][i] # fresh
        <4>1. i \in DOMAIN queue[w] /\ k \in DOMAIN queue[u] /\ queue[w][i] = queue[u][k]
          BY <2>4, <3>1, <3>3
        <4>2. \A x, y \in Workers : \A a \in DOMAIN queue[x], b \in DOMAIN queue[y] :
                queue[x][a] = queue[y][b] => x = y /\ a = b
          BY <1>1 DEF Apart
        <4>3. QED
          BY <4>1, <4>2
      <3>4. QED
        BY <3>2, <3>3
    <2>5. QED
      BY <1>2, <2>2, <2>3, <2>4 DEF Apart
  <1>10. Placed'
    <2>1. \A w \in Workers : WorkerOK(w)'
      BY <1>1, <1>2 DEF Placed, WorkerOK, Made
    <2>2. ASSUME NEW w \in Workers, NEW i \in DOMAIN queue'[w] PROVE Waits(queue[w][i])'
      <3>1. \A j : Waits(j)' <=> Waits(j)
        BY <1>2 DEF Waits, Made
      <3>2. Waits(fresh)
        BY <1>1, <1>2 DEF Placed
      <3>3. \/ i \in DOMAIN queue[w] /\ queue'[w][i] = queue[w][i]
            \/ queue'[w][i] = fresh
        BY <1>6, <1>7
      <3>4. Waits(queue'[w][i])
        BY <1>1, <3>2, <3>3 DEF Placed
      <3>5. QED
        BY <1>2, <3>4 DEF Waits, Made
    <2>3. QED
      BY <1>2, <2>1, <2>2 DEF Placed
  <1>11. (\A j \in Jobs : JobOK(j))' /\ RequestsApart' /\ Unanswered' /\ AnsweredOnce'
    BY <1>1, <1>2, JobOKKept, RequestsApartKept, UnansweredKept DEF SameRequests, AnsweredOnce
  <1>12. Remembered' /\ TilesArrive'
    BY <1>1, <1>2, RememberedKept, TilesArriveKept DEF Unfinished
  <1>13. OnlyNewestWaits' /\ OnlyNewestRuns'
    BY <1>1, <1>2, OnlyNewestWaitsKept, OnlyNewestRunsKept DEF Unfinished
  <1>14. ToBeRemoved'
    <2>1. fresh \in Range(queue'[v])
      BY <1>7
    <2>2. \A w \in Workers : Range(queue[w]) \subseteq Range(queue'[w])
      BY <1>6, <1>7
    <2>3. ASSUME NEW j \in (Range(tracked) \cup {fresh}) \ {NoJob}
          PROVE  \/ \E w \in Workers : j \in Range(queue'[w]) \/ worker[w].job = j
                 \/ RemovalMessage(j) \in Range(inbox)
      <3>1. CASE j = fresh
        BY <1>3, <2>1, <3>1
      <3>2. CASE j # fresh
        BY <1>1, <2>2, <2>3, <3>2 DEF ToBeRemoved
      <3>3. QED
        BY <3>1, <3>2
    <2>4. QED
      BY <1>2, <2>3 DEF ToBeRemoved
  <1>15. QED
    BY <1>8, <1>9, <1>10, <1>11, <1>12, <1>13, <1>14 DEF IInv

(* push_front(): the older jobs have been waiting for nothing since        *)
(* generate_tile() passed them over.                                       *)
LEMMA TrackStep ==
  ASSUME IInv, Track
  PROVE  IInv'
  <1>1. /\ TypeOK /\ Apart /\ Placed /\ (\A j \in Jobs : JobOK(j)) /\ RequestsApart
        /\ Unanswered /\ AnsweredOnce /\ Remembered /\ OnlyNewestWaits /\ OnlyNewestRuns
        /\ ToBeRemoved /\ TilesArrive
    BY DEF IInv
  <1>2. /\ at = "track" /\ at' = "request" /\ tracked' = <<fresh>> \o tracked /\ fresh' = NoJob
        /\ UNCHANGED <<jpeg, wants, aborted, answered, inbox, outbox, stored, made, job, failed,
                       queue, next_thread, worker>>
    BY DEF Track, Entered, requestVars, jobVars, poolVars
  <1>3. /\ fresh # NoJob /\ fresh \in Jobs /\ fresh \in Made /\ fresh \notin Range(tracked)
        /\ tracked \in Seq(Jobs)
    BY <1>1, <1>2, KnownJobs DEF Remembered
  <1>4. /\ tracked' \in Seq(Jobs) /\ Len(tracked) \in Nat
        /\ DOMAIN tracked = 1 .. Len(tracked) /\ DOMAIN tracked' = 1 .. (Len(tracked) + 1)
        /\ tracked'[1] = fresh /\ tracked' # << >> /\ Head(tracked') = fresh
        /\ \A i \in DOMAIN tracked' : i # 1 => i - 1 \in DOMAIN tracked /\ tracked'[i] = tracked[i - 1]
        /\ \A i \in DOMAIN tracked : i + 1 \in DOMAIN tracked' /\ tracked'[i + 1] = tracked[i]
    BY <1>2, <1>3
  <1>5. Range(tracked') = {fresh} \cup Range(tracked)
    <2>1. Range(tracked') \subseteq {fresh} \cup Range(tracked)
      <3> SUFFICES ASSUME NEW i \in DOMAIN tracked' PROVE tracked'[i] \in {fresh} \cup Range(tracked)
        BY DEF Range
      <3>1. QED
        BY <1>4 DEF Range
    <2>2. {fresh} \cup Range(tracked) \subseteq Range(tracked')
      <3>1. fresh \in Range(tracked')
        BY <1>4 DEF Range
      <3>2. \A i \in DOMAIN tracked : tracked[i] \in Range(tracked')
        BY <1>4 DEF Range
      <3>3. QED
        BY <3>1, <3>2 DEF Range
    <2>3. QED
      BY <2>1, <2>2
  <1>6. TypeOK'
    BY <1>1, <1>2, <1>4 DEF TypeOK
  <1>7. Apart' /\ Placed' /\ (\A j \in Jobs : JobOK(j))'
    BY <1>1, <1>2, ApartKept, PlacedKept, JobOKKept DEF SameHands, SameStates
  <1>8. RequestsApart' /\ Unanswered' /\ AnsweredOnce' /\ TilesArrive'
    BY <1>1, <1>2, RequestsApartKept, UnansweredKept, TilesArriveKept
       DEF SameRequests, AnsweredOnce
  <1>9. Remembered'
    <2>1. \A i, k \in DOMAIN tracked' : tracked'[i] = tracked'[k] => i = k
      <3> TAKE i, k \in DOMAIN tracked'
      <3>1. i \in Int /\ k \in Int
        BY <1>4
      <3>2. CASE i = 1 \/ k = 1
        BY <1>3, <1>4, <3>2 DEF Range
      <3>3. CASE i # 1 /\ k # 1
        <4>1. \A a, b \in DOMAIN tracked : tracked[a] = tracked[b] => a = b
          BY <1>1 DEF Remembered
        <4>2. tracked'[i] = tracked'[k] => i - 1 = k - 1
          BY <1>4, <3>3, <4>1
        <4>3. QED
          BY <3>1, <4>2
      <3>4. QED
        BY <3>2, <3>3
    <2>2. NoJob \notin Range(tracked')
      BY <1>1, <1>3, <1>5, KnownJobs
    <2>3. QED
      BY <1>1, <1>2, <1>3, <1>5, <2>1, <2>2 DEF Remembered, Made, Unfinished
  <1>10. OnlyNewestWaits'
    BY <1>1, <1>2, <1>3, <1>4 DEF OnlyNewestWaits
  <1>11. OnlyNewestRuns'
    BY <1>1, <1>2, <1>3, <1>4 DEF OnlyNewestRuns, Made, Unfinished
  <1>12. ToBeRemoved'
    BY <1>1, <1>2, <1>5 DEF ToBeRemoved
  <1>13. QED
    BY <1>6, <1>7, <1>8, <1>9, <1>10, <1>11, <1>12 DEF IInv

(* Every job was created for a request of its own, so there is one left    *)
(* for a request that no job has.                                          *)
LEMMA RoomForJob ==
  ASSUME IInv, NEW r \in Requests, Take(TileMessage(r))
  PROVE  made + 1 \in Jobs /\ made + 1 \notin Made /\ made + 1 # NoJob
  <1> DEFINE rest == Requests \ {r}
             f    == [j \in Made |-> CHOOSE s \in job[j].requests : TRUE]
  <1>1. TypeOK /\ RequestsApart /\ \A j \in Jobs : JobOK(j)
    BY DEF IInv
  <1>2. made \in Nat /\ made <= Cardinality(Requests)
    BY <1>1 DEF TypeOK
  <1>3. /\ IsFiniteSet(Made) /\ Cardinality(Made) = made
    BY <1>2, FS_Interval DEF Made
  <1>4. /\ IsFiniteSet(rest) /\ Cardinality(rest) = Cardinality(Requests) - 1
    BY ServiceAssumption, FS_RemoveElement
  <1>5. ASSUME NEW j \in Made PROVE f[j] \in job[j].requests /\ f[j] \in Held(j) /\ f[j] \in rest
    <2>1. j \in Jobs /\ job[j].requests # {}
      BY <1>1, KnownJobs DEF JobOK
    <2>2. f[j] \in job[j].requests
      BY <2>1
    <2>3. r \notin Held(j) /\ job[j].requests \subseteq Requests
      BY <1>1, <2>1, RequestTaken, JobFields
    <2>4. QED
      BY <2>2, <2>3 DEF Held
  <1>6. f \in Injection(Made, rest)
    <2>1. f \in [Made -> rest]
      BY <1>5
    <2>2. \A j, k \in Made : f[j] = f[k] => j = k
      BY <1>1, <1>5, KnownJobs DEF RequestsApart
    <2> HIDE DEF f, rest
    <2>3. QED
      BY <2>1, <2>2 DEF Injection, IsInjective
  <1>7. Cardinality(Made) <= Cardinality(rest)
    <2> HIDE DEF f, rest
    <2>1. QED
      BY <1>4, <1>6, FS_Injection
  <1>8. made + 1 <= Cardinality(Requests)
    BY <1>2, <1>3, <1>4, <1>7, Constants
  <1>9. QED
    BY <1>2, <1>8, Constants DEF Jobs, Made, NoJob

(* The job generate_tile() finds and that turns the request down is not    *)
(* waiting, and not running if it generates all scales.                    *)
LEMMA PassedOver ==
  ASSUME IInv, NEW r \in Requests, CreateJob(r)
  PROVE  tracked # << >> => /\ 1 \in DOMAIN tracked /\ tracked[1] = Head(tracked)
                            /\ Head(tracked) \in Jobs /\ job[Head(tracked)].state # "kWaiting"
                            /\ ~jpeg => ~Unfinished(Head(tracked))
  <1> SUFFICES ASSUME tracked # << >>
               PROVE  /\ 1 \in DOMAIN tracked /\ tracked[1] = Head(tracked)
                      /\ Head(tracked) \in Jobs /\ job[Head(tracked)].state # "kWaiting"
                      /\ ~jpeg => ~Unfinished(Head(tracked))
    OBVIOUS
  <1>1. TypeOK /\ \A j \in Jobs : JobOK(j)
    BY DEF IInv
  <1>2. /\ 1 \in DOMAIN tracked /\ tracked[1] = Head(tracked) /\ Head(tracked) \in Jobs
    BY <1>1, KnownJobs, Shortened
  <1>3. PICK j \in Jobs : j = Head(tracked)
    BY <1>2
  <1>4. Tracked = j /\ j # NoJob
    BY <1>3, Constants DEF Tracked
  <1>5. ~Accepts(j, wants[r]) /\ Take(TileMessage(r))
    BY <1>4 DEF CreateJob, Missing
  <1>6. job[j].state # "kWaiting"
    BY <1>5 DEF Accepts
  <1>7. ASSUME ~jpeg PROVE job[j].state # "kRunning"
    <2> SUFFICES ASSUME job[j].state = "kRunning" PROVE FALSE
      OBVIOUS
    <2>1. job[j].range.min = 0 /\ job[j].range.max = Thumb
      BY <1>1, <1>7 DEF JobOK
    <2>2. wants[r] \in AllTiles
      BY <1>5, RequestTaken
    <2>3. Within(Scale(wants[r]), job[j].range)
      BY <2>1, <2>2, TilesOnGrid DEF Within, Scales
    <2>4. QED
      BY <1>5, <2>3 DEF Accepts
  <1>8. QED
    BY <1>2, <1>3, <1>6, <1>7 DEF Unfinished

(* A new job starts with its request and nothing else. *)
LEMMA CreateJobStep ==
  ASSUME IInv, NEW r \in Requests, CreateJob(r)
  PROVE  IInv'
  <1>1. /\ TypeOK /\ Apart /\ Placed /\ (\A i \in Jobs : JobOK(i)) /\ RequestsApart
        /\ Unanswered /\ AnsweredOnce /\ Remembered /\ OnlyNewestWaits /\ OnlyNewestRuns
        /\ ToBeRemoved /\ TilesArrive
    BY DEF IInv
  <1>2. Take(TileMessage(r))
    BY DEF CreateJob, Missing
  <1>3. PICK j \in Jobs : j = made + 1 /\ j \notin Made /\ j # NoJob
    BY <1>2, RoomForJob
  <1>4. /\ made' = j /\ fresh' = j /\ at' = "hand over"
        /\ job' = [job EXCEPT ![j] = NewJob(ScalesTold(Scale(wants[r])), {r})]
        /\ UNCHANGED <<jpeg, wants, aborted, answered, outbox, stored, tracked, failed,
                       queue, next_thread, worker>>
    BY <1>3 DEF CreateJob, requestVars, poolVars
  <1>5. /\ at = "request" /\ fresh = NoJob
        /\ Asked(r) /\ answered[r] = 0 /\ \A k \in Jobs : r \notin Held(k)
        /\ inbox' \in Seq(TileMessages \cup RemovalMessages)
        /\ \A i, k \in DOMAIN inbox' :
             inbox'[i] = inbox'[k] /\ inbox'[i] \in TileMessages => i = k
        /\ \A s \in Requests : TileMessage(s) \in Range(inbox') <=>
                               TileMessage(s) \in Range(inbox) /\ s # r
        /\ \A k \in Jobs : RemovalMessage(k) \in Range(inbox') <=>
                           RemovalMessage(k) \in Range(inbox)
    BY <1>2, RequestTaken
  <1>6. /\ job' \in [Jobs -> JobType]
        /\ job'[j].state = "kWaiting" /\ job'[j].requests = {r}
        /\ job'[j].late = {} /\ job'[j].tiles = {}
        /\ \A k \in Jobs : k # j => job'[k] = job[k]
    BY <1>1, <1>4, JobCreated
  <1>7. job[j].state = "kWaiting" /\ job[j].requests = {} /\ job[j].late = {} /\ job[j].tiles = {}
    BY <1>1, <1>3 DEF JobOK
  <1>8. Made' = Made \cup {j} /\ Made \subseteq Jobs
    <2>1. made \in Nat
      BY <1>1 DEF TypeOK
    <2>2. made' = made + 1 /\ j = made + 1
      BY <1>3, <1>4
    <2>3. 1 .. (made + 1) = (1 .. made) \cup {made + 1}
      BY <2>1
    <2>4. Made' = Made \cup {j}
      BY <2>2, <2>3 DEF Made
    <2>5. QED
      BY <1>1, <2>4, KnownJobs
  <1>9. \A k \in Jobs : /\ job'[k].state = job[k].state
                        /\ job'[k].late = job[k].late /\ job'[k].tiles = job[k].tiles
                        /\ Held(k)' = IF k = j THEN {r} ELSE Held(k)
    BY <1>6, <1>7 DEF Held
  <1>10. TypeOK'
    <2>1. made' \in Nat /\ made' <= Cardinality(Requests)
      <3>1. made' = j /\ Cardinality(Requests) \in Nat
        BY <1>4, Constants
      <3>2. j \in 1 .. Cardinality(Requests)
        BY DEF Jobs
      <3>3. QED
        BY <3>1, <3>2
    <2>2. QED
      BY <1>1, <1>3, <1>4, <1>5, <1>6, <2>1 DEF TypeOK
  <1>11. /\ \A w \in Workers : worker[w].job \in Made \cup {NoJob}
         /\ \A w \in Workers : \A i \in DOMAIN queue[w] : queue[w][i] \in Made
    <2>1. \A w \in Workers : WorkerOK(w)
      BY <1>1 DEF Placed
    <2>2. \A w \in Workers : \A i \in DOMAIN queue[w] : Waits(queue[w][i])
      BY <1>1 DEF Placed
    <2>3. QED
      BY <2>1, <2>2 DEF WorkerOK, Waits
  <1>12. Apart'
    <2>1. \A w \in Workers : worker[w].job # j /\ j \notin Range(queue[w])
      BY <1>3, <1>11 DEF Range
    <2>2. /\ \A w, v \in Workers :
               worker[w].job = worker[v].job /\ worker[w].job # NoJob => w = v
          /\ \A w, v \in Workers : worker[w].job \notin Range(queue[v])
          /\ \A w, v \in Workers : \A i \in DOMAIN queue[w], k \in DOMAIN queue[v] :
               queue[w][i] = queue[v][k] => w = v /\ i = k
      BY <1>1 DEF Apart
    <2>3. QED
      BY <1>4, <2>1, <2>2 DEF Apart
  <1>13. Placed'
    <2>1. ASSUME NEW w \in Workers PROVE WorkerOK(w)'
      <3>1. WorkerOK(w)
        BY <1>1 DEF Placed
      <3>2. CASE worker[w].job = NoJob
        BY <1>4, <3>1, <3>2 DEF WorkerOK
      <3>3. CASE worker[w].job # NoJob
        <4>1. job'[worker[w].job] = job[worker[w].job] /\ worker[w].job \in Made'
          BY <1>3, <1>6, <1>8, <1>11, <3>3
        <4>2. QED
          BY <1>4, <3>1, <4>1 DEF WorkerOK
      <3>4. QED
        BY <3>2, <3>3
    <2>2. ASSUME NEW k \in Made, Waits(k) PROVE Waits(k)'
      BY <1>8, <1>9, <2>2 DEF Waits
    <2>3. ASSUME NEW w \in Workers, NEW i \in DOMAIN queue[w] PROVE Waits(queue[w][i])'
      <3>1. PICK k \in Made : k = queue[w][i]
        BY <1>11
      <3>2. Waits(k)'
        BY <1>1, <2>2, <3>1 DEF Placed
      <3>3. queue'[w][i] = k
        BY <1>4, <3>1
      <3>4. QED
        BY <3>2, <3>3 DEF Waits
    <2>4. Waits(j)'
      BY <1>6, <1>8 DEF Waits
    <2>5. QED
      BY <1>4, <2>1, <2>3, <2>4 DEF Placed, Waits
  <1>14. (\A k \in Jobs : JobOK(k))'
    <2> SUFFICES ASSUME NEW k \in Jobs PROVE JobOK(k)'
      BY DEF Jobs
    <2>1. CASE k = j
      BY <1>6, <1>8, <2>1 DEF JobOK
    <2>2. CASE k # j
      BY <1>1, <1>4, <1>6, <1>8, <2>2 DEF JobOK
    <2>3. QED
      BY <2>1, <2>2
  <1>15. RequestsApart'
    <2>1. \A k \in Jobs : \A s \in Held(k)' : TileMessage(s) \notin Range(inbox')
      <3>1. \A k \in Jobs : Held(k) \subseteq Requests
        BY <1>1, JobFields DEF Held
      <3>2. QED
        BY <1>1, <1>5, <1>9, <3>1 DEF RequestsApart
    <2>2. \A k, l \in Jobs : k # l => Held(k)' \cap Held(l)' = {}
      BY <1>1, <1>5, <1>9 DEF RequestsApart
    <2>3. \A k \in Jobs : job'[k].requests \cap job'[k].late = {}
      BY <1>1, <1>6 DEF RequestsApart
    <2>4. QED
      BY <1>5, <2>1, <2>2, <2>3 DEF RequestsApart
  <1>16. Unanswered'
    <2>1. \A k \in Jobs : \A s \in Held(k)' : Asked(s)'
      <3>1. \A k \in Jobs : \A s \in Held(k)' : s = r \/ s \in Held(k)
        BY <1>9
      <3>2. QED
        BY <1>1, <1>4, <1>5, <3>1 DEF Unanswered, Asked
    <2>2. \A k \in Jobs : \A s \in job'[k].late : answered'[s] = 0
      BY <1>1, <1>4, <1>9 DEF Unanswered
    <2>3. \A k \in Jobs : job'[k].state = "kWaiting" => \A s \in job'[k].requests : answered'[s] = 0
      BY <1>1, <1>4, <1>5, <1>6 DEF Unanswered
    <2>4. ASSUME NEW w \in Workers, worker[w].pc \in {"cutting", "calling"},
                 NEW s \in job'[worker[w].job].requests
          PROVE  answered[s] = 0 \/ Before(wants[s], worker[w].cut)
      <3>1. worker[w].job \in Jobs /\ worker[w].job # j
        BY <1>1, <1>3, <1>8, <1>11, <2>4 DEF Placed, WorkerOK
      <3>2. s \in job[worker[w].job].requests
        BY <1>6, <2>4, <3>1
      <3>3. QED
        BY <1>1, <2>4, <3>2 DEF Unanswered
    <2>5. /\ \A s \in Requests : TileMessage(s) \in Range(inbox') => Asked(s)' /\ answered'[s] = 0
          /\ \A s \in Requests : ~Asked(s)' => answered'[s] = 0
      BY <1>1, <1>4, <1>5 DEF Unanswered, Asked
    <2>6. QED
      BY <1>4, <2>1, <2>2, <2>3, <2>4, <2>5 DEF Unanswered
  <1>17. AnsweredOnce'
    BY <1>1, <1>4 DEF AnsweredOnce
  <1>18. Remembered'
    <2>1. j \notin Range(tracked)
      BY <1>1, <1>3 DEF Remembered
    <2>2. \A k \in Jobs : RemovalMessage(k) \in Range(inbox') => ~Unfinished(k)'
      BY <1>1, <1>5, <1>9 DEF Remembered, Unfinished
    <2>3. QED
      BY <1>1, <1>3, <1>4, <1>8, <2>1, <2>2 DEF Remembered
  <1>19. OnlyNewestWaits'
    <2>1. ASSUME NEW i \in DOMAIN tracked PROVE job'[tracked[i]].state # "kWaiting"
      <3>1. tracked[i] \in Jobs /\ tracked # << >>
        BY <1>1, KnownJobs
      <3>2. job[tracked[i]].state # "kWaiting"
        BY <1>1, <3>1, PassedOver DEF OnlyNewestWaits
      <3>3. QED
        BY <1>9, <3>1, <3>2
    <2>2. QED
      BY <1>4, <2>1 DEF OnlyNewestWaits
  <1>20. OnlyNewestRuns'
    <2> SUFFICES ASSUME ~jpeg', NEW k \in Made', Unfinished(k)' PROVE k = fresh'
      BY <1>3, <1>4 DEF OnlyNewestRuns
    <2>1. CASE k \in Made
      <3>1. Unfinished(k)
        BY <1>8, <1>9, <2>1 DEF Unfinished
      <3>2. tracked # << >> /\ k = Head(tracked)
        BY <1>1, <1>4, <1>5, <2>1, <3>1 DEF OnlyNewestRuns
      <3>3. QED
        BY <1>4, <3>1, <3>2, PassedOver
    <2>2. CASE k \notin Made
      BY <1>4, <1>8, <2>2
    <2>3. QED
      BY <2>1, <2>2
  <1>21. ToBeRemoved'
    <2>1. ASSUME NEW k \in Range(tracked)
          PROVE  \/ \E w \in Workers : k \in Range(queue[w]) \/ worker[w].job = k
                 \/ RemovalMessage(k) \in Range(inbox')
      <3>1. k \in Jobs /\ k # NoJob
        BY <1>1, KnownJobs, <2>1
      <3>2. QED
        BY <1>1, <1>5, <2>1, <3>1 DEF ToBeRemoved
    <2>2. QED
      BY <1>4, <2>1 DEF ToBeRemoved
  <1>22. TilesArrive'
    <2>1. \A t \in AllTiles : {k \in Made' : t \in job'[k].tiles} = {k \in Made : t \in job[k].tiles}
      BY <1>6, <1>8, <1>9
    <2>2. QED
      BY <1>1, <1>4, <2>1 DEF TilesArrive
  <1>23. QED
    BY <1>10, <1>12, <1>13, <1>14, <1>15, <1>16, <1>17, <1>18, <1>19, <1>20, <1>21, <1>22 DEF IInv

-----------------------------------------------------------------------------
(* Steps of a worker *)

(* The job in hand is nowhere else. *)
LEMMA InHand ==
  ASSUME IInv, NEW w \in Workers, worker[w].pc # "idle"
  PROVE  \E j \in Jobs :
           /\ j = worker[w].job /\ j \in Made /\ j # NoJob
           /\ \A v \in Workers : v # w => worker[v].job # j
           /\ \A v \in Workers : \A i \in DOMAIN queue[v] : queue[v][i] # j
           /\ at = "hand over" => fresh # j
  <1>1. TypeOK /\ Apart /\ Placed
    BY DEF IInv
  <1>2. worker[w].job \in Made /\ worker[w].job # NoJob
    BY <1>1 DEF Placed, WorkerOK
  <1>3. PICK j \in Jobs : j = worker[w].job
    BY <1>1, <1>2, KnownJobs
  <1>4. \A v \in Workers : v # w => worker[v].job # j
    BY <1>1, <1>2, <1>3 DEF Apart
  <1>5. \A v \in Workers : j \notin Range(queue[v])
    BY <1>1, <1>3 DEF Apart
  <1>6. at = "hand over" => fresh # j
    BY <1>1, <1>3 DEF Apart
  <1>7. QED
    BY <1>2, <1>3, <1>4, <1>5, <1>6 DEF Range

(* What a worker does to its job does not concern the others, ... *)
LEMMA OthersKept ==
  ASSUME IInv, NEW w \in Workers, NEW j \in Jobs, made' = made,
         \A v \in Workers : v # w => worker'[v] = worker[v] /\ worker[v].job # j,
         \A k \in Jobs : k # j => job'[k] = job[k]
  PROVE  \A v \in Workers : v # w => WorkerOK(v)'
  <1> TAKE v \in Workers
  <1> SUFFICES ASSUME v # w PROVE WorkerOK(v)'
    OBVIOUS
  <1>1. WorkerOK(v) /\ TypeOK /\ Made' = Made
    BY DEF IInv, Placed, Made
  <1>2. CASE worker[v].job = NoJob
    BY <1>1, <1>2 DEF WorkerOK
  <1>3. CASE worker[v].job # NoJob
    <2>1. worker[v].job \in Jobs
      BY <1>1, <1>3, KnownJobs DEF WorkerOK
    <2>2. job'[worker[v].job] = job[worker[v].job]
      BY <2>1
    <2>3. QED
      BY <1>1, <2>2 DEF WorkerOK
  <1>4. QED
    BY <1>2, <1>3

(* ... nor the jobs in the queues. *)
LEMMA PlacedAfter ==
  ASSUME IInv, NEW w \in Workers, NEW j \in Jobs, made' = made, queue' = queue, at' = at, fresh' = fresh,
         \A v \in Workers : v # w => worker'[v] = worker[v] /\ worker[v].job # j,
         \A v \in Workers : \A i \in DOMAIN queue[v] : queue[v][i] # j,
         at = "hand over" => fresh # j,
         \A k \in Jobs : k # j => job'[k] = job[k],
         WorkerOK(w)'
  PROVE  Placed'
  <1>1. TypeOK /\ Placed /\ Made' = Made
    BY DEF IInv, Made
  <1>2. \A k \in Jobs : k # j /\ Waits(k) => k \in Made' /\ job'[k].state = "kWaiting"
    BY <1>1 DEF Waits
  <1>3. \A v \in Workers : \A i \in DOMAIN queue[v] :
          Waits(queue[v][i]) /\ queue[v][i] \in Jobs /\ queue[v][i] # j
    BY <1>1, KnownJobs DEF Placed
  <1>4. (\A v \in Workers : \A i \in DOMAIN queue[v] : Waits(queue[v][i]))'
    BY <1>2, <1>3 DEF Waits
  <1>5. at = "hand over" => Waits(fresh) /\ fresh \in Jobs /\ fresh # j
    BY <1>1, KnownJobs DEF Placed, Waits
  <1>6. (at = "hand over" => Waits(fresh))'
    BY <1>2, <1>5 DEF Waits
  <1>7. (\A v \in Workers : WorkerOK(v))'
    BY OthersKept DEF Workers
  <1>8. QED
    BY <1>4, <1>6, <1>7 DEF Placed

(* An exception ends the generation; what was cut stays cut. *)
LEMMA GenerationFailsStep ==
  ASSUME IInv, NEW w \in Workers, GenerationFails(w)
  PROVE  IInv'
  <1>1. /\ TypeOK /\ Apart /\ Placed /\ (\A i \in Jobs : JobOK(i)) /\ RequestsApart
        /\ Unanswered /\ AnsweredOnce /\ Remembered /\ OnlyNewestWaits /\ OnlyNewestRuns
        /\ ToBeRemoved /\ TilesArrive
    BY DEF IInv
  <1>2. /\ worker[w].pc = "cutting"
        /\ worker' = [worker EXCEPT ![w].pc = "finishing"]
        /\ UNCHANGED <<jpeg, wants, aborted, answered, inbox, outbox, stored, at, fresh, tracked,
                       made, job, queue, next_thread>>
    BY DEF GenerationFails, Goto, requestVars, threadVars
  <1>3. /\ worker' \in [Workers -> WorkerType] /\ worker'[w].pc = "finishing"
        /\ \A v \in Workers : /\ v # w => worker'[v] = worker[v]
                              /\ worker'[v].job = worker[v].job /\ worker'[v].cut = worker[v].cut
    BY <1>1, <1>2, WorkerMoved DEF Pcs
  <1>4. PICK j \in Jobs : /\ j = worker[w].job /\ j \in Made /\ j # NoJob
                          /\ \A v \in Workers : v # w => worker[v].job # j
                          /\ \A v \in Workers : \A i \in DOMAIN queue[v] : queue[v][i] # j
                          /\ at = "hand over" => fresh # j
    BY <1>2, InHand
  <1>5. TypeOK'
    BY <1>1, <1>2, <1>3 DEF TypeOK
  <1>6. Apart' /\ (\A k \in Jobs : JobOK(k))' /\ RequestsApart'
    BY <1>1, <1>2, <1>3, ApartKept, JobOKKept, RequestsApartKept DEF SameHands, SameRequests
  <1>7. WorkerOK(w)'
    BY <1>1, <1>2, <1>3 DEF Placed, WorkerOK, Made
  <1>8. Placed'
    BY <1>2, <1>3, <1>4, <1>7, PlacedAfter
  <1>9. Unanswered' /\ AnsweredOnce'
    BY <1>1, <1>2, <1>3 DEF Unanswered, AnsweredOnce, Asked, Held
  <1>10. Remembered' /\ ToBeRemoved' /\ TilesArrive'
    BY <1>1, <1>2, <1>3, RememberedKept, ToBeRemovedKept, TilesArriveKept
       DEF SameHands, Unfinished
  <1>11. OnlyNewestWaits' /\ OnlyNewestRuns'
    BY <1>1, <1>2, OnlyNewestWaitsKept, OnlyNewestRunsKept DEF Unfinished
  <1>12. QED
    BY <1>5, <1>6, <1>8, <1>9, <1>10, <1>11 DEF IInv

(* run() begins with a range of scales and the first of its tiles. *)
LEMMA StartRunningStep ==
  ASSUME IInv, NEW w \in Workers, StartRunning(w)
  PROVE  IInv'
  <1>1. /\ TypeOK /\ Apart /\ Placed /\ (\A i \in Jobs : JobOK(i)) /\ RequestsApart
        /\ Unanswered /\ AnsweredOnce /\ Remembered /\ OnlyNewestWaits /\ OnlyNewestRuns
        /\ ToBeRemoved /\ TilesArrive
    BY DEF IInv
  <1>2. worker[w].pc = "starting"
    BY DEF StartRunning
  <1>3. PICK j \in Jobs : /\ j = worker[w].job /\ j \in Made /\ j # NoJob
                          /\ \A v \in Workers : v # w => worker[v].job # j
                          /\ \A v \in Workers : \A i \in DOMAIN queue[v] : queue[v][i] # j
                          /\ at = "hand over" => fresh # j
    BY <1>2, InHand
  <1> DEFINE wanted == {Scale(wants[r]) : r \in job[j].requests}
             g == StartScales(jpeg, job[j].db, wanted)
  <1>4. /\ job' = [job EXCEPT ![j].state = "kRunning", ![j].range = g]
        /\ worker' = [worker EXCEPT ![w].pc = "cutting", ![w].cut = <<g.min, 0>>]
        /\ UNCHANGED <<jpeg, wants, aborted, answered, inbox, outbox, stored, at, fresh, tracked,
                       made, queue, next_thread>>
    BY <1>3 DEF StartRunning, requestVars, threadVars
  <1>5. g \in Ranges /\ (~jpeg => g = [min |-> 0, max |-> Thumb])
    <2>1. wanted \subseteq Scales
      <3>1. \A r \in job[j].requests : r \in Requests /\ Asked(r)
        BY <1>1, JobFields DEF Unanswered, Held
      <3>2. \A r \in job[j].requests : wants[r] \in AllTiles
        BY <1>1, <3>1 DEF TypeOK, Asked
      <3>3. QED
        BY <3>2, TilesOnGrid
    <2>2. job[j].db \in Ranges \cup {Empty} /\ jpeg \in BOOLEAN
      BY <1>1, JobFields DEF TypeOK
    <2> HIDE DEF wanted
    <2>3. QED
      BY <2>1, <2>2, StartScalesOK
  <1> HIDE DEF g
  <1>6. /\ <<g.min, 0>> \in AllTiles /\ <<g.min, 0>> \in Int \X Int
    BY <1>5, TilesOnGrid DEF Ranges
  <1>7. /\ job' \in [Jobs -> JobType] /\ job'[j].state = "kRunning" /\ job'[j].range = g
        /\ \A k \in Jobs : /\ k # j => job'[k] = job[k]
                           /\ job'[k].db = job[k].db
                           /\ job'[k].requests = job[k].requests
                           /\ job'[k].late = job[k].late /\ job'[k].tiles = job[k].tiles
    BY <1>1, <1>4, <1>5, RangeSet
  <1>8. /\ worker' \in [Workers -> WorkerType]
        /\ worker'[w].pc = "cutting" /\ worker'[w].cut = <<g.min, 0>>
        /\ \A v \in Workers : /\ v # w => worker'[v] = worker[v]
                              /\ worker'[v].job = worker[v].job
    BY <1>1, <1>4, <1>6, WorkerStarts DEF Pcs
  <1>9. job[j].state = "kWaiting" /\ job[j].tiles = {} /\ job[j].late = {}
    BY <1>1, <1>2, <1>3 DEF Placed, WorkerOK, JobOK
  <1>10. TypeOK'
    BY <1>1, <1>4, <1>7, <1>8 DEF TypeOK
  <1>11. Apart' /\ RequestsApart'
    BY <1>1, <1>4, <1>7, <1>8, ApartKept, RequestsApartKept DEF SameHands, SameRequests
  <1>12. Placed'
    <2>1. WorkerOK(w)'
      BY <1>3, <1>4, <1>5, <1>6, <1>7, <1>8, <1>9 DEF WorkerOK, Made
    <2>2. made' = made /\ queue' = queue /\ at' = at /\ fresh' = fresh
      BY <1>4
    <2>3. QED
      BY <1>3, <1>7, <1>8, <2>1, <2>2, PlacedAfter
  <1>13. (\A k \in Jobs : JobOK(k))'
    <2> SUFFICES ASSUME NEW k \in Jobs PROVE JobOK(k)'
      BY DEF Jobs
    <2>1. CASE k = j
      <3>1. job[j].requests # {}
        BY <1>1, <1>3 DEF JobOK
      <3>2. QED
        BY <1>3, <1>4, <1>5, <1>7, <2>1, <3>1 DEF JobOK, Made
    <2>2. CASE k # j
      BY <1>1, <1>4, <1>7, <2>2 DEF JobOK, Made
    <2>3. QED
      BY <2>1, <2>2
  <1>14. Unanswered'
    <2>1. \A k \in Jobs : Held(k)' = Held(k)
      BY <1>7 DEF Held
    <2>2. \A r \in job[j].requests : answered[r] = 0
      BY <1>1, <1>9 DEF Unanswered
    <2>3. ASSUME NEW v \in Workers, worker'[v].pc \in {"cutting", "calling"},
                 NEW r \in job'[worker'[v].job].requests
          PROVE  answered[r] = 0 \/ Before(wants[r], worker'[v].cut)
      <3>1. CASE v = w
        BY <1>3, <1>7, <1>8, <2>2, <2>3, <3>1
      <3>2. CASE v # w
        <4>1. worker[v].job \in Jobs
          BY <1>1, <1>8, <2>3, <3>2, WorkerFields DEF Placed, WorkerOK
        <4>2. QED
          BY <1>1, <1>7, <1>8, <2>3, <3>2, <4>1 DEF Unanswered
      <3>3. QED
        BY <3>1, <3>2
    <2>4. \A k \in Jobs : job'[k].state = "kWaiting" => job[k].state = "kWaiting"
      BY <1>7
    <2>5. wants' = wants /\ answered' = answered /\ inbox' = inbox
      BY <1>4
    <2>6. /\ \A k \in Jobs : \A r \in Held(k)' : Asked(r)'
          /\ \A k \in Jobs : \A r \in job'[k].late : answered'[r] = 0
          /\ \A k \in Jobs : job'[k].state = "kWaiting" =>
               \A r \in job'[k].requests : answered'[r] = 0
      BY <1>1, <1>7, <2>1, <2>4, <2>5 DEF Unanswered, Asked
    <2>7. QED
      BY <1>1, <2>3, <2>5, <2>6 DEF Unanswered, Asked
  <1>15. AnsweredOnce'
    BY <1>1, <1>4 DEF AnsweredOnce
  <1>16. \A k \in Jobs : Unfinished(k)' => Unfinished(k)
    BY <1>7, <1>9 DEF Unfinished
  <1>17. Remembered' /\ ToBeRemoved' /\ TilesArrive'
    BY <1>1, <1>4, <1>7, <1>8, <1>16, RememberedKept, ToBeRemovedKept, TilesArriveKept
       DEF SameHands
  <1>18. OnlyNewestWaits' /\ OnlyNewestRuns'
    BY <1>1, <1>4, <1>7, <1>16, OnlyNewestWaitsKept, OnlyNewestRunsKept
  <1>19. QED
    BY <1>10, <1>11, <1>12, <1>13, <1>14, <1>15, <1>17, <1>18 DEF IInv

(* The tile is one the job has not cut before. *)
LEMMA DeliverTileStep ==
  ASSUME IInv, NEW w \in Workers, DeliverTile(w)
  PROVE  IInv'
  <1>1. /\ TypeOK /\ Apart /\ Placed /\ (\A i \in Jobs : JobOK(i)) /\ RequestsApart
        /\ Unanswered /\ AnsweredOnce /\ Remembered /\ OnlyNewestWaits /\ OnlyNewestRuns
        /\ ToBeRemoved /\ TilesArrive
    BY DEF IInv
  <1>2. worker[w].pc = "cutting"
    BY DEF DeliverTile
  <1>3. PICK j \in Jobs : /\ j = worker[w].job /\ j \in Made /\ j # NoJob
                          /\ \A v \in Workers : v # w => worker[v].job # j
                          /\ \A v \in Workers : \A i \in DOMAIN queue[v] : queue[v][i] # j
                          /\ at = "hand over" => fresh # j
    BY <1>2, InHand
  <1>4. PICK c \in AllTiles : c = worker[w].cut
    BY <1>1, <1>2 DEF Placed, WorkerOK
  <1>5. /\ outbox' = Append(outbox, c)
        /\ job' = [job EXCEPT ![j].tiles = @ \cup {c}]
        /\ worker' = [worker EXCEPT ![w].pc = "calling"]
        /\ UNCHANGED <<jpeg, wants, aborted, answered, inbox, stored, at, fresh, tracked,
                       made, queue, next_thread>>
    BY <1>3, <1>4 DEF DeliverTile, Deliver, Goto, requestVars
  <1>6. /\ job' \in [Jobs -> JobType] /\ job'[j].tiles = job[j].tiles \cup {c}
        /\ \A k \in Jobs : /\ k # j => job'[k] = job[k]
                           /\ job'[k].state = job[k].state
                           /\ job'[k].db = job[k].db /\ job'[k].range = job[k].range
                           /\ job'[k].requests = job[k].requests /\ job'[k].late = job[k].late
    BY <1>1, <1>5, TileAdded
  <1>7. /\ worker' \in [Workers -> WorkerType] /\ worker'[w].pc = "calling"
        /\ \A v \in Workers : /\ v # w => worker'[v] = worker[v]
                              /\ worker'[v].job = worker[v].job /\ worker'[v].cut = worker[v].cut
    BY <1>1, <1>5, WorkerMoved DEF Pcs
  <1>8. /\ job[j].state = "kRunning" /\ job[j].range \in Ranges
        /\ \A t \in job[j].tiles : Before(t, c)
    BY <1>1, <1>2, <1>3, <1>4 DEF Placed, WorkerOK
  <1>9. made' = made /\ queue' = queue /\ at' = at /\ fresh' = fresh /\ Made' = Made
    BY <1>5 DEF Made
  <1>10. outbox \in Seq(AllTiles) /\ outbox' \in Seq(AllTiles)
    BY <1>1, <1>5, Added DEF TypeOK
  <1>11. TypeOK'
    BY <1>1, <1>5, <1>6, <1>7, <1>10 DEF TypeOK
  <1>12. Apart' /\ RequestsApart'
    BY <1>1, <1>5, <1>6, <1>7, ApartKept, RequestsApartKept DEF SameHands, SameRequests
  <1>13. Placed'
    <2>1. WorkerOK(w)'
      BY <1>3, <1>4, <1>6, <1>7, <1>8, <1>9 DEF WorkerOK
    <2>2. QED
      BY <1>3, <1>6, <1>7, <1>9, <2>1, PlacedAfter
  <1>14. (\A k \in Jobs : JobOK(k))'
    <2> SUFFICES ASSUME NEW k \in Jobs PROVE JobOK(k)'
      BY DEF Jobs
    <2>1. jpeg' = jpeg /\ JobOK(k)
      BY <1>1, <1>5
    <2>2. QED
      BY <1>6, <1>8, <1>9, <2>1 DEF JobOK
  <1>15. Unanswered'
    <2>1. wants' = wants /\ answered' = answered /\ inbox' = inbox
      BY <1>5
    <2>2. \A k \in Jobs : Held(k)' = Held(k)
      BY <1>6 DEF Held
    <2>3. /\ \A k \in Jobs : \A r \in Held(k)' : Asked(r)'
          /\ \A k \in Jobs : \A r \in job'[k].late : answered'[r] = 0
          /\ \A k \in Jobs : job'[k].state = "kWaiting" =>
               \A r \in job'[k].requests : answered'[r] = 0
      BY <1>1, <1>6, <2>1, <2>2 DEF Unanswered, Asked
    <2>4. ASSUME NEW v \in Workers, worker'[v].pc \in {"cutting", "calling"},
                 NEW r \in job'[worker'[v].job].requests
          PROVE  answered[r] = 0 \/ Before(wants[r], worker'[v].cut)
      <3>1. worker[v].pc \in {"cutting", "calling"}
        BY <1>2, <1>7, <2>4
      <3>2. worker[v].job \in Jobs
        BY <1>1, <3>1, WorkerFields DEF Placed, WorkerOK
      <3>3. QED
        BY <1>1, <1>6, <1>7, <2>4, <3>1, <3>2 DEF Unanswered
    <2>5. QED
      BY <1>1, <2>1, <2>3, <2>4 DEF Unanswered, Asked
  <1>16. AnsweredOnce'
    BY <1>1, <1>5 DEF AnsweredOnce
  <1>17. Remembered' /\ ToBeRemoved'
    BY <1>1, <1>5, <1>6, <1>7, RememberedKept, ToBeRemovedKept DEF SameHands, Unfinished
  <1>18. OnlyNewestWaits' /\ OnlyNewestRuns'
    BY <1>1, <1>5, <1>6, OnlyNewestWaitsKept, OnlyNewestRunsKept DEF Unfinished
  <1>19. TilesArrive'
    <2> SUFFICES ASSUME NEW t \in AllTiles
                 PROVE  LET copies == stored'[t] + Cardinality(Copies(outbox', t))
                            cut    == Cardinality(CutBy(t)')
                        IN  copies \in {cut, cut + 1}
      BY DEF TilesArrive, Copies, CutBy
    <2>1. stored'[t] = stored[t] /\ stored[t] \in Nat
      BY <1>1, <1>5 DEF TypeOK
    <2>2. /\ Cardinality(Copies(outbox, t)) \in Nat
          /\ Cardinality(Copies(outbox', t)) =
               Cardinality(Copies(outbox, t)) + (IF c = t THEN 1 ELSE 0)
      BY <1>5, <1>10, CopiesAdded
    <2>3. IsFiniteSet(CutBy(t)) /\ Cardinality(CutBy(t)) \in Nat
      BY <1>1, Cut
    <2>4. Cardinality(CutBy(t)') = Cardinality(CutBy(t)) + (IF c = t THEN 1 ELSE 0)
      <3>1. CASE c = t
        <4>1. j \notin CutBy(t)
          BY <1>8, <3>1, NextTileAfter DEF CutBy
        <4>2. CutBy(t)' = CutBy(t) \cup {j}
          BY <1>1, <1>3, <1>6, <1>9, <3>1, KnownJobs DEF CutBy
        <4>3. QED
          BY <2>3, <3>1, <4>1, <4>2, FS_AddElement
      <3>2. CASE c # t
        <4>1. CutBy(t)' = CutBy(t)
          BY <1>1, <1>3, <1>6, <1>9, <3>2, KnownJobs DEF CutBy
        <4>2. QED
          BY <2>3, <3>2, <4>1
      <3>3. QED
        BY <3>1, <3>2
    <2>5. LET copies == stored[t] + Cardinality(Copies(outbox, t))
              cut    == Cardinality(CutBy(t))
          IN  copies \in {cut, cut + 1}
      BY <1>1 DEF TilesArrive, Copies, CutBy
    <2> HIDE DEF Copies, CutBy
    <2>6. QED
      BY <2>1, <2>2, <2>3, <2>4, <2>5
  <1>20. QED
    BY <1>11, <1>12, <1>13, <1>14, <1>15, <1>16, <1>17, <1>18, <1>19 DEF IInv

(* The requests for the tile have not been answered; those for the tiles   *)
(* to come will not be either.                                             *)
LEMMA CallRequestsStep ==
  ASSUME IInv, NEW w \in Workers, CallRequests(w)
  PROVE  IInv'
  <1>1. /\ TypeOK /\ Apart /\ Placed /\ (\A i \in Jobs : JobOK(i)) /\ RequestsApart
        /\ Unanswered /\ AnsweredOnce /\ Remembered /\ OnlyNewestWaits /\ OnlyNewestRuns
        /\ ToBeRemoved /\ TilesArrive
    BY DEF IInv
  <1>2. worker[w].pc = "calling"
    BY DEF CallRequests
  <1>3. PICK j \in Jobs : /\ j = worker[w].job /\ j \in Made /\ j # NoJob
                          /\ \A v \in Workers : v # w => worker[v].job # j
                          /\ \A v \in Workers : \A i \in DOMAIN queue[v] : queue[v][i] # j
                          /\ at = "hand over" => fresh # j
    BY <1>2, InHand
  <1>4. PICK c \in AllTiles : c = worker[w].cut
    BY <1>1, <1>2 DEF Placed, WorkerOK
  <1> DEFINE rs == {r \in job[j].requests \ aborted : wants[r] = c}
             n  == NextTile(c)
             p  == IF Scale(n) <= job[j].range.max THEN "cutting" ELSE "finishing"
  <1>5. /\ answered' = [r \in Requests |-> IF r \in rs THEN answered[r] + 1 ELSE answered[r]]
        /\ worker' = [worker EXCEPT ![w].cut = n, ![w].pc = p]
        /\ UNCHANGED <<jpeg, wants, aborted, inbox, outbox, stored, at, fresh, tracked,
                       made, job, queue, next_thread>>
    BY <1>3, <1>4 DEF CallRequests, Answer, threadVars, jobVars
  <1>6. /\ Before(c, n) /\ ~Before(c, c) /\ n \in Int \X Int
        /\ \A u \in AllTiles : Before(u, c) => Before(u, n)
        /\ \A m \in Scales : Scale(n) <= m => n \in AllTiles
    BY NextTileAfter
  <1>7. /\ job[j].state = "kRunning" /\ job[j].range \in Ranges
        /\ \A t \in job[j].tiles : Before(t, c) \/ t = c
    BY <1>1, <1>2, <1>3, <1>4 DEF Placed, WorkerOK
  <1>8. p \in {"cutting", "finishing"} /\ (p = "cutting" => n \in AllTiles)
    BY <1>6, <1>7 DEF Ranges
  <1>9. rs \in SUBSET Requests
    BY <1>1, JobFields
  <1> HIDE DEF rs, n, p
  <1>10. /\ answered' \in [Requests -> Nat]
         /\ \A r \in Requests : /\ r \in rs => answered'[r] = answered[r] + 1
                                /\ r \notin rs => answered'[r] = answered[r]
    BY <1>1, <1>5, <1>9, Answered
  <1>11. /\ worker' \in [Workers -> WorkerType] /\ worker'[w].pc = p /\ worker'[w].cut = n
         /\ \A v \in Workers : /\ v # w => worker'[v] = worker[v]
                               /\ worker'[v].job = worker[v].job
    BY <1>1, <1>5, <1>6, <1>8, WorkerCuts DEF Pcs
  <1>12. \A r \in rs : /\ r \in job[j].requests /\ r \in Held(j) /\ wants[r] = c
                       /\ answered[r] = 0 /\ Asked(r)
    <2> TAKE r \in rs
    <2>1. r \in job[j].requests /\ wants[r] = c
      BY DEF rs
    <2>2. r \in Held(j) /\ Asked(r)
      BY <1>1, <2>1 DEF Held, Unanswered
    <2>3. answered[r] = 0 \/ Before(wants[r], c)
      BY <1>1, <1>2, <1>3, <1>4, <2>1 DEF Unanswered
    <2>4. QED
      BY <1>6, <2>1, <2>2, <2>3
  <1>13. made' = made /\ queue' = queue /\ at' = at /\ fresh' = fresh /\ Made' = Made /\ job' = job
         /\ wants' = wants /\ inbox' = inbox
    BY <1>5 DEF Made
  <1>14. TypeOK'
    BY <1>1, <1>5, <1>10, <1>11 DEF TypeOK
  <1>15. Apart' /\ (\A k \in Jobs : JobOK(k))' /\ RequestsApart'
    BY <1>1, <1>5, <1>11, ApartKept, JobOKKept, RequestsApartKept DEF SameHands, SameRequests
  <1>16. Placed'
    <2>1. \A t \in job[j].tiles : Before(t, n)
      <3>1. job[j].tiles \subseteq AllTiles
        BY <1>1, JobFields
      <3>2. QED
        BY <1>6, <1>7, <3>1
    <2>2. WorkerOK(w)'
      BY <1>3, <1>7, <1>8, <1>11, <1>13, <2>1 DEF WorkerOK
    <2>3. QED
      BY <1>3, <1>11, <1>13, <2>2, PlacedAfter
  <1>17. Unanswered'
    <2>1. \A k \in Jobs : \A r \in Held(k) : r \in Requests /\ (r \in rs => k = j)
      BY <1>1, <1>12, JobFields DEF Held, RequestsApart
    <2>2. \A r \in Requests : TileMessage(r) \in Range(inbox) => Asked(r) /\ answered'[r] = 0
      BY <1>1, <1>10, <1>12 DEF Unanswered, RequestsApart
    <2>3. \A r \in Requests : ~Asked(r) => answered'[r] = 0
      BY <1>1, <1>10, <1>12 DEF Unanswered
    <2>4. \A k \in Jobs : \A r \in job[k].late : answered'[r] = 0
      <3> SUFFICES ASSUME NEW k \in Jobs, NEW r \in job[k].late PROVE answered'[r] = 0
        OBVIOUS
      <3>1. r \in Held(k) /\ r \notin job[k].requests
        BY <1>1 DEF Held, RequestsApart
      <3>2. r \notin rs /\ r \in Requests
        BY <1>12, <2>1, <3>1
      <3>3. QED
        BY <1>1, <1>10, <3>2 DEF Unanswered
    <2>5. \A k \in Jobs : job[k].state = "kWaiting" => \A r \in job[k].requests : answered'[r] = 0
      <3> SUFFICES ASSUME NEW k \in Jobs, job[k].state = "kWaiting", NEW r \in job[k].requests
                   PROVE  answered'[r] = 0
        OBVIOUS
      <3>1. r \in Requests /\ r \notin rs
        BY <1>7, <2>1 DEF Held
      <3>2. QED
        BY <1>1, <1>10, <3>1 DEF Unanswered
    <2>6. ASSUME NEW v \in Workers, worker'[v].pc \in {"cutting", "calling"},
                 NEW r \in job[worker[v].job].requests
          PROVE  answered'[r] = 0 \/ Before(wants[r], worker'[v].cut)
      <3>1. CASE v = w
        <4>1. r \in Requests /\ wants[r] \in AllTiles
          <5>1. r \in Held(j) /\ r \in Requests /\ Asked(r)
            BY <1>1, <1>3, <2>1, <2>6, <3>1 DEF Held, Unanswered
          <5>2. QED
            BY <1>1, <5>1 DEF TypeOK, Asked
        <4>2. CASE r \in rs
          BY <1>6, <1>11, <1>12, <3>1, <4>2
        <4>3. CASE r \notin rs
          <5>1. answered[r] = 0 \/ Before(wants[r], c)
            BY <1>1, <1>2, <1>4, <2>6, <3>1 DEF Unanswered
          <5>2. QED
            BY <1>6, <1>10, <1>11, <3>1, <4>1, <4>3, <5>1
        <4>4. QED
          BY <4>2, <4>3
      <3>2. CASE v # w
        <4>1. worker[v].job \in Jobs /\ worker[v].job # j
          BY <1>1, <1>3, <1>11, <2>6, <3>2, WorkerFields DEF Placed, WorkerOK
        <4>2. r \in Requests /\ r \notin rs
          BY <2>1, <2>6, <4>1 DEF Held
        <4>3. QED
          BY <1>1, <1>10, <1>11, <2>6, <3>2, <4>2 DEF Unanswered
      <3>3. QED
        BY <3>1, <3>2
    <2>7. \A k \in Jobs : \A r \in Held(k)' : Asked(r)'
      BY <1>1, <1>13 DEF Unanswered, Asked, Held
    <2>8. QED
      BY <1>11, <1>13, <2>2, <2>3, <2>4, <2>5, <2>6, <2>7 DEF Unanswered, Asked
  <1>18. AnsweredOnce'
    BY <1>1, <1>10, <1>12 DEF AnsweredOnce
  <1>19. Remembered' /\ ToBeRemoved' /\ TilesArrive'
    BY <1>1, <1>5, <1>11, RememberedKept, ToBeRemovedKept, TilesArriveKept
       DEF SameHands, Unfinished
  <1>20. OnlyNewestWaits' /\ OnlyNewestRuns'
    BY <1>1, <1>5, OnlyNewestWaitsKept, OnlyNewestRunsKept DEF Unfinished
  <1>21. QED
    BY <1>14, <1>15, <1>16, <1>17, <1>18, <1>19, <1>20 DEF IInv

(* The late requests get the first answer of all. *)
LEMMA FinishStep ==
  ASSUME IInv, NEW w \in Workers, Finish(w)
  PROVE  IInv'
  <1>1. /\ TypeOK /\ Apart /\ Placed /\ (\A i \in Jobs : JobOK(i)) /\ RequestsApart
        /\ Unanswered /\ AnsweredOnce /\ Remembered /\ OnlyNewestWaits /\ OnlyNewestRuns
        /\ ToBeRemoved /\ TilesArrive
    BY DEF IInv
  <1>2. worker[w].pc = "finishing"
    BY DEF Finish
  <1>3. PICK j \in Jobs : /\ j = worker[w].job /\ j \in Made /\ j # NoJob
                          /\ \A v \in Workers : v # w => worker[v].job # j
                          /\ \A v \in Workers : \A i \in DOMAIN queue[v] : queue[v][i] # j
                          /\ at = "hand over" => fresh # j
    BY <1>2, InHand
  <1> DEFINE rs == LateAnswers(j)
  <1>4. /\ answered' = [r \in Requests |-> IF r \in rs THEN answered[r] + 1 ELSE answered[r]]
        /\ job' = [job EXCEPT ![j].state = "kDone", ![j].late = {}]
        /\ worker' = [worker EXCEPT ![w].pc = "over"]
        /\ UNCHANGED <<jpeg, wants, aborted, inbox, outbox, stored, at, fresh, tracked,
                       made, queue, next_thread>>
    BY <1>3 DEF Finish, Answer, Goto, threadVars
  <1>5. /\ job' \in [Jobs -> JobType] /\ job'[j].state = "kDone" /\ job'[j].late = {}
        /\ \A k \in Jobs : /\ k # j => job'[k] = job[k]
                           /\ job'[k].db = job[k].db /\ job'[k].range = job[k].range
                           /\ job'[k].requests = job[k].requests /\ job'[k].tiles = job[k].tiles
    BY <1>1, <1>4, JobEnded
  <1>6. /\ worker' \in [Workers -> WorkerType] /\ worker'[w].pc = "over"
        /\ \A v \in Workers : /\ v # w => worker'[v] = worker[v]
                              /\ worker'[v].job = worker[v].job /\ worker'[v].cut = worker[v].cut
    BY <1>1, <1>4, WorkerMoved DEF Pcs
  <1>7. job[j].state = "kRunning"
    BY <1>1, <1>2, <1>3 DEF Placed, WorkerOK
  <1>8. \A r \in rs : r \in Requests /\ r \in Held(j) /\ r \notin job[j].requests
                      /\ answered[r] = 0 /\ Asked(r)
    BY <1>1, JobFields DEF LateAnswers, Held, Unanswered, RequestsApart
  <1>9. rs \in SUBSET Requests
    BY <1>8
  <1> HIDE DEF rs
  <1>10. /\ answered' \in [Requests -> Nat]
         /\ \A r \in Requests : /\ r \in rs => answered'[r] = answered[r] + 1
                                /\ r \notin rs => answered'[r] = answered[r]
    BY <1>1, <1>4, <1>9, Answered
  <1>11. made' = made /\ queue' = queue /\ at' = at /\ fresh' = fresh /\ Made' = Made
         /\ wants' = wants /\ inbox' = inbox /\ jpeg' = jpeg
    BY <1>4 DEF Made
  <1>12. \A k \in Jobs : Held(k)' \subseteq Held(k)
    BY <1>5 DEF Held
  <1>13. TypeOK'
    BY <1>1, <1>4, <1>5, <1>6, <1>10 DEF TypeOK
  <1>14. Apart'
    BY <1>1, <1>4, <1>6, ApartKept DEF SameHands
  <1>15. Placed'
    <2>1. WorkerOK(w)'
      BY <1>3, <1>5, <1>6, <1>11 DEF WorkerOK
    <2>2. QED
      BY <1>3, <1>5, <1>6, <1>11, <2>1, PlacedAfter
  <1>16. (\A k \in Jobs : JobOK(k))'
    <2> SUFFICES ASSUME NEW k \in Jobs PROVE JobOK(k)'
      BY DEF Jobs
    <2>1. CASE k = j
      BY <1>1, <1>3, <1>5, <1>11, <2>1 DEF JobOK
    <2>2. CASE k # j
      BY <1>1, <1>5, <1>11, <2>2 DEF JobOK
    <2>3. QED
      BY <2>1, <2>2
  <1>17. RequestsApart'
    <2>1. /\ \A i, k \in DOMAIN inbox : inbox[i] = inbox[k] /\ inbox[i] \in TileMessages => i = k
          /\ \A k \in Jobs : \A r \in Held(k)' : TileMessage(r) \notin Range(inbox)
      BY <1>1, <1>12 DEF RequestsApart
    <2>2. \A k, l \in Jobs : k # l => Held(k)' \cap Held(l)' = {}
      BY <1>1, <1>12 DEF RequestsApart
    <2>3. \A k \in Jobs : job'[k].requests \cap job'[k].late = {}
      BY <1>1, <1>5 DEF RequestsApart
    <2>4. QED
      BY <1>11, <2>1, <2>2, <2>3 DEF RequestsApart
  <1>18. Unanswered'
    <2>1. \A k \in Jobs : \A r \in Held(k) : r \in Requests /\ (r \in rs => k = j)
      BY <1>1, <1>8, JobFields DEF Held, RequestsApart
    <2>2. \A r \in Requests : TileMessage(r) \in Range(inbox) => Asked(r) /\ answered'[r] = 0
      BY <1>1, <1>10, <1>8 DEF Unanswered, RequestsApart
    <2>3. \A r \in Requests : ~Asked(r) => answered'[r] = 0
      BY <1>1, <1>10, <1>8 DEF Unanswered
    <2>4. \A k \in Jobs : \A r \in job'[k].late : answered'[r] = 0
      <3> SUFFICES ASSUME NEW k \in Jobs, NEW r \in job'[k].late PROVE answered'[r] = 0
        OBVIOUS
      <3>1. k # j /\ r \in job[k].late
        BY <1>5
      <3>2. r \in Requests /\ r \notin rs
        BY <2>1, <3>1 DEF Held
      <3>3. QED
        BY <1>1, <1>10, <3>1, <3>2 DEF Unanswered
    <2>5. \A k \in Jobs : job'[k].state = "kWaiting" => \A r \in job'[k].requests : answered'[r] = 0
      <3> SUFFICES ASSUME NEW k \in Jobs, job'[k].state = "kWaiting", NEW r \in job'[k].requests
                   PROVE  answered'[r] = 0
        OBVIOUS
      <3>1. k # j /\ job[k].state = "kWaiting" /\ r \in job[k].requests
        BY <1>5
      <3>2. r \in Requests /\ r \notin rs
        BY <2>1, <3>1 DEF Held
      <3>3. QED
        BY <1>1, <1>10, <3>1, <3>2 DEF Unanswered
    <2>6. ASSUME NEW v \in Workers, worker'[v].pc \in {"cutting", "calling"},
                 NEW r \in job'[worker'[v].job].requests
          PROVE  answered'[r] = 0 \/ Before(wants[r], worker'[v].cut)
      <3>1. v # w
        BY <1>6, <2>6
      <3>2. worker[v].job \in Jobs /\ worker[v].job # j
        BY <1>1, <1>3, <1>6, <2>6, <3>1, WorkerFields DEF Placed, WorkerOK
      <3>3. r \in job[worker[v].job].requests
        BY <1>5, <1>6, <2>6, <3>2
      <3>4. r \in Requests /\ r \notin rs
        BY <2>1, <3>2, <3>3 DEF Held
      <3>5. QED
        BY <1>1, <1>6, <1>10, <2>6, <3>1, <3>3, <3>4 DEF Unanswered
    <2>7. \A k \in Jobs : \A r \in Held(k)' : Asked(r)'
      BY <1>1, <1>11, <1>12 DEF Unanswered, Asked
    <2>8. QED
      BY <1>11, <2>2, <2>3, <2>4, <2>5, <2>6, <2>7 DEF Unanswered, Asked
  <1>19. AnsweredOnce'
    BY <1>1, <1>8, <1>10 DEF AnsweredOnce
  <1>20. \A k \in Jobs : /\ Unfinished(k)' => Unfinished(k)
                         /\ job'[k].state = "kWaiting" => job[k].state = "kWaiting"
    BY <1>5 DEF Unfinished
  <1>21. Remembered' /\ ToBeRemoved' /\ TilesArrive'
    BY <1>1, <1>4, <1>5, <1>6, <1>20, RememberedKept, ToBeRemovedKept, TilesArriveKept
       DEF SameHands
  <1>22. OnlyNewestWaits' /\ OnlyNewestRuns'
    BY <1>1, <1>4, <1>20, OnlyNewestWaitsKept, OnlyNewestRunsKept
  <1>23. QED
    BY <1>13, <1>14, <1>15, <1>16, <1>17, <1>18, <1>19, <1>21, <1>22 DEF IInv

(* The worker lets go of the job, and its message is on the way instead. *)
LEMMA ReportEndStep ==
  ASSUME IInv, NEW w \in Workers, ReportEnd(w)
  PROVE  IInv'
  <1> DEFINE M == TileMessages \cup RemovalMessages
  <1>1. /\ TypeOK /\ Apart /\ Placed /\ (\A i \in Jobs : JobOK(i)) /\ RequestsApart
        /\ Unanswered /\ AnsweredOnce /\ Remembered /\ OnlyNewestWaits /\ OnlyNewestRuns
        /\ ToBeRemoved /\ TilesArrive
    BY DEF IInv
  <1>2. worker[w].pc = "over"
    BY DEF ReportEnd
  <1>3. PICK j \in Jobs : /\ j = worker[w].job /\ j \in Made /\ j # NoJob
                          /\ \A v \in Workers : v # w => worker[v].job # j
                          /\ \A v \in Workers : \A i \in DOMAIN queue[v] : queue[v][i] # j
                          /\ at = "hand over" => fresh # j
    BY <1>2, InHand
  <1>4. PICK m \in RemovalMessages : m = RemovalMessage(j)
    BY DEF RemovalMessages
  <1>5. /\ inbox' = Append(inbox, m) /\ worker' = [worker EXCEPT ![w] = IdleWorker]
        /\ UNCHANGED <<jpeg, wants, aborted, answered, outbox, stored, at, fresh, tracked,
                       made, job, failed, queue, next_thread>>
    BY <1>3, <1>4 DEF ReportEnd, Report, requestVars, jobVars
  <1>6. /\ inbox \in Seq(M) /\ m \in M /\ m \notin TileMessages
    BY <1>1, Messages DEF TypeOK
  <1>7. /\ inbox' \in Seq(M) /\ Range(inbox') = Range(inbox) \cup {m}
        /\ DOMAIN inbox' = 1 .. (Len(inbox) + 1)
        /\ \A i \in 1 .. Len(inbox) : inbox'[i] = inbox[i]
        /\ inbox'[Len(inbox) + 1] = m
    <2> HIDE DEF M
    <2>1. QED
      BY <1>5, <1>6, Added
  <1>8. /\ worker' \in [Workers -> WorkerType]
        /\ worker'[w].pc = "idle" /\ worker'[w].job = NoJob
        /\ \A v \in Workers : v # w => worker'[v] = worker[v]
    <2>1. IdleWorker \in WorkerType /\ IdleWorker.pc = "idle" /\ IdleWorker.job = NoJob
      BY DEF IdleWorker, WorkerType, Pcs, NoTile
    <2>2. worker \in [Workers -> WorkerType]
      BY <1>1 DEF TypeOK
    <2>3. QED
      BY <1>5, <2>1, <2>2
  <1>9. job[j].state \in {"kAborted", "kDone"}
    BY <1>1, <1>2, <1>3 DEF Placed, WorkerOK
  <1>10. /\ \A r \in Requests : TileMessage(r) \in Range(inbox') <=> TileMessage(r) \in Range(inbox)
         /\ \A k \in Jobs : RemovalMessage(k) \in Range(inbox') <=>
                            RemovalMessage(k) \in Range(inbox) \/ k = j
    BY <1>4, <1>7, Messages
  <1>11. made' = made /\ queue' = queue /\ at' = at /\ fresh' = fresh /\ Made' = Made /\ job' = job
         /\ wants' = wants /\ answered' = answered /\ tracked' = tracked
    BY <1>5 DEF Made
  <1>12. TypeOK'
    BY <1>1, <1>5, <1>7, <1>8 DEF TypeOK
  <1>13. Apart'
    <2>1. \A v \in Workers : worker'[v].job \in {worker[v].job, NoJob}
      BY <1>8
    <2>2. /\ \A v, u \in Workers : worker[v].job = worker[u].job /\ worker[v].job # NoJob => v = u
          /\ \A v, u \in Workers : worker[v].job \notin Range(queue[u])
          /\ \A v, u \in Workers : \A i \in DOMAIN queue[v], k \in DOMAIN queue[u] :
               queue[v][i] = queue[u][k] => v = u /\ i = k
          /\ at = "hand over" =>
               \A v \in Workers : worker[v].job # fresh /\ fresh \notin Range(queue[v])
      BY <1>1 DEF Apart
    <2>3. NoJob \notin Jobs /\ \A u \in Workers : Range(queue[u]) \subseteq Jobs
      BY <1>1, KnownJobs
    <2>4. at = "hand over" => fresh # NoJob
      BY <1>1 DEF Remembered
    <2>5. \A v, u \in Workers : worker'[v].job = worker'[u].job /\ worker'[v].job # NoJob => v = u
      BY <2>1, <2>2
    <2>6. \A v, u \in Workers : worker'[v].job \notin Range(queue[u])
      BY <2>1, <2>2, <2>3
    <2>7. at = "hand over" =>
            \A v \in Workers : worker'[v].job # fresh /\ fresh \notin Range(queue[v])
      BY <2>1, <2>2, <2>4
    <2>8. queue' = queue /\ at' = at /\ fresh' = fresh
      BY <1>11
    <2>9. (\A v, u \in Workers : \A i \in DOMAIN queue[v], k \in DOMAIN queue[u] :
             queue[v][i] = queue[u][k] => v = u /\ i = k)'
      <3>1. queue' = queue
        BY <2>8
      <3>2. \A v, u \in Workers : \A i \in DOMAIN queue[v], k \in DOMAIN queue[u] :
              queue[v][i] = queue[u][k] => v = u /\ i = k
        BY <2>2
      <3>3. QED
        BY ONLY <3>1, <3>2, Zenon
    <2>10. QED
      BY <2>5, <2>6, <2>7, <2>8, <2>9 DEF Apart
  <1>14. Placed'
    <2>1. WorkerOK(w)'
      BY <1>8 DEF WorkerOK
    <2>2. QED
      BY <1>3, <1>8, <1>11, <2>1, PlacedAfter
  <1>15. (\A k \in Jobs : JobOK(k))'
    BY <1>1, <1>5, JobOKKept
  <1>16. RequestsApart'
    <2>1. \A i, k \in DOMAIN inbox' : inbox'[i] = inbox'[k] /\ inbox'[i] \in TileMessages => i = k
      <3>1. \A i \in DOMAIN inbox' : inbox'[i] \in TileMessages =>
              i \in DOMAIN inbox /\ inbox'[i] = inbox[i]
        BY <1>6, <1>7
      <3>2. QED
        BY <1>1, <3>1 DEF RequestsApart
    <2>2. \A k \in Jobs : Held(k) \subseteq Requests
      BY <1>1, JobFields DEF Held
    <2>3. QED
      BY <1>1, <1>10, <1>11, <2>1, <2>2 DEF RequestsApart, Held
  <1>17. Unanswered'
    <2>1. ASSUME NEW v \in Workers, worker'[v].pc \in {"cutting", "calling"},
                 NEW r \in job[worker'[v].job].requests
          PROVE  answered[r] = 0 \/ Before(wants[r], worker'[v].cut)
      BY <1>1, <1>8, <2>1 DEF Unanswered
    <2>2. QED
      BY <1>1, <1>10, <1>11, <2>1 DEF Unanswered, Asked, Held
  <1>18. AnsweredOnce' /\ TilesArrive'
    BY <1>1, <1>5, TilesArriveKept DEF AnsweredOnce
  <1>19. Remembered'
    <2>1. \A k \in Jobs : RemovalMessage(k) \in Range(inbox') => ~Unfinished(k)
      BY <1>1, <1>9, <1>10 DEF Remembered, Unfinished
    <2>2. QED
      BY <1>1, <1>11, <2>1 DEF Remembered, Unfinished
  <1>20. OnlyNewestWaits' /\ OnlyNewestRuns'
    BY <1>1, <1>5, OnlyNewestWaitsKept, OnlyNewestRunsKept DEF Unfinished
  <1>21. ToBeRemoved'
    <2> SUFFICES ASSUME NEW k \in (Range(tracked) \cup {fresh}) \ {NoJob}
                 PROVE  \/ at = "hand over" /\ k = fresh
                        \/ \E v \in Workers : k \in Range(queue[v]) \/ worker'[v].job = k
                        \/ RemovalMessage(k) \in Range(inbox')
      BY <1>11 DEF ToBeRemoved
    <2>1. k \in Jobs
      BY <1>1, KnownJobs
    <2>2. CASE k = j
      BY <1>10, <2>2
    <2>3. CASE k # j
      BY <1>1, <1>3, <1>8, <1>10, <2>1, <2>3 DEF ToBeRemoved
    <2>4. QED
      BY <2>2, <2>3
  <1>22. QED
    BY <1>12, <1>13, <1>14, <1>15, <1>16, <1>17, <1>18, <1>19, <1>20, <1>21 DEF IInv

(* try_pop() and is_aborted(): the job moves from the queue to the worker. *)
LEMMA TakeJobStep ==
  ASSUME IInv, NEW w \in Workers, TakeJob(w)
  PROVE  IInv'
  <1>1. /\ TypeOK /\ Apart /\ Placed /\ (\A i \in Jobs : JobOK(i)) /\ RequestsApart
        /\ Unanswered /\ AnsweredOnce /\ Remembered /\ OnlyNewestWaits /\ OnlyNewestRuns
        /\ ToBeRemoved /\ TilesArrive
    BY DEF IInv
  <1>2. /\ worker[w].pc = "idle" /\ queue[w] # << >> /\ queue' = [queue EXCEPT ![w] = Tail(@)]
        /\ UNCHANGED <<jpeg, wants, aborted, answered, inbox, outbox, stored, at, fresh, tracked,
                       made, failed, next_thread>>
    BY DEF TakeJob, requestVars, threadVars
  <1>3. queue \in [Workers -> Seq(Jobs)]
    BY <1>1 DEF TypeOK
  <1>4. /\ Head(queue[w]) \in Jobs /\ Tail(queue[w]) \in Seq(Jobs)
        /\ 1 \in DOMAIN queue[w] /\ queue[w][1] = Head(queue[w])
        /\ DOMAIN queue[w] = 1 .. Len(queue[w]) /\ Len(queue[w]) \in Nat \ {0}
        /\ DOMAIN Tail(queue[w]) = 1 .. (Len(queue[w]) - 1)
        /\ \A i \in 1 .. (Len(queue[w]) - 1) : Tail(queue[w])[i] = queue[w][i + 1]
        /\ Range(queue[w]) = {Head(queue[w])} \cup Range(Tail(queue[w]))
    <2>1. queue[w] \in Seq(Jobs)
      BY <1>3
    <2>2. QED
      BY <1>2, <2>1, Shortened
  <1>5. PICK j \in Jobs : j = Head(queue[w])
    BY <1>4
  <1>6. /\ j \in Made /\ j # NoJob /\ job[j].state = "kWaiting"
        /\ \A v \in Workers : worker[v].job # j
        /\ at = "hand over" => fresh # j
    <2>1. Waits(j)
      BY <1>1, <1>4, <1>5 DEF Placed
    <2>2. j \in Range(queue[w])
      BY <1>4, <1>5
    <2>3. \A v \in Workers : worker[v].job \notin Range(queue[w])
      BY <1>1 DEF Apart
    <2>4. at = "hand over" => fresh \notin Range(queue[w])
      BY <1>1 DEF Apart
    <2>5. j # NoJob
      BY <1>1, KnownJobs
    <2>6. QED
      BY <2>1, <2>2, <2>3, <2>4, <2>5 DEF Waits
  <1>7. \/ /\ worker' = [worker EXCEPT ![w].pc = "over", ![w].job = j]
           /\ job' = [job EXCEPT ![j].state = "kAborted"]
        \/ /\ worker' = [worker EXCEPT ![w].pc = "starting", ![w].job = j]
           /\ job' = job
    BY <1>5 DEF TakeJob
  <1>8. /\ worker' \in [Workers -> WorkerType] /\ worker'[w].job = j
        /\ \A v \in Workers : v # w => worker'[v] = worker[v]
        /\ job' \in [Jobs -> JobType]
        /\ \A k \in Jobs : /\ k # j => job'[k] = job[k]
                           /\ job'[k].db = job[k].db /\ job'[k].range = job[k].range
                           /\ job'[k].requests = job[k].requests
                           /\ job'[k].late = job[k].late /\ job'[k].tiles = job[k].tiles
        /\ \/ worker'[w].pc = "over" /\ job'[j].state = "kAborted"
           \/ worker'[w].pc = "starting" /\ job'[j].state = "kWaiting"
    <2>1. CASE /\ worker' = [worker EXCEPT ![w].pc = "over", ![w].job = j]
               /\ job' = [job EXCEPT ![j].state = "kAborted"]
      <3>1. /\ worker' \in [Workers -> WorkerType] /\ worker'[w].job = j
            /\ worker'[w].pc = "over" /\ \A v \in Workers : v # w => worker'[v] = worker[v]
        BY <1>1, <2>1, WorkerTook DEF Pcs
      <3>2. "kAborted" \in JobStates /\ job' = [job EXCEPT ![j].state = "kAborted"] /\ TypeOK
        BY <1>1, <2>1 DEF JobStates
      <3>3. /\ job' \in [Jobs -> JobType] /\ job'[j].state = "kAborted"
            /\ \A k \in Jobs : /\ k # j => job'[k] = job[k]
                               /\ job'[k].db = job[k].db /\ job'[k].range = job[k].range
                               /\ job'[k].requests = job[k].requests
                               /\ job'[k].late = job[k].late /\ job'[k].tiles = job[k].tiles
        BY ONLY <3>2, StateSet, Zenon
      <3>4. QED
        BY <3>1, <3>3
    <2>2. CASE /\ worker' = [worker EXCEPT ![w].pc = "starting", ![w].job = j]
               /\ job' = job
      BY <1>1, <1>6, <2>2, WorkerTook DEF Pcs, TypeOK
    <2>3. QED
      BY <1>7, <2>1, <2>2
  <1>9. /\ queue' \in [Workers -> Seq(Jobs)]
        /\ \A v \in Workers : v # w => queue'[v] = queue[v]
        /\ queue'[w] = Tail(queue[w])
    BY <1>2, <1>3, <1>4
  <1>10. /\ \A v \in Workers : Range(queue'[v]) \subseteq Range(queue[v])
         /\ \A v \in Workers : j \notin Range(queue'[v])
         /\ \A k \in Jobs : k # j => \A v \in Workers : k \in Range(queue[v]) => k \in Range(queue'[v])
    <2>1. \A x, y \in Workers : \A a \in DOMAIN queue[x], b \in DOMAIN queue[y] :
            queue[x][a] = queue[y][b] => x = y /\ a = b
      BY <1>1 DEF Apart
    <2>2. \A v \in Workers : v # w => j \notin Range(queue[v])
      BY <1>4, <1>5, <2>1 DEF Range
    <2>3. j \notin Range(Tail(queue[w]))
      <3> SUFFICES ASSUME NEW i \in DOMAIN Tail(queue[w]), Tail(queue[w])[i] = j PROVE FALSE
        BY DEF Range
      <3>1. i + 1 \in DOMAIN queue[w] /\ queue[w][i + 1] = j /\ i + 1 # 1
        BY <1>4
      <3>2. QED
        BY <1>4, <1>5, <2>1, <3>1
    <2>4. QED
      BY <1>4, <1>5, <1>9, <2>2, <2>3
  <1>11. made' = made /\ at' = at /\ fresh' = fresh /\ Made' = Made
         /\ wants' = wants /\ inbox' = inbox /\ answered' = answered /\ jpeg' = jpeg
    BY <1>2 DEF Made
  <1>12. \A k \in Jobs : /\ Unfinished(k)' => Unfinished(k)
                         /\ job'[k].state = "kWaiting" => job[k].state = "kWaiting"
                         /\ Held(k)' = Held(k)
    BY <1>6, <1>8 DEF Unfinished, Held
  <1>13. \A v \in Workers : \A i \in DOMAIN queue'[v] :
           /\ queue'[v][i] \in Range(queue'[v])
           /\ \E k \in DOMAIN queue[v] : queue'[v][i] = queue[v][k] /\ (k = i \/ (v = w /\ k = i + 1))
    <2> TAKE v \in Workers
    <2> TAKE i \in DOMAIN queue'[v]
    <2>1. CASE v = w
      <3>1. i + 1 \in DOMAIN queue[v] /\ queue'[v][i] = queue[v][i + 1]
        <4>1. queue'[w] = Tail(queue[w])
          BY <1>9
        <4>2. i \in 1 .. (Len(queue[w]) - 1) /\ Len(queue[w]) \in Nat
          BY <1>4, <2>1, <4>1
        <4>3. i + 1 \in DOMAIN queue[w] /\ Tail(queue[w])[i] = queue[w][i + 1]
          BY <1>4, <4>2
        <4>4. QED
          BY ONLY <2>1, <4>1, <4>3, Zenon
      <3>2. QED
        BY <2>1, <3>1 DEF Range
    <2>2. CASE v # w
      BY <1>9, <2>2 DEF Range
    <2>3. QED
      BY <2>1, <2>2
  <1>14. TypeOK'
    BY <1>1, <1>2, <1>8, <1>9 DEF TypeOK
  <1>15. Apart'
    <2>1. /\ \A v, u \in Workers : worker[v].job = worker[u].job /\ worker[v].job # NoJob => v = u
          /\ \A v, u \in Workers : worker[v].job \notin Range(queue[u])
          /\ at = "hand over" =>
               \A v \in Workers : worker[v].job # fresh /\ fresh \notin Range(queue[v])
      BY <1>1 DEF Apart
    <2>2. \A x, y \in Workers : \A a \in DOMAIN queue[x], b \in DOMAIN queue[y] :
            queue[x][a] = queue[y][b] => x = y /\ a = b
      BY <1>1 DEF Apart
    <2>3. \A v, u \in Workers : worker'[v].job = worker'[u].job /\ worker'[v].job # NoJob => v = u
      <3> SUFFICES ASSUME NEW v \in Workers, NEW u \in Workers,
                          worker'[v].job = worker'[u].job, worker'[v].job # NoJob
                   PROVE  v = u
        OBVIOUS
      <3>1. \A x \in Workers : x # w => worker'[x].job = worker[x].job /\ worker[x].job # j
        BY <1>6, <1>8
      <3>2. worker'[w].job = j
        BY <1>8
      <3>3. CASE v = w \/ u = w
        BY <3>1, <3>2, <3>3
      <3>4. CASE v # w /\ u # w
        <4>1. worker[v].job = worker[u].job /\ worker[v].job # NoJob
          BY <3>1, <3>4
        <4>2. QED
          BY <2>1, <4>1
      <3>5. QED
        BY <3>3, <3>4
    <2>4. \A v, u \in Workers : worker'[v].job \notin Range(queue'[u])
      BY <1>8, <1>10, <2>1
    <2>5. at = "hand over" =>
            \A v \in Workers : worker'[v].job # fresh /\ fresh \notin Range(queue'[v])
      <3>1. at = "hand over" => \A v \in Workers : fresh \notin Range(queue'[v])
        BY <1>10, <2>1
      <3>2. at = "hand over" => worker'[w].job # fresh
        BY <1>6, <1>8
      <3>3. at = "hand over" => \A v \in Workers : v # w => worker'[v].job # fresh
        BY <1>8, <2>1
      <3>4. QED
        BY <3>1, <3>2, <3>3
    <2>6. ASSUME NEW v \in Workers, NEW u \in Workers,
                 NEW i \in DOMAIN queue'[v], NEW k \in DOMAIN queue'[u], queue'[v][i] = queue'[u][k]
          PROVE  v = u /\ i = k
      <3>1. PICK a \in DOMAIN queue[v] : queue'[v][i] = queue[v][a] /\ (a = i \/ (v = w /\ a = i + 1))
        BY <1>13
      <3>2. PICK b \in DOMAIN queue[u] : queue'[u][k] = queue[u][b] /\ (b = k \/ (u = w /\ b = k + 1))
        BY <1>13
      <3>3. v = u /\ a = b
        <4>1. queue[v][a] = queue[u][b]
          BY ONLY <2>6, <3>1, <3>2, Zenon
        <4>2. QED
          BY ONLY <2>2, <4>1, Zenon
      <3>4. CASE v # w
        BY <3>1, <3>2, <3>3, <3>4
      <3>5. CASE v = w
        <4>1. queue'[v][i] = queue[v][i + 1] /\ queue'[u][k] = queue[u][k + 1]
              /\ i + 1 \in DOMAIN queue[v] /\ k + 1 \in DOMAIN queue[u]
          <5>1. queue'[w] = Tail(queue[w]) /\ u = w
            BY <1>9, <3>3, <3>5
          <5>2. i \in 1 .. (Len(queue[w]) - 1) /\ k \in 1 .. (Len(queue[w]) - 1)
            BY <1>4, <3>5, <5>1
          <5>3. \A n \in 1 .. (Len(queue[w]) - 1) :
                  queue'[w][n] = queue[w][n + 1] /\ n + 1 \in DOMAIN queue[w]
            <6>1. Len(queue[w]) \in Nat /\ DOMAIN queue[w] = 1 .. Len(queue[w])
                  /\ \A n \in 1 .. (Len(queue[w]) - 1) : Tail(queue[w])[n] = queue[w][n + 1]
              BY <1>4
            <6>2. \A n \in 1 .. (Len(queue[w]) - 1) : n + 1 \in 1 .. Len(queue[w])
              BY <6>1
            <6>3. QED
              BY ONLY <5>1, <6>1, <6>2, Zenon
          <5>4. v = w /\ u = w
            BY <3>5, <5>1
          <5>5. QED
            BY ONLY <5>2, <5>3, <5>4, Zenon
        <4>2. i + 1 = k + 1 /\ i \in Int /\ k \in Int
          <5>1. queue'[w] = Tail(queue[w]) /\ u = w
            BY <1>9, <3>3, <3>5
          <5>2. i \in Int /\ k \in Int
            BY <1>4, <3>5, <5>1
          <5>3. queue[v][i + 1] = queue[u][k + 1]
            BY ONLY <2>6, <4>1, Zenon
          <5>4. i + 1 = k + 1
            BY ONLY <2>2, <4>1, <5>3, Zenon
          <5>5. QED
            BY <5>2, <5>4
        <4>3. QED
          BY <3>3, <4>2
      <3>6. QED
        BY <3>4, <3>5
    <2>7. QED
      BY <1>11, <2>3, <2>4, <2>5, <2>6 DEF Apart
  <1>16. Placed'
    <2>1. \A v \in Workers : v # w => WorkerOK(v)'
      BY <1>6, <1>8, <1>11, OthersKept
    <2>2. WorkerOK(w)'
      BY <1>6, <1>8, <1>11 DEF WorkerOK
    <2>3. (\A v \in Workers : WorkerOK(v))'
      BY <2>1, <2>2 DEF Workers
    <2>4. ASSUME NEW v \in Workers, NEW i \in DOMAIN queue'[v]
          PROVE  queue'[v][i] \in Made' /\ job'[queue'[v][i]].state = "kWaiting"
      <3>1. PICK k \in DOMAIN queue[v] : queue'[v][i] = queue[v][k]
        BY <1>13
      <3>2. Waits(queue[v][k]) /\ queue[v][k] \in Jobs
        BY <1>1, KnownJobs DEF Placed
      <3>3. queue[v][k] # j
        BY <1>10, <1>13, <3>1
      <3>4. QED
        BY <1>8, <1>11, <3>1, <3>2, <3>3 DEF Waits
    <2>5. at = "hand over" => fresh \in Made /\ job'[fresh].state = "kWaiting"
      BY <1>1, <1>6, <1>8, KnownJobs DEF Placed, Waits
    <2>6. QED
      BY <1>11, <2>3, <2>4, <2>5 DEF Placed, Waits
  <1>17. (\A k \in Jobs : JobOK(k))'
    <2> SUFFICES ASSUME NEW k \in Jobs PROVE JobOK(k)'
      BY DEF Jobs
    <2>1. JobOK(k)
      BY <1>1
    <2>2. CASE k = j
      BY <1>6, <1>8, <1>11, <2>1, <2>2 DEF JobOK
    <2>3. CASE k # j
      BY <1>8, <1>11, <2>1, <2>3 DEF JobOK
    <2>4. QED
      BY <2>2, <2>3
  <1>18. RequestsApart'
    BY <1>1, <1>8, <1>11, RequestsApartKept DEF SameRequests
  <1>19. Unanswered'
    <2>1. /\ \A k \in Jobs : \A r \in Held(k)' : Asked(r)'
          /\ \A k \in Jobs : \A r \in job'[k].late : answered'[r] = 0
          /\ \A k \in Jobs : job'[k].state = "kWaiting" =>
               \A r \in job'[k].requests : answered'[r] = 0
      BY <1>1, <1>8, <1>11, <1>12 DEF Unanswered, Asked
    <2>2. ASSUME NEW v \in Workers, worker'[v].pc \in {"cutting", "calling"},
                 NEW r \in job'[worker'[v].job].requests
          PROVE  answered[r] = 0 \/ Before(wants[r], worker'[v].cut)
      <3>1. v # w
        BY <1>8, <2>2
      <3>2. worker[v].job \in Jobs
        BY <1>1, <1>8, <2>2, <3>1, WorkerFields DEF Placed, WorkerOK
      <3>3. QED
        BY <1>1, <1>8, <2>2, <3>1, <3>2 DEF Unanswered
    <2>3. QED
      BY <1>1, <1>11, <2>1, <2>2 DEF Unanswered, Asked
  <1>20. AnsweredOnce' /\ TilesArrive'
    BY <1>1, <1>2, <1>8, TilesArriveKept DEF AnsweredOnce
  <1>21. Remembered' /\ OnlyNewestWaits' /\ OnlyNewestRuns'
    BY <1>1, <1>2, <1>12, RememberedKept, OnlyNewestWaitsKept, OnlyNewestRunsKept
  <1>22. ToBeRemoved'
    <2> SUFFICES ASSUME NEW k \in (Range(tracked) \cup {fresh}) \ {NoJob}
                 PROVE  \/ at = "hand over" /\ k = fresh
                        \/ \E v \in Workers : k \in Range(queue'[v]) \/ worker'[v].job = k
                        \/ RemovalMessage(k) \in Range(inbox)
      BY <1>2 DEF ToBeRemoved
    <2>1. k \in Jobs /\ worker[w].job = NoJob
      BY <1>1, <1>2, KnownJobs DEF Placed, WorkerOK
    <2>2. CASE k = j
      BY <1>8, <2>2
    <2>3. CASE k # j
      BY <1>1, <1>8, <1>10, <2>1, <2>3 DEF ToBeRemoved
    <2>4. QED
      BY <2>2, <2>3
  <1>23. QED
    BY <1>14, <1>15, <1>16, <1>17, <1>18, <1>19, <1>20, <1>21, <1>22 DEF IInv

-----------------------------------------------------------------------------
(* The theorems *)

(* Nothing has been asked for. *)
LEMMA Initially == Init => IInv
  <1> SUFFICES ASSUME Init PROVE IInv
    OBVIOUS
  <1> USE DEF Init
  <1>1. /\ \A j \in Jobs : /\ job[j] = NewJob(Empty, {}) /\ job[j].state = "kWaiting"
                           /\ job[j].requests = {} /\ job[j].late = {} /\ job[j].tiles = {}
        /\ NewJob(Empty, {}) \in JobType
    BY DEF NewJob, JobType, JobStates
  <1>2. /\ \A w \in Workers : worker[w].pc = "idle" /\ worker[w].job = NoJob
        /\ IdleWorker \in WorkerType
    BY DEF IdleWorker, WorkerType, Pcs, NoTile
  <1>3. Made = {} /\ 0 \in Workers
    BY ServiceAssumption DEF Made, Workers
  <1>4. TypeOK
    <2>1. stored \in [AllTiles -> Nat] /\ \A t \in AllTiles : stored[t] \in {0, 1}
      OBVIOUS
    <2>2. jpeg \in BOOLEAN /\ made <= Cardinality(Requests)
      BY ServiceAssumption, Constants
    <2>3. QED
      BY <1>1, <1>2, <1>3, <2>1, <2>2 DEF TypeOK
  <1>5. Range(inbox) = {} /\ Range(tracked) = {} /\ \A w \in Workers : Range(queue[w]) = {}
    BY DEF Range
  <1>6. Apart /\ Placed
    BY <1>2, <1>5 DEF Apart, Placed, WorkerOK
  <1>7. /\ \A j \in Jobs : JobOK(j)
        /\ RequestsApart /\ Unanswered /\ AnsweredOnce
    BY <1>1, <1>2, <1>3, <1>5 DEF JobOK, RequestsApart, Unanswered, AnsweredOnce, Asked, Held
  <1>8. Remembered /\ OnlyNewestWaits /\ OnlyNewestRuns /\ ToBeRemoved
    BY <1>3, <1>5 DEF Remembered, OnlyNewestWaits, OnlyNewestRuns, ToBeRemoved
  <1>9. TilesArrive
    <2> SUFFICES ASSUME NEW t \in AllTiles
                 PROVE  LET copies == stored[t] + Cardinality(Copies(outbox, t))
                            cut    == Cardinality(CutBy(t))
                        IN  copies \in {cut, cut + 1}
      BY DEF TilesArrive, Copies, CutBy
    <2>1. Copies(outbox, t) = {} /\ CutBy(t) = {}
      BY <1>3 DEF Copies, CutBy
    <2>2. stored[t] \in {0, 1}
      OBVIOUS
    <2>3. Cardinality(Copies(outbox, t)) = 0 /\ Cardinality(CutBy(t)) = 0
      BY ONLY <2>1, FS_EmptySet, Zenon
    <2> HIDE DEF Init
    <2>4. QED
      BY <2>2, <2>3
  <1>10. QED
    BY <1>4, <1>6, <1>7, <1>8, <1>9 DEF IInv

(* Every step keeps the invariant. *)
LEMMA Step == IInv /\ [Next]_vars => IInv'
  <1> SUFFICES ASSUME IInv, [Next]_vars PROVE IInv'
    OBVIOUS
  <1>1. CASE UNCHANGED vars
    <2>1. /\ TypeOK /\ Apart /\ Placed /\ (\A j \in Jobs : JobOK(j)) /\ RequestsApart
          /\ Unanswered /\ AnsweredOnce /\ Remembered /\ OnlyNewestWaits /\ OnlyNewestRuns
          /\ ToBeRemoved /\ TilesArrive
      BY DEF IInv
    <2>2. UNCHANGED <<jpeg, wants, aborted, answered, inbox, outbox, stored, at, fresh, tracked,
                      made, job, failed, queue, next_thread, worker>>
      BY <1>1 DEF vars, requestVars, threadVars, jobVars, poolVars
    <2>3. TypeOK'
      BY <2>1, <2>2 DEF TypeOK
    <2>4. Apart' /\ Placed' /\ (\A j \in Jobs : JobOK(j))'
      BY <2>1, <2>2, ApartKept, PlacedKept, JobOKKept DEF SameHands, SameStates
    <2>5. RequestsApart' /\ Unanswered' /\ AnsweredOnce'
      BY <2>1, <2>2, RequestsApartKept, UnansweredKept DEF SameRequests, AnsweredOnce
    <2>6. Remembered' /\ ToBeRemoved' /\ TilesArrive'
      BY <2>1, <2>2, RememberedKept, ToBeRemovedKept, TilesArriveKept DEF SameHands, Unfinished
    <2>7. OnlyNewestWaits' /\ OnlyNewestRuns'
      BY <2>1, <2>2, OnlyNewestWaitsKept, OnlyNewestRunsKept DEF Unfinished
    <2>8. QED
      BY <2>3, <2>4, <2>5, <2>6, <2>7 DEF IInv
  <1>2. CASE \E r \in Requests : SetAborted(r) \/ \E tile \in AllTiles : RequestTile(r, tile)
    BY <1>2, SetAbortedStep, RequestTileStep
  <1>3. CASE DatabaseStep
    <2>1. CASE StoreTile \/ QueueEmpty \/ HandOver \/ Track
      BY <2>1, StoreTileStep, QueueEmptyStep, HandOverStep, TrackStep
    <2>2. CASE \E r \in Requests : DropAborted(r) \/ AnswerFromDatabase(r) \/ JoinJob(r)
                                   \/ AssertionFails(r) \/ CreateJob(r)
      BY <2>2, DropAbortedStep, AnswerFromDatabaseStep, JoinJobStep, AssertionFailsStep,
         CreateJobStep
    <2>3. CASE \E j \in Jobs : RemoveJob(j)
      BY <2>3, RemoveJobStep
    <2>4. QED
      BY <1>3, <2>1, <2>2, <2>3 DEF DatabaseStep
  <1>4. CASE \E w \in Workers : WorkerStep(w) \/ GenerationFails(w)
    <2>1. PICK w \in Workers : WorkerStep(w) \/ GenerationFails(w)
      BY <1>4
    <2>2. CASE GenerationFails(w)
      BY <2>2, GenerationFailsStep
    <2>3. CASE WorkerStep(w)
      BY <2>3, TakeJobStep, StartRunningStep, DeliverTileStep, CallRequestsStep, FinishStep,
         ReportEndStep DEF WorkerStep
    <2>4. QED
      BY <2>1, <2>2, <2>3
  <1>5. QED
    BY <1>1, <1>2, <1>3, <1>4 DEF Next

(* The state of the service, from its queues to its workers, stays in its  *)
(* types, and no more jobs are ever made than tiles were asked for: each   *)
(* job is created for a request that no job has (database_thread.cpp:      *)
(* 302-357, galapix/database_thread.hpp:46-56).                            *)
THEOREM TypeCorrect == Spec => []TypeOK
  <1>1. IInv => TypeOK
    BY DEF IInv
  <1>2. QED
    BY <1>1, Initially, Step, PTL DEF Spec

(* However many requests and workers there are, no callback is called      *)
(* twice: not by the database thread and a job, not by a job as a regular  *)
(* and as a late request, not for two tiles (database_thread.cpp:59-89,    *)
(* 302-357, tile_generation_job.cpp:51-132, 215-235).                      *)
THEOREM AnsweredOnceHolds == Spec => []AnsweredOnce
  <1>1. IInv => AnsweredOnce
    BY DEF IInv
  <1>2. QED
    BY <1>1, Initially, Step, PTL DEF Spec

(* No job but the newest of m_tile_generation_jobs is waiting: what        *)
(* generate_tile() overlooks would have taken no request as a regular one  *)
(* (database_thread.cpp:308-355).                                          *)
THEOREM OnlyNewestWaitsHolds == Spec => []OnlyNewestWaits
  <1>1. IInv => OnlyNewestWaits
    BY DEF IInv
  <1>2. QED
    BY <1>1, Initially, Step, PTL DEF Spec

(* At most one unfinished job for an image that is decoded as a whole: an  *)
(* unfinished job generates every scale and is the one generate_tile()     *)
(* finds, so it takes every request (database_thread.cpp:314-355).         *)
THEOREM SingleGenerationHolds == Spec => []SingleGeneration
  <1>1. IInv => SingleGeneration
    BY DEF IInv, OnlyNewestRuns, SingleGeneration
  <1>2. QED
    BY <1>1, Initially, Step, PTL DEF Spec

(* A tracked job is on its way to its end, or the message that removes it  *)
(* is on its way, whichever of the job's end and its entry into            *)
(* m_tile_generation_jobs comes first (database_thread.cpp:263-275,        *)
(* 347-355).                                                               *)
THEOREM ToBeRemovedHolds == Spec => []ToBeRemoved
  <1>1. IInv => ToBeRemoved
    BY DEF IInv
  <1>2. QED
    BY <1>1, Initially, Step, PTL DEF Spec

(* Every tile a job has cut is in the queue or the database once for each  *)
(* job that cut it, and no other tile is: a job goes through the tiles in  *)
(* one order and cuts none twice (database_thread.cpp:194-210,             *)
(* tile_generation_job.cpp:116-132).                                       *)
THEOREM TilesArriveHolds == Spec => []TilesArrive
  <1>1. IInv => TilesArrive
    BY DEF IInv
  <1>2. QED
    BY <1>1, Initially, Step, PTL DEF Spec
===============================================================================
