----------------------- MODULE TileGenerationJobProofs -----------------------
(***************************************************************************)
(* Theorems about TileGenerationJob, for every image, every set of         *)
(* requests and whatever the database holds.                               *)
(***************************************************************************)
EXTENDS TileGenerationJob, FiniteSetTheorems, SequenceTheorems,
        WellFoundedInduction, TLAPS

(* A set of scales, -1 included, has a lowest member, and Min finds it.    *)
LEMMA MinOfScales ==
  ASSUME NEW S, S \subseteq Nat \cup {-1}, S # {}
  PROVE  Min(S) \in S /\ \A n \in S : Min(S) <= n
  <1> DEFINE R == StrictSubsetOrdering(Int)
             T == {-1 .. n : n \in S}
  <1>0. S \subseteq Int
    OBVIOUS
  <1>1. T # {} /\ T \subseteq FiniteSubsetsOf(Int)
    <2>1. \A n \in S : IsFiniteSet(-1 .. n) /\ (-1 .. n) \subseteq Int
      BY <1>0, FS_Interval
    <2>2. QED
      BY <2>1 DEF FiniteSubsetsOf
  <1>2. IsWellFoundedOn(R, FiniteSubsetsOf(Int))
    BY FS_StrictSubsetOrderingWellFounded
  <1> HIDE DEF R, T
  <1>3. PICK x \in T : \A y \in T : ~(<<y, x>> \in R)
    BY ONLY <1>1, <1>2, WFMin
  <1>4. PICK m \in S : x = -1 .. m
    BY <1>3 DEF T
  <1>5. ASSUME NEW n \in S, ~(m <= n) PROVE FALSE
    <2>1. -1 .. n \in T
      BY DEF T
    <2>2. (-1 .. n) \subseteq (-1 .. m) /\ m \in (-1 .. m) /\ m \notin (-1 .. n)
      BY <1>0, <1>5
    <2>3. (-1 .. n) \in SUBSET Int /\ (-1 .. m) \in SUBSET Int
      OBVIOUS
    <2>4. <<-1 .. n, -1 .. m>> \in R
      BY <2>2, <2>3 DEF R, StrictSubsetOrdering
    <2>5. QED
      BY <1>3, <1>4, <2>1, <2>4
  <1>6. \E k \in S : \A n \in S : k <= n
    BY <1>5
  <1>7. QED
    BY ONLY <1>6 DEF Min

(* The tiles of the image are positions within the grid. *)
LEMMA TileFacts ==
  /\ Scales \subseteq Nat /\ Thumb \in Scales /\ 0 \in Scales
  /\ \A s \in Scales : <<s, 0>> \in AllTiles
  /\ \A t \in AllTiles : /\ t = <<t[1], t[2]>> /\ t[1] \in Scales /\ t[2] \in Nat
                         /\ t[2] < Grid[t[1] + 1] /\ Scale(t) = t[1]
  /\ \A s \in Scales, i \in Nat : i < Grid[s + 1] => <<s, i>> \in AllTiles
  /\ NoTile \notin AllTiles
  <1>1. Thumb \in Nat /\ \A s \in Scales : s \in Nat /\ Grid[s + 1] \in Nat \ {0}
    BY GridAssumption DEF Thumb, Scales
  <1>2. Scales \subseteq Nat /\ Thumb \in Scales /\ 0 \in Scales
    BY <1>1 DEF Scales
  <1>3. \A s \in Scales, i \in Nat : i < Grid[s + 1] => <<s, i>> \in TilesAt(s)
    BY <1>1 DEF TilesAt
  <1>4. \A s \in Scales, i \in Nat : i < Grid[s + 1] => <<s, i>> \in AllTiles
    BY <1>3 DEF AllTiles
  <1>5. ASSUME NEW t \in AllTiles
        PROVE  /\ t = <<t[1], t[2]>> /\ t[1] \in Scales /\ t[2] \in Nat
               /\ t[2] < Grid[t[1] + 1] /\ Scale(t) = t[1]
    <2>1. PICK s \in Scales : t \in TilesAt(s)
      BY DEF AllTiles
    <2>2. PICK i \in 0 .. (Grid[s + 1] - 1) : t = <<s, i>>
      BY <2>1 DEF TilesAt
    <2>3. QED
      BY <2>1, <2>2, <1>1 DEF Scale
  <1>6. NoTile \notin AllTiles
    BY <1>5, <1>2 DEF NoTile
  <1>7. QED
    BY <1>1, <1>2, <1>4, <1>5, <1>6

(* Whatever was requested and whatever the database holds, a job generates *)
(* a non-empty range of scales the image has, never another one: for the   *)
(* empty range the min and max of tile_generation_job.cpp:180-200 would    *)
(* reach TileGenerator::generate() as -1.                                  *)
LEMMA StartScalesInRange ==
  ASSUME NEW j \in BOOLEAN, NEW d \in Ranges \cup {Empty},
         NEW wanted, wanted \subseteq Scales
  PROVE  StartScales(j, d, wanted) \in Ranges
  <1> DEFINE max == IF d.min # -1 THEN d.min - 1 ELSE Thumb
             min == Min({max} \cup wanted)
  <1>1. max \in Scales \cup {-1}
    BY TileFacts DEF Ranges, Empty, Scales
  <1>2. min \in {max} \cup wanted /\ min <= max
    BY <1>1, TileFacts, MinOfScales
  <1>3. [min |-> 0, max |-> Thumb] \in Ranges
    BY TileFacts DEF Ranges, Scales
  <1>4. min # -1 /\ max # -1 => [min |-> min, max |-> max] \in Ranges
    BY <1>1, <1>2, TileFacts DEF Ranges
  <1>5. StartScales(j, d, wanted) =
          IF ~j \/ min = -1 \/ max = -1
          THEN [min |-> 0, max |-> Thumb] ELSE [min |-> min, max |-> max]
    BY DEF StartScales
  <1>6. QED
    BY <1>3, <1>4, <1>5
-----------------------------------------------------------------------------
(* The inductive invariant *)

(* Where the worker is tells the state of the job. *)
PcInv ==
  /\ tiles \in Seq(AllTiles)
  /\ pc \in {"queued", "starting"} => state = "kWaiting"
  /\ pc \in {"cutting", "calling", "finishing"} => state = "kRunning"
  /\ pc = "over" => state \in {"kAborted", "kDone"}

(* Who is on the lists has been accepted, and until the job runs everyone  *)
(* accepted is on the list that is_aborted() looks at.                     *)
RequestInv ==
  /\ \A r \in Requests : wants[r] = NoTile <=> answer[r] = "none"
  /\ \A r \in Range(requests) \cup Range(late) : answer[r] = "accepted"
  /\ state \in {"kWaiting", "kAborted"} =>
       \A r \in Requests : answer[r] = "accepted" => r \in Range(requests)
  /\ state = "kAborted" => Range(requests) \subseteq aborted

(* The order tiles are cut in. *)
Before(s, t) == s[1] < t[1] \/ (s[1] = t[1] /\ s[2] < t[2])

(* A request is answered at most once since its tile is cut only once and  *)
(* it is on one of the lists only; the late ones wait for the end.         *)
ServedInv ==
  /\ \A r \in Requests : served[r] # 0 => served[r] = 1 /\ answer[r] = "accepted"
  /\ state = "kWaiting" => \A r \in Requests : served[r] = 0
  /\ \A r \in Range(late) : served[r] = 0 /\ r \notin Range(requests)
  /\ pc \in {"cutting", "calling"} =>
       \A r \in Range(requests) : served[r] # 0 => Before(wants[r], cut)

IInv == TypeOK /\ PcInv /\ RequestInv /\ ServedInv

(* Nobody is on an empty list; the members of a list come from its set.    *)
LEMMA Members ==
  /\ Range(<< >>) = {} /\ \A e : Range(<<e>>) = {e}
  /\ \A S : \A q \in Seq(S) : Range(q) \subseteq S
  BY DEF Range

(* A request added to a list is on it, with those that were. *)
LEMMA Listed ==
  ASSUME NEW S, NEW q \in Seq(S), NEW e \in S
  PROVE  Append(q, e) \in Seq(S) /\ Range(Append(q, e)) = Range(q) \cup {e}
  <1>1. Append(q, e) \in Seq(S) /\ Len(Append(q, e)) = Len(q) + 1
        /\ \A i \in 1 .. Len(q) : Append(q, e)[i] = q[i]
        /\ Append(q, e)[Len(q) + 1] = e
    BY AppendProperties
  <1>2. DOMAIN Append(q, e) = 1 .. (Len(q) + 1) /\ DOMAIN q = 1 .. Len(q)
        /\ Len(q) \in Nat
    BY <1>1
  <1>3. Range(Append(q, e)) \subseteq Range(q) \cup {e}
    BY <1>1, <1>2 DEF Range
  <1>4. Range(q) \subseteq Range(Append(q, e))
    BY <1>1, <1>2 DEF Range
  <1>5. e \in Range(Append(q, e))
    BY <1>1, <1>2 DEF Range
  <1>6. QED
    BY <1>1, <1>3, <1>4, <1>5

(* The next tile is a later one, and on the grid if its scale is.          *)
LEMMA NextTileLater ==
  ASSUME NEW t \in AllTiles
  PROVE  /\ Before(t, NextTile(t)) /\ ~Before(t, t)
         /\ \A w \in AllTiles : Before(w, t) => Before(w, NextTile(t))
         /\ \A m \in Scales : Scale(NextTile(t)) <= m => NextTile(t) \in AllTiles
  <1>1. t[1] \in Nat /\ t[2] \in Nat /\ t[1] \in Scales /\ t[2] < Grid[t[1] + 1]
    BY TileFacts
  <1>2. CASE t[2] + 1 < Grid[t[1] + 1]
    <2>1. NextTile(t) = <<t[1], t[2] + 1>>
      BY <1>2 DEF NextTile
    <2>2. NextTile(t) \in AllTiles
      BY <2>1, <1>1, <1>2, TileFacts
    <2>3. QED
      BY <2>1, <2>2, <1>1, TileFacts DEF Before
  <1>3. CASE ~(t[2] + 1 < Grid[t[1] + 1])
    <2>1. NextTile(t) = <<t[1] + 1, 0>>
      BY <1>3 DEF NextTile
    <2>2. ASSUME NEW m \in Scales, Scale(NextTile(t)) <= m
          PROVE  NextTile(t) \in AllTiles
      <3>1. t[1] + 1 \in Scales
        BY <2>1, <2>2, <1>1, GridAssumption DEF Scale, Scales, Thumb
      <3>2. QED
        BY <2>1, <3>1, TileFacts
    <2>3. QED
      BY <2>1, <2>2, <1>1, TileFacts DEF Before
  <1>4. QED
    BY <1>2, <1>3

LEMMA InitInv == Init => IInv
  <1> SUFFICES ASSUME Init PROVE IInv
    OBVIOUS
  <1>1. PICK first \in Requests, tile \in AllTiles :
          /\ db \in {r \in DbRanges : ~Within(Scale(tile), r)}
          /\ requests = <<first>>
          /\ wants = [r \in Requests |-> IF r = first THEN tile ELSE NoTile]
          /\ answer = [r \in Requests |-> IF r = first THEN "accepted" ELSE "none"]
    BY DEF Init
  <1>2. requests \in Seq(Requests) /\ Range(requests) = {first}
        /\ late \in Seq(Requests) /\ Range(late) = {} /\ tiles \in Seq(AllTiles)
        /\ Range(tiles) = {}
    <2>1. \A S : << >> \in Seq(S)
      OBVIOUS
    <2>2. <<first>> \in Seq(Requests)
      OBVIOUS
    <2>3. Range(<<first>>) = {first} /\ Range(<< >>) = {}
      BY Members
    <2>4. requests = <<first>> /\ late = << >> /\ tiles = << >>
      BY <1>1 DEF Init
    <2>5. QED
      BY ONLY <2>1, <2>2, <2>3, <2>4
  <1>3. TypeOK
    BY <1>1, <1>2 DEF Init, TypeOK
  <1>4. PcInv
    BY <1>2 DEF Init, PcInv
  <1>5. RequestInv
    BY <1>1, <1>2, TileFacts DEF Init, RequestInv
  <1>6. ServedInv
    BY <1>2 DEF Init, ServedInv
  <1>7. QED
    BY <1>3, <1>4, <1>5, <1>6 DEF IInv

(* What a request coming in finds and leaves, whichever state it finds.    *)
LEMMA RequestTileInv ==
  ASSUME IInv, NEW r \in Requests, NEW tile \in AllTiles, RequestTile(r, tile)
  PROVE  IInv'
  <1> USE TileFacts
  <1>1. /\ wants[r] = NoTile /\ answer[r] = "none" /\ served[r] = 0
        /\ r \notin Range(requests) /\ r \notin Range(late)
        /\ Range(requests) \subseteq Requests /\ Range(late) \subseteq Requests
        /\ UNCHANGED <<jpeg, db, state, range, tiles, pc, cut, failed, aborted>>
    <2>1. /\ wants[r] = NoTile
          /\ UNCHANGED <<jpeg, db, state, range, tiles, pc, cut, failed, aborted>>
      BY DEF RequestTile, RequestWaiting, RequestRunning, RequestAborted,
             RequestDone, Ask, workerVars
    <2>2. Range(requests) \subseteq Requests /\ Range(late) \subseteq Requests
      BY Members DEF IInv, TypeOK
    <2>3. QED
      BY <2>1, <2>2 DEF IInv, TypeOK, RequestInv, ServedInv
  <1>2. CASE RequestWaiting(r, tile)
    <2>1. /\ state = "kWaiting"
          /\ requests' = Append(requests, r) /\ late' = late /\ served' = served
          /\ wants' = [wants EXCEPT ![r] = tile]
          /\ answer' = [answer EXCEPT ![r] = "accepted"]
      BY <1>2 DEF RequestWaiting, Ask
    <2>2. requests' \in Seq(Requests) /\ Range(requests') = Range(requests) \cup {r}
      <3>1. requests \in Seq(Requests)
        BY DEF IInv, TypeOK
      <3>2. QED
        BY ONLY <2>1, <3>1, Listed, r \in Requests
    <2>3. TypeOK' /\ PcInv'
      BY <1>1, <2>1, <2>2 DEF IInv, TypeOK, PcInv
    <2>4. RequestInv'
      BY <1>1, <2>1, <2>2 DEF IInv, TypeOK, RequestInv
    <2>5. ServedInv'
      BY <1>1, <2>1, <2>2 DEF IInv, TypeOK, PcInv, ServedInv
    <2>6. QED
      BY <2>3, <2>4, <2>5 DEF IInv
  <1>3. CASE RequestRunning(r, tile)
    <2>1. /\ state = "kRunning" /\ requests' = requests /\ served' = served
          /\ wants' = [wants EXCEPT ![r] = tile]
          /\ \/ /\ late' = Append(late, r)
                /\ answer' = [answer EXCEPT ![r] = "accepted"]
             \/ /\ late' = late
                /\ answer' = [answer EXCEPT ![r] = "refused"]
      BY <1>3 DEF RequestRunning, Ask
    <2>2. late' \in Seq(Requests) /\ Range(late) \subseteq Range(late')
          /\ Range(late') \subseteq Range(late) \cup {r}
          /\ (answer'[r] = "refused" => late' = late)
      <3>1. late \in Seq(Requests) /\ answer \in [Requests -> {"none", "accepted", "refused"}]
        BY DEF IInv, TypeOK
      <3>2. Append(late, r) \in Seq(Requests) /\ Range(Append(late, r)) = Range(late) \cup {r}
        BY ONLY <3>1, Listed, r \in Requests
      <3>3. QED
        BY ONLY <2>1, <3>1, <3>2, r \in Requests
    <2>3. TypeOK' /\ PcInv'
      BY <1>1, <2>1, <2>2 DEF IInv, TypeOK, PcInv
    <2>4. RequestInv'
      BY <1>1, <2>1, <2>2 DEF IInv, TypeOK, RequestInv
    <2>5. ServedInv'
      BY <1>1, <2>1, <2>2 DEF IInv, TypeOK, PcInv, ServedInv
    <2>6. QED
      BY <2>3, <2>4, <2>5 DEF IInv
  <1>4. CASE RequestAborted(r, tile)
    <2>1. /\ state = "kAborted" /\ requests' = requests /\ late' = late
          /\ served' = served /\ wants' = [wants EXCEPT ![r] = tile]
          /\ answer' = [answer EXCEPT ![r] = "refused"]
      BY <1>4 DEF RequestAborted, Ask
    <2>2. TypeOK' /\ PcInv'
      BY <1>1, <2>1 DEF IInv, TypeOK, PcInv
    <2>3. RequestInv' /\ ServedInv'
      BY <1>1, <2>1 DEF IInv, TypeOK, PcInv, RequestInv, ServedInv
    <2>4. QED
      BY <2>2, <2>3 DEF IInv
  <1>5. CASE RequestDone(r, tile)
    <2>1. /\ state = "kDone" /\ requests' = requests /\ late' = late
          /\ wants' = [wants EXCEPT ![r] = tile]
          /\ \/ /\ answer' = [answer EXCEPT ![r] = "accepted"]
                /\ served' = [q \in Requests |-> IF q \in {r} THEN served[q] + 1
                                                              ELSE served[q]]
             \/ /\ answer' = [answer EXCEPT ![r] = "refused"]
                /\ served' = served
      BY <1>5 DEF RequestDone, Ask, Serve
    <2>2. /\ answer' \in [Requests -> {"none", "accepted", "refused"}]
          /\ answer'[r] \in {"accepted", "refused"}
          /\ served' \in [Requests -> Nat]
          /\ served'[r] # 0 => served'[r] = 1 /\ answer'[r] = "accepted"
          /\ \A q \in Requests \ {r} : answer'[q] = answer[q] /\ served'[q] = served[q]
      <3>1. answer \in [Requests -> {"none", "accepted", "refused"}]
            /\ served \in [Requests -> Nat] /\ served[r] = 0
        BY <1>1 DEF IInv, TypeOK
      <3>2. QED
        BY ONLY <2>1, <3>1, r \in Requests
    <2>3. /\ wants' \in [Requests -> AllTiles \cup {NoTile}] /\ wants'[r] = tile
          /\ \A q \in Requests \ {r} : wants'[q] = wants[q]
      BY <2>1 DEF IInv, TypeOK
    <2>4. TypeOK' /\ PcInv' /\ RequestInv' /\ ServedInv'
      <3>1. TypeOK' /\ PcInv'
        BY <1>1, <2>1, <2>2, <2>3 DEF IInv, TypeOK, PcInv
      <3>2. RequestInv'
        BY <1>1, <2>1, <2>2, <2>3 DEF IInv, RequestInv
      <3>3. ServedInv'
        BY <1>1, <2>1, <2>2, <2>3 DEF IInv, PcInv, ServedInv
      <3>4. QED
        BY <3>1, <3>2, <3>3
    <2>5. QED
      BY <2>4 DEF IInv
  <1>6. QED
    BY <1>2, <1>3, <1>4, <1>5 DEF RequestTile

(* What a step of the worker finds and leaves. *)
LEMMA WorkerInv ==
  ASSUME IInv, WorkerStep \/ GenerationFails
  PROVE  IInv'
  <1>1. Range(requests) \subseteq Requests /\ Range(late) \subseteq Requests
    BY Members DEF IInv, TypeOK
  <1>2. CASE IsAborted
    <2>1. /\ pc = "queued" /\ pc' \in {"starting", "over"}
          /\ pc' = "over" => state' = "kAborted" /\ Range(requests) \subseteq aborted
          /\ pc' = "starting" => state' = state
          /\ UNCHANGED <<jpeg, db, range, requests, late, tiles, cut, wants, answer,
                         aborted, served>>
      BY <1>2 DEF IsAborted, Unwanted, requestVars
    <2>2. TypeOK' /\ PcInv'
      BY <2>1 DEF IInv, TypeOK, PcInv
    <2>3. RequestInv' /\ ServedInv'
      BY <2>1 DEF IInv, PcInv, RequestInv, ServedInv
    <2>4. QED
      BY <2>2, <2>3 DEF IInv
  <1>3. CASE StartRunning
    <2>1. /\ pc = "starting" /\ state' = "kRunning" /\ pc' = "cutting"
          /\ range' = StartScales(jpeg, db, {Scale(wants[r]) : r \in Range(requests)})
          /\ cut' = <<range'.min, 0>>
          /\ UNCHANGED <<jpeg, db, requests, late, tiles, wants, answer, aborted, served>>
      BY <1>3 DEF StartRunning, requestVars
    <2>2. {Scale(wants[r]) : r \in Range(requests)} \subseteq Scales
      <3>1. \A r \in Range(requests) : wants[r] \in AllTiles
        BY <1>1 DEF IInv, TypeOK, RequestInv
      <3>2. QED
        BY <3>1, TileFacts
    <2>3. range' \in Ranges
      <3>1. jpeg \in BOOLEAN /\ db \in Ranges \cup {Empty}
        BY JobAssumption DEF IInv, TypeOK
      <3>2. StartScales(jpeg, db, {Scale(wants[r]) : r \in Range(requests)}) \in Ranges
        BY <3>1, <2>2, StartScalesInRange
      <3>3. QED
        BY <2>1, <3>2
    <2>4. range'.min \in Scales /\ range'.max \in range'.min .. Thumb
          /\ cut' \in AllTiles
      <3>1. range'.min \in Scales /\ range'.max \in Scales /\ range'.min <= range'.max
        BY <2>3 DEF Ranges
      <3>2. range'.max \in range'.min .. Thumb
        BY <3>1 DEF Scales
      <3>3. QED
        BY <2>1, <3>1, <3>2, TileFacts
    <2>5. TypeOK' /\ PcInv'
      BY <2>1, <2>4 DEF IInv, TypeOK, PcInv
    <2>6. RequestInv' /\ ServedInv'
      BY <1>1, <2>1 DEF IInv, PcInv, RequestInv, ServedInv
    <2>7. QED
      BY <2>5, <2>6 DEF IInv
  <1>4. CASE KeepTile
    <2>1. /\ pc = "cutting" /\ pc' = "calling" /\ tiles' = Append(tiles, cut)
          /\ UNCHANGED <<jpeg, db, state, range, requests, late, cut, wants, answer,
                         aborted, served>>
      BY <1>4 DEF KeepTile, requestVars
    <2>2. tiles' \in Seq(AllTiles) /\ Range(tiles') \subseteq AllTiles
      <3>1. tiles \in Seq(AllTiles) /\ cut \in AllTiles /\ Range(tiles) \subseteq AllTiles
        BY <2>1 DEF IInv, TypeOK, PcInv
      <3>2. QED
        BY <3>1, <2>1, Listed
    <2>3. TypeOK' /\ PcInv'
      BY <2>1, <2>2 DEF IInv, TypeOK, PcInv
    <2>4. RequestInv' /\ ServedInv'
      BY <2>1 DEF IInv, PcInv, RequestInv, ServedInv
    <2>5. QED
      BY <2>3, <2>4 DEF IInv
  <1>5. CASE CallRequests
    <2> DEFINE called == {r \in Range(requests) \ aborted : wants[r] = cut}
    <2>1. /\ pc = "calling" /\ cut' = NextTile(cut)
          /\ pc' = IF Scale(cut') <= range.max THEN "cutting" ELSE "finishing"
          /\ served' = [r \in Requests |-> IF r \in called THEN served[r] + 1
                                                           ELSE served[r]]
          /\ UNCHANGED <<jpeg, db, state, range, requests, late, tiles, wants, answer,
                         aborted>>
      BY <1>5 DEF CallRequests, jobVars, Serve
    <2>2. /\ cut \in AllTiles /\ state = "kRunning" /\ range.max \in Scales
          /\ pc' = "cutting" => cut' \in AllTiles
      <3>1. cut \in AllTiles /\ state = "kRunning" /\ range.max \in Scales
        BY <2>1, TileFacts DEF IInv, TypeOK, PcInv, Scales
      <3>2. QED
        BY <2>1, <3>1, NextTileLater
    <2>3. \A r \in called : /\ r \in Requests /\ served[r] = 0 /\ answer[r] = "accepted"
                            /\ r \notin Range(late) /\ Before(wants[r], cut')
      BY <1>1, <2>1, <2>2, NextTileLater DEF IInv, TypeOK, RequestInv, ServedInv
    <2>4. \A r \in Requests : r \notin called => served'[r] = served[r]
      BY <2>1
    <2>5. \A r \in called : served'[r] = 1
      BY <2>1, <2>3
    <2>6. \A r \in Range(requests) : served[r] # 0 => Before(wants[r], cut')
      <3>1. \A r \in Range(requests) : wants[r] \in AllTiles
        BY <1>1 DEF IInv, TypeOK, RequestInv
      <3>2. \A r \in Range(requests) : served[r] # 0 => Before(wants[r], cut)
        BY <2>1 DEF IInv, ServedInv
      <3>3. QED
        BY <2>1, <2>2, <3>1, <3>2, NextTileLater
    <2>7. TypeOK' /\ PcInv'
      BY <2>1, <2>2 DEF IInv, TypeOK, PcInv
    <2>8. RequestInv'
      BY <2>1 DEF IInv, RequestInv
    <2> HIDE DEF called
    <2>9. ServedInv'
      BY <1>1, <2>1, <2>2, <2>3, <2>4, <2>5, <2>6 DEF IInv, ServedInv
    <2>10. QED
      BY <2>7, <2>8, <2>9 DEF IInv
  <1>6. CASE GenerationFails
    <2>1. /\ pc \in {"cutting", "calling"} /\ pc' = "finishing"
          /\ UNCHANGED <<jpeg, db, state, range, requests, late, tiles, cut, wants,
                         answer, aborted, served>>
      BY <1>6 DEF GenerationFails, jobVars, requestVars
    <2>2. QED
      BY <2>1 DEF IInv, TypeOK, PcInv, RequestInv, ServedInv
  <1>7. CASE Finish
    <2>1. /\ pc = "finishing" /\ pc' = "over" /\ state' = "kDone" /\ late' = << >>
          /\ served' = [r \in Requests |-> IF r \in Answerable THEN served[r] + 1
                                                               ELSE served[r]]
          /\ UNCHANGED <<jpeg, db, range, requests, tiles, cut, wants, answer, aborted>>
      BY <1>7 DEF Finish, Serve
    <2>2. state = "kRunning" /\ late' \in Seq(Requests) /\ Range(late') = {}
      <3>1. << >> \in Seq(Requests) /\ Range(<< >>) = {}
        BY Members
      <3>2. QED
        BY <2>1, <3>1 DEF IInv, PcInv
    <2>3. \A r \in Answerable : r \in Requests /\ served[r] = 0 /\ answer[r] = "accepted"
      BY <1>1 DEF Answerable, IInv, RequestInv, ServedInv
    <2>4. TypeOK' /\ PcInv'
      BY <2>1, <2>2 DEF IInv, TypeOK, PcInv
    <2>5. RequestInv' /\ ServedInv'
      BY <2>1, <2>2, <2>3 DEF IInv, RequestInv, ServedInv
    <2>6. QED
      BY <2>4, <2>5 DEF IInv
  <1>8. QED
    BY <1>2, <1>3, <1>4, <1>5, <1>6, <1>7 DEF WorkerStep

LEMMA StepInv == IInv /\ [Next]_vars => IInv'
  <1> SUFFICES ASSUME IInv, [Next]_vars PROVE IInv'
    OBVIOUS
  <1>1. ASSUME NEW r \in Requests, NEW tile \in AllTiles, RequestTile(r, tile)
        PROVE  IInv'
    BY <1>1, RequestTileInv
  <1>2. ASSUME NEW r \in Requests, SetAborted(r) PROVE IInv'
    <2>1. /\ aborted' = aborted \cup {r}
          /\ UNCHANGED <<jpeg, db, state, range, requests, late, tiles, pc, cut, wants,
                         answer, served>>
      BY <1>2 DEF SetAborted, jobVars, workerVars
    <2>2. QED
      BY <2>1 DEF IInv, TypeOK, PcInv, RequestInv, ServedInv
  <1>3. ASSUME WorkerStep \/ GenerationFails PROVE IInv'
    BY <1>3, WorkerInv
  <1>4. ASSUME UNCHANGED vars PROVE IInv'
    BY <1>4 DEF vars, jobVars, workerVars, requestVars, IInv, TypeOK, PcInv,
                RequestInv, ServedInv
  <1>5. QED
    BY <1>1, <1>2, <1>3, <1>4 DEF Next

-----------------------------------------------------------------------------
(* The theorems *)

(* Type correctness, for every image and every database, the one that a    *)
(* kill left incomplete included: tile_generation_job.cpp:180-200 never    *)
(* hands TileGenerator a scale the image does not have.                    *)
THEOREM JobTypeCorrect == Spec => []TypeOK
  <1>1. IInv => TypeOK
    BY DEF IInv
  <1>2. QED
    BY <1>1, InitInv, StepInv, PTL DEF Spec

(* No request is called back twice (tile_generation_job.cpp:116-132,       *)
(* 81-108, 220-231), however requests and worker interleave.               *)
THEOREM JobServedOnce == Spec => []ServedOnce
  <1>1. IInv => ServedOnce
    BY DEF IInv, TypeOK, ServedInv, ServedOnce
  <1>2. QED
    BY <1>1, InitInv, StepInv, PTL DEF Spec

(* A job that gives up owes nobody an answer                               *)
(* (tile_generation_job.cpp:134-162 against 59-65).                        *)
THEOREM JobAbortedUnwanted == Spec => []AbortedUnwanted
  <1>1. IInv => AbortedUnwanted
    BY DEF IInv, RequestInv, AbortedUnwanted
  <1>2. QED
    BY <1>1, InitInv, StepInv, PTL DEF Spec

(* A refused request is never called back, so that the database thread may *)
(* hand it to a new job (database_thread.cpp:314-321).                     *)
THEOREM JobRefusedNeverServed == Spec => []RefusedNeverServed
  <1>1. IInv => RefusedNeverServed
    BY DEF IInv, ServedInv, RefusedNeverServed
  <1>2. QED
    BY <1>1, InitInv, StepInv, PTL DEF Spec

-----------------------------------------------------------------------------
(* What is cut, and in which order *)

(* The scales a request asks for are not in the database, so that neither  *)
(* are the scales generated for them; tiles are cut in the order of        *)
(* Before, which is why none is cut twice.                                 *)
CutInv ==
  /\ state \in {"kWaiting", "kAborted"} => tiles = << >>
  /\ state = "kWaiting" =>
       /\ Range(requests) # {}
       /\ \A r \in Range(requests) : ~Within(Scale(wants[r]), db)
  /\ \A i, j \in DOMAIN tiles : i < j => Before(tiles[i], tiles[j])
  /\ pc = "cutting" => \A i \in DOMAIN tiles : Before(tiles[i], cut)
  /\ pc = "calling" => \A i \in DOMAIN tiles : tiles[i] = cut \/ Before(tiles[i], cut)
  /\ pc \in {"cutting", "calling"} => Within(Scale(cut), range)
  /\ \A i \in DOMAIN tiles : Within(Scale(tiles[i]), range)
  /\ state \in {"kRunning", "kDone"} /\ jpeg /\ Reaches(db) =>
       \A s \in Scales : Within(s, range) => ~Within(s, db)

(* For a JPEG, and a database that reaches up to the thumbnail, what is    *)
(* generated and what is stored have no scale in common: every scale       *)
(* wanted is below those stored (tile_generation_job.cpp:180-200).         *)
LEMMA StartScalesDisjoint ==
  ASSUME NEW d \in Ranges \cup {Empty}, Reaches(d), NEW wanted, wanted \subseteq Scales,
         wanted # {}, \A s \in wanted : ~Within(s, d),
         NEW s \in Scales, Within(s, StartScales(TRUE, d, wanted))
  PROVE  ~Within(s, d)
  <1> DEFINE max == IF d.min # -1 THEN d.min - 1 ELSE Thumb
             min == Min({max} \cup wanted)
  <1>1. CASE d = Empty
    BY <1>1, TileFacts DEF Empty, Within, Scales
  <1>2. CASE d # Empty
    <2>1. d.min \in Scales /\ d.max = Thumb /\ d.min # -1
      BY <1>2, TileFacts DEF Ranges, Reaches, Scales
    <2>2. PICK u \in wanted : u \in Scales /\ u < d.min
      BY <2>1, TileFacts DEF Within, Scales
    <2>3. max = d.min - 1 /\ max \in Scales
      BY <2>1, <2>2, TileFacts DEF Scales
    <2>4. min \in {max} \cup wanted
      BY <2>3, TileFacts, MinOfScales
    <2>5. min # -1 /\ max # -1
      BY <2>3, <2>4, TileFacts DEF Scales
    <2>6. StartScales(TRUE, d, wanted) = [min |-> min, max |-> max]
      BY <2>5 DEF StartScales
    <2> HIDE DEF max, min
    <2>7. Within(s, [min |-> min, max |-> max])
      BY <2>6
    <2>8. s <= max
      BY <2>7 DEF Within
    <2>9. QED
      BY <2>1, <2>3, <2>8, TileFacts DEF Within, Scales
  <1>3. QED
    BY <1>1, <1>2

(* Before is a strict order on the tiles. *)
LEMMA BeforeOrders ==
  ASSUME NEW s \in AllTiles, NEW t \in AllTiles
  PROVE  /\ ~Before(s, s)
         /\ \A u \in AllTiles : Before(s, t) /\ Before(t, u) => Before(s, u)
  BY TileFacts DEF Before

LEMMA CutInitInv == Init => CutInv
  <1> SUFFICES ASSUME Init PROVE CutInv
    OBVIOUS
  <1>1. PICK first \in Requests, tile \in AllTiles :
          /\ db \in {r \in DbRanges : ~Within(Scale(tile), r)}
          /\ requests = <<first>>
          /\ wants = [r \in Requests |-> IF r = first THEN tile ELSE NoTile]
    BY DEF Init
  <1>2. Range(requests) = {first}
    BY <1>1, Members
  <1>3. DOMAIN tiles = {} /\ tiles = << >> /\ pc = "queued" /\ state = "kWaiting"
    BY DEF Init
  <1>4. QED
    BY <1>1, <1>2, <1>3 DEF CutInv

(* A request that waits for the job to start asks for a scale that is not  *)
(* in the database: that is what the assertion demands of the caller.      *)
LEMMA CutRequestInv ==
  ASSUME IInv, CutInv, NEW r \in Requests, NEW tile \in AllTiles, RequestTile(r, tile)
  PROVE  CutInv'
  <1>1. /\ wants[r] = NoTile /\ wants' = [wants EXCEPT ![r] = tile]
        /\ UNCHANGED <<jpeg, db, state, range, tiles, pc, cut>>
    BY DEF RequestTile, RequestWaiting, RequestRunning, RequestAborted,
           RequestDone, Ask, workerVars
  <1>2. ASSUME state = "kWaiting"
        PROVE  /\ Range(requests') # {}
               /\ \A q \in Range(requests') : ~Within(Scale(wants'[q]), db)
    <2>1. ~Within(Scale(tile), db) /\ requests' = Append(requests, r)
      BY <1>2 DEF RequestTile, RequestWaiting, RequestRunning, RequestAborted,
                  RequestDone
    <2>2. requests \in Seq(Requests) /\ wants \in [Requests -> AllTiles \cup {NoTile}]
      BY DEF IInv, TypeOK
    <2>3. Range(requests') = Range(requests) \cup {r} /\ Range(requests) \subseteq Requests
      BY <2>1, <2>2, Listed, Members
    <2>4. \A q \in Range(requests) \cup {r} :
            wants'[q] = IF q = r THEN tile ELSE wants[q]
      BY <1>1, <2>2, <2>3
    <2>5. \A q \in Range(requests) : ~Within(Scale(wants[q]), db)
      BY <1>2 DEF CutInv
    <2>6. QED
      BY <2>1, <2>3, <2>4, <2>5
  <1>3. QED
    BY <1>1, <1>2 DEF CutInv

(* What a step of the worker cuts. *)
LEMMA CutWorkerInv ==
  ASSUME IInv, CutInv, WorkerStep \/ GenerationFails
  PROVE  CutInv'
  <1> USE TileFacts
  <1>1. CASE IsAborted
    BY <1>1 DEF IsAborted, IInv, PcInv, CutInv, requestVars
  <1>2. CASE StartRunning
    <2> DEFINE wanted == {Scale(wants[r]) : r \in Range(requests)}
    <2>1. /\ state = "kWaiting" /\ state' = "kRunning" /\ pc' = "cutting"
          /\ range' = StartScales(jpeg, db, wanted) /\ cut' = <<range'.min, 0>>
          /\ UNCHANGED <<jpeg, db, requests, tiles, wants>>
      BY <1>2 DEF StartRunning, requestVars
    <2>2. jpeg \in BOOLEAN /\ db \in Ranges \cup {Empty}
      BY JobAssumption DEF IInv, TypeOK
    <2>3. wanted \subseteq Scales /\ wanted # {} /\ \A s \in wanted : ~Within(s, db)
      <3>1. \A r \in Range(requests) : wants[r] \in AllTiles
        BY Members DEF IInv, TypeOK, RequestInv
      <3>2. QED
        BY <2>1, <3>1 DEF CutInv
    <2> HIDE DEF wanted
    <2>4. range' \in Ranges
      <3>1. StartScales(jpeg, db, wanted) \in Ranges
        BY <2>2, <2>3, StartScalesInRange
      <3>2. QED
        BY <2>1, <3>1
    <2>5. tiles = << >> /\ DOMAIN tiles = {}
      BY <2>1 DEF CutInv
    <2>6. Within(Scale(cut'), range')
      BY <2>1, <2>4 DEF Ranges, Within, Scale, Scales
    <2>7. ASSUME jpeg, Reaches(db), NEW s \in Scales, Within(s, range')
          PROVE  ~Within(s, db)
      <3>1. jpeg = TRUE
        BY <2>2, <2>7
      <3>2. Within(s, StartScales(TRUE, db, wanted))
        BY <2>1, <2>7, <3>1
      <3>3. QED
        BY <2>2, <2>3, <2>7, <3>2, StartScalesDisjoint
    <2>8. QED
      BY <2>1, <2>5, <2>6, <2>7 DEF CutInv, Reaches
  <1>3. CASE KeepTile
    <2>1. /\ pc = "cutting" /\ pc' = "calling" /\ tiles' = Append(tiles, cut)
          /\ UNCHANGED <<jpeg, db, state, range, requests, cut, wants>>
      BY <1>3 DEF KeepTile, requestVars
    <2>2. tiles \in Seq(AllTiles) /\ cut \in AllTiles /\ state = "kRunning"
      BY <2>1 DEF IInv, TypeOK, PcInv
    <2>3. /\ DOMAIN tiles' = 1 .. (Len(tiles) + 1) /\ DOMAIN tiles = 1 .. Len(tiles)
          /\ Len(tiles) \in Nat /\ tiles'[Len(tiles) + 1] = cut
          /\ \A i \in 1 .. Len(tiles) : tiles'[i] = tiles[i]
      BY <2>1, <2>2
    <2>4. \A i \in DOMAIN tiles : Before(tiles[i], cut) /\ Within(Scale(tiles[i]), range)
      BY <2>1 DEF CutInv
    <2>5. \A i \in DOMAIN tiles' : tiles'[i] = cut' \/ Before(tiles'[i], cut')
      BY <2>1, <2>3, <2>4
    <2>6. \A i \in DOMAIN tiles' : Within(Scale(tiles'[i]), range')
      BY <2>1, <2>3, <2>4 DEF CutInv
    <2>7. ASSUME NEW i \in DOMAIN tiles', NEW j \in DOMAIN tiles', i < j
          PROVE  Before(tiles'[i], tiles'[j])
      <3>1. CASE j = Len(tiles) + 1
        BY <2>3, <2>4, <2>7, <3>1
      <3>2. CASE j # Len(tiles) + 1
        <4>1. i \in DOMAIN tiles /\ j \in DOMAIN tiles
          BY <2>3, <2>7, <3>2
        <4>2. QED
          BY <2>3, <2>7, <4>1 DEF CutInv
      <3>3. QED
        BY <3>1, <3>2
    <2>8. QED
      BY <2>1, <2>2, <2>5, <2>6, <2>7 DEF CutInv, Reaches
  <1>4. CASE CallRequests
    <2>1. /\ pc = "calling" /\ cut' = NextTile(cut)
          /\ pc' = IF Scale(cut') <= range.max THEN "cutting" ELSE "finishing"
          /\ UNCHANGED <<jpeg, db, state, range, requests, tiles, wants>>
      BY <1>4 DEF CallRequests, jobVars
    <2>2. /\ cut \in AllTiles /\ tiles \in Seq(AllTiles) /\ state = "kRunning"
          /\ range.min \in Scales /\ range.max \in Scales
      BY <2>1 DEF IInv, TypeOK, PcInv, Scales
    <2>3. \A i \in DOMAIN tiles : tiles[i] \in AllTiles
      BY <2>2
    <2>4. \A i \in DOMAIN tiles : Before(tiles[i], cut')
      BY <2>1, <2>2, <2>3, NextTileLater DEF CutInv
    <2>5. range.min <= Scale(cut')
      <3>1. range.min <= Scale(cut) /\ Scale(cut) = cut[1] /\ cut[1] \in Nat
        BY <2>1, <2>2 DEF CutInv, Within
      <3>2. Scale(cut') \in {cut[1], cut[1] + 1}
        BY <2>1 DEF NextTile, Scale
      <3>3. QED
        BY <2>2, <3>1, <3>2
    <2>6. pc' = "cutting" => Within(Scale(cut'), range)
      BY <2>1, <2>5 DEF Within
    <2>7. QED
      BY <2>1, <2>2, <2>4, <2>6 DEF CutInv, Reaches
  <1>5. CASE GenerationFails
    <2>1. /\ pc \in {"cutting", "calling"} /\ pc' = "finishing"
          /\ UNCHANGED <<jpeg, db, state, range, requests, tiles, cut, wants>>
      BY <1>5 DEF GenerationFails, jobVars, requestVars
    <2>2. QED
      BY <2>1 DEF CutInv, Reaches
  <1>6. CASE Finish
    <2>1. /\ pc = "finishing" /\ pc' = "over" /\ state' = "kDone"
          /\ UNCHANGED <<jpeg, db, range, requests, tiles, cut, wants>>
      BY <1>6 DEF Finish
    <2>2. state = "kRunning"
      BY <2>1 DEF IInv, PcInv
    <2>3. QED
      BY <2>1, <2>2 DEF CutInv, Reaches
  <1>7. QED
    BY <1>1, <1>2, <1>3, <1>4, <1>5, <1>6 DEF WorkerStep

LEMMA CutStepInv == IInv /\ CutInv /\ [Next]_vars => CutInv'
  <1> SUFFICES ASSUME IInv, CutInv, [Next]_vars PROVE CutInv'
    OBVIOUS
  <1>1. ASSUME NEW r \in Requests, SetAborted(r) PROVE CutInv'
    BY <1>1 DEF SetAborted, jobVars, workerVars, CutInv, Reaches
  <1>2. ASSUME UNCHANGED vars PROVE CutInv'
    BY <1>2 DEF vars, jobVars, workerVars, requestVars, CutInv, Reaches
  <1>3. QED
    BY <1>1, <1>2, CutRequestInv, CutWorkerInv DEF Next

(* No tile is cut twice, and no scale the database has is generated a      *)
(* second time for a JPEG (tile_generation_job.cpp:180-200), however       *)
(* requests, aborts and failures interleave with the worker.               *)
THEOREM JobNothingTwice == Spec => []NothingTwice
  <1>1. IInv /\ CutInv => NothingTwice
    <2> SUFFICES ASSUME IInv, CutInv PROVE NothingTwice
      OBVIOUS
    <2>1. tiles \in Seq(AllTiles) /\ \A i \in DOMAIN tiles : tiles[i] \in AllTiles
      BY DEF IInv, PcInv
    <2>2. ASSUME jpeg, Reaches(db), NEW t \in Range(tiles) PROVE ~Within(Scale(t), db)
      <3>1. PICK i \in DOMAIN tiles : t = tiles[i]
        BY DEF Range
      <3>2. state \in {"kRunning", "kDone"}
        BY <2>1, <3>1 DEF CutInv, IInv, TypeOK
      <3>3. Scale(t) \in Scales /\ Within(Scale(t), range)
        BY <2>1, <3>1, TileFacts DEF CutInv
      <3>4. QED
        BY <2>2, <3>2, <3>3 DEF CutInv
    <2>3. ASSUME NEW i \in DOMAIN tiles, NEW j \in DOMAIN tiles, i # j
          PROVE  tiles[i] # tiles[j]
      <3>1. i < j \/ j < i
        BY <2>1, <2>3
      <3>2. Before(tiles[i], tiles[j]) \/ Before(tiles[j], tiles[i])
        BY <3>1 DEF CutInv
      <3>3. QED
        BY <2>1, <3>2, BeforeOrders
    <2>4. QED
      BY <2>2, <2>3 DEF NothingTwice
  <1>2. QED
    BY <1>1, InitInv, StepInv, CutInitInv, CutStepInv, PTL DEF Spec
===============================================================================
