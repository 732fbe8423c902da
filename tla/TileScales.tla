------------------------------ MODULE TileScales ------------------------------
(***************************************************************************)
(* The tiles of one image and the scales a job generates: the arithmetic   *)
(* of src/jobs/tile_generation_job.cpp and src/jobs/tile_generator.cpp.    *)
(* Scale 0 is the full image; every further scale halves it, down to the   *)
(* thumbnail, which is one tile.                                           *)
(***************************************************************************)
EXTENDS Integers, Sequences, FiniteSets, FiniteSetsExt

CONSTANT Grid    \* Grid[s + 1] is the number of tiles of scale s

Thumb  == Len(Grid) - 1       \* FileEntry::get_thumbnail_scale()
Scales == 0 .. Thumb
Empty  == [min |-> -1, max |-> -1]
Ranges == {r \in [min : Scales, max : Scales] : r.min <= r.max}

ASSUME GridAssumption == Grid \in Seq(Nat \ {0}) /\ Len(Grid) > 0

Within(s, range) == range.min <= s /\ s <= range.max

TilesAt(s)  == {<<s, i>> : i \in 0 .. (Grid[s + 1] - 1)}
AllTiles    == UNION {TilesAt(s) : s \in Scales}
Scale(tile) == tile[1]

NoTile == <<-1, -1>>

(* Mutant of NextTile: one position too many per scale. *)
NextTileTooFar(tile) ==
  IF tile[2] + 1 <= Grid[tile[1] + 1] THEN <<tile[1], tile[2] + 1>> ELSE <<tile[1] + 1, 0>>

(* cut_into_tiles(): the loops over scales and positions. *)
NextTile(tile) ==
  IF tile[2] + 1 < Grid[tile[1] + 1] THEN <<tile[1], tile[2] + 1>> ELSE <<tile[1] + 1, 0>>

(* Mutant of StartScales: what the database holds is not left out. *)
StartScalesAll(jpeg, db, wanted) ==
  IF ~jpeg THEN [min |-> 0, max |-> Thumb]
           ELSE [min |-> Min({Thumb} \cup wanted), max |-> Thumb]

(* The scales run() generates, given the scales in the database and the    *)
(* scales wanted: all of them unless the image is a JPEG, which can be     *)
(* loaded downscaled; then those below what the database has.              *)
StartScales(jpeg, db, wanted) ==
  LET max == IF db.min # -1 THEN db.min - 1 ELSE Thumb
      min == Min({max} \cup wanted)
  IN  IF ~jpeg \/ min = -1 \/ max = -1
      THEN [min |-> 0, max |-> Thumb]
      ELSE [min |-> min, max |-> max]
===============================================================================
