------------------------ MODULE MCTileGenerationJob ------------------------
(* Instances of TileGenerationJob for TLC: an image of three scales. *)
EXTENDS TileGenerationJob, TLC

CONSTANTS r1, r2, r3

ThreeRequests == {r1, r2, r3}

(* Two tiles at the full scale, one at each of the others. *)
SmallGrid == <<2, 1, 1>>

Interval(lo, hi) == [min |-> lo, max |-> hi]

(* What a database may hold: nothing, all scales from 1 up to the          *)
(* thumbnail, or scale 1 alone after a program was killed.                 *)
SomeRanges == {Empty, Interval(1, 2), Interval(1, 1)}
===============================================================================
