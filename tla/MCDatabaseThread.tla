--------------------------- MODULE MCDatabaseThread ---------------------------
(* Instances of DatabaseThread for TLC. *)
EXTENDS DatabaseThread, TLC

CONSTANTS r1, r2, r3

TwoRequests   == {r1, r2}
ThreeRequests == {r1, r2, r3}

(* Two scales, the larger of two tiles. *)
TwoScales   == <<2, 1>>

(* Complete runs leave nothing, or all scales from some scale up to the    *)
(* thumbnail; a kill may leave any first part of what a job was storing.   *)
Complete == {UNION {TilesAt(s) : s \in lowest .. Thumb} : lowest \in 1 .. (Thumb + 1)}
Killed   == Complete \cup {{<<0, 0>>}, TilesAt(0)}

AnyImage == BOOLEAN
NoJpeg   == {FALSE}

Symmetry == Permutations(ThreeRequests)
===============================================================================
