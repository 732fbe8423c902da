------------------------------ MODULE MCDatabase ------------------------------
(* Instances of Database for TLC. *)
EXTENDS Database, TLC

CONSTANTS u1, u2, t1, t2

TwoUrls == {u1, u2}
OneTile == {t1}
TwoTiles == {t1, t2}

Symmetry == Permutations(TwoUrls) \cup Permutations(TwoTiles)
===============================================================================
