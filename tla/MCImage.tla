------------------------------- MODULE MCImage -------------------------------
(* Instances of Image for TLC: a thumbnail and one or two large tiles. *)
EXTENDS Image

CONSTANTS thumb, big, other

TwoTiles == {thumb, big}
ThreeTiles == {thumb, big, other}
Thumb == {thumb}
NearAndFar == {{thumb}, {big}}
NearFarAside == {{thumb}, {big}, {big, other}}
===============================================================================
