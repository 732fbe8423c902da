------------------------------- MODULE Providers -------------------------------
(***************************************************************************)
(* The tile providers beside the database: a picture on the web in the     *)
(* format of Zoomify (src/galapix/zoomify_tile_provider.cpp) and a         *)
(* Mandelbrot set (mandelbrot_tile_provider.cpp, mandelbrot_tile_job.cpp). *)
(***************************************************************************)
EXTENDS Surfaces, Sequences, SequencesExt, FiniteSetsExt

CONSTANTS
  GroupSize,  \* tiles of a tile group, 256 in the code
  FractalMax  \* c_max_scale, 20 in the code

ASSUME ProvidersAssumption == GroupSize \in Nat \ {0} /\ FractalMax \in Nat

TileId(scale, x, y) == [scale |-> scale, x |-> x, y |-> y]

-----------------------------------------------------------------------------
(* Zoomify *)

(* get_max_scale(): one tile is enough. *)
ZoomifyScale(size) ==
  LET longer == Greater(size.width, size.height)
  IN  CHOOSE s \in 0 .. longer : /\ longer \div 2 ^ s <= TileSize
                                 /\ \A r \in 0 .. s - 1 : longer \div 2 ^ r > TileSize

(* Of a side that has become 0 there is one tile left: C++ rounds to zero. *)
ZoomifyInfo(size, scale) ==
  LET small == Shrunk(size, 2 ^ scale)
      Tiles(n) == IF n = 0 THEN 1 ELSE (n - 1) \div TileSize + 1
  IN  Size(Tiles(small.width), Tiles(small.height))

(* Mutant of PreviousTiles: the tiles of the next scale alone. *)
NextScaleTiles(size, scale) ==
  LET info == ZoomifyInfo(size, scale + 1)
  IN  IF scale = ZoomifyScale(size) THEN 0 ELSE info.width * info.height

PreviousTiles(size, scale) ==
  MapThenSumSet(LAMBDA s : ZoomifyInfo(size, s).width * ZoomifyInfo(size, s).height,
                scale + 1 .. ZoomifyScale(size))

get_tile_group(size, tile) ==
  (ZoomifyInfo(size, tile.scale).width * tile.y + tile.x + PreviousTiles(size, tile.scale))
    \div GroupSize

(* What request_tile() asks the server for. *)
ZoomifyUrl(size, tile) ==
  [group |-> get_tile_group(size, tile), tier |-> ZoomifyScale(size) - tile.scale,
   x |-> tile.x, y |-> tile.y]

ZoomifyTiles(size) ==
  UNION {{TileId(s, x, y) : x \in 0 .. ZoomifyInfo(size, s).width - 1,
                            y \in 0 .. ZoomifyInfo(size, s).height - 1} :
           s \in 0 .. ZoomifyScale(size)}

(* What there is on the server: the picture is halved until it is no       *)
(* larger than a tile, and the tiles of all sizes, the smallest first and  *)
(* each from left to right and from top to bottom, go into the groups.     *)
ZoomifyServer(size) ==
  LET sizes[s \in Nat] == IF s = 0 THEN size ELSE Shrunk(sizes[s - 1], 2)
      Fits(s)    == Greater(sizes[s].width, sizes[s].height) <= TileSize
      tiers      == CHOOSE n \in 0 .. Greater(size.width, size.height) :
                      Fits(n) /\ (n > 0 => ~Fits(n - 1))
      Rows(s)    == Greater(1, CeilDiv(sizes[s].height, TileSize))
      Columns(s) == Greater(1, CeilDiv(sizes[s].width, TileSize))
      Row(t, y)  == [i \in 1 .. Columns(tiers - t) |-> [tier |-> t, x |-> i - 1, y |-> y]]
      Tier(t)    == FlattenSeq([j \in 1 .. Rows(tiers - t) |-> Row(t, j - 1)])
      all        == FlattenSeq([t \in 1 .. tiers + 1 |-> Tier(t - 1)])
  IN  {[group |-> (i - 1) \div GroupSize, tier |-> all[i].tier, x |-> all[i].x, y |-> all[i].y] :
         i \in DOMAIN all}

(* The tiles a file on the server shows: one, or none if there is no such  *)
(* file.                                                                   *)
ServedBy(size, url) ==
  {TileId(ZoomifyScale(size) - url.tier, url.x, url.y) : u \in {url} \cap ZoomifyServer(size)}

-----------------------------------------------------------------------------
(* Mandelbrot *)

MandelbrotSize ==
  Size(4 * TileSize * 2 ^ FractalMax, 3 * TileSize * 2 ^ FractalMax)

(* MandelbrotTileJob::run(): a pixel of a tile, as how far across and down *)
(* the picture of its scale it is.                                         *)
MandelbrotPlace(tile, p) ==
  [at |-> Plus(Times(Vec(tile.x, tile.y), TileSize, 1), p),
   of |-> Shrunk(MandelbrotSize, 2 ^ tile.scale)]

MandelbrotTiles ==
  UNION {{TileId(s, x, y) : x \in 0 .. 4 * 2 ^ (FractalMax - s) - 1,
                            y \in 0 .. 3 * 2 ^ (FractalMax - s) - 1} : s \in 0 .. FractalMax}
===============================================================================
