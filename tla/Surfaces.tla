------------------------------- MODULE Surfaces -------------------------------
(***************************************************************************)
(* What happens to the pixels of a picture between its file and its tiles: *)
(* src/util/software_surface.cpp, the decoders of src/plugins, the cutting *)
(* of src/jobs/tile_generator.cpp and the export of galapix.cpp.           *)
(*                                                                         *)
(* A pixel is the set of the places in the file whose colours it mixes; a  *)
(* pixel nobody has written is the empty set.  Colours, alpha and the loss *)
(* of the compression are left out.                                        *)
(***************************************************************************)
EXTENDS Geometry

CONSTANTS
  TileSize,   \* 256
  ThumbSize,  \* 8: an image is halved until it is no larger than that
  JpegPower,  \* 3: libjpeg scales down by up to 2^3
  Ahead       \* 3: a new JPEG gets the scales from thumbnail - 3 on

ASSUME SurfacesAssumption ==
  /\ TileSize \in Nat \ {0} /\ ThumbSize \in Nat \ {0}
  /\ JpegPower \in Nat /\ Ahead \in Nat

Cells(size) == (0 .. size.width - 1) \X (0 .. size.height - 1)
Turned(size) == Size(size.height, size.width)
Shrunk(size, d) == Size(size.width \div d, size.height \div d)
CeilDiv(n, d) == (n + d - 1) \div d

Surface(format, size, At(_, _)) ==
  [format |-> format, size |-> size, at |-> [c \in Cells(size) |-> At(c[1], c[2])]]

(* SoftwareSurface::create() does not clear the pixels. *)
Created(format, size) == Surface(format, size, LAMBDA x, y : {})

-----------------------------------------------------------------------------
(* software_surface.cpp *)

Halved(s) ==
  Surface(s.format, Shrunk(s.size, 2), LAMBDA x, y :
    UNION {s.at[<<2 * x + i, 2 * y + j>>] : i \in {0, 1}, j \in {0, 1}})

Scaled(s, size) ==
  Surface(s.format, size, LAMBDA x, y :
    s.at[<<(x * s.size.width) \div size.width, (y * s.size.height) \div size.height>>])

Rotated90(s) ==
  Surface(s.format, Turned(s.size), LAMBDA x, y : s.at[<<y, s.size.height - x - 1>>])

Rotated180(s) ==
  Surface(s.format, s.size, LAMBDA x, y :
    s.at[<<s.size.width - x - 1, s.size.height - 1 - y>>])

Rotated270(s) ==
  Surface(s.format, Turned(s.size), LAMBDA x, y : s.at[<<s.size.width - 1 - y, x>>])

HFlipped(s) ==
  Surface(s.format, s.size, LAMBDA x, y : s.at[<<s.size.width - 1 - x, y>>])

VFlipped(s) ==
  Surface(s.format, s.size, LAMBDA x, y : s.at[<<x, s.size.height - y - 1>>])

Transformed(s, modifier) ==
  CASE modifier = "Rot0"       -> s
    [] modifier = "Rot90"      -> Rotated90(s)
    [] modifier = "Rot180"     -> Rotated180(s)
    [] modifier = "Rot270"     -> Rotated270(s)
    [] modifier = "Rot0Flip"   -> VFlipped(s)
    [] modifier = "Rot90Flip"  -> VFlipped(Rotated90(s))
    [] modifier = "Rot180Flip" -> HFlipped(s)
    [] modifier = "Rot270Flip" -> VFlipped(Rotated270(s))

(* The part in a rectangle, which is clipped to the surface. *)
Cropped(s, rect) ==
  LET r == ClipTo(rect, RectOf(Vec(0, 0), s.size))
  IN  Surface(s.format, Size(Width(r), Height(r)), LAMBDA x, y : s.at[<<x + r.left, y + r.top>>])

ToRgb(s) == [s EXCEPT !.format = "RGB"]

(* The surface drawn onto another one, which is returned. *)
Blitted(s, dst, pos) ==
  Surface(dst.format, dst.size, LAMBDA x, y :
    LET c == <<x - pos.x, y - pos.y>> IN IF c \in Cells(s.size) THEN s.at[c] ELSE dst.at[<<x, y>>])

-----------------------------------------------------------------------------
(* The decoders.  A picture is [size, alpha, orientation]: what is in the  *)
(* file, row by row, and the Exif tag of a JPEG (0 for none).              *)

AsStored(format, picture) == Surface(format, picture.size, LAMBDA x, y : {<<x, y>>})

(* Palettes, grey and transparent colours all become RGB or RGBA. *)
PngDecoded(picture) == AsStored(IF picture.alpha THEN "RGBA" ELSE "RGB", picture)

MagickDecoded(picture) == AsStored(IF picture.alpha THEN "RGBA" ELSE "RGB", picture)

PnmDecoded(picture) == AsStored("RGB", picture)

(* read_data_dxt1(): blocks of 4 x 4 pixels, one after the other, each      *)
(* written as if no row ended in it.  What lies beyond the last row is     *)
(* undefined, and left out.                                                *)
DdsDecoded(picture) ==
  LET w       == picture.size.width
      columns == CeilDiv(w, 4)
      blocks  == (0 .. 4 * columns - 1) \X (0 .. 4 * CeilDiv(picture.size.height, 4) - 1)
      Turn(c) == 16 * ((c[2] \div 4) * columns + (c[1] \div 4)) + 4 * (c[2] % 4) + (c[1] % 4)
      Last(x, y) == LET written == {c \in blocks : c[2] * w + c[1] = y * w + x}
                    IN  CHOOSE c \in written : \A d \in written : Turn(d) <= Turn(c)
  IN  Surface("RGBA", picture.size, LAMBDA x, y : {Last(x, y)} \cap Cells(picture.size))

(* What the programs write is decoded in its turn. *)
XcfDecoded(picture)      == PngDecoded(picture)
KraDecoded(picture)      == PngDecoded(picture)
RsvgDecoded(picture)     == PngDecoded(picture)
VidThumbDecoded(picture) == PngDecoded(picture)
UFRawDecoded(picture)    == PnmDecoded(picture)

(* libjpeg averages blocks of d x d, and the last ones are not whole. *)
JpegDecoded(picture, d) ==
  Surface("RGB", Size(CeilDiv(picture.size.width, d), CeilDiv(picture.size.height, d)),
          LAMBDA x, y : {c \in Cells(picture.size) : c[1] \div d = x /\ c[2] \div d = y})

(* Mutant of Modifier: the two quarter turns swapped. *)
ModifierSwapped(tag) ==
  CASE tag = 2 -> "Rot180Flip"
    [] tag = 3 -> "Rot180"
    [] tag = 4 -> "Rot0Flip"
    [] tag = 5 -> "Rot270Flip"
    [] tag = 6 -> "Rot270"
    [] tag = 7 -> "Rot90Flip"
    [] tag = 8 -> "Rot90"
    [] OTHER   -> "Rot0"

Modifier(tag) ==
  CASE tag = 2 -> "Rot180Flip"
    [] tag = 3 -> "Rot180"
    [] tag = 4 -> "Rot0Flip"
    [] tag = 5 -> "Rot270Flip"
    [] tag = 6 -> "Rot90"
    [] tag = 7 -> "Rot90Flip"
    [] tag = 8 -> "Rot270"
    [] OTHER   -> "Rot0"

apply_orientation(modifier, size) ==
  IF modifier \in {"Rot90", "Rot90Flip", "Rot270", "Rot270Flip"} THEN Turned(size) ELSE size

JpegSize(picture) == apply_orientation(Modifier(picture.orientation), picture.size)

JpegLoaded(picture, d) == Transformed(JpegDecoded(picture, d), Modifier(picture.orientation))

-----------------------------------------------------------------------------
(* Scales and tiles *)

Halvings[n \in Nat] == IF n <= ThumbSize THEN 0 ELSE 1 + Halvings[n \div 2]

(* FileEntry::get_thumbnail_scale() *)
ThumbnailScale(size) == Halvings[Greater(size.width, size.height)]

(* The scales a FileEntryGenerationJob cuts. *)
NewScales(jpeg, size) ==
  LET thumb == ThumbnailScale(size)
  IN  [min |-> IF jpeg THEN Lesser(Greater(0, thumb - Ahead), JpegPower) ELSE 0, max |-> thumb]

JpegFactor(min_scale) == Lesser(2 ^ min_scale, 2 ^ JpegPower)

(* cut_into_tiles(): what a JPEG is larger by one pixel does not matter. *)
Fitted(s, original, min_scale) ==
  LET target == Shrunk(original, 2 ^ min_scale)
      close  == /\ s.size.width - target.width \in {0, 1}
                /\ s.size.height - target.height \in {0, 1}
  IN  IF close THEN s ELSE Scaled(s, target)

(* What is read of what was written: a JPEG has no alpha. *)
JpegSaved(s) == ToRgb(s)
PngSaved(s)  == s

(* The tile as it is in the database. *)
Stored(s) == IF s.format = "RGB" THEN JpegSaved(s) ELSE PngSaved(s)

(* The tiles of one turn of its loop: at <<scale, x, y>>. *)
CutTiles(s, scale) ==
  LET across == CeilDiv(s.size.width, TileSize)
      down   == CeilDiv(s.size.height, TileSize)
  IN  [tile \in {scale} \X (0 .. across - 1) \X (0 .. down - 1) |->
        Stored(Cropped(s, RectOf(Vec(tile[2] * TileSize, tile[3] * TileSize),
                                 Size(TileSize, TileSize))))]

(* export_images(): the first scale at which one of the sides is no larger *)
(* than wished, put together from the tiles there are.                     *)
ExportScale(size, wish) ==
  CHOOSE s \in 0 .. size.width :
    /\ \A r \in 0 .. s - 1 : LET z == Shrunk(size, 2 ^ r) IN z.width > wish /\ z.height > wish
    /\ LET z == Shrunk(size, 2 ^ s) IN ~(z.width > wish /\ z.height > wish)

Exported(tiles, size, wish) ==
  LET scale  == ExportScale(size, wish)
      target == Created("RGB", Shrunk(size, 2 ^ scale))
      there  == {t \in DOMAIN tiles :
                   /\ t[1] = scale
                   /\ t[2] < CeilDiv(target.size.width, TileSize)
                   /\ t[3] < CeilDiv(target.size.height, TileSize)}
      Blit(t, dst) == Blitted(tiles[t], dst, Vec(t[2] * TileSize, t[3] * TileSize))
  IN  JpegSaved(FoldSet(Blit, target, there))

-----------------------------------------------------------------------------
(* The tiles on the screen: image_renderer.cpp, image_tile_cache.cpp.  A    *)
(* cache is a function from <<scale, x, y>> to tiles, a place is one of    *)
(* the picture in its full size.                                           *)

Vertex(size, scale, x, y) ==
  Vec(Lesser(x * TileSize * 2 ^ scale, size.width), Lesser(y * TileSize * 2 ^ scale, size.height))

Quad(size, tile) ==
  LET from == Vertex(size, tile[1], tile[2], tile[3])
      to   == Vertex(size, tile[1], tile[2] + 1, tile[3] + 1)
  IN  [left |-> from.x, top |-> from.y, right |-> to.x, bottom |-> to.y]

(* A part of a surface drawn onto a quad: what is to be seen at a place.   *)
Sampled(s, part, quad, p) ==
  LET Texel(n, limit, from, length, to, breadth) ==
        Lesser(limit - 1, from + ((n - to) * length) \div breadth)
  IN  s.at[<<Texel(p.x, s.size.width, part.left, Width(part), quad.left, Width(quad)),
             Texel(p.y, s.size.height, part.top, Height(part), quad.top, Height(quad))>>]

(* What the tile shows of a tile that is smaller by d. *)
Subsection(s, tile, d) ==
  LET left == ((tile[2] % d) * TileSize) \div d
      top  == ((tile[3] % d) * TileSize) \div d
  IN  [left |-> left, top |-> top,
       right  |-> Lesser(left + TileSize \div d, s.size.width),
       bottom |-> Lesser(top + TileSize \div d, s.size.height)]

(* find_smaller_tile(): how much smaller, 0 if there is none; it never     *)
(* looks max_scale scales further.                                         *)
SmallerBy(cache, tile, max_scale) ==
  LET there == {k \in 1 .. max_scale - 1 :
                  <<tile[1] + k, tile[2] \div 2 ^ k, tile[3] \div 2 ^ k>> \in DOMAIN cache}
  IN  IF there = {} THEN 0 ELSE Min(there)

(* draw_tile(): the tile, or what there is of the four finer ones, and     *)
(* where one of them is missing a smaller one.                             *)
Drawn(cache, size, tile, p) ==
  LET Whole(t) == Sampled(cache[t], RectOf(Vec(0, 0), cache[t].size), Quad(size, t), p)
      half  == TileSize * 2 ^ (tile[1] - 1)
      finer == <<tile[1] - 1, p.x \div half, p.y \div half>>
      k     == SmallerBy(cache, tile, ThumbnailScale(size))
      small == <<tile[1] + k, tile[2] \div 2 ^ k, tile[3] \div 2 ^ k>>
  IN  IF tile \in DOMAIN cache THEN Whole(tile)
      ELSE IF tile[1] > 0 /\ finer \in DOMAIN cache THEN Whole(finer)
      ELSE IF k > 0
        THEN Sampled(cache[small], Subsection(cache[small], tile, 2 ^ k), Quad(size, tile), p)
        ELSE {}
===============================================================================
