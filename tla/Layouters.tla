------------------------------ MODULE Layouters ------------------------------
(***************************************************************************)
(* The layouters of src/galapix: where they put images of given sizes.  A  *)
(* place is the centre and the scale of an image; scales are in units of   *)
(* 1/64, so that 64 is 1.0 and 250 fits the 256 pixels of an image whose   *)
(* size is not known into the 1000 units of a cell.                        *)
(***************************************************************************)
EXTENDS Geometry, SequencesExt

Unit    == 64    \* the scale 1.0
Cell    == 1000  \* the room of an image in a layout
Pitch   == 1024  \* from cell to cell
Spacing == 24    \* between rows and images of the tight layout

Scaled(size, scale) == Size((size.width * scale) \div Unit, (size.height * scale) \div Unit)

(* Mutant of FitCell: the shorter side fits. *)
FitCellShort(size) == Greater((Cell * Unit) \div size.width, (Cell * Unit) \div size.height)

FitCell(size) == Lesser((Cell * Unit) \div size.width, (Cell * Unit) \div size.height)

Place(pos, scale) == [pos |-> pos, scale |-> scale]

-----------------------------------------------------------------------------
(* RegularLayouter: rows of w cells, every other one from right to left.   *)

RegularWidth(n, aspect) == Root((aspect.width * n) \div aspect.height)

Regular(sizes, aspect) ==
  LET w == RegularWidth(Len(sizes), aspect)
      Column(i) == IF (i \div w) % 2 = 0 THEN i % w ELSE w - (i % w) - 1
  IN  [i \in 1 .. Len(sizes) |->
         Place(Times(Vec(Column(i - 1), (i - 1) \div w), Pitch, 1), FitCell(sizes[i]))]

-----------------------------------------------------------------------------
(* SpiralLayouter: rings of cells around the first two.                    *)

SpiralStart == [x |-> 1, y |-> 0, ring |-> 0, direction |-> "down"]

Advance(s) ==
  LET first == -s.ring
      last  == s.ring + 1
  IN  CASE s.direction = "right" ->
             IF s.x = last THEN [s EXCEPT !.direction = "down", !.y = @ + 1]
                           ELSE [s EXCEPT !.x = @ + 1]
        [] s.direction = "down" ->
             IF s.y = last THEN [s EXCEPT !.direction = "left", !.x = @ - 1]
                           ELSE [s EXCEPT !.y = @ + 1]
        [] s.direction = "left" ->
             IF s.x = first THEN [s EXCEPT !.direction = "up", !.y = @ - 1]
                            ELSE [s EXCEPT !.x = @ - 1]
        [] s.direction = "up" ->
             IF s.y = first - 1 THEN [s EXCEPT !.direction = "right", !.x = @ + 1, !.ring = @ + 1]
                                ELSE [s EXCEPT !.y = @ - 1]

Spiral(sizes) ==
  LET at[i \in 1 .. Len(sizes)] == IF i = 1 THEN SpiralStart ELSE Advance(at[i - 1])
  IN  [i \in 1 .. Len(sizes) |->
         Place(Times(Vec(at[i].x, at[i].y), Pitch, 1), FitCell(sizes[i]))]

-----------------------------------------------------------------------------
(* TightLayouter: rows of one height, to the right and back to the left.   *)
(* The width of a row is the root of what TightArea computes.              *)

TightScale(size) == (Cell * Unit) \div size.height
TightWidth(size) == (size.width * TightScale(size)) \div Unit

TightArea(sizes, aspect) ==
  LET total == FoldFunction(LAMBDA s, sum : sum + (s.width * Pitch) \div s.height, 0, sizes)
  IN  ((total * Pitch) \div aspect.height) * aspect.width

TightNext(row, size, area) ==
  LET w == TightWidth(size)
      full == IF row.go_right THEN (row.x + w) * (row.x + w) > area ELSE row.x - w < 0
      x == CASE row.go_right /\ full -> row.last
             [] ~row.go_right /\ ~full -> row.x - w - Spacing
             [] OTHER -> row.x
      y == IF full THEN row.y + Cell + Spacing ELSE row.y
      go_right == IF full THEN ~row.go_right ELSE row.go_right
      centre == Plus(Vec(x, y), Vec(w \div 2, Cell \div 2))
  IN  [x |-> IF go_right THEN x + w + Spacing ELSE x, y |-> y, last |-> x, go_right |-> go_right,
       places |-> Append(row.places, Place(centre, TightScale(size)))]

TightStart == [x |-> 0, y |-> 0, last |-> 0, go_right |-> TRUE, places |-> <<>>]

Tight(sizes, aspect) ==
  LET area == TightArea(sizes, aspect)
      row[k \in 0 .. Len(sizes)] ==
        IF k = 0 THEN TightStart ELSE TightNext(row[k - 1], sizes[k], area)
  IN  row[Len(sizes)].places
===============================================================================
