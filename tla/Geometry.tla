------------------------------- MODULE Geometry -------------------------------
(***************************************************************************)
(* src/math: vectors, sizes and rectangles, in integers.  The float and    *)
(* the int classes of the code are one here, and a division rounds down.   *)
(***************************************************************************)
EXTENDS Integers, Sequences, FiniteSetsExt

Vec(x, y)      == [x |-> x, y |-> y]
Plus(p, q)     == Vec(p.x + q.x, p.y + q.y)
Minus(p, q)    == Vec(p.x - q.x, p.y - q.y)
Times(p, n, d) == Vec((p.x * n) \div d, (p.y * n) \div d)  \* by the fraction n/d

(* Vector2f::rotate() by quarters of a turn. *)
Rotated(p, quarters) ==
  CASE quarters % 4 = 0 -> p
    [] quarters % 4 = 1 -> Vec(-p.y, p.x)
    [] quarters % 4 = 2 -> Vec(-p.x, -p.y)
    [] quarters % 4 = 3 -> Vec(p.y, -p.x)

(* The integer root, and length(). *)
Root(n) ==
  LET root[i \in 0 .. n] ==
        IF i = 0 THEN 0
        ELSE LET r == 2 * root[i \div 4] IN IF (r + 1) * (r + 1) <= i THEN r + 1 ELSE r
  IN  root[n]

Length(p) == Root(p.x * p.x + p.y * p.y)

Size(w, h) == [width |-> w, height |-> h]

Lesser(a, b)  == IF a < b THEN a ELSE b
Greater(a, b) == IF a > b THEN a ELSE b

(* A rectangle from its corners, or from its top left corner and its size. *)
Rect(p, q)      == [left |-> p.x, top |-> p.y, right |-> q.x, bottom |-> q.y]
RectOf(p, size) == Rect(p, Plus(p, Vec(size.width, size.height)))

Width(r)  == r.right - r.left
Height(r) == r.bottom - r.top
Center(r) == Vec((r.left + r.right) \div 2, (r.top + r.bottom) \div 2)

Overlapped(r, s) ==
  s.left < r.right /\ s.right > r.left /\ s.top < r.bottom /\ s.bottom > r.top

ContainsPoint(r, p) == p.x >= r.left /\ p.y >= r.top /\ p.x <= r.right /\ p.y <= r.bottom

ContainsRect(r, s) ==
  r.left <= s.left /\ r.right >= s.right /\ r.top <= s.top /\ r.bottom >= s.bottom

Normalized(r) ==
  Rect(Vec(Lesser(r.left, r.right), Lesser(r.top, r.bottom)),
       Vec(Greater(r.left, r.right), Greater(r.top, r.bottom)))

ClipTo(r, s) ==
  Rect(Vec(Greater(r.left, s.left), Greater(r.top, s.top)),
       Vec(Lesser(r.right, s.right), Lesser(r.bottom, s.bottom)))

Grown(r, x, y) == Rect(Vec(r.left - x, r.top - y), Vec(r.right + x, r.bottom + y))

(* The smallest rectangle around a nonempty set of them. *)
Bounding(rects) ==
  Rect(Vec(Min({r.left : r \in rects}), Min({r.top : r \in rects})),
       Vec(Max({r.right : r \in rects}), Max({r.bottom : r \in rects})))
===============================================================================
