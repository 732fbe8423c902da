------------------------------ MODULE ScreenProofs ------------------------------
(***************************************************************************)
(* What is on the screen: theorems about the viewer and its workspace, for *)
(* every number of images, every size of pictures and of the window, every *)
(* place of the mouse and every order of events; and, at the end, theorems *)
(* about one image of any number of tiles.                                 *)
(*                                                                         *)
(* The first part goes from numbers (Gcd, Root, division) over images, the *)
(* loops of the workspace and the layouters to the view; then every event  *)
(* is shown to keep ViewerInvariant, of which the viewer's properties      *)
(* follow.                                                                 *)
(***************************************************************************)
EXTENDS Viewer, Image, FiniteSetTheorems, SequenceTheorems, WellFoundedInduction, TLAPS

-----------------------------------------------------------------------------
(* Induction *)

(* A set of numbers has a smallest one.                                    *)
LEMMA Smallest ==
  ASSUME NEW S, S \subseteq Nat, S # {}
  PROVE  \E k \in S : \A n \in S : k <= n
  <1> DEFINE R == StrictSubsetOrdering(Nat)
             T == {0 .. n : n \in S}
  <1>1. T # {} /\ T \subseteq FiniteSubsetsOf(Nat)
    <2>1. \A n \in S : IsFiniteSet(0 .. n) /\ (0 .. n) \subseteq Nat
      BY FS_Interval
    <2>2. QED
      BY <2>1 DEF FiniteSubsetsOf
  <1>2. IsWellFoundedOn(R, FiniteSubsetsOf(Nat))
    BY FS_StrictSubsetOrderingWellFounded
  <1> HIDE DEF R, T
  <1>3. PICK x \in T : \A y \in T : ~(<<y, x>> \in R)
    BY ONLY <1>1, <1>2, WFMin
  <1>4. PICK m \in S : x = 0 .. m
    BY <1>3 DEF T
  <1>5. ASSUME NEW n \in S, ~(m <= n) PROVE FALSE
    <2>1. 0 .. n \in T
      BY DEF T
    <2>2. (0 .. n) \subseteq (0 .. m) /\ m \in (0 .. m) /\ m \notin (0 .. n)
      BY <1>5
    <2>3. (0 .. n) \in SUBSET Nat /\ (0 .. m) \in SUBSET Nat
      OBVIOUS
    <2>4. <<0 .. n, 0 .. m>> \in R
      BY <2>2, <2>3 DEF R, StrictSubsetOrdering
    <2>5. QED
      BY <1>3, <1>4, <2>1, <2>4
  <1>6. QED
    BY <1>5

(* What holds of 0 and, with a number, of the next one, holds of all.      *)
LEMMA Induction ==
  ASSUME NEW S, 0 \in S, \A n \in Nat : n \in S => n + 1 \in S
  PROVE  \A n \in Nat : n \in S
  <1> SUFFICES ASSUME Nat \ S # {} PROVE FALSE
    OBVIOUS
  <1>1. PICK k \in Nat \ S : \A n \in Nat \ S : k <= n
    BY Smallest
  <1>2. k # 0 /\ k - 1 \in Nat
    OBVIOUS
  <1>3. k - 1 \in S
    BY <1>1, <1>2
  <1>4. (k - 1) + 1 \in S
    BY ONLY <1>2, <1>3, \A n \in Nat : n \in S => n + 1 \in S
  <1>5. QED
    BY <1>4

(* What holds of a number when it holds of all before, holds of all.       *)
LEMMA StrongInduction ==
  ASSUME NEW S, \A n \in Nat : (\A m \in 0 .. n - 1 : m \in S) => n \in S
  PROVE  \A n \in Nat : n \in S
  <1> SUFFICES ASSUME Nat \ S # {} PROVE FALSE
    OBVIOUS
  <1>1. PICK k \in Nat \ S : \A n \in Nat \ S : k <= n
    BY Smallest
  <1>2. \A m \in 0 .. k - 1 : m \in S
    BY <1>1
  <1>3. QED
    BY <1>2

(* Of finitely many numbers one is the lowest, and one the highest.        *)
LEMMA LowestOf ==
  \A n \in Nat : \A f \in [Nat -> Int] : \E k \in 1 .. n + 1 : \A j \in 1 .. n + 1 : f[k] <= f[j]
  <1> DEFINE Lowest(n) == \A f \in [Nat -> Int] : \E k \in 1 .. n + 1 : \A j \in 1 .. n + 1 : f[k] <= f[j]
             S == {n \in Nat : Lowest(n)}
  <1>1. 0 \in S
    OBVIOUS
  <1>2. ASSUME NEW n \in Nat, n \in S PROVE n + 1 \in S
    <2> SUFFICES ASSUME NEW f \in [Nat -> Int]
                 PROVE  \E k \in 1 .. (n + 1) + 1 : \A j \in 1 .. (n + 1) + 1 : f[k] <= f[j]
      OBVIOUS
    <2>1. PICK k \in 1 .. n + 1 : \A j \in 1 .. n + 1 : f[k] <= f[j]
      BY <1>2
    <2>2. CASE f[k] <= f[n + 2]
      BY <2>1, <2>2
    <2>3. CASE ~(f[k] <= f[n + 2])
      <3>1. \A j \in 1 .. n + 2 : f[n + 2] <= f[j]
        BY <2>1, <2>3
      <3>2. QED
        BY <3>1
    <2>4. QED
      BY <2>2, <2>3
  <1> HIDE DEF S
  <1>3. \A n \in Nat : n \in S
    BY <1>1, <1>2, Induction
  <1>4. QED
    BY <1>3 DEF S

(* Among the first numbers of a sequence one is highest.                   *)
LEMMA HighestOf ==
  \A n \in Nat : \A f \in [Nat -> Int] : \E k \in 1 .. n + 1 : \A j \in 1 .. n + 1 : f[k] >= f[j]
  <1> SUFFICES ASSUME NEW n \in Nat, NEW f \in [Nat -> Int]
               PROVE  \E k \in 1 .. n + 1 : \A j \in 1 .. n + 1 : f[k] >= f[j]
    OBVIOUS
  <1> DEFINE g == [k \in Nat |-> -f[k]]
  <1>1. g \in [Nat -> Int]
    OBVIOUS
  <1>2. PICK k \in 1 .. n + 1 : \A j \in 1 .. n + 1 : g[k] <= g[j]
    BY <1>1, LowestOf
  <1>3. ASSUME NEW j \in 1 .. n + 1 PROVE f[k] >= f[j]
    <2>1. g[k] = -f[k] /\ g[j] = -f[j] /\ g[k] <= g[j]
      BY <1>2
    <2>2. f[k] \in Int /\ f[j] \in Int
      OBVIOUS
    <2>3. QED
      BY ONLY <2>1, <2>2
  <1>4. QED
    BY <1>3

-----------------------------------------------------------------------------
(* Numbers *)

(* Division rounds down.                                                   *)
LEMMA Division ==
  ASSUME NEW a \in Int, NEW d \in Nat \ {0}
  PROVE  a \div d \in Int /\ d * (a \div d) <= a /\ a < d * (a \div d) + d
  OBVIOUS

(* The quotient of natural numbers is one.                                 *)
LEMMA NaturalDivision ==
  ASSUME NEW a \in Nat, NEW d \in Nat \ {0}
  PROVE  a \div d \in Nat /\ d * (a \div d) <= a /\ a < d * (a \div d) + d
  BY Division

(* A number is the divisor times the quotient, and the remainder.          *)
LEMMA Remainder ==
  ASSUME NEW a \in Nat, NEW d \in Nat \ {0}
  PROVE  a % d \in 0 .. d - 1 /\ a = d * (a \div d) + (a % d)
  OBVIOUS

(* The root of a number is one.                                            *)
LEMMA RootNatural ==
  ASSUME NEW n \in Nat PROVE Root(n) \in Nat
  <1> DEFINE Next0(q, i) == IF (q + 1) * (q + 1) <= i THEN q + 1 ELSE q
             Roots(r, k) == r = [i \in 0 .. k |-> IF i = 0 THEN 0 ELSE Next0(2 * r[i \div 4], i)]
             S == {k \in Nat : \E r : Roots(r, k)}
  <1>1. 0 \in S
    <2>1. Roots([i \in 0 .. 0 |-> 0], 0)
      OBVIOUS
    <2>2. QED
      BY <2>1
  <1>2. ASSUME NEW k \in Nat, k \in S PROVE k + 1 \in S
    <2>1. PICK r : Roots(r, k)
      BY <1>2
    <2> DEFINE s == [i \in 0 .. k + 1 |-> IF i = k + 1 THEN Next0(2 * r[(k + 1) \div 4], k + 1) ELSE r[i]]
    <2>2. \A i \in 1 .. k + 1 : i \div 4 \in 0 .. k /\ i \div 4 < i
      OBVIOUS
    <2> HIDE DEF Next0
    <2>3. \A i \in 0 .. k + 1 : s[i] = IF i = 0 THEN 0 ELSE Next0(2 * s[i \div 4], i)
      BY <2>1, <2>2
    <2> HIDE DEF s
    <2>4. s = [i \in 0 .. k + 1 |-> s[i]]
      BY DEF s
    <2>4a. Roots(s, k + 1)
      BY <2>3, <2>4
    <2>5. QED
      BY <2>4a
  <1> HIDE DEF S
  <1>3. n \in S
    BY <1>1, <1>2, Induction
  <1>4. PICK r : Roots(r, n)
    BY <1>3 DEF S
  <1> DEFINE root == CHOOSE f : Roots(f, n)
  <1>5. Roots(root, n)
    BY <1>4
  <1> HIDE DEF root
  <1> DEFINE T == {i \in Nat : i \in 0 .. n => root[i] \in Nat}
  <1>6. ASSUME NEW i \in Nat, \A m \in 0 .. i - 1 : m \in T PROVE i \in T
    <2> SUFFICES ASSUME i \in 0 .. n, i # 0 PROVE root[i] \in Nat
      BY <1>5
    <2>1. i \div 4 \in 0 .. i - 1
      OBVIOUS
    <2>2. root[i \div 4] \in Nat
      BY <1>6, <2>1
    <2>3. root[i] = Next0(2 * root[i \div 4], i)
      BY <1>5
    <2>4. QED
      BY <2>2, <2>3
  <1> HIDE DEF T
  <1>7. n \in T
    BY <1>6, StrongInduction
  <1>8. Root(n) = root[n]
    BY DEF Root, root
  <1>9. QED
    BY <1>7, <1>8 DEF T

(* Min and Max of as many numbers as are counted.                          *)
LEMMA Extremes ==
  ASSUME NEW n \in Nat \ {0}, NEW f, \A k \in 1 .. n : f[k] \in Int,
         NEW T, T = {f[k] : k \in 1 .. n}
  PROVE  /\ Min(T) \in T /\ \A x \in T : Min(T) <= x
         /\ Max(T) \in T /\ \A x \in T : Max(T) >= x
         /\ T \subseteq Int
  <1> DEFINE g == [k \in Nat |-> IF k \in 1 .. n THEN f[k] ELSE 0]
  <1>1. g \in [Nat -> Int] /\ \A k \in 1 .. n : g[k] = f[k]
    OBVIOUS
  <1>2. n - 1 \in Nat /\ (n - 1) + 1 = n
    OBVIOUS
  <1> HIDE DEF g
  <1>3. PICK k \in 1 .. n : \A j \in 1 .. n : g[k] <= g[j]
    BY <1>1, <1>2, LowestOf
  <1>4. PICK m \in 1 .. n : \A j \in 1 .. n : g[m] >= g[j]
    BY <1>1, <1>2, HighestOf
  <1>5. \E x \in T : \A y \in T : x <= y
    BY <1>1, <1>3
  <1>6. \E x \in T : \A y \in T : x >= y
    BY <1>1, <1>4
  <1>7. QED
    BY <1>5, <1>6 DEF Min, Max

(* What a number is multiplied and divided by goes away.                   *)
LEMMA Cancels ==
  ASSUME NEW g \in Nat, g > 0, NEW x \in Nat PROVE (g * x) \div g = x
  <1> DEFINE q == (g * x) \div g
  <1>1. q \in Int /\ g * q <= g * x /\ g * x < g * q + g
    BY Division
  <1> HIDE DEF q
  <1>2. q <= x
    BY <1>1
  <1>3. x < q + 1
    BY <1>1
  <1>4. QED
    BY <1>1, <1>2, <1>3 DEF q

(* Gcd() divides both of its numbers.                                      *)
LEMMA GcdDivides ==
  ASSUME NEW m \in Nat, NEW n \in Nat, m > 0, n > 0
  PROVE  /\ Gcd(m, n) \in Nat /\ Gcd(m, n) > 0
         /\ \E x \in Nat : m = Gcd(m, n) * x
         /\ \E x \in Nat : n = Gcd(m, n) * x
  <1> DEFINE Step(f, k) == [j \in Nat |-> IF k = 0 THEN j ELSE f[j % k][k]]
             Euclid(f, k) == f = [i \in 0 .. k |-> Step(f, i)]
             S == {k \in Nat : \E f : Euclid(f, k)}
             Divisor(d, k, j) == /\ d \in Nat /\ d > 0
                                 /\ \E x \in Nat : j = d * x
                                 /\ \E x \in Nat : k = d * x
  <1>1. 0 \in S
    <2>1. Euclid([i \in 0 .. 0 |-> [j \in Nat |-> j]], 0)
      OBVIOUS
    <2>2. QED
      BY <2>1
  <1>2. ASSUME NEW k \in Nat, k \in S PROVE k + 1 \in S
    <2>1. PICK f : Euclid(f, k)
      BY <1>2
    <2> DEFINE h == [i \in 0 .. k + 1 |-> IF i = k + 1 THEN Step(f, k + 1) ELSE f[i]]
    <2>2. \A i \in 0 .. k : h[i] = f[i]
      OBVIOUS
    <2> HIDE DEF Step
    <2>3. ASSUME NEW i \in 0 .. k + 1 PROVE h[i] = Step(h, i)
      <3>1. h[i] = Step(f, i)
        BY <2>1
      <3>2. ASSUME NEW j \in Nat, i # 0 PROVE f[j % i][i] = h[j % i][i]
        <4>1. j % i \in 0 .. k
          BY <3>2, Remainder
        <4>2. QED
          BY <4>1, <2>2
      <3>3. QED
        BY <3>1, <3>2 DEF Step
    <2>4. h = [i \in 0 .. k + 1 |-> h[i]]
      OBVIOUS
    <2> HIDE DEF h
    <2>5. Euclid(h, k + 1)
      BY <2>3, <2>4
    <2>6. QED
      BY <2>5
  <1> HIDE DEF S
  <1>3. n \in S
    BY <1>1, <1>2, Induction
  <1>4. PICK e : Euclid(e, n)
    BY <1>3 DEF S
  <1> DEFINE gcd == CHOOSE f : Euclid(f, n)
  <1>5. Euclid(gcd, n)
    BY <1>4
  <1> HIDE DEF gcd
  <1> DEFINE T == {k \in Nat : k \in 0 .. n => \A j \in Nat : k + j > 0 => Divisor(gcd[k][j], k, j)}
  <1>6. ASSUME NEW k \in Nat, \A i \in 0 .. k - 1 : i \in T PROVE k \in T
    <2> SUFFICES ASSUME k \in 0 .. n, NEW j \in Nat, k + j > 0 PROVE Divisor(gcd[k][j], k, j)
      OBVIOUS
    <2>1. CASE k = 0
      <3>1. gcd[k][j] = j
        BY <1>5, <2>1
      <3>2. j = j * 1 /\ 0 = j * 0 /\ j > 0
        BY <2>1
      <3>3. QED
        BY <2>1, <3>1, <3>2
    <2>2. CASE k # 0
      <3> DEFINE r == j % k
                 q == j \div k
                 d == gcd[r][k]
      <3>1. r \in 0 .. k - 1 /\ j = k * q + r
        BY <2>2, Remainder
      <3>2. q \in Nat
        BY <2>2, NaturalDivision
      <3>3. gcd[k][j] = d
        BY <1>5, <2>2
      <3>4. Divisor(d, r, k)
        BY <1>6, <3>1, <2>2
      <3> HIDE DEF r, q, d
      <3>5. PICK x \in Nat : k = d * x
        BY <3>4
      <3>6. PICK y \in Nat : r = d * y
        BY <3>4
      <3>7. x * q + y \in Nat
        BY <3>2
      <3>8. j = d * (x * q + y)
        <4>1. d \in Nat
          BY <3>4
        <4>2. (d * x) * q + d * y = d * (x * q + y)
          BY ONLY <4>1, <3>2
        <4>3. QED
          BY ONLY <4>2, <3>1, <3>5, <3>6
      <3>9. QED
        BY <3>3, <3>4, <3>5, <3>7, <3>8
    <2>3. QED
      BY <2>1, <2>2
  <1> HIDE DEF T
  <1>7. n \in T
    BY <1>6, StrongInduction
  <1>8. Gcd(m, n) = gcd[n][m]
    BY DEF Gcd, gcd
  <1>9. Divisor(gcd[n][m], n, m)
    BY <1>7 DEF T
  <1>10. QED
    BY <1>8, <1>9

(* A scale n/d is brought to lowest terms without changing it.             *)
LEMMA Lowered ==
  ASSUME NEW n \in Nat, NEW d \in Nat, n > 0, d > 0
  PROVE  /\ n \div Gcd(n, d) \in Nat /\ n \div Gcd(n, d) > 0
         /\ d \div Gcd(n, d) \in Nat /\ d \div Gcd(n, d) > 0
         /\ n * (d \div Gcd(n, d)) = d * (n \div Gcd(n, d))
  <1> DEFINE g == Gcd(n, d)
  <1>1. g \in Nat /\ g > 0
    BY GcdDivides
  <1>2. PICK x \in Nat : n = g * x
    BY GcdDivides
  <1>3. PICK y \in Nat : d = g * y
    BY GcdDivides
  <1> HIDE DEF g
  <1>4. n \div g = x /\ d \div g = y
    BY <1>1, <1>2, <1>3, Cancels
  <1>5. x > 0 /\ y > 0
    BY <1>1, <1>2, <1>3
  <1>6. n * y = d * x
    BY <1>1, <1>2, <1>3
  <1>7. QED
    BY <1>4, <1>5, <1>6 DEF g

-----------------------------------------------------------------------------
(* Images *)

Point  == [x : Int, y : Int]
Extent == [width : Nat \ {0}, height : Nat \ {0}]
Box    == [left : Int, top : Int, right : Int, bottom : Int]

PicturesOf(url) ==
  [url : {url}, size : Extent, provided : BOOLEAN, requested : BOOLEAN, replies : Nat,
   queued : BOOLEAN, pos : Point, last_pos : Point, target_pos : Point,
   scale : Nat, last_scale : Nat, target_scale : Nat, rect : Box]

GoodPic(pic) == pic \in PicturesOf(pic.url) /\ pic.rect = ImageRect(pic)
AtRest(pic)  == pic.pos = pic.target_pos /\ pic.scale = pic.target_scale

(* What is done to an image that leaves it where it was sent to.           *)
Keeps(pic, now) == GoodPic(now) /\ now.url = pic.url /\ (AtRest(pic) => AtRest(now))

(* A picture of a url has that url.                                        *)
LEMMA UrlOf == ASSUME NEW url, NEW pic \in PicturesOf(url) PROVE pic.url = url
  BY DEF PicturesOf

(* Points can be added and subtracted.                                     *)
LEMMA Vectors ==
  ASSUME NEW p \in Point, NEW q \in Point
  PROVE  Plus(p, q) \in Point /\ Minus(p, q) \in Point
  BY DEF Point, Plus, Minus, Vec

(* A point times a fraction is a point.                                    *)
LEMMA Multiples ==
  ASSUME NEW p \in Point, NEW n \in Int, NEW d \in Nat \ {0}
  PROVE  Times(p, n, d) \in Point
  <1>1. (p.x * n) \div d \in Int /\ (p.y * n) \div d \in Int
    BY DEF Point
  <1>2. QED
    BY <1>1 DEF Point, Times, Vec

(* The size of a scaled picture is no less than nothing.                   *)
LEMMA ScaledSize ==
  ASSUME NEW size \in Extent, NEW s \in Nat
  PROVE  Scaled(size, s).width \in Nat /\ Scaled(size, s).height \in Nat
  BY DEF Scaled, Extent, Unit, Size

(* The rectangle of an image has a width and a height.                     *)
LEMMA ImageRectBox ==
  ASSUME NEW url, NEW pic \in PicturesOf(url)
  PROVE  ImageRect(pic) \in Box /\ Width(ImageRect(pic)) \in Nat /\ Height(ImageRect(pic)) \in Nat
  <1>1. pic.pos \in Point /\ pic.size \in Extent /\ pic.scale \in Nat
    BY DEF PicturesOf
  <1>2. QED
    BY <1>1, ScaledSize DEF ImageRect, RectOf, Rect, Plus, Minus, Vec, Box, Point, Width, Height

(* Working out the rectangle changes nothing else of an image (image.cpp,  *)
(* get_image_rect).                                                        *)
LEMMA WithRectPic ==
  ASSUME NEW url, NEW pic \in PicturesOf(url)
  PROVE  /\ GoodPic(WithRect(pic)) /\ WithRect(pic) \in PicturesOf(url)
         /\ WithRect(pic).pos = pic.pos /\ WithRect(pic).target_pos = pic.target_pos
         /\ WithRect(pic).scale = pic.scale /\ WithRect(pic).target_scale = pic.target_scale
         /\ WithRect(pic).size = pic.size
  <1>1. WithRect(pic) \in PicturesOf(url)
    BY ImageRectBox DEF WithRect, PicturesOf
  <1>2. WithRect(pic).url = url
    BY <1>1 DEF PicturesOf
  <1>3. /\ WithRect(pic).pos = pic.pos /\ WithRect(pic).target_pos = pic.target_pos
        /\ WithRect(pic).scale = pic.scale /\ WithRect(pic).target_scale = pic.target_scale
        /\ WithRect(pic).size = pic.size /\ WithRect(pic).rect = ImageRect(pic)
    BY DEF WithRect, PicturesOf
  <1>4. QED
    BY <1>1, <1>2, <1>3 DEF GoodPic, ImageRect

(* An image that has just been made is at rest.                            *)
LEMMA NewImagePic ==
  ASSUME NEW url PROVE GoodPic(NewImage(url)) /\ AtRest(NewImage(url))
  <1> DEFINE pic == [url |-> url, size |-> DefaultSize, provided |-> FALSE,
                     requested |-> FALSE, replies |-> 0, queued |-> FALSE,
                     pos |-> Vec(0, 0), last_pos |-> Vec(0, 0), target_pos |-> Vec(0, 0),
                     scale |-> Unit, last_scale |-> Unit, target_scale |-> Unit,
                     rect |-> Rect(Vec(0, 0), Vec(0, 0))]
  <1>1. pic \in PicturesOf(url)
    BY DEF PicturesOf, Vec, Point, Rect, Box, DefaultSize, Extent, Unit, Size
  <1>2. pic.pos = pic.target_pos /\ pic.scale = pic.target_scale
    OBVIOUS
  <1>3. NewImage(url) = WithRect(pic)
    BY DEF NewImage
  <1> HIDE DEF pic
  <1>4. QED
    BY <1>1, <1>2, <1>3, WithRectPic DEF AtRest

(* set_pos() moves the image and where it is going to, and its rectangle   *)
(* with it.                                                                *)
LEMMA SetPosPic ==
  ASSUME NEW pic, GoodPic(pic), NEW p \in Point
  PROVE  /\ Keeps(pic, SetPos(pic, p)) /\ SetPos(pic, p) \in PicturesOf(pic.url)
         /\ SetPos(pic, p).pos = p /\ SetPos(pic, p).target_pos = p
         /\ SetPos(pic, p).scale = pic.scale /\ SetPos(pic, p).target_scale = pic.target_scale
  <1> DEFINE now == [pic EXCEPT !.pos = p, !.last_pos = p, !.target_pos = p]
  <1>1. pic \in PicturesOf(pic.url)
    BY DEF GoodPic
  <1>2. /\ now \in PicturesOf(pic.url)
        /\ now.pos = p /\ now.target_pos = p
        /\ now.scale = pic.scale /\ now.target_scale = pic.target_scale
    BY <1>1 DEF PicturesOf
  <1>3. SetPos(pic, p) = WithRect(now)
    BY DEF SetPos
  <1> HIDE DEF now
  <1>4. QED
    BY <1>2, <1>3, WithRectPic, UrlOf DEF Keeps, AtRest

(* set_scale() does the same with the scale.                               *)
LEMMA SetScalePic ==
  ASSUME NEW pic, GoodPic(pic), NEW s \in Nat
  PROVE  /\ Keeps(pic, SetScale(pic, s)) /\ SetScale(pic, s) \in PicturesOf(pic.url)
         /\ SetScale(pic, s).scale = s /\ SetScale(pic, s).target_scale = s
         /\ SetScale(pic, s).pos = pic.pos /\ SetScale(pic, s).target_pos = pic.target_pos
  <1> DEFINE now == [pic EXCEPT !.scale = s, !.last_scale = s, !.target_scale = s]
  <1>1. pic \in PicturesOf(pic.url)
    BY DEF GoodPic
  <1>2. /\ now \in PicturesOf(pic.url)
        /\ now.scale = s /\ now.target_scale = s
        /\ now.pos = pic.pos /\ now.target_pos = pic.target_pos
    BY <1>1 DEF PicturesOf
  <1>3. SetScale(pic, s) = WithRect(now)
    BY DEF SetScale
  <1> HIDE DEF now
  <1>4. QED
    BY <1>2, <1>3, WithRectPic, UrlOf DEF Keeps, AtRest

(* set_target_pos() and set_target_scale() leave the image where it is.    *)
LEMMA SetTargetPic ==
  ASSUME NEW pic, GoodPic(pic), NEW place \in [pos : Point, scale : Nat]
  PROVE  GoodPic(SetTarget(pic, place))
  <1>1. pic \in PicturesOf(pic.url) /\ pic.rect = ImageRect(pic)
    BY DEF GoodPic
  <1>2. SetTarget(pic, place) \in PicturesOf(pic.url)
    BY <1>1 DEF SetTarget, PicturesOf
  <1>3. /\ SetTarget(pic, place).pos = pic.pos /\ SetTarget(pic, place).scale = pic.scale
        /\ SetTarget(pic, place).size = pic.size /\ SetTarget(pic, place).rect = pic.rect
        /\ SetTarget(pic, place).url = pic.url
    BY <1>1 DEF SetTarget, PicturesOf
  <1>4. QED
    BY <1>1, <1>2, <1>3 DEF GoodPic, ImageRect

(* update_pos() moves an image and its rectangle; when the movement is     *)
(* over the image is at its target.                                        *)
LEMMA UpdatePosPic ==
  ASSUME NEW pic, GoodPic(pic), NEW now
  PROVE  GoodPic(UpdatePos(pic, now)) /\ (now = Finished => AtRest(UpdatePos(pic, now)))
  <1>1. pic \in PicturesOf(pic.url)
    BY DEF GoodPic
  <1>2. /\ pic.target_pos \in Point /\ pic.last_pos \in Point
        /\ pic.target_scale \in Nat /\ pic.last_scale \in Nat
    BY <1>1 DEF PicturesOf
  <1>3. CASE now = Finished
    <2> DEFINE moved == SetPos(pic, pic.target_pos)
    <2>1. GoodPic(moved) /\ moved.pos = pic.target_pos /\ moved.target_pos = pic.target_pos
      BY <1>2, SetPosPic DEF Keeps
    <2>2. UpdatePos(pic, now) = SetScale(moved, pic.target_scale)
      BY <1>3 DEF UpdatePos
    <2> HIDE DEF moved
    <2>3. QED
      BY <1>2, <2>1, <2>2, SetScalePic DEF Keeps, AtRest
  <1>4. CASE now # Finished
    <2> DEFINE p == Times(Plus(pic.last_pos, pic.target_pos), 1, 2)
               s == (pic.last_scale + pic.target_scale) \div 2
    <2>1. p \in Point
      <3>1. Plus(pic.last_pos, pic.target_pos) \in Point
        BY <1>2, Vectors
      <3>2. QED
        BY <3>1, Multiples
    <2>2. s \in Nat
      BY <1>2
    <2>3. UpdatePos(pic, now) = WithRect([pic EXCEPT !.pos = p, !.scale = s])
      BY <1>4 DEF UpdatePos
    <2> HIDE DEF p, s
    <2>4. [pic EXCEPT !.pos = p, !.scale = s] \in PicturesOf(pic.url)
      BY <1>1, <2>1, <2>2 DEF PicturesOf
    <2>5. QED
      BY <1>4, <2>3, <2>4, WithRectPic
  <1>5. QED
    BY <1>3, <1>4

(* A provider gives the image another size, and the rectangle follows.     *)
LEMMA SetProviderPic ==
  ASSUME NEW pic, GoodPic(pic), NEW size \in Extent, NEW provided \in BOOLEAN
  PROVE  Keeps(pic, SetProvider(pic, size, provided))
  <1> DEFINE s == (pic.scale * Greater(pic.size.width, pic.size.height)) \div Greater(size.width, size.height)
             now == [pic EXCEPT !.size = size, !.provided = provided, !.scale = s, !.target_scale = s]
  <1>1. pic \in PicturesOf(pic.url)
    BY DEF GoodPic
  <1>2. pic.scale \in Nat /\ pic.size \in Extent
    BY <1>1 DEF PicturesOf
  <1>3. s \in Nat
    <2>1. Greater(pic.size.width, pic.size.height) \in Nat /\ Greater(size.width, size.height) \in Nat \ {0}
      BY <1>2 DEF Greater, Extent
    <2> DEFINE a == pic.scale * Greater(pic.size.width, pic.size.height)
    <2>2. a \in Nat
      BY <1>2, <2>1
    <2> HIDE DEF a
    <2>3. a \div Greater(size.width, size.height) \in Nat
      BY <2>1, <2>2, NaturalDivision
    <2>4. QED
      BY <2>3 DEF a
  <1>4. SetProvider(pic, size, provided) = WithRect(now)
    BY DEF SetProvider
  <1> HIDE DEF s
  <1>5. /\ now \in PicturesOf(pic.url)
        /\ now.scale = s /\ now.target_scale = s
        /\ now.pos = pic.pos /\ now.target_pos = pic.target_pos
    BY <1>1, <1>3 DEF PicturesOf
  <1> HIDE DEF now
  <1>6. QED
    BY <1>4, <1>5, WithRectPic, UrlOf DEF Keeps, AtRest

(* What is noted of requests and answers does not move an image.           *)
LEMMA Bookkeeping ==
  ASSUME NEW pic, GoodPic(pic), NEW now \in PicturesOf(pic.url),
         now.pos = pic.pos, now.scale = pic.scale, now.size = pic.size, now.rect = pic.rect,
         now.target_pos = pic.target_pos, now.target_scale = pic.target_scale
  PROVE  Keeps(pic, now)
  <1>1. now.url = pic.url
    BY DEF PicturesOf
  <1>2. QED
    BY <1>1 DEF GoodPic, ImageRect, Keeps, AtRest

(* What an image waits for says nothing of where it is.                    *)
LEMMA Requests ==
  ASSUME NEW pic, GoodPic(pic), NEW requested \in BOOLEAN, NEW queued \in BOOLEAN, NEW n \in Nat
  PROVE  /\ Keeps(pic, [pic EXCEPT !.queued = queued])
         /\ Keeps(pic, [pic EXCEPT !.requested = requested])
         /\ Keeps(pic, [pic EXCEPT !.queued = queued, !.requested = requested])
         /\ Keeps(pic, [pic EXCEPT !.requested = requested, !.replies = n])
         /\ Keeps(pic, [pic EXCEPT !.replies = n, !.queued = queued])
         /\ Keeps(pic, [pic EXCEPT !.replies = n])
  <1>1. pic \in PicturesOf(pic.url)
    BY DEF GoodPic
  <1>2. \A now \in {[pic EXCEPT !.queued = queued], [pic EXCEPT !.requested = requested],
                    [pic EXCEPT !.queued = queued, !.requested = requested],
                    [pic EXCEPT !.requested = requested, !.replies = n],
                    [pic EXCEPT !.replies = n, !.queued = queued], [pic EXCEPT !.replies = n]} :
          /\ now \in PicturesOf(pic.url)
          /\ now.pos = pic.pos /\ now.scale = pic.scale /\ now.size = pic.size /\ now.rect = pic.rect
          /\ now.target_pos = pic.target_pos /\ now.target_scale = pic.target_scale
    BY <1>1 DEF PicturesOf
  <1>3. QED
    BY <1>2, Bookkeeping

(* A picture has a size, or cannot be found.                               *)
LEMMA TrueSizeOrNone ==
  ASSUME NEW url PROVE TrueSize(url) = Size(0, 0) \/ TrueSize(url) \in Extent
  <1>1. CASE \E n \in DOMAIN Names : Names[n] = url
    <2>1. PICK n \in DOMAIN Names : TrueSize(url) = TrueSizes[n]
      BY <1>1 DEF TrueSize
    <2>2. TrueSizes[n] \in {Size(0, 0)} \union Extent
      BY <2>1, WorkspaceAssumption DEF Extent
    <2>3. QED
      BY <2>1, <2>2
  <1>2. CASE ~\E n \in DOMAIN Names : Names[n] = url
    BY <1>2 DEF TrueSize
  <1>3. QED
    BY <1>1, <1>2

(* What each of two steps keeps, both keep.                                *)
LEMMA KeepsTransitive ==
  ASSUME NEW p, NEW q, NEW r, Keeps(p, q), Keeps(q, r) PROVE Keeps(p, r)
  BY DEF Keeps

(* Asking for the file entry moves no image.                               *)
LEMMA AskedOncePic ==
  ASSUME NEW pic, GoodPic(pic) PROVE Keeps(pic, AskedOnce(pic))
  <1>1. pic.replies \in Nat
    BY DEF GoodPic, PicturesOf
  <1>2. Lesser(pic.replies + 1, MaxReplies) \in Nat
    BY <1>1, WorkspaceAssumption DEF Lesser
  <1>3. QED
    BY <1>2, Requests DEF AskedOnce

(* Drawing an image may ask for its file or give it its size.              *)
LEMMA DrawnPic ==
  ASSUME NEW pic, GoodPic(pic) PROVE Keeps(pic, Drawn(pic))
  <1>1. Keeps(pic, Processed(pic))
    <2>1. CASE ~pic.queued
      BY <2>1 DEF Processed, Keeps
    <2>2. CASE pic.queued /\ TrueSize(pic.url) = Size(0, 0)
      BY <2>2, Requests DEF Processed
    <2>3. CASE pic.queued /\ TrueSize(pic.url) # Size(0, 0)
      <3> DEFINE now == [pic EXCEPT !.queued = FALSE, !.requested = FALSE]
      <3>1. Keeps(pic, now)
        BY Requests
      <3>2. TrueSize(pic.url) \in Extent
        BY <2>3, TrueSizeOrNone
      <3>3. Processed(pic) = SetProvider(now, TrueSize(pic.url), TRUE)
        BY <2>3 DEF Processed
      <3> HIDE DEF now
      <3>4. Keeps(now, SetProvider(now, TrueSize(pic.url), TRUE))
        BY <3>1, <3>2, SetProviderPic DEF Keeps
      <3>5. QED
        BY <3>1, <3>3, <3>4, KeepsTransitive
    <2>4. QED
      BY <2>1, <2>2, <2>3
  <1> DEFINE now == Processed(pic)
  <1>2. GoodPic(now)
    BY <1>1 DEF Keeps
  <1>3. Drawn(pic) = now \/ Drawn(pic) = [AskedOnce(now) EXCEPT !.requested = TRUE]
    BY DEF Drawn
  <1> HIDE DEF now
  <1>4. Keeps(now, AskedOnce(now))
    BY <1>2, AskedOncePic
  <1>5. Keeps(AskedOnce(now), [AskedOnce(now) EXCEPT !.requested = TRUE])
    BY <1>4, Requests DEF Keeps
  <1>6. Keeps(now, [AskedOnce(now) EXCEPT !.requested = TRUE])
    BY <1>4, <1>5, KeepsTransitive
  <1>7. Keeps(now, Drawn(pic))
    BY <1>2, <1>3, <1>6 DEF Keeps
  <1>8. QED
    BY <1>1, <1>7, KeepsTransitive DEF now

-----------------------------------------------------------------------------
(* All images *)

GoodPics(ps) == ps = [i \in Ids |-> ps[i]] /\ \A i \in Ids : GoodPic(ps[i])

KeepsAll(ps, qs) == qs = [i \in Ids |-> qs[i]] /\ \A i \in Ids : Keeps(ps[i], qs[i])

(* What keeps every image keeps them well formed.                          *)
LEMMA KeepsAllGood ==
  ASSUME NEW ps, NEW qs, KeepsAll(ps, qs) PROVE GoodPics(qs)
  BY DEF KeepsAll, GoodPics, Keeps

(* What each of two steps keeps of all images, both keep.                  *)
LEMMA KeepsAllTransitive ==
  ASSUME NEW ps, NEW qs, NEW rs, KeepsAll(ps, qs), KeepsAll(qs, rs) PROVE KeepsAll(ps, rs)
  BY KeepsTransitive DEF KeepsAll

(* Doing nothing keeps every image.                                        *)
LEMMA KeepsAllReflexive ==
  ASSUME NEW ps, GoodPics(ps) PROVE KeepsAll(ps, ps)
  BY DEF KeepsAll, GoodPics, Keeps

(* Of two images that lie over each other each is moved.                   *)
LEMMA ApartKeeps ==
  ASSUME NEW ps, GoodPics(ps), NEW i \in Ids, NEW j \in Ids PROVE KeepsAll(ps, Apart(ps, i, j))
  <1>1. ps[i].rect \in Box /\ ps[j].rect \in Box
    BY DEF GoodPics, GoodPic, PicturesOf
  <1> DEFINE clip == ClipTo(ps[i].rect, ps[j].rect)
             by == IF Width(clip) > Height(clip) THEN Vec(0, (Height(clip) \div 2) + 16)
                                                 ELSE Vec((Width(clip) \div 2) + 16, 0)
  <1>2. by \in Point
    BY <1>1 DEF ClipTo, Rect, Vec, Box, Point, Width, Height, Greater, Lesser
  <1> HIDE DEF by
  <1> DEFINE qs == [ps EXCEPT ![i] = SetPos(ps[i], Minus(ps[i].pos, by))]
             rs == [qs EXCEPT ![j] = SetPos(qs[j], Plus(qs[j].pos, by))]
  <1>3. KeepsAll(ps, qs)
    <2>1. ps[i].pos \in Point
      BY DEF GoodPics, GoodPic, PicturesOf
    <2>2. Minus(ps[i].pos, by) \in Point
      BY <1>2, <2>1, Vectors
    <2>3. Keeps(ps[i], SetPos(ps[i], Minus(ps[i].pos, by)))
      BY <2>2, SetPosPic DEF GoodPics
    <2>4. QED
      BY <2>3 DEF KeepsAll, GoodPics, Keeps
  <1>4. KeepsAll(qs, rs)
    <2>0. GoodPics(qs)
      BY <1>3, KeepsAllGood
    <2> HIDE DEF qs
    <2>1. qs[j].pos \in Point
      BY <2>0 DEF GoodPics, GoodPic, PicturesOf
    <2>2. Plus(qs[j].pos, by) \in Point
      BY <1>2, <2>1, Vectors
    <2>3. Keeps(qs[j], SetPos(qs[j], Plus(qs[j].pos, by)))
      BY <2>0, <2>2, SetPosPic DEF GoodPics
    <2>4. QED
      BY <2>0, <2>3 DEF KeepsAll, GoodPics, Keeps
  <1>5. Apart(ps, i, j) = rs
    BY DEF Apart, by, rs, qs
  <1>6. QED
    BY <1>3, <1>4, <1>5, KeepsAllTransitive

-----------------------------------------------------------------------------
(* Recursive functions over the first so many numbers *)

(* A function that is defined from base by steps within S exists.          *)
Runs(f, N, base, step) == f[0] = base /\ \A n \in 1 .. N : f[n] = step[n][f[n - 1]]

(* A function that is defined step by step over the first N numbers, each  *)
(* step within S, exists and stays within S.                               *)
LEMMA Recursion ==
  ASSUME NEW S, NEW N \in Nat, NEW base \in S, NEW step \in [1 .. N -> [S -> S]]
  PROVE  \E f \in [0 .. N -> S] : Runs(f, N, base, step)
  <1> DEFINE Good(f, n) == f[0] = base /\ \A k \in 1 .. n : f[k] = step[k][f[k - 1]]
             T == {n \in Nat : n <= N => \E f \in [0 .. N -> S] : Good(f, n)}
  <1>1. 0 \in T
    <2>1. [i \in 0 .. N |-> base] \in [0 .. N -> S] /\ Good([i \in 0 .. N |-> base], 0)
      OBVIOUS
    <2>2. QED
      BY <2>1
  <1>2. ASSUME NEW n \in Nat, n \in T PROVE n + 1 \in T
    <2> SUFFICES ASSUME n + 1 <= N PROVE \E f \in [0 .. N -> S] : Good(f, n + 1)
      OBVIOUS
    <2>1. PICK f \in [0 .. N -> S] : Good(f, n)
      BY <1>2
    <2> DEFINE g == [f EXCEPT ![n + 1] = step[n + 1][f[n]]]
    <2>2. step[n + 1] \in [S -> S] /\ f[n] \in S
      OBVIOUS
    <2>3. g \in [0 .. N -> S] /\ \A i \in 0 .. n : g[i] = f[i]
      BY <2>2
    <2>4. g[n + 1] = step[n + 1][g[n]]
      BY <2>3
    <2> HIDE DEF g
    <2>5. ASSUME NEW k \in 1 .. n + 1 PROVE g[k] = step[k][g[k - 1]]
      <3>1. CASE k = n + 1
        BY <2>4, <3>1
      <3>2. CASE k \in 1 .. n
        <4>1. g[k] = f[k] /\ g[k - 1] = f[k - 1]
          BY <2>3, <3>2
        <4>2. QED
          BY <2>1, <3>2, <4>1
      <3>3. QED
        BY <3>1, <3>2
    <2>6. Good(g, n + 1)
      BY <2>1, <2>3, <2>5
    <2>7. QED
      BY <2>3, <2>6
  <1> HIDE DEF T
  <1>3. N \in T
    BY <1>1, <1>2, Induction
  <1>4. QED
    BY <1>3 DEF T, Runs

(* And whatever is so defined stays within S.                              *)
LEMMA Within ==
  ASSUME NEW S, NEW N \in Nat, NEW f, f[0] \in S,
         \A n \in 1 .. N : f[n - 1] \in S => f[n] \in S
  PROVE  \A n \in 0 .. N : f[n] \in S
  <1> DEFINE T == {n \in Nat : n <= N => f[n] \in S}
  <1>1. 0 \in T
    OBVIOUS
  <1>2. ASSUME NEW n \in Nat, n \in T PROVE n + 1 \in T
    <2> SUFFICES ASSUME n + 1 <= N PROVE f[n + 1] \in S
      OBVIOUS
    <2>1. n + 1 \in 1 .. N /\ (n + 1) - 1 = n /\ f[n] \in S
      BY <1>2
    <2>2. QED
      BY <2>1
  <1> HIDE DEF T
  <1>3. \A n \in Nat : n \in T
    BY <1>1, <1>2, Induction
  <1>4. QED
    BY <1>3 DEF T

(* Those that are left of a sequence of images are images.                 *)
LEMMA AmongIds ==
  ASSUME NEW ids \in Seq(Ids), NEW listed
  PROVE  Among(ids, listed) \in Seq(Ids)
  <1> DEFINE N == Len(ids)
             S == Seq(Ids)
             Step(s, n) == IF ids[n] \in listed THEN Append(s, ids[n]) ELSE s
             step == [n \in 1 .. N |-> [s \in S |-> Step(s, n)]]
             IsKept(f) == f = [n \in 0 .. N |-> IF n = 0 THEN <<>> ELSE Step(f[n - 1], n)]
             kept == CHOOSE f : IsKept(f)
  <1>1. N \in Nat /\ \A n \in 1 .. N : ids[n] \in Ids
    OBVIOUS
  <1>2. \A n \in 1 .. N : \A s \in S : Step(s, n) \in S
    BY <1>1
  <1>4. <<>> \in S
    OBVIOUS
  <1> HIDE DEF Step, N, S
  <1>3. step \in [1 .. N -> [S -> S]]
    BY <1>2
  <1> HIDE DEF step
  <1>5. PICK f \in [0 .. N -> S] : Runs(f, N, <<>>, step)
    BY <1>1, <1>3, <1>4, Recursion
  <1>6. IsKept(f)
    <2>1. ASSUME NEW n \in 0 .. N, n # 0 PROVE f[n] = Step(f[n - 1], n)
      <3>1. n \in 1 .. N /\ n - 1 \in 0 .. N
        BY <1>1, <2>1
      <3>2. f[n - 1] \in S
        BY <3>1
      <3>3. QED
        BY <1>5, <3>1, <3>2 DEF Runs, step
    <2>2. f = [n \in 0 .. N |-> f[n]]
      OBVIOUS
    <2>3. QED
      BY <1>5, <2>1, <2>2 DEF Runs
  <1>7. IsKept(kept)
    BY <1>6
  <1> HIDE DEF kept
  <1>8. kept[0] \in S /\ \A n \in 1 .. N : kept[n - 1] \in S => kept[n] \in S
    BY <1>1, <1>2, <1>4, <1>7
  <1>9. kept[N] \in S
    <2>1. \A n \in 0 .. N : kept[n] \in S
      BY <1>1, <1>8, Within
    <2>2. QED
      BY <1>1, <2>1
  <1>10. Among(ids, listed) = kept[N]
    BY DEF Among, kept, Step, N
  <1>11. QED
    BY <1>9, <1>10 DEF S

(* The centre of the selection is a place.                                 *)
LEMMA CenterPoint ==
  ASSUME NEW ps, GoodPics(ps), selection \in Seq(Ids)
  PROVE  SelectionCenter(ps) \in Point
  <1> DEFINE N == Len(selection)
             Step(s, n) == Plus(s, ps[selection[n]].pos)
             step == [n \in 1 .. N |-> [s \in Point |-> Step(s, n)]]
             Sum(f) == f = [n \in 0 .. N |-> IF n = 0 THEN Vec(0, 0) ELSE Step(f[n - 1], n)]
             sum == CHOOSE f : Sum(f)
  <1>1. N \in Nat /\ \A n \in 1 .. N : selection[n] \in Ids
    OBVIOUS
  <1>2. \A n \in 1 .. N : \A s \in Point : Step(s, n) \in Point
    <2>1. \A n \in 1 .. N : ps[selection[n]].pos \in Point
      BY <1>1 DEF GoodPics, GoodPic, PicturesOf
    <2>2. QED
      BY <2>1, Vectors
  <1>3. Vec(0, 0) \in Point
    BY DEF Vec, Point
  <1>4. SelectionCenter(ps) = IF selection = <<>> THEN Vec(0, 0) ELSE Times(sum[N], 1, N)
    BY DEF SelectionCenter
  <1>5. selection # <<>> => N \in Nat \ {0}
    OBVIOUS
  <1> HIDE DEF Step, N
  <1>6. step \in [1 .. N -> [Point -> Point]]
    BY <1>2
  <1> HIDE DEF step
  <1>7. PICK f \in [0 .. N -> Point] : Runs(f, N, Vec(0, 0), step)
    BY <1>1, <1>3, <1>6, Recursion
  <1>8. Sum(f)
    <2>1. ASSUME NEW n \in 0 .. N, n # 0 PROVE f[n] = Step(f[n - 1], n)
      <3>1. n \in 1 .. N /\ n - 1 \in 0 .. N
        BY <1>1, <2>1
      <3>2. f[n - 1] \in Point
        BY <3>1
      <3>3. QED
        BY <1>7, <3>1, <3>2 DEF Runs, step
    <2>2. f = [n \in 0 .. N |-> f[n]]
      OBVIOUS
    <2>3. QED
      BY <1>7, <2>1, <2>2 DEF Runs
  <1>9. Sum(sum)
    BY <1>8
  <1> HIDE DEF sum
  <1>10. sum[0] \in Point /\ \A n \in 1 .. N : sum[n - 1] \in Point => sum[n] \in Point
    BY <1>1, <1>2, <1>3, <1>9
  <1>11. sum[N] \in Point
    <2>1. \A n \in 0 .. N : sum[n] \in Point
      BY <1>1, <1>10, Within
    <2>2. QED
      BY <1>1, <2>1
  <1>12. QED
    BY <1>3, <1>4, <1>5, <1>11, Multiples

(* The pairs of solve_overlaps() are pairs of images of the workspace.     *)
LEMMA PairsInside ==
  ASSUME images \in Seq(Ids)
  PROVE  /\ Len(Pairs) \in Nat /\ DOMAIN Pairs = 1 .. Len(Pairs)
         /\ \A k \in DOMAIN Pairs : images[Pairs[k][1]] \in Ids /\ images[Pairs[k][2]] \in Ids
  <1> DEFINE L == Len(images)
  <1>1. L \in Nat /\ \A k \in 1 .. L : images[k] \in Ids
    OBVIOUS
  <1>2. L * L \in Nat
    BY <1>1
  <1>3. Pairs = [k \in 1 .. L * L |-> <<((k - 1) \div L) + 1, ((k - 1) % L) + 1>>]
    BY DEF Pairs
  <1> HIDE DEF L
  <1>4. DOMAIN Pairs = 1 .. L * L /\ Len(Pairs) = L * L
    <2> DEFINE e(k) == <<((k - 1) \div L) + 1, ((k - 1) % L) + 1>>
               T == {e(k) : k \in 1 .. L * L}
               ps == [k \in 1 .. L * L |-> e(k)]
    <2>1. \A k \in 1 .. L * L : e(k) \in T
      OBVIOUS
    <2>2. Pairs = ps /\ DOMAIN ps = 1 .. L * L
      BY <1>3
    <2> HIDE DEF e, T
    <2>3. ps \in Seq(T)
      BY <1>2, <2>1, IsASeq
    <2> HIDE DEF ps
    <2>4. DOMAIN ps = 1 .. Len(ps) /\ Len(ps) \in Nat
      BY <2>3
    <2>5. QED
      BY <1>2, <2>2, <2>4
  <1>5. ASSUME NEW k \in 1 .. L * L
        PROVE  images[Pairs[k][1]] \in Ids /\ images[Pairs[k][2]] \in Ids
    <2>1. k - 1 \in Nat /\ k - 1 < L * L /\ L \in Nat \ {0}
      BY <1>1, <1>2, <1>5
    <2> DEFINE q == (k - 1) \div L
    <2>2. q \in Nat /\ L * q <= k - 1
      BY <2>1, NaturalDivision
    <2>3. (k - 1) % L \in 0 .. L - 1
      BY <2>1, Remainder
    <2>4. Pairs[k][1] = q + 1 /\ Pairs[k][2] = ((k - 1) % L) + 1
      BY <1>3
    <2> HIDE DEF q
    <2>5. q < L
      <3>1. L * q < L * L
        BY <1>2, <2>1, <2>2
      <3>2. QED
        BY <2>1, <2>2, <3>1
    <2>6. QED
      BY <1>1, <2>1, <2>2, <2>3, <2>4, <2>5
  <1>6. QED
    BY <1>2, <1>4, <1>5

-----------------------------------------------------------------------------
(* The invariant *)

Buttons == {"left", "middle", "right"}
Modes   == {"zoom_in", "zoom_rect", "grid", "move", "drag", "pan", "zoom_out", "resize", "rotate",
            "key_in", "key_out", "view_rotate"}

Layouter == [kind : {"regular", "tight", "spiral", "random", "none"}, aspect : Extent]
ViewType == [num : Nat \ {0}, den : Nat \ {0}, offset : Point, angle : Int, bad : BOOLEAN]

WorkspaceTypes ==
  /\ images \in Seq(Ids) /\ selection \in Seq(Ids)
  /\ GoodPics(pics)
  /\ progress \in 0 .. Finished
  /\ layouter \in Layouter

HandType ==
  [pos : Point, seen : [{"move", "zoom_rect", "grid"} -> Point],
   click : [{"move", "zoom_rect", "grid"} -> Point], from : Point, centre : Point,
   old : (Nat \ {0}) \X (Nat \ {0}), start : Int]

ToolType ==
  [left : {"zoom_in", "zoom_rect", "grid", "move"}, right : {"zoom_out", "resize", "rotate"},
   active : SUBSET Modes, trackball : BOOLEAN,
   held : SUBSET (Buttons \union DOMAIN KeyTools), switched : BOOLEAN]

GridType == [drawn : BOOLEAN, pinned : BOOLEAN, offset : Point, size : [width : Int, height : Int]]

ToolsTypes == tools \in ToolType /\ hand \in HandType

WindowTypes ==
  /\ view \in ViewType /\ grid \in GridType /\ display \in Extent
  /\ pads \in {<<>>, <<"opened">>, <<"failed">>} /\ spnav \in BOOLEAN
  /\ status \in {"running", "quit", "died"}
  /\ spent \in [keys : Nat, clicks : Nat, other : Nat]

(* The members of the viewer and of its workspace have the values of their *)
(* types, and the rectangle of an image is the one its position, size and  *)
(* scale give.  The text of the file is left out.                          *)
ViewerTypeOK == WorkspaceTypes /\ ToolsTypes /\ WindowTypes

(* What PlacesAgree needs of images that are not in the workspace: they    *)
(* wait at the place where they would be added.                            *)
OthersAtRest == \A i \in Ids : (i \notin ToSet(images) \/ ~IsAnimated) => AtRest(pics[i])

(* What ToolsFollowButtons needs: which button or key holds a mode, and    *)
(* that the move tool is in one of its two modes.                          *)
HeldBy(mode) ==
  \/ mode \in {"move", "drag"} /\ tools.left = "move" /\ "left" \in tools.held
  \/ mode \notin {"move", "drag"} /\ \E button \in Buttons \cap tools.held : mode = ToolOf(button)
  \/ \E key \in DOMAIN KeyTools \cap tools.held : mode = KeyTools[key]

ModesHeld ==
  /\ ~tools.switched => \A mode \in tools.active : HeldBy(mode)
  /\ ~tools.switched => ~({"drag", "move"} \subseteq tools.active)

-----------------------------------------------------------------------------
(* What is done to all images of the workspace *)

PicsFrom(ps) == {qs \in [Ids -> UNION {PicturesOf(ps[i].url) : i \in Ids}] : KeepsAll(ps, qs)}

(* The images as a step that keeps them may leave them form a set.         *)
LEMMA PicsFromAll ==
  ASSUME NEW ps, NEW qs
  PROVE  qs \in PicsFrom(ps) <=> KeepsAll(ps, qs)
  <1>1. ASSUME KeepsAll(ps, qs) PROVE qs \in [Ids -> UNION {PicturesOf(ps[i].url) : i \in Ids}]
    <2>1. \A i \in Ids : qs[i] \in PicturesOf(ps[i].url)
      BY <1>1 DEF KeepsAll, Keeps, GoodPic
    <2>2. \A i \in Ids : qs[i] \in UNION {PicturesOf(ps[j].url) : j \in Ids}
      BY <2>1
    <2>3. QED
      BY <1>1, <2>2 DEF KeepsAll
  <1>2. QED
    BY <1>1 DEF PicsFrom

(* Pushing two images apart keeps every image (workspace.cpp:354-384).     *)
LEMMA SeparatedKeeps ==
  ASSUME images \in Seq(Ids), NEW ps, GoodPics(ps), NEW k \in DOMAIN Pairs
  PROVE  KeepsAll(ps, Separated(ps, Pairs[k]))
  <1>1. images[Pairs[k][1]] \in Ids /\ images[Pairs[k][2]] \in Ids
    BY PairsInside
  <1>2. KeepsAll(ps, Apart(ps, images[Pairs[k][1]], images[Pairs[k][2]]))
    BY <1>1, ApartKeeps
  <1>3. QED
    BY <1>2, KeepsAllReflexive DEF Separated

(* Images that are moved off each other stay where they were moved to.     *)
LEMMA OverlapsAfterKeeps ==
  ASSUME images \in Seq(Ids), GoodPics(pics), NEW steps \in Nat, steps = 0 \/ Len(Pairs) # 0
  PROVE  KeepsAll(pics, OverlapsAfter(steps))
  <1> DEFINE S == PicsFrom(pics)
             Which(n) == Pairs[((n - 1) % Len(Pairs)) + 1]
             Step(s, n) == Separated(s, Which(n))
             step == [n \in 1 .. steps |-> [s \in S |-> Step(s, n)]]
             After(f) == f = [n \in 0 .. steps |-> IF n = 0 THEN pics ELSE Step(f[n - 1], n)]
             after == CHOOSE f : After(f)
  <1>1. Len(Pairs) \in Nat /\ DOMAIN Pairs = 1 .. Len(Pairs)
    BY PairsInside
  <1>2. ASSUME NEW n \in 1 .. steps, NEW s \in S PROVE Step(s, n) \in S
    <2>1. n - 1 \in Nat /\ Len(Pairs) \in Nat \ {0}
      BY <1>1, <1>2
    <2>2. (n - 1) % Len(Pairs) \in 0 .. Len(Pairs) - 1
      BY <2>1, Remainder
    <2>3. ((n - 1) % Len(Pairs)) + 1 \in DOMAIN Pairs
      BY <1>1, <2>1, <2>2
    <2>4. KeepsAll(pics, s) /\ GoodPics(s)
      BY <1>2, PicsFromAll, KeepsAllGood
    <2>5. KeepsAll(s, Step(s, n))
      BY <2>3, <2>4, SeparatedKeeps
    <2> HIDE DEF Step
    <2>6. QED
      BY <2>4, <2>5, KeepsAllTransitive, PicsFromAll
  <1>3. pics \in S
    BY KeepsAllReflexive, PicsFromAll
  <1>4. OverlapsAfter(steps) = after[steps]
    BY DEF OverlapsAfter
  <1> HIDE DEF Step, S
  <1>5. step \in [1 .. steps -> [S -> S]]
    BY <1>2
  <1> HIDE DEF step
  <1>6. PICK f \in [0 .. steps -> S] : Runs(f, steps, pics, step)
    BY <1>3, <1>5, Recursion
  <1>7. After(f)
    <2>1. ASSUME NEW n \in 0 .. steps, n # 0 PROVE f[n] = Step(f[n - 1], n)
      <3>1. n \in 1 .. steps /\ n - 1 \in 0 .. steps
        BY <2>1
      <3>2. f[n - 1] \in S
        BY <3>1
      <3>3. QED
        BY <1>6, <3>1, <3>2 DEF Runs, step
    <2>2. f = [n \in 0 .. steps |-> f[n]]
      OBVIOUS
    <2>3. QED
      BY <1>6, <2>1, <2>2 DEF Runs
  <1>8. After(after)
    BY <1>7
  <1> HIDE DEF after
  <1>9. after[0] \in S /\ \A n \in 1 .. steps : after[n - 1] \in S => after[n] \in S
    BY <1>2, <1>3, <1>8
  <1>10. \A n \in 0 .. steps : after[n] \in S
    BY <1>9, Within
  <1>11. QED
    BY <1>4, <1>10, PicsFromAll DEF S

(* An action of the workspace leaves every image where it was sent to.     *)
LEMMA SolveOverlapsKeeps ==
  ASSUME images \in Seq(Ids), GoodPics(pics), SolveOverlaps
  PROVE  KeepsAll(pics, pics')
  <1>1. Len(Pairs) \in Nat
    BY PairsInside
  <1>2. PICK pass \in 0 .. MaxPasses : pics' = OverlapsAfter(pass * Len(Pairs))
    BY DEF SolveOverlaps
  <1>3. pass \in Nat /\ pass * Len(Pairs) \in Nat /\ (Len(Pairs) = 0 => pass * Len(Pairs) = 0)
    BY <1>1, <1>2, WorkspaceAssumption
  <1>4. QED
    BY <1>2, <1>3, OverlapsAfterKeeps

(* The images when each is updated: those of the workspace arrive.         *)
LEMMA UpdatedGood ==
  ASSUME GoodPics(pics), progress \in 0 .. Finished
  PROVE  /\ GoodPics(Updated) /\ NextProgress \in 0 .. Finished
         /\ OthersAtRest => \A i \in Ids : (i \notin ToSet(images) \/ NextProgress = Finished) => AtRest(Updated[i])
  <1>1. NextProgress \in 0 .. Finished
    BY DEF NextProgress, Lesser, Finished
  <1>2. CASE IsAnimated
    <2>1. Updated = [i \in Ids |-> IF i \in ToSet(images) THEN UpdatePos(pics[i], NextProgress) ELSE pics[i]]
      BY <1>2 DEF Updated
    <2>2. \A i \in Ids : GoodPic(pics[i])
      BY DEF GoodPics
    <2>3. \A i \in Ids : /\ GoodPic(UpdatePos(pics[i], NextProgress))
                         /\ NextProgress = Finished => AtRest(UpdatePos(pics[i], NextProgress))
      BY <2>2, UpdatePosPic
    <2>4. QED
      BY <1>1, <2>1, <2>2, <2>3 DEF GoodPics, OthersAtRest
  <1>3. CASE ~IsAnimated
    BY <1>1, <1>3 DEF Updated, OthersAtRest
  <1>4. QED
    BY <1>2, <1>3

(* Drawing asks for file entries and moves no image.                       *)
LEMMA DrawImagesKeeps ==
  ASSUME NEW ps, GoodPics(ps), NEW cliprect PROVE KeepsAll(ps, DrawImages(ps, cliprect))
  <1>1. \A i \in Ids : Keeps(ps[i], Drawn(ps[i])) /\ Keeps(ps[i], ps[i])
    BY DrawnPic DEF GoodPics, Keeps
  <1>2. QED
    BY <1>1 DEF KeepsAll, DrawImages

(* Moving the selection keeps every image (workspace.cpp:315-322).         *)
LEMMA MoveSelectionKeeps ==
  ASSUME NEW ps, GoodPics(ps), NEW by \in Point PROVE KeepsAll(ps, MoveSelection(ps, by))
  <1>1. \A i \in Ids : GoodPic(ps[i]) /\ ps[i].pos \in Point
    BY DEF GoodPics, GoodPic, PicturesOf
  <1>2. \A i \in Ids : Keeps(ps[i], SetPos(ps[i], Plus(ps[i].pos, by))) /\ Keeps(ps[i], ps[i])
    BY <1>1, Vectors, SetPosPic DEF Keeps
  <1>3. QED
    BY <1>2 DEF KeepsAll, MoveSelection, Selected

(* Scaling the selection about its centre keeps every image.               *)
LEMMA ScaleSelectionKeeps ==
  ASSUME NEW ps, GoodPics(ps), selection \in Seq(Ids), NEW n \in Nat, NEW d \in Nat \ {0}
  PROVE  KeepsAll(ps, ScaleSelection(ps, n, d))
  <1> DEFINE c == SelectionCenter(ps)
             Change(pic) == SetPos(SetScale(pic, (pic.scale * n) \div d),
                                   Plus(c, Times(Minus(pic.pos, c), n, d)))
  <1>1. c \in Point
    BY CenterPoint
  <1>2. ScaleSelection(ps, n, d) = [i \in Ids |-> IF i \in ToSet(selection) THEN Change(ps[i]) ELSE ps[i]]
    BY DEF ScaleSelection, Selected
  <1> HIDE DEF c
  <1>3. ASSUME NEW i \in Ids PROVE Keeps(ps[i], Change(ps[i])) /\ Keeps(ps[i], ps[i])
    <2>1. GoodPic(ps[i]) /\ ps[i].pos \in Point /\ ps[i].scale \in Nat
      BY <1>3 DEF GoodPics, GoodPic, PicturesOf
    <2> DEFINE s == (ps[i].scale * n) \div d
               p == Plus(c, Times(Minus(ps[i].pos, c), n, d))
    <2>2. p \in Point
      BY <1>1, <2>1, Vectors, Multiples
    <2>3. s \in Nat
      <3>1. ps[i].scale * n \in Nat
        BY <2>1
      <3>2. QED
        BY <3>1, NaturalDivision
    <2> HIDE DEF p, s
    <2>4. Keeps(ps[i], SetScale(ps[i], s))
      BY <2>1, <2>3, SetScalePic
    <2>5. Keeps(SetScale(ps[i], s), SetPos(SetScale(ps[i], s), p))
      BY <2>2, <2>4, SetPosPic DEF Keeps
    <2>6. Keeps(ps[i], SetPos(SetScale(ps[i], s), p))
      BY <2>4, <2>5, KeepsTransitive
    <2>7. QED
      BY <2>1, <2>6 DEF Keeps, s, p
  <1> HIDE DEF Change
  <1>4. QED
    BY <1>2, <1>3 DEF KeepsAll

(* Refreshing the selection keeps every image.                             *)
LEMMA RefreshSelectionKeeps ==
  ASSUME GoodPics(pics), RefreshSelection PROVE KeepsAll(pics, pics')
  <1> DEFINE Change(pic) == IF pic.provided THEN SetProvider(AskedOnce(pic), DefaultSize, FALSE) ELSE pic
  <1>1. pics' = [i \in Ids |-> IF i \in ToSet(selection) THEN Change(pics[i]) ELSE pics[i]]
    BY DEF RefreshSelection, Selected
  <1>2. DefaultSize \in Extent
    BY DEF DefaultSize, Size, Extent
  <1>3. ASSUME NEW i \in Ids PROVE Keeps(pics[i], Change(pics[i])) /\ Keeps(pics[i], pics[i])
    <2>1. GoodPic(pics[i])
      BY DEF GoodPics
    <2>2. Keeps(pics[i], AskedOnce(pics[i]))
      BY <2>1, AskedOncePic
    <2>3. Keeps(AskedOnce(pics[i]), SetProvider(AskedOnce(pics[i]), DefaultSize, FALSE))
      BY <1>2, <2>2, SetProviderPic DEF Keeps
    <2>4. Keeps(pics[i], SetProvider(AskedOnce(pics[i]), DefaultSize, FALSE))
      BY <2>2, <2>3, KeepsTransitive
    <2>5. QED
      BY <2>1, <2>4 DEF Keeps
  <1> HIDE DEF Change
  <1>4. QED
    BY <1>1, <1>3 DEF KeepsAll

(* Dropping the requests of images off the screen keeps every image.       *)
LEMMA ForgetRequestsKeeps ==
  ASSUME GoodPics(pics), ForgetRequests PROVE KeepsAll(pics, pics')
  <1>1. PICK answered \in BOOLEAN :
          pics' = [i \in Ids |->
            IF i \notin ToSet(images) THEN pics[i]
            ELSE [pics[i] EXCEPT !.requested = FALSE, !.replies = IF answered THEN @ ELSE 0]]
    BY DEF ForgetRequests
  <1>2. ASSUME NEW i \in Ids PROVE Keeps(pics[i], pics'[i])
    <2>1. GoodPic(pics[i]) /\ pics[i].replies \in Nat
      BY DEF GoodPics, GoodPic, PicturesOf
    <2>2. Keeps(pics[i], pics[i])
      BY <2>1 DEF Keeps
    <2>3. /\ Keeps(pics[i], [pics[i] EXCEPT !.requested = FALSE, !.replies = pics[i].replies])
          /\ Keeps(pics[i], [pics[i] EXCEPT !.requested = FALSE, !.replies = 0])
      BY <2>1, Requests
    <2>4. CASE answered
      BY <1>1, <2>2, <2>3, <2>4
    <2>5. CASE ~answered
      BY <1>1, <2>2, <2>3, <2>5
    <2>6. QED
      BY <2>4, <2>5
  <1>3. QED
    BY <1>1, <1>2 DEF KeepsAll

(* An answer keeps every image.                                            *)
LEMMA ReplyArrivesKeeps ==
  ASSUME GoodPics(pics), NEW i \in Ids, ReplyArrives(i) PROVE KeepsAll(pics, pics')
  <1>1. GoodPic(pics[i]) /\ pics[i].replies - 1 \in Nat
    BY DEF GoodPics, GoodPic, PicturesOf, ReplyArrives
  <1>2. Keeps(pics[i], [pics[i] EXCEPT !.replies = pics[i].replies - 1, !.queued = TRUE])
    BY <1>1, Requests
  <1>3. pics' = [pics EXCEPT ![i] = [pics[i] EXCEPT !.replies = pics[i].replies - 1, !.queued = TRUE]]
    BY DEF ReplyArrives, GoodPics
  <1>4. \A j \in Ids : Keeps(pics[j], pics[j])
    BY DEF GoodPics, Keeps
  <1>5. QED
    BY <1>2, <1>3, <1>4 DEF KeepsAll, GoodPics

-----------------------------------------------------------------------------
(* Layouts *)

Spots == [pos : Point, scale : Nat]

(* The same from 1 on.                                                     *)
RunsFrom1(f, N, base, step) == \A n \in 1 .. N : f[n] = IF n = 1 THEN base ELSE step[n][f[n - 1]]

(* The same for a function over the numbers from 1 to N.                   *)
LEMMA RecursionFrom1 ==
  ASSUME NEW S, NEW N \in Nat, NEW base \in S, NEW step \in [1 .. N -> [S -> S]]
  PROVE  \E f \in [1 .. N -> S] : RunsFrom1(f, N, base, step)
  <1>1. CASE N = 0
    <2>1. [n \in 1 .. N |-> base] \in [1 .. N -> S]
      OBVIOUS
    <2>2. RunsFrom1([n \in 1 .. N |-> base], N, base, step)
      <3>1. 1 .. N = {}
        BY <1>1
      <3>2. QED
        BY <3>1 DEF RunsFrom1
    <2>3. QED
      BY <2>1, <2>2
  <1>2. CASE N # 0
    <2> DEFINE next == [n \in 1 .. N - 1 |-> step[n + 1]]
    <2>1. N - 1 \in Nat /\ next \in [1 .. N - 1 -> [S -> S]]
      BY <1>2
    <2> HIDE DEF next
    <2>2. PICK f \in [0 .. N - 1 -> S] : Runs(f, N - 1, base, next)
      BY <2>1, Recursion
    <2> DEFINE g == [n \in 1 .. N |-> f[n - 1]]
    <2>3. g \in [1 .. N -> S]
      OBVIOUS
    <2>4. ASSUME NEW n \in 1 .. N, n # 1 PROVE g[n] = step[n][g[n - 1]]
      <3>1. n - 1 \in 1 .. N - 1 /\ (n - 1) + 1 = n
        BY <2>4
      <3>2. f[n - 1] = next[n - 1][f[(n - 1) - 1]]
        BY <2>2, <3>1 DEF Runs
      <3>3. next[n - 1] = step[n]
        BY <3>1 DEF next
      <3>4. g[n] = f[n - 1] /\ g[n - 1] = f[(n - 1) - 1]
        BY <3>1
      <3>5. QED
        BY <3>2, <3>3, <3>4
    <2>5. 1 \in 1 .. N => g[1] = base
      BY <2>2 DEF Runs
    <2> HIDE DEF g
    <2>6. RunsFrom1(g, N, base, step)
      BY <2>4, <2>5 DEF RunsFrom1
    <2>7. QED
      BY <2>3, <2>6
  <1>3. QED
    BY <1>1, <1>2

(* An order of the images is a sequence of all of them.                    *)
LEMMA OrderOfImages ==
  ASSUME images \in Seq(Ids), NEW order \in SetToSeqs(ToSet(images))
  PROVE  order \in Seq(Ids) /\ ToSet(order) = ToSet(images)
  <1> DEFINE T == ToSet(images)
             n == Cardinality(T)
  <1>1. IsFiniteSet(T) /\ T \subseteq Ids
    <2>1. T \subseteq Ids
      BY DEF ToSet
    <2>2. IsFiniteSet(Ids)
      BY FS_Interval, WorkspaceAssumption DEF Ids
    <2>3. QED
      BY <2>1, <2>2, FS_Subset
  <1>2. n \in Nat
    BY <1>1, FS_CardinalityType
  <1>3. order \in [1 .. n -> T] /\ \A i, j \in 1 .. n : i # j => order[i] # order[j]
    BY DEF SetToSeqs
  <1> HIDE DEF T
  <1>4. IsFiniteSet(1 .. n) /\ Cardinality(1 .. n) = n
    BY <1>2, FS_Interval
  <1>5. order \in Injection(1 .. n, T)
    BY <1>3 DEF Injection, IsInjective
  <1>6. order \in Surjection(1 .. n, T)
    BY <1>1, <1>4, <1>5, FS_Injection
  <1>7. \A t \in T : \E k \in 1 .. n : order[k] = t
    BY <1>6 DEF Surjection
  <1> HIDE DEF n
  <1>8. order \in Seq(T) /\ DOMAIN order = 1 .. n
    BY <1>2, <1>3
  <1>9. ToSet(order) = T
    BY <1>3, <1>7, <1>8 DEF ToSet
  <1>10. order \in Seq(Ids)
    BY <1>1, <1>8
  <1>11. QED
    BY <1>9, <1>10 DEF T

(* The sizes a layouter is given are those of pictures.                    *)
LEMMA SizesAre ==
  ASSUME GoodPics(pics), NEW ids \in Seq(Ids)
  PROVE  /\ Sizes(ids) \in Seq(Extent) /\ Len(Sizes(ids)) = Len(ids)
         /\ \A k \in 1 .. Len(ids) : Sizes(ids)[k] \in Extent
  <1> DEFINE n == Len(ids)
             e(k) == pics[ids[k]].size
             sizes == [k \in 1 .. n |-> e(k)]
  <1>1. n \in Nat /\ DOMAIN ids = 1 .. n /\ \A k \in 1 .. n : ids[k] \in Ids
    OBVIOUS
  <1>2. \A k \in 1 .. n : e(k) \in Extent
    BY <1>1 DEF GoodPics, GoodPic, PicturesOf
  <1>3. Sizes(ids) = sizes
    BY <1>1 DEF Sizes
  <1>4. DOMAIN sizes = 1 .. n /\ \A k \in 1 .. n : sizes[k] = e(k)
    OBVIOUS
  <1> HIDE DEF e, n
  <1>5. sizes \in Seq(Extent)
    BY <1>1, <1>2, IsASeq
  <1> HIDE DEF sizes
  <1>6. Len(sizes) = n
    BY <1>1, <1>4, <1>5
  <1>7. QED
    BY <1>2, <1>3, <1>4, <1>5, <1>6 DEF n

(* An image fits the room of its cell.                                     *)
LEMMA FitsCell ==
  ASSUME NEW size \in Extent
  PROVE  /\ FitCell(size) \in Nat
         /\ Scaled(size, FitCell(size)).width \in 0 .. Cell
         /\ Scaled(size, FitCell(size)).height \in 0 .. Cell
  <1> DEFINE w == size.width
             h == size.height
             room == Cell * Unit
             p == room \div w
             q == room \div h
             s == FitCell(size)
  <1>1. w \in Nat \ {0} /\ h \in Nat \ {0} /\ room = 64000
    BY DEF Extent, Cell, Unit
  <1>2. p \in Nat /\ w * p <= 64000 /\ q \in Nat /\ h * q <= 64000
    BY <1>1, NaturalDivision
  <1>3. (s = p \/ s = q) /\ s <= p /\ s <= q
    BY <1>2 DEF FitCell, Lesser
  <1> HIDE DEF p, q, w, h, s
  <1>4. \A a, b, c \in Nat : b <= c => a * b \in Nat /\ a * b <= a * c
    OBVIOUS
  <1>5. s \in Nat /\ w * s \in Nat /\ w * s <= 64000 /\ h * s \in Nat /\ h * s <= 64000
    <2>1. s \in Nat
      BY <1>2, <1>3
    <2>2. w * s \in Nat /\ w * s <= w * p /\ h * s \in Nat /\ h * s <= h * q
      BY <1>1, <1>2, <1>3, <1>4, <2>1
    <2>3. w * p \in Nat /\ h * q \in Nat
      BY <1>1, <1>2, <1>4
    <2>4. QED
      BY <1>2, <2>1, <2>2, <2>3
  <1>6. (w * s) \div 64 \in 0 .. 1000 /\ (h * s) \div 64 \in 0 .. 1000
    <2>1. \A a \in Nat : a <= 64000 => a \div 64 \in 0 .. 1000
      OBVIOUS
    <2>2. QED
      BY <1>5, <2>1
  <1>7. Scaled(size, s).width = (w * s) \div 64 /\ Scaled(size, s).height = (h * s) \div 64
    BY DEF Scaled, Size, Unit, w, h
  <1>8. QED
    BY <1>5, <1>6, <1>7 DEF s, Cell

-----------------------------------------------------------------------------
(* Cells *)

(* Every image is put into a cell of its own.                              *)
InCells(places, sizes, cells) ==
  \A k \in 1 .. Len(sizes) :
    /\ cells[k].x \in Int /\ cells[k].y \in Int
    /\ places[k] = Place(Times(Vec(cells[k].x, cells[k].y), Pitch, 1), FitCell(sizes[k]))
    /\ \A j \in 1 .. k - 1 : cells[j].x # cells[k].x \/ cells[j].y # cells[k].y

(* The place of a cell is a place.                                         *)
LEMMA CellPlaces ==
  ASSUME NEW sizes \in Seq(Extent), NEW places, NEW cells, InCells(places, sizes, cells), NEW k \in 1 .. Len(sizes)
  PROVE  places[k] \in Spots
  <1>1. cells[k].x \in Int /\ cells[k].y \in Int /\ sizes[k] \in Extent
    BY DEF InCells
  <1>2. Times(Vec(cells[k].x, cells[k].y), Pitch, 1) \in Point /\ FitCell(sizes[k]) \in Nat
    BY <1>1, Multiples, FitsCell DEF Vec, Point, Pitch
  <1>3. places[k] = Place(Times(Vec(cells[k].x, cells[k].y), Pitch, 1), FitCell(sizes[k]))
    BY DEF InCells
  <1>4. QED
    BY <1>2, <1>3 DEF Place, Spots

InCell(r, x, y) ==
  /\ r \in Box
  /\ r.left >= 1024 * x - 500 /\ r.right <= 1024 * x + 500
  /\ r.top >= 1024 * y - 500 /\ r.bottom <= 1024 * y + 500

(* The rectangle of an image lies in its cell.                             *)
LEMMA CellRect ==
  ASSUME NEW size \in Extent, NEW x \in Int, NEW y \in Int
  PROVE  InCell(PlacedRect(size, Place(Times(Vec(x, y), Pitch, 1), FitCell(size))), x, y)
  <1> DEFINE room == Scaled(size, FitCell(size))
             r == PlacedRect(size, Place(Times(Vec(x, y), Pitch, 1), FitCell(size)))
             w == room.width
             h == room.height
  <1>1. w \in 0 .. 1000 /\ h \in 0 .. 1000
    BY FitsCell DEF Cell
  <1> HIDE DEF w, h
  <1>2. PICK u \in Int : u = w \div 2 /\ u \in 0 .. 500 /\ w - u \in 0 .. 500
    BY <1>1
  <1>3. PICK v \in Int : v = h \div 2 /\ v \in 0 .. 500 /\ h - v \in 0 .. 500
    BY <1>1
  <1>4. Times(Vec(x, y), Pitch, 1) = Vec(1024 * x, 1024 * y)
    <2>1. \A a \in Int : (a * 1024) \div 1 = 1024 * a
      OBVIOUS
    <2>2. QED
      BY <2>1 DEF Times, Vec, Pitch
  <1>5. r = RectOf(Minus(Vec(1024 * x, 1024 * y), Vec(u, v)), room)
    BY <1>2, <1>3, <1>4 DEF PlacedRect, Place, w, h
  <1> HIDE DEF r
  <1>6. r = Rect(Vec(1024 * x - u, 1024 * y - v), Vec((1024 * x - u) + w, (1024 * y - v) + h))
    BY <1>5 DEF RectOf, Minus, Plus, Vec, w, h
  <1>7. /\ r = [left |-> 1024 * x - u, top |-> 1024 * y - v, right |-> (1024 * x - u) + w, bottom |-> (1024 * y - v) + h]
        /\ r.left = 1024 * x - u /\ r.right = (1024 * x - u) + w
        /\ r.top = 1024 * y - v /\ r.bottom = (1024 * y - v) + h
    BY <1>6 DEF Rect, Vec
  <1>8. r \in Box
    BY <1>1, <1>2, <1>3, <1>7 DEF Box
  <1>9. QED
    BY <1>1, <1>2, <1>3, <1>7, <1>8 DEF InCell, r

(* Rectangles within different cells are apart.                            *)
LEMMA InCellsApart ==
  ASSUME NEW a \in Int, NEW b \in Int, NEW c \in Int, NEW d \in Int, a # c \/ b # d,
         NEW q, InCell(q, a, b), NEW r, InCell(r, c, d)
  PROVE  ~Overlapped(q, r)
  <1>1. /\ q.left \in Int /\ q.right \in Int /\ q.top \in Int /\ q.bottom \in Int
        /\ r.left \in Int /\ r.right \in Int /\ r.top \in Int /\ r.bottom \in Int
    BY DEF InCell, Box
  <1>2. /\ q.left >= 1024 * a - 500 /\ q.right <= 1024 * a + 500
        /\ q.top >= 1024 * b - 500 /\ q.bottom <= 1024 * b + 500
        /\ r.left >= 1024 * c - 500 /\ r.right <= 1024 * c + 500
        /\ r.top >= 1024 * d - 500 /\ r.bottom <= 1024 * d + 500
    BY DEF InCell
  <1>3. \/ r.right <= q.left \/ q.right <= r.left
        \/ r.bottom <= q.top \/ q.bottom <= r.top
    <2>1. CASE a # c
      BY <1>1, <1>2, <2>1
    <2>2. CASE b # d
      BY <1>1, <1>2, <2>2
    <2>3. QED
      BY <2>1, <2>2
  <1>4. QED
    BY <1>1, <1>3 DEF Overlapped

(* Images in different cells do not lie over each other.                   *)
LEMMA CellsApart ==
  ASSUME NEW sizes \in Seq(Extent), NEW places, NEW cells, InCells(places, sizes, cells),
         NEW k \in 1 .. Len(sizes), NEW j \in 1 .. k - 1
  PROVE  ~Overlapped(PlacedRect(sizes[j], places[j]), PlacedRect(sizes[k], places[k]))
  <1>1. j \in 1 .. Len(sizes) /\ sizes[j] \in Extent /\ sizes[k] \in Extent
    OBVIOUS
  <1>2. /\ cells[j].x \in Int /\ cells[j].y \in Int /\ cells[k].x \in Int /\ cells[k].y \in Int
        /\ places[j] = Place(Times(Vec(cells[j].x, cells[j].y), Pitch, 1), FitCell(sizes[j]))
        /\ places[k] = Place(Times(Vec(cells[k].x, cells[k].y), Pitch, 1), FitCell(sizes[k]))
        /\ cells[j].x # cells[k].x \/ cells[j].y # cells[k].y
    BY <1>1 DEF InCells
  <1>3. /\ InCell(PlacedRect(sizes[j], places[j]), cells[j].x, cells[j].y)
        /\ InCell(PlacedRect(sizes[k], places[k]), cells[k].x, cells[k].y)
    BY <1>1, <1>2, CellRect
  <1>4. QED
    BY <1>2, <1>3, InCellsApart

(* RegularLayouter: the cell of an image in its row is its own.            *)
LEMMA RegularAre ==
  ASSUME NEW sizes \in Seq(Extent), NEW aspect \in Extent, RegularWidth(Len(sizes), aspect) # 0
  PROVE  \E cells : InCells(Regular(sizes, aspect), sizes, cells)
  <1> DEFINE n == Len(sizes)
             w == RegularWidth(n, aspect)
             Column(i) == IF (i \div w) % 2 = 0 THEN i % w ELSE w - (i % w) - 1
  <1>1. n \in Nat /\ \A k \in 1 .. n : sizes[k] \in Extent
    OBVIOUS
  <1>2. w \in Nat \ {0}
    <2>1. aspect.width * n \in Nat /\ aspect.height \in Nat \ {0}
      BY <1>1 DEF Extent
    <2>2. (aspect.width * n) \div aspect.height \in Nat
      BY <2>1, NaturalDivision
    <2>3. QED
      BY <2>2, RootNatural DEF RegularWidth
  <1>3. Regular(sizes, aspect) = [i \in 1 .. n |->
         Place(Times(Vec(Column(i - 1), (i - 1) \div w), Pitch, 1), FitCell(sizes[i]))]
    BY DEF Regular
  <1> HIDE DEF w, n
  <1>4. ASSUME NEW i \in 0 .. n - 1
        PROVE  i \div w \in Int /\ i % w \in 0 .. w - 1 /\ i = w * (i \div w) + (i % w) /\ Column(i) \in Int
    <2>1. i \in Nat
      BY <1>1
    <2>2. i \div w \in Nat /\ i % w \in 0 .. w - 1 /\ i = w * (i \div w) + (i % w)
      BY <1>2, <2>1, NaturalDivision, Remainder
    <2>3. QED
      BY <1>2, <2>2
  <1>5. ASSUME NEW i \in 0 .. n - 1, NEW j \in 0 .. n - 1, i \div w = j \div w, Column(i) = Column(j)
        PROVE  i = j
    <2>1. i % w \in 0 .. w - 1 /\ j % w \in 0 .. w - 1
      BY <1>4
    <2>2. i % w = j % w
      <3>1. CASE (i \div w) % 2 = 0
        BY <1>5, <3>1
      <3>2. CASE (i \div w) % 2 # 0
        <4>1. Column(i) = w - (i % w) - 1 /\ Column(j) = w - (j % w) - 1
          BY <1>5, <3>2
        <4> HIDE DEF Column
        <4>2. w - (i % w) - 1 = w - (j % w) - 1
          BY <1>5, <4>1
        <4>3. \A a, b, c \in Int : a - b - 1 = a - c - 1 => b = c
          OBVIOUS
        <4>4. QED
          BY <1>2, <2>1, <4>2, <4>3
      <3>3. QED
        BY <3>1, <3>2
    <2>3. i = w * (i \div w) + (i % w) /\ j = w * (j \div w) + (j % w)
      BY <1>4
    <2>4. QED
      BY <1>5, <2>2, <2>3
  <1> HIDE DEF Column
  <1> DEFINE cells == [i \in 1 .. n |-> Vec(Column(i - 1), (i - 1) \div w)]
  <1>6. ASSUME NEW k \in 1 .. n
        PROVE  /\ cells[k].x \in Int /\ cells[k].y \in Int
               /\ Regular(sizes, aspect)[k] = Place(Times(Vec(cells[k].x, cells[k].y), Pitch, 1), FitCell(sizes[k]))
               /\ \A j \in 1 .. k - 1 : cells[j].x # cells[k].x \/ cells[j].y # cells[k].y
    <2>1. cells[k].x = Column(k - 1) /\ cells[k].y = (k - 1) \div w
      BY DEF Vec
    <2>2. k - 1 \in 0 .. n - 1
      BY <1>1
    <2>3. cells[k].x \in Int /\ cells[k].y \in Int
      BY <1>4, <2>1, <2>2
    <2>4. ASSUME NEW j \in 1 .. k - 1 PROVE cells[j].x # cells[k].x \/ cells[j].y # cells[k].y
      <3>1. j \in 1 .. n /\ j - 1 \in 0 .. n - 1 /\ j - 1 # k - 1
        BY <1>1
      <3>2. cells[j].x = Column(j - 1) /\ cells[j].y = (j - 1) \div w
        BY <3>1 DEF Vec
      <3> HIDE DEF cells
      <3>3. QED
        BY <1>5, <2>1, <2>2, <3>1, <3>2
    <2>5. Regular(sizes, aspect)[k] = Place(Times(Vec(cells[k].x, cells[k].y), Pitch, 1), FitCell(sizes[k]))
      BY <1>3, <2>1
    <2>6. QED
      BY <2>3, <2>4, <2>5
  <1> HIDE DEF cells
  <1>7. InCells(Regular(sizes, aspect), sizes, cells)
    BY <1>6 DEF InCells, n
  <1>8. QED
    BY <1>7

-----------------------------------------------------------------------------
(* SpiralLayouter: the cells it has been to are behind it *)

SpiralStates == [x : Int, y : Int, ring : Nat, direction : {"right", "down", "left", "up"}]

(* Where it is on the ring.                                                *)
OnRing(s) ==
  \/ s.direction = "right" /\ s.y = -s.ring /\ s.x \in 2 - s.ring .. s.ring + 1
  \/ s.direction = "down" /\ s.x = s.ring + 1 /\ s.y \in -s.ring .. s.ring + 1
  \/ s.direction = "left" /\ s.y = s.ring + 1 /\ s.x \in -s.ring .. s.ring
  \/ s.direction = "up" /\ s.x = -s.ring /\ s.y \in -s.ring - 1 .. s.ring

(* The cells within the ring, and those of the ring it has passed.         *)
Passed(s, a, b) ==
  \/ a \in 1 - s.ring .. s.ring /\ b \in 1 - s.ring .. s.ring
  \/ s.direction = "right" /\ b = -s.ring /\ a \in 1 - s.ring .. s.x - 1
  \/ s.direction # "right" /\ b = -s.ring /\ a \in 1 - s.ring .. s.ring
  \/ s.direction = "down" /\ a = s.ring + 1 /\ b \in -s.ring .. s.y - 1
  \/ s.direction \in {"left", "up"} /\ a = s.ring + 1 /\ b \in -s.ring .. s.ring
  \/ s.direction = "left" /\ b = s.ring + 1 /\ a \in s.x + 1 .. s.ring + 1
  \/ s.direction = "up" /\ b = s.ring + 1 /\ a \in 1 - s.ring .. s.ring + 1
  \/ s.direction = "up" /\ a = -s.ring /\ b \in s.y + 1 .. s.ring + 1

(* The spiral goes on from where it is to a cell ahead, and leaves the one *)
(* it was at behind.                                                       *)
LEMMA AdvancePasses ==
  ASSUME NEW s \in SpiralStates, OnRing(s)
  PROVE  /\ Advance(s) \in SpiralStates /\ OnRing(Advance(s))
         /\ ~Passed(s, s.x, s.y)
         /\ Passed(Advance(s), s.x, s.y)
         /\ \A a, b \in Int : Passed(s, a, b) => Passed(Advance(s), a, b)
  <1> DEFINE t == Advance(s)
  <1>0. s.x \in Int /\ s.y \in Int /\ s.ring \in Nat
    BY DEF SpiralStates
  <1>1. CASE s.direction = "right"
    <2>1. CASE s.x = s.ring + 1
      <3>1. PICK v \in Int : v = s.y + 1
        BY <1>0
      <3>2. Advance(s) = [s EXCEPT !.direction = "down", !.y = v]
        BY <1>1, <2>1, <3>1 DEF Advance
      <3>3. t \in SpiralStates /\ t.x = s.x /\ t.y = s.y + 1 /\ t.ring = s.ring /\ t.direction = "down"
        BY <1>1, <3>1, <3>2 DEF SpiralStates
      <3> HIDE DEF t
      <3>4. OnRing(t)
        BY <1>0, <1>1, <2>1, <3>3 DEF OnRing
      <3>5. ~Passed(s, s.x, s.y)
        BY <1>0, <1>1, <2>1 DEF OnRing, Passed
      <3>6. Passed(t, s.x, s.y)
        BY <1>0, <1>1, <2>1, <3>3 DEF OnRing, Passed
      <3>7. ASSUME NEW a \in Int, NEW b \in Int, Passed(s, a, b) PROVE Passed(t, a, b)
        BY <1>0, <1>1, <2>1, <3>3, <3>7 DEF OnRing, Passed
      <3>8. QED
        BY <3>3, <3>4, <3>5, <3>6, <3>7 DEF t
    <2>2. CASE s.x # s.ring + 1
      <3>1. Advance(s) = [s EXCEPT !.x = s.x + 1]
        BY <1>1, <2>2 DEF Advance
      <3>2. QED
        BY <1>1, <2>2, <3>1 DEF SpiralStates, OnRing, Passed
    <2>3. QED
      BY <2>1, <2>2
  <1>2. CASE s.direction = "down"
    <2>1. CASE s.y = s.ring + 1
      <3>1. PICK v \in Int : v = s.x - 1
        BY <1>0
      <3>2. Advance(s) = [s EXCEPT !.direction = "left", !.x = v]
        BY <1>2, <2>1, <3>1 DEF Advance
      <3>3. t \in SpiralStates /\ t.x = s.x - 1 /\ t.y = s.y /\ t.ring = s.ring /\ t.direction = "left"
        BY <1>2, <3>1, <3>2 DEF SpiralStates
      <3> HIDE DEF t
      <3>4. OnRing(t)
        BY <1>0, <1>2, <2>1, <3>3 DEF OnRing
      <3>5. ~Passed(s, s.x, s.y)
        BY <1>0, <1>2, <2>1 DEF OnRing, Passed
      <3>6. Passed(t, s.x, s.y)
        BY <1>0, <1>2, <2>1, <3>3 DEF OnRing, Passed
      <3>7. ASSUME NEW a \in Int, NEW b \in Int, Passed(s, a, b) PROVE Passed(t, a, b)
        BY <1>0, <1>2, <2>1, <3>3, <3>7 DEF OnRing, Passed
      <3>8. QED
        BY <3>3, <3>4, <3>5, <3>6, <3>7 DEF t
    <2>2. CASE s.y # s.ring + 1
      <3>1. Advance(s) = [s EXCEPT !.y = s.y + 1]
        BY <1>2, <2>2 DEF Advance
      <3>2. QED
        BY <1>2, <2>2, <3>1 DEF SpiralStates, OnRing, Passed
    <2>3. QED
      BY <2>1, <2>2
  <1>3. CASE s.direction = "left"
    <2>1. CASE s.x = -s.ring
      <3>1. PICK v \in Int : v = s.y - 1
        BY <1>0
      <3>2. Advance(s) = [s EXCEPT !.direction = "up", !.y = v]
        BY <1>3, <2>1, <3>1 DEF Advance
      <3>3. t \in SpiralStates /\ t.x = s.x /\ t.y = s.y - 1 /\ t.ring = s.ring /\ t.direction = "up"
        BY <1>3, <3>1, <3>2 DEF SpiralStates
      <3> HIDE DEF t
      <3>4. OnRing(t)
        BY <1>0, <1>3, <2>1, <3>3 DEF OnRing
      <3>5. ~Passed(s, s.x, s.y)
        BY <1>0, <1>3, <2>1 DEF OnRing, Passed
      <3>6. Passed(t, s.x, s.y)
        BY <1>0, <1>3, <2>1, <3>3 DEF OnRing, Passed
      <3>7. ASSUME NEW a \in Int, NEW b \in Int, Passed(s, a, b) PROVE Passed(t, a, b)
        BY <1>0, <1>3, <2>1, <3>3, <3>7 DEF OnRing, Passed
      <3>8. QED
        BY <3>3, <3>4, <3>5, <3>6, <3>7 DEF t
    <2>2. CASE s.x # -s.ring
      <3>1. Advance(s) = [s EXCEPT !.x = s.x - 1]
        BY <1>3, <2>2 DEF Advance
      <3>2. QED
        BY <1>3, <2>2, <3>1 DEF SpiralStates, OnRing, Passed
    <2>3. QED
      BY <2>1, <2>2
  <1>4. CASE s.direction = "up"
    <2>1. CASE s.y = -s.ring - 1
      <3>1. PICK v \in Int : v = s.x + 1
        BY <1>0
      <3>2. PICK r \in Nat : r = s.ring + 1
        BY <1>0
      <3>3. Advance(s) = [s EXCEPT !.direction = "right", !.x = v, !.ring = r]
        BY <1>4, <2>1, <3>1, <3>2 DEF Advance
      <3>4. t \in SpiralStates /\ t.x = s.x + 1 /\ t.y = s.y /\ t.ring = s.ring + 1 /\ t.direction = "right"
        BY <1>4, <3>1, <3>2, <3>3 DEF SpiralStates
      <3> HIDE DEF t
      <3>5. OnRing(t)
        BY <1>0, <1>4, <2>1, <3>4 DEF OnRing
      <3>6. ~Passed(s, s.x, s.y)
        BY <1>0, <1>4, <2>1 DEF OnRing, Passed
      <3>7. Passed(t, s.x, s.y)
        BY <1>0, <1>4, <2>1, <3>4 DEF OnRing, Passed
      <3>8. ASSUME NEW a \in Int, NEW b \in Int, Passed(s, a, b) PROVE Passed(t, a, b)
        BY <1>0, <1>4, <2>1, <3>4, <3>8 DEF OnRing, Passed
      <3>9. QED
        BY <3>4, <3>5, <3>6, <3>7, <3>8 DEF t
    <2>2. CASE s.y # -s.ring - 1
      <3>1. Advance(s) = [s EXCEPT !.y = s.y - 1]
        BY <1>4, <2>2 DEF Advance
      <3>2. QED
        BY <1>4, <2>2, <3>1 DEF SpiralStates, OnRing, Passed
    <2>3. QED
      BY <2>1, <2>2
  <1>5. QED
    BY <1>1, <1>2, <1>3, <1>4 DEF SpiralStates

(* Every image is put into a cell it has not been to.                      *)
LEMMA SpiralAre ==
  ASSUME NEW sizes \in Seq(Extent)
  PROVE  \E cells : InCells(Spiral(sizes), sizes, cells)
  <1> DEFINE n == Len(sizes)
             S == {s \in SpiralStates : OnRing(s)}
             step == [i \in 1 .. n |-> [s \in S |-> Advance(s)]]
             At(f) == f = [i \in 1 .. n |-> IF i = 1 THEN SpiralStart ELSE Advance(f[i - 1])]
             cells == CHOOSE f : At(f)
  <1>1. n \in Nat
    OBVIOUS
  <1>2. SpiralStart \in S
    BY DEF SpiralStart, SpiralStates, OnRing
  <1>3. \A s \in S : Advance(s) \in S
    BY AdvancePasses
  <1>4. Spiral(sizes) = [i \in 1 .. n |-> Place(Times(Vec(cells[i].x, cells[i].y), Pitch, 1), FitCell(sizes[i]))]
    BY DEF Spiral
  <1> HIDE DEF S, n
  <1>5. step \in [1 .. n -> [S -> S]]
    BY <1>3
  <1> HIDE DEF step
  <1>6. PICK f \in [1 .. n -> S] : RunsFrom1(f, n, SpiralStart, step)
    BY <1>1, <1>2, <1>5, RecursionFrom1
  <1>7. At(f)
    <2>1. ASSUME NEW i \in 1 .. n, i # 1 PROVE f[i] = Advance(f[i - 1])
      <3>1. i - 1 \in 1 .. n
        BY <1>1, <2>1
      <3>2. f[i - 1] \in S
        BY <3>1
      <3>3. QED
        BY <1>6, <2>1, <3>2 DEF RunsFrom1, step
    <2>2. f = [i \in 1 .. n |-> f[i]]
      OBVIOUS
    <2>3. QED
      BY <1>6, <2>1, <2>2 DEF RunsFrom1
  <1>8. At(cells)
    BY <1>7
  <1> HIDE DEF cells
  <1> DEFINE Ahead(k) == cells[k] \in S /\ \A j \in 1 .. k - 1 : cells[j] \in S /\ Passed(cells[k], cells[j].x, cells[j].y)
             T == {k \in Nat : k \in 1 .. n => Ahead(k)}
  <1>9. 0 \in T
    OBVIOUS
  <1>10. ASSUME NEW k \in Nat, k \in T PROVE k + 1 \in T
    <2> SUFFICES ASSUME k + 1 \in 1 .. n PROVE Ahead(k + 1)
      OBVIOUS
    <2>1. CASE k = 0
      <3>1. cells[1] = SpiralStart
        BY <1>8, <2>1
      <3>2. QED
        BY <1>2, <2>1, <3>1
    <2>2. CASE k # 0
      <3>1. k \in 1 .. n /\ (k + 1) - 1 = k
        BY <1>1, <2>2
      <3>2. cells[k + 1] = Advance(cells[k]) /\ Ahead(k)
        BY <1>8, <1>10, <2>2, <3>1
      <3>3. cells[k] \in SpiralStates /\ OnRing(cells[k])
        BY <3>2 DEF S
      <3>4. /\ Advance(cells[k]) \in S
            /\ Passed(Advance(cells[k]), cells[k].x, cells[k].y)
            /\ \A a, b \in Int : Passed(cells[k], a, b) => Passed(Advance(cells[k]), a, b)
        BY <3>3, AdvancePasses DEF S
      <3>5. ASSUME NEW j \in 1 .. k PROVE cells[j] \in S /\ Passed(cells[k + 1], cells[j].x, cells[j].y)
        <4>1. CASE j = k
          BY <3>2, <3>4, <4>1
        <4>2. CASE j # k
          <5>1. j \in 1 .. k - 1
            BY <3>5, <4>2
          <5>2. cells[j] \in S /\ Passed(cells[k], cells[j].x, cells[j].y)
            BY <3>2, <5>1
          <5>3. cells[j].x \in Int /\ cells[j].y \in Int
            BY <5>2 DEF S, SpiralStates
          <5>4. QED
            BY <3>2, <3>4, <5>2, <5>3
        <4>3. QED
          BY <4>1, <4>2
      <3>6. QED
        BY <3>1, <3>2, <3>4, <3>5
    <2>3. QED
      BY <2>1, <2>2
  <1> HIDE DEF T
  <1>11. \A k \in Nat : k \in T
    BY <1>9, <1>10, Induction
  <1>12. \A k \in 1 .. n : Ahead(k)
    BY <1>1, <1>11 DEF T
  <1>13. ASSUME NEW k \in 1 .. n
         PROVE  /\ cells[k].x \in Int /\ cells[k].y \in Int
                /\ \A j \in 1 .. k - 1 : cells[j].x # cells[k].x \/ cells[j].y # cells[k].y
    <2>1. cells[k] \in SpiralStates /\ OnRing(cells[k])
      BY <1>12 DEF S
    <2>2. ~Passed(cells[k], cells[k].x, cells[k].y)
      BY <2>1, AdvancePasses
    <2>3. QED
      BY <1>12, <2>1, <2>2 DEF SpiralStates
  <1>14. InCells(Spiral(sizes), sizes, cells)
    BY <1>4, <1>13 DEF InCells, n
  <1>15. QED
    BY <1>14

-----------------------------------------------------------------------------
(* TightLayouter: the images of the row are behind its end, the other ones *)
(* above it                                                                *)

Rows == [x : Int, y : Int, last : Int, go_right : BOOLEAN, places : Seq(Spots)]

(* An image at a place takes up a rectangle.                               *)
LEMMA PlacedBox ==
  ASSUME NEW size \in Extent, NEW place \in Spots
  PROVE  PlacedRect(size, place) \in Box
  <1>1. Scaled(size, place.scale).width \in Nat /\ Scaled(size, place.scale).height \in Nat
    BY ScaledSize DEF Spots
  <1>2. QED
    BY <1>1 DEF PlacedRect, RectOf, Rect, Plus, Minus, Vec, Box, Point, Spots

(* Where the next image is put, and that it is as high as its row at most. *)
LEMMA TightSizes ==
  ASSUME NEW size \in Extent
  PROVE  /\ TightScale(size) \in Nat /\ TightWidth(size) \in Nat
         /\ \A x, y \in Int : \A r :
              r = PlacedRect(size, Place(Plus(Vec(x, y), Vec(TightWidth(size) \div 2, Cell \div 2)), TightScale(size)))
              => r.left = x /\ r.right = x + TightWidth(size) /\ r.top >= y /\ r.bottom <= y + Cell
  <1> DEFINE s == TightScale(size)
             w == TightWidth(size)
             h == (size.height * s) \div Unit
  <1>1. size.width \in Nat /\ size.height \in Nat \ {0}
    BY DEF Extent
  <1>2. s \in Nat /\ size.height * s <= 64000
    <2>1. 64000 \div size.height \in Nat /\ size.height * (64000 \div size.height) <= 64000
      BY <1>1, NaturalDivision
    <2>2. s = 64000 \div size.height
      BY DEF TightScale, Cell, Unit
    <2>3. QED
      BY <2>1, <2>2
  <1> HIDE DEF s
  <1>3. \A a, b \in Nat : a * b \in Nat
    OBVIOUS
  <1>4. w \in Nat
    <2>1. size.width * s \in Nat
      BY <1>1, <1>2, <1>3
    <2>2. QED
      BY <2>1, NaturalDivision DEF TightWidth, Unit, s
  <1>5. h \in 0 .. 1000
    <2>1. size.height * s \in Nat
      BY <1>1, <1>2, <1>3
    <2>2. \A a \in Nat : a <= 64000 => a \div 64 \in 0 .. 1000
      OBVIOUS
    <2>3. QED
      BY <1>2, <2>1, <2>2 DEF Unit
  <1>6. Scaled(size, s).width = w /\ Scaled(size, s).height = h
    BY DEF Scaled, Size, TightWidth, s
  <1> HIDE DEF w, h
  <1>7. ASSUME NEW x \in Int, NEW y \in Int,
               NEW r, r = PlacedRect(size, Place(Plus(Vec(x, y), Vec(w \div 2, Cell \div 2)), s))
        PROVE  r.left = x /\ r.right = x + w /\ r.top >= y /\ r.bottom <= y + Cell
    <2>1. PICK v \in Int : v = w \div 2
      BY <1>4
    <2>2. r = RectOf(Minus(Plus(Vec(x, y), Vec(v, 500)), Vec(v, h \div 2)), Scaled(size, s))
      BY <1>6, <1>7, <2>1 DEF PlacedRect, Place, Cell
    <2>3. PICK u \in Int : u = h \div 2 /\ u \in 0 .. 500 /\ h - u \in 0 .. 500
      BY <1>5
    <2>4. r = RectOf(Vec((x + v) - v, (y + 500) - u), Scaled(size, s))
      BY <2>2, <2>3 DEF Minus, Plus, Vec
    <2>5. (x + v) - v = x
      BY <2>1
    <2>6. r.left = x /\ r.right = x + w /\ r.top = (y + 500) - u /\ r.bottom = ((y + 500) - u) + h
      BY <1>6, <2>4, <2>5 DEF RectOf, Rect, Plus, Vec
    <2>7. QED
      BY <1>4, <1>5, <2>3, <2>6 DEF Cell
  <1>8. QED
    BY <1>2, <1>4, <1>7 DEF s, w

(* TightLayouter either begins a row above the last one or puts the next   *)
(* image behind the one it placed last (tight_layouter.cpp:58-101).        *)
LEMMA TightNextIs ==
  ASSUME NEW row \in Rows, NEW size \in Extent, NEW area,
         NEW next, next = TightNext(row, size, area)
  PROVE  /\ next \in Rows
         /\ \/ next.y = row.y + Cell + Spacing
            \/ next.y = row.y /\ row.go_right /\ next.go_right /\ next.last = row.x
            \/ next.y = row.y /\ ~row.go_right /\ ~next.go_right /\ next.last = row.x - TightWidth(size) - Spacing
         /\ next.x = IF next.go_right THEN next.last + TightWidth(size) + Spacing ELSE next.last
         /\ next.places = Append(row.places, Place(Plus(Vec(next.last, next.y),
                            Vec(TightWidth(size) \div 2, Cell \div 2)), TightScale(size)))
  <1> DEFINE w == TightWidth(size)
             full == IF row.go_right THEN (row.x + w) * (row.x + w) > area ELSE row.x - w < 0
             x == CASE row.go_right /\ full -> row.last
                    [] ~row.go_right /\ ~full -> row.x - w - Spacing
                    [] OTHER -> row.x
             y == IF full THEN row.y + Cell + Spacing ELSE row.y
             go_right == IF full THEN ~row.go_right ELSE row.go_right
             end == IF go_right THEN x + w + Spacing ELSE x
             place == Place(Plus(Vec(x, y), Vec(w \div 2, Cell \div 2)), TightScale(size))
  <1>1. next = [x |-> end, y |-> y, last |-> x, go_right |-> go_right, places |-> Append(row.places, place)]
    BY DEF TightNext
  <1>2. w \in Nat /\ TightScale(size) \in Nat
    BY TightSizes
  <1>3. row.x \in Int /\ row.y \in Int /\ row.last \in Int /\ row.go_right \in BOOLEAN /\ row.places \in Seq(Spots)
    BY DEF Rows
  <1> HIDE DEF w, place
  <1> HIDE DEF full
  <1>4. go_right \in BOOLEAN
    BY <1>3
  <1>5. x \in Int /\ y \in Int /\ end \in Int
    BY <1>2, <1>3 DEF Cell, Spacing
  <1>6. \/ y = row.y + Cell + Spacing
        \/ y = row.y /\ row.go_right /\ go_right /\ x = row.x
        \/ y = row.y /\ ~row.go_right /\ ~go_right /\ x = row.x - w - Spacing
    <2>1. CASE full
      BY <1>3, <2>1
    <2>2. CASE ~full
      BY <1>3, <2>2
    <2>3. QED
      BY <2>1, <2>2
  <1> HIDE DEF go_right, x, y
  <1>7. place \in Spots
    BY <1>2, <1>5 DEF place, Place, Spots, Plus, Vec, Point, Cell
  <1>8. Append(row.places, place) \in Seq(Spots)
    BY <1>3, <1>7
  <1>9. QED
    BY <1>1, <1>4, <1>5, <1>6, <1>8 DEF Rows, w, place

RectIn(sizes, row, j) == PlacedRect(sizes[j], row.places[j])

(* The row after k images.                                                 *)
RowOf(row, sizes, k) ==
  /\ row \in Rows /\ Len(row.places) = k
  /\ \A j \in 1 .. k :
       \/ RectIn(sizes, row, j).bottom <= row.y - Spacing
       \/ /\ RectIn(sizes, row, j).bottom <= row.y + Cell
          /\ row.go_right => RectIn(sizes, row, j).right <= row.x - Spacing
          /\ ~row.go_right => RectIn(sizes, row, j).left >= row.x
  /\ \A j \in 1 .. k : \A i \in 1 .. j - 1 : ~Overlapped(RectIn(sizes, row, i), RectIn(sizes, row, j))

(* What RowOf says of a row is true when one more image has been placed.   *)
LEMMA RowStep ==
  ASSUME NEW sizes \in Seq(Extent), NEW k \in Nat, k + 1 <= Len(sizes), NEW row, RowOf(row, sizes, k),
         NEW area, NEW next, next = TightNext(row, sizes[k + 1], area)
  PROVE  RowOf(next, sizes, k + 1)
  <1> DEFINE size == sizes[k + 1]
             w == TightWidth(size)
             r == RectIn(sizes, next, k + 1)
             place == Place(Plus(Vec(next.last, next.y), Vec(w \div 2, Cell \div 2)), TightScale(size))
  <1>1. size \in Extent /\ row \in Rows
    BY DEF RowOf
  <1>2. /\ next \in Rows
        /\ \/ next.y = row.y + Cell + Spacing
           \/ next.y = row.y /\ row.go_right /\ next.go_right /\ next.last = row.x
           \/ next.y = row.y /\ ~row.go_right /\ ~next.go_right /\ next.last = row.x - w - Spacing
        /\ next.x = IF next.go_right THEN next.last + w + Spacing ELSE next.last
        /\ next.places = Append(row.places, place)
    BY <1>1, TightNextIs
  <1> HIDE DEF w, place
  <1>3. row.places \in Seq(Spots) /\ Len(row.places) = k
    BY <1>1 DEF Rows, RowOf
  <1>4. /\ Len(next.places) = k + 1 /\ next.places[k + 1] = place
        /\ \A j \in 1 .. k : next.places[j] = row.places[j]
    BY <1>2, <1>3
  <1>5. \A j \in 1 .. k : RectIn(sizes, next, j) = RectIn(sizes, row, j)
    BY <1>4 DEF RectIn
  <1>6. /\ next.x \in Int /\ next.y \in Int /\ next.last \in Int
        /\ row.x \in Int /\ row.y \in Int /\ row.go_right \in BOOLEAN /\ next.go_right \in BOOLEAN
    BY <1>1, <1>2 DEF Rows
  <1>7. /\ w \in Nat /\ r.left = next.last /\ r.right = next.last + w
        /\ r.top >= next.y /\ r.bottom <= next.y + Cell
    <2> DEFINE At(x, y) ==
                 PlacedRect(size, Place(Plus(Vec(x, y), Vec(TightWidth(size) \div 2, Cell \div 2)), TightScale(size)))
    <2>1. r = PlacedRect(size, place)
      BY <1>4 DEF RectIn
    <2> HIDE DEF r, size
    <2>2. /\ TightWidth(size) \in Nat
          /\ \A x, y \in Int : /\ At(x, y).left = x /\ At(x, y).right = x + TightWidth(size)
                               /\ At(x, y).top >= y /\ At(x, y).bottom <= y + Cell
      <3>1. /\ TightWidth(size) \in Nat
            /\ \A x, y \in Int : \A b : b = At(x, y)
                 => b.left = x /\ b.right = x + TightWidth(size) /\ b.top >= y /\ b.bottom <= y + Cell
        BY <1>1, TightSizes
      <3>2. QED
        BY <3>1, Zenon
    <2>3. r = At(next.last, next.y)
      BY <2>1 DEF w, place
    <2> HIDE DEF At
    <2>4. r.left = next.last /\ r.right = next.last + TightWidth(size) /\ r.top >= next.y /\ r.bottom <= next.y + Cell
      BY <1>6, <2>2, <2>3
    <2>5. QED
      BY <2>2, <2>4 DEF w
  <1>8. r \in Box
    BY <1>1, <1>2, <1>4, PlacedBox DEF RectIn, Rows
  <1>9. ASSUME NEW j \in 1 .. k PROVE RectIn(sizes, row, j) \in Box
    <2>1. sizes[j] \in Extent /\ row.places[j] \in Spots
      BY <1>3
    <2>2. QED
      BY <2>1, PlacedBox DEF RectIn
  <1> HIDE DEF r
  <1>10. /\ \/ next.y = row.y + 1024
            \/ next.y = row.y /\ row.go_right /\ next.go_right /\ next.last = row.x
            \/ next.y = row.y /\ ~row.go_right /\ ~next.go_right /\ next.last = row.x - w - 24
         /\ next.go_right => next.x = next.last + w + 24
         /\ ~next.go_right => next.x = next.last
    BY <1>2, <1>6, <1>7 DEF Cell, Spacing
  <1>11. ASSUME NEW j \in 1 .. k
         PROVE  /\ ~Overlapped(RectIn(sizes, row, j), r)
                /\ \/ RectIn(sizes, row, j).bottom <= next.y - Spacing
                   \/ /\ RectIn(sizes, row, j).bottom <= next.y + Cell
                      /\ next.go_right => RectIn(sizes, row, j).right <= next.x - Spacing
                      /\ ~next.go_right => RectIn(sizes, row, j).left >= next.x
    <2> DEFINE q == RectIn(sizes, row, j)
    <2>1. q \in Box
      BY <1>9
    <2>2. \/ q.bottom <= row.y - Spacing
          \/ /\ q.bottom <= row.y + Cell
             /\ row.go_right => q.right <= row.x - Spacing
             /\ ~row.go_right => q.left >= row.x
      BY DEF RowOf
    <2> HIDE DEF q
    <2>3. q.left \in Int /\ q.right \in Int /\ q.top \in Int /\ q.bottom \in Int
      BY <2>1 DEF Box
    <2>4. r.left \in Int /\ r.right \in Int /\ r.top \in Int /\ r.bottom \in Int
      BY <1>8 DEF Box
    <2>5. CASE next.y = row.y + 1024
      <3>1. q.bottom <= next.y - 24
        BY <1>6, <2>2, <2>3, <2>5 DEF Cell, Spacing
      <3>2. ~(q.bottom > r.top)
        BY <1>6, <1>7, <2>3, <2>4, <3>1
      <3>3. QED
        BY <2>3, <2>4, <3>1, <3>2 DEF Overlapped, Spacing, q
    <2>6. CASE next.y = row.y /\ row.go_right /\ next.go_right /\ next.last = row.x
      <3>1. q.bottom <= next.y - Spacing \/ (q.bottom <= next.y + Cell /\ q.right <= next.last - 24)
        BY <2>2, <2>6 DEF Spacing
      <3>2. q.bottom <= next.y - 24 \/ q.right <= r.left
        BY <1>6, <1>7, <2>3, <2>4, <3>1 DEF Spacing
      <3>3. ~(q.bottom > r.top) \/ ~(r.left < q.right)
        BY <1>6, <1>7, <2>3, <2>4, <3>2
      <3>4. q.bottom <= next.y - Spacing \/ (q.bottom <= next.y + Cell /\ q.right <= next.x - Spacing)
        BY <1>10, <1>6, <1>7, <2>3, <2>6, <3>1 DEF Spacing
      <3>5. QED
        BY <2>6, <3>3, <3>4 DEF Overlapped, q
    <2>7. CASE next.y = row.y /\ ~row.go_right /\ ~next.go_right /\ next.last = row.x - w - 24
      <3>1. q.bottom <= next.y - Spacing \/ (q.bottom <= next.y + Cell /\ q.left >= row.x)
        BY <2>2, <2>7
      <3>2. r.right = row.x - 24 /\ next.x <= row.x
        BY <1>10, <1>6, <1>7, <2>7
      <3>3. ~(q.bottom > r.top) \/ ~(r.right > q.left)
        <4>1. CASE q.bottom <= next.y - Spacing
          <5>1. q.bottom <= r.top
            BY <1>6, <1>7, <2>3, <2>4, <4>1 DEF Spacing
          <5>2. QED
            BY <2>3, <2>4, <5>1
        <4>2. CASE q.left >= row.x
          BY <1>6, <2>3, <2>4, <3>2, <4>2
        <4>3. QED
          BY <3>1, <4>1, <4>2
      <3>4. q.bottom <= next.y - Spacing \/ (q.bottom <= next.y + Cell /\ q.left >= next.x)
        BY <1>6, <2>3, <3>1, <3>2
      <3>5. QED
        BY <2>7, <3>3, <3>4 DEF Overlapped, q
    <2>8. QED
      BY <1>10, <2>5, <2>6, <2>7
  <1>12. ASSUME NEW j \in 1 .. k + 1
         PROVE  \/ RectIn(sizes, next, j).bottom <= next.y - Spacing
                \/ /\ RectIn(sizes, next, j).bottom <= next.y + Cell
                   /\ next.go_right => RectIn(sizes, next, j).right <= next.x - Spacing
                   /\ ~next.go_right => RectIn(sizes, next, j).left >= next.x
    <2>1. CASE j \in 1 .. k
      BY <1>5, <1>11, <2>1
    <2>2. CASE j = k + 1
      <3>1. r.bottom <= next.y + Cell /\ (next.go_right => r.right <= next.x - Spacing) /\ (~next.go_right => r.left >= next.x)
        BY <1>10, <1>6, <1>7 DEF Spacing
      <3>2. QED
        BY <2>2, <3>1 DEF r
    <2>3. QED
      BY <2>1, <2>2
  <1>13. ASSUME NEW j \in 1 .. k + 1, NEW i \in 1 .. j - 1
         PROVE  ~Overlapped(RectIn(sizes, next, i), RectIn(sizes, next, j))
    <2>1. i \in 1 .. k
      BY <1>13
    <2>2. CASE j \in 1 .. k
      BY <1>5, <2>1, <2>2 DEF RowOf
    <2>3. CASE j = k + 1
      BY <1>5, <1>11, <2>1, <2>3 DEF r
    <2>4. QED
      BY <2>2, <2>3
  <1>14. QED
    BY <1>2, <1>4, <1>12, <1>13 DEF RowOf

(* The tight layout puts every image somewhere, and no two over each other. *)
LEMMA TightAre ==
  ASSUME NEW sizes \in Seq(Extent), NEW aspect
  PROVE  \E row : Tight(sizes, aspect) = row.places /\ RowOf(row, sizes, Len(sizes))
  <1> DEFINE n == Len(sizes)
             area == TightArea(sizes, aspect)
             step == [k \in 1 .. n |-> [s \in Rows |-> TightNext(s, sizes[k], area)]]
             Row(f) == f = [k \in 0 .. n |-> IF k = 0 THEN TightStart ELSE TightNext(f[k - 1], sizes[k], area)]
             row == CHOOSE f : Row(f)
  <1>1. n \in Nat /\ \A k \in 1 .. n : sizes[k] \in Extent
    OBVIOUS
  <1>2. Tight(sizes, aspect) = row[n].places
    BY DEF Tight
  <1> HIDE DEF n, area
  <1>3. \A k \in 1 .. n : \A s \in Rows : TightNext(s, sizes[k], area) \in Rows
    BY <1>1, TightNextIs
  <1>4. TightStart \in Rows /\ RowOf(TightStart, sizes, 0)
    <2>1. <<>> \in Seq(Spots) /\ Len(<<>>) = 0
      OBVIOUS
    <2>2. TightStart \in Rows /\ TightStart.places = <<>>
      BY <2>1 DEF TightStart, Rows
    <2>3. QED
      BY <2>1, <2>2 DEF RowOf
  <1>5. step \in [1 .. n -> [Rows -> Rows]]
    BY <1>3
  <1> HIDE DEF step
  <1>6. PICK f \in [0 .. n -> Rows] : Runs(f, n, TightStart, step)
    BY <1>1, <1>4, <1>5, Recursion
  <1>7. Row(f)
    <2>1. ASSUME NEW k \in 0 .. n, k # 0 PROVE f[k] = TightNext(f[k - 1], sizes[k], area)
      <3>1. k \in 1 .. n /\ k - 1 \in 0 .. n
        BY <1>1, <2>1
      <3>2. f[k - 1] \in Rows
        BY <3>1
      <3>3. QED
        BY <1>6, <3>1, <3>2 DEF Runs, step
    <2>2. f = [k \in 0 .. n |-> f[k]]
      OBVIOUS
    <2>3. QED
      BY <1>6, <2>1, <2>2 DEF Runs
  <1>8. Row(row)
    BY <1>7
  <1> HIDE DEF row
  <1> DEFINE T == {k \in Nat : k <= n => RowOf(row[k], sizes, k)}
  <1>9. 0 \in T
    <2>1. row[0] = TightStart
      BY <1>1, <1>8
    <2>2. QED
      BY <1>4, <2>1
  <1>10. ASSUME NEW k \in Nat, k \in T PROVE k + 1 \in T
    <2> SUFFICES ASSUME k + 1 <= n PROVE RowOf(row[k + 1], sizes, k + 1)
      OBVIOUS
    <2>1. k + 1 \in 0 .. n /\ (k + 1) - 1 = k /\ RowOf(row[k], sizes, k)
      BY <1>1, <1>10
    <2>2. row[k + 1] = TightNext(row[(k + 1) - 1], sizes[k + 1], area)
      <3> HIDE DEF Row
      <3>1. \A i \in 0 .. n : i # 0 => row[i] = TightNext(row[i - 1], sizes[i], area)
        BY <1>8 DEF Row
      <3>2. k + 1 # 0
        OBVIOUS
      <3>3. QED
        BY <2>1, <3>1, <3>2
    <2>3. QED
      BY <2>1, <2>2, RowStep DEF n
  <1> HIDE DEF T
  <1>11. n \in T
    BY <1>1, <1>9, <1>10, Induction
  <1>12. RowOf(row[n], sizes, n)
    BY <1>1, <1>11 DEF T
  <1>13. QED
    BY <1>2, <1>12 DEF n

-----------------------------------------------------------------------------
(* What the layouts do to the images *)

(* Giving images their places starts an animation of these images only.    *)
LEMMA LayOutGood ==
  ASSUME GoodPics(pics), NEW ids \in Seq(Ids), NEW places,
         \A k \in 1 .. Len(ids) : places[k] \in Spots, LayOut(ids, places)
  PROVE  GoodPics(pics') /\ progress' = 0 /\ \A i \in Ids : i \notin ToSet(ids) => pics'[i] = pics[i]
  <1> DEFINE cells(i) == CHOOSE k \in DOMAIN ids : ids[k] = i
  <1>1. pics' = [i \in Ids |-> IF i \in ToSet(ids) THEN SetTarget(pics[i], places[cells(i)]) ELSE pics[i]]
    BY DEF LayOut
  <1>2. ASSUME NEW i \in Ids, i \in ToSet(ids) PROVE GoodPic(SetTarget(pics[i], places[cells(i)]))
    <2>1. \E k \in DOMAIN ids : ids[k] = i
      BY <1>2 DEF ToSet
    <2>2. cells(i) \in DOMAIN ids
      BY <2>1
    <2>3. DOMAIN ids = 1 .. Len(ids)
      OBVIOUS
    <2> HIDE DEF cells
    <2>4. places[cells(i)] \in Spots
      BY <2>2, <2>3
    <2>5. QED
      BY <2>4, SetTargetPic DEF GoodPics, Spots
  <1> HIDE DEF cells
  <1>3. QED
    BY <1>1, <1>2 DEF GoodPics, LayOut

(* Every layout the user can ask for.                                      *)
LEMMA RunLayouterGood ==
  ASSUME GoodPics(pics), NEW ids \in Seq(Ids), NEW l \in Layouter, l.kind # "none",
         ~LayouterFails(l, ids), RunLayouter(l, ids)
  PROVE  GoodPics(pics') /\ progress' = 0 /\ \A i \in Ids : i \notin ToSet(ids) => pics'[i] = pics[i]
  <1> DEFINE n == Len(ids)
             sizes == Sizes(ids)
  <1>1. sizes \in Seq(Extent) /\ Len(sizes) = n /\ n \in Nat /\ (ids = <<>> <=> n = 0) /\ DOMAIN ids = 1 .. n
    BY SizesAre
  <1> HIDE DEF sizes, n
  <1>2. \E places : LayOut(ids, places) /\ \A k \in 1 .. n : places[k] \in Spots
    <2>1. CASE ids = <<>>
      <3>1. 1 .. n = {}
        BY <1>1, <2>1
      <3>2. \E places : LayOut(ids, places)
        BY <2>1 DEF RunLayouter, Layouter
      <3>3. QED
        BY <3>1, <3>2
    <2>2. CASE ids # <<>> /\ l.kind = "regular"
      <3>1. RegularWidth(Len(sizes), l.aspect) # 0 /\ l.aspect \in Extent
        BY <1>1, <2>2 DEF LayouterFails, Layouter, n
      <3>2. PICK cells : InCells(Regular(sizes, l.aspect), sizes, cells)
        BY <1>1, <3>1, RegularAre
      <3>3. \A k \in 1 .. n : Regular(sizes, l.aspect)[k] \in Spots
        BY <1>1, <3>2, CellPlaces
      <3>4. LayOut(ids, Regular(sizes, l.aspect))
        BY <2>2 DEF RunLayouter, sizes
      <3>5. QED
        BY <3>3, <3>4
    <2>3. CASE ids # <<>> /\ l.kind = "tight"
      <3>1. PICK row : Tight(sizes, l.aspect) = row.places /\ RowOf(row, sizes, n)
        BY <1>1, TightAre
      <3>2. row.places \in Seq(Spots) /\ Len(row.places) = n
        BY <3>1 DEF RowOf, Rows
      <3>3. \A k \in 1 .. n : Tight(sizes, l.aspect)[k] \in Spots
        BY <3>1, <3>2
      <3>4. LayOut(ids, Tight(sizes, l.aspect))
        BY <2>3 DEF RunLayouter, sizes
      <3>5. QED
        BY <3>3, <3>4
    <2>4. CASE ids # <<>> /\ l.kind = "spiral"
      <3>1. PICK cells : InCells(Spiral(sizes), sizes, cells)
        BY <1>1, SpiralAre
      <3>2. \A k \in 1 .. n : Spiral(sizes)[k] \in Spots
        BY <1>1, <3>1, CellPlaces
      <3>3. LayOut(ids, Spiral(sizes))
        BY <2>4 DEF RunLayouter, sizes
      <3>4. QED
        BY <3>2, <3>3
    <2>5. CASE ids # <<>> /\ l.kind = "random"
      <3>1. PICK places \in [DOMAIN ids -> RandomPlaces] : LayOut(ids, places)
        BY <2>5 DEF RunLayouter
      <3>2. \A k \in 1 .. n : places[k] \in Spots
        BY <1>1, <3>1, WorkspaceAssumption DEF Spots, Point
      <3>3. QED
        BY <3>1, <3>2
    <2>6. QED
      BY <2>1, <2>2, <2>3, <2>4, <2>5 DEF Layouter
  <1>3. QED
    BY <1>2, LayOutGood DEF n

(* layout_vertical() does so for every image of the workspace.             *)
LEMMA LayoutVerticalGood ==
  ASSUME GoodPics(pics), images \in Seq(Ids), LayoutVertical
  PROVE  GoodPics(pics') /\ progress' = 0 /\ \A i \in Ids : i \notin ToSet(images) => pics'[i] = pics[i]
  <1> DEFINE n == Len(images)
             Next0(s, k) == s + pics[images[k - 1]].size.height + 10
             step == [k \in 1 .. n |-> [s \in Int |-> IF k = 1 THEN 0 ELSE Next0(s, k)]]
             Y(f) == f = [k \in 1 .. n |-> IF k = 1 THEN 0 ELSE f[k - 1] + pics[images[k - 1]].size.height + 10]
             y == CHOOSE f : Y(f)
             places == [k \in DOMAIN images |-> Place(Vec(0, y[k]), Unit)]
  <1>1. n \in Nat /\ DOMAIN images = 1 .. n /\ \A k \in 1 .. n : images[k] \in Ids
    OBVIOUS
  <1>2. \A k \in 1 .. n : pics[images[k]].size.height \in Int
    BY <1>1 DEF GoodPics, GoodPic, PicturesOf, Extent
  <1>3. LayOut(images, places)
    BY DEF LayoutVertical
  <1> HIDE DEF n
  <1>4. \A k \in 1 .. n : \A s \in Int : k # 1 => Next0(s, k) \in Int
    <2> SUFFICES ASSUME NEW k \in 1 .. n, NEW s \in Int, k # 1 PROVE Next0(s, k) \in Int
      OBVIOUS
    <2>1. k - 1 \in 1 .. n
      BY <1>1
    <2>2. QED
      BY <1>2, <2>1
  <1>5. step \in [1 .. n -> [Int -> Int]]
    BY <1>4
  <1>6. PICK f \in [1 .. n -> Int] : RunsFrom1(f, n, 0, step)
    <2> HIDE DEF step
    <2>1. 0 \in Int
      OBVIOUS
    <2>2. QED
      BY <1>1, <1>5, <2>1, RecursionFrom1
  <1>7. Y(f)
    <2>1. ASSUME NEW k \in 1 .. n, k # 1 PROVE f[k] = Next0(f[k - 1], k)
      <3>1. k - 1 \in 1 .. n
        BY <1>1, <2>1
      <3>2. f[k - 1] \in Int
        BY <3>1
      <3> HIDE DEF Next0
      <3>3. f[k] = step[k][f[k - 1]]
        BY <1>6, <2>1 DEF RunsFrom1
      <3>4. QED
        BY <2>1, <3>2, <3>3
    <2>2. f = [k \in 1 .. n |-> f[k]]
      OBVIOUS
    <2>3. QED
      BY <1>6, <2>1, <2>2 DEF RunsFrom1
  <1>8. Y(y)
    BY <1>7
  <1> HIDE DEF y
  <1> DEFINE T == {k \in Nat : k \in 1 .. n => y[k] \in Int}
  <1>9. 0 \in T
    OBVIOUS
  <1>10. ASSUME NEW k \in Nat, k \in T PROVE k + 1 \in T
    <2> SUFFICES ASSUME k + 1 \in 1 .. n PROVE y[k + 1] \in Int
      OBVIOUS
    <2>1. CASE k = 0
      BY <1>8, <2>1
    <2>2. CASE k # 0
      <3>1. k \in 1 .. n /\ (k + 1) - 1 = k /\ y[k] \in Int
        BY <1>1, <1>10, <2>2
      <3>2. y[k + 1] = y[(k + 1) - 1] + pics[images[(k + 1) - 1]].size.height + 10
        <4> HIDE DEF Y
        <4>1. \A i \in 1 .. n : i # 1 => y[i] = y[i - 1] + pics[images[i - 1]].size.height + 10
          BY <1>8 DEF Y
        <4>2. k + 1 \in 1 .. n /\ k + 1 # 1
          BY <2>2
        <4>3. QED
          BY <4>1, <4>2
      <3>3. QED
        BY <1>2, <3>1, <3>2
    <2>3. QED
      BY <2>1, <2>2
  <1> HIDE DEF T
  <1>11. \A k \in 1 .. n : y[k] \in Int
    <2>1. \A k \in Nat : k \in T
      BY <1>9, <1>10, Induction
    <2>2. QED
      BY <1>1, <2>1 DEF T
  <1>12. \A k \in 1 .. n : places[k] \in Spots
    BY <1>1, <1>11 DEF Place, Spots, Vec, Point, Unit
  <1> HIDE DEF places
  <1>13. QED
    BY <1>3, <1>12, LayOutGood DEF n

(* A new order is laid out as the images were before.                      *)
LEMMA ReorderGood ==
  ASSUME GoodPics(pics), images \in Seq(Ids), progress \in 0 .. Finished, layouter \in Layouter, OthersAtRest,
         NEW order \in SetToSeqs(ToSet(images)), Reorder(order)
  PROVE  GoodPics(pics') /\ images' \in Seq(Ids) /\ progress' \in 0 .. Finished /\ OthersAtRest'
  <1>1. order \in Seq(Ids) /\ ToSet(order) = ToSet(images)
    BY OrderOfImages
  <1>2. images' = order /\ ToSet(images') = ToSet(images)
    BY <1>1 DEF Reorder
  <1>3. CASE layouter.kind = "none"
    <2>1. pics' = pics /\ progress' = progress
      BY <1>3 DEF Reorder
    <2>2. QED
      BY <1>1, <1>2, <2>1 DEF GoodPics, OthersAtRest, IsAnimated
  <1>4. CASE layouter.kind # "none"
    <2>1. GoodPics(pics') /\ progress' = 0 /\ \A i \in Ids : i \notin ToSet(images) => pics'[i] = pics[i]
      BY <1>1, <1>4, RunLayouterGood DEF Reorder
    <2>2. QED
      BY <1>1, <1>2, <2>1 DEF OthersAtRest, IsAnimated, Finished
  <1>5. QED
    BY <1>3, <1>4

-----------------------------------------------------------------------------
(* No layout puts images over each other *)

(* Rectangles that are apart stay so when one of them shrinks.             *)
LEMMA OverlappedBoth ==
  ASSUME NEW q \in Box, NEW r \in Box, ~Overlapped(q, r)
  PROVE  ~Overlapped(Grown(q, -1, -1), r) /\ ~Overlapped(Grown(r, -1, -1), q)
  <1>1. /\ q.left \in Int /\ q.right \in Int /\ q.top \in Int /\ q.bottom \in Int
        /\ r.left \in Int /\ r.right \in Int /\ r.top \in Int /\ r.bottom \in Int
    BY DEF Box
  <1>2. QED
    BY <1>1 DEF Overlapped, Grown, Rect, Vec

(* A layout whose places are apart keeps the images apart when they have   *)
(* got there.                                                              *)
LEMMA ApartByPairs ==
  ASSUME GoodPics(pics), images \in Seq(Ids), NEW places,
         \A k \in 1 .. Len(images) : places[k] \in Spots,
         \A k \in 1 .. Len(images) : \A j \in 1 .. k - 1 :
           ~Overlapped(PlacedRect(Sizes(images)[j], places[j]), PlacedRect(Sizes(images)[k], places[k]))
  PROVE  KeepsApart(places)
  <1> DEFINE R(k) == PlacedRect(pics[images[k]].size, places[k])
  <1>1. DOMAIN images = 1 .. Len(images) /\ Len(images) \in Nat /\ \A k \in 1 .. Len(images) : images[k] \in Ids
    OBVIOUS
  <1>2. \A k \in 1 .. Len(images) : Sizes(images)[k] = pics[images[k]].size /\ pics[images[k]].size \in Extent
    BY <1>1 DEF Sizes, GoodPics, GoodPic, PicturesOf
  <1>3. \A k \in 1 .. Len(images) : R(k) \in Box
    BY <1>2, PlacedBox
  <1>4. \A k \in 1 .. Len(images) : \A j \in 1 .. k - 1 : ~Overlapped(R(j), R(k))
    <2> SUFFICES ASSUME NEW k \in 1 .. Len(images), NEW j \in 1 .. k - 1 PROVE ~Overlapped(R(j), R(k))
      OBVIOUS
    <2>1. j \in 1 .. Len(images)
      OBVIOUS
    <2>2. QED
      BY <1>2, <2>1
  <1>5. KeepsApart(places) <=> \A j, k \in 1 .. Len(images) : j # k => ~Overlapped(Grown(R(j), -1, -1), R(k))
    BY <1>1 DEF KeepsApart
  <1> HIDE DEF R
  <1>6. ASSUME NEW j \in 1 .. Len(images), NEW k \in 1 .. Len(images), j # k
        PROVE  ~Overlapped(Grown(R(j), -1, -1), R(k))
    <2>1. CASE j < k
      <3>1. j \in 1 .. k - 1
        BY <2>1
      <3>2. QED
        BY <1>3, <1>4, <3>1, OverlappedBoth
    <2>2. CASE k < j
      <3>1. k \in 1 .. j - 1
        BY <2>2
      <3>2. QED
        BY <1>3, <1>4, <3>1, OverlappedBoth
    <2>3. QED
      BY <1>6, <2>1, <2>2
  <1>7. QED
    BY <1>5, <1>6

(* The three layouts keep the images apart, each for its own reason: cells *)
(* of their own, or rows one above the other.                              *)
LEMMA LayoutsApart ==
  ASSUME GoodPics(pics), images \in Seq(Ids), display \in Extent
  PROVE  LayoutsKeepApart
  <1> DEFINE sizes == Sizes(images)
             n == Len(images)
  <1>1. sizes \in Seq(Extent) /\ Len(sizes) = n /\ n \in Nat
    BY SizesAre
  <1> HIDE DEF sizes, n
  <1>2. KeepsApart(Spiral(sizes))
    <2>1. PICK cells : InCells(Spiral(sizes), sizes, cells)
      BY <1>1, SpiralAre
    <2>2. \A k \in 1 .. n : Spiral(sizes)[k] \in Spots
      BY <1>1, <2>1, CellPlaces
    <2>3. \A k \in 1 .. n : \A j \in 1 .. k - 1 :
            ~Overlapped(PlacedRect(sizes[j], Spiral(sizes)[j]), PlacedRect(sizes[k], Spiral(sizes)[k]))
      BY <1>1, <2>1, CellsApart
    <2>4. QED
      BY <2>2, <2>3, ApartByPairs DEF sizes, n
  <1>3. KeepsApart(Tight(sizes, display))
    <2>1. PICK row : Tight(sizes, display) = row.places /\ RowOf(row, sizes, n)
      BY <1>1, TightAre
    <2>2. row.places \in Seq(Spots) /\ Len(row.places) = n
      BY <2>1 DEF RowOf, Rows
    <2>3. \A k \in 1 .. n : Tight(sizes, display)[k] \in Spots
      BY <2>1, <2>2
    <2>4. \A k \in 1 .. n : \A j \in 1 .. k - 1 :
            ~Overlapped(PlacedRect(sizes[j], Tight(sizes, display)[j]), PlacedRect(sizes[k], Tight(sizes, display)[k]))
      BY <2>1 DEF RowOf, RectIn
    <2>5. QED
      BY <2>3, <2>4, ApartByPairs DEF sizes, n
  <1>4. ASSUME images # <<>>, ~LayouterFails([kind |-> "regular", aspect |-> display], images)
        PROVE  KeepsApart(Regular(sizes, display))
    <2>1. RegularWidth(Len(sizes), display) # 0
      BY <1>1, <1>4 DEF LayouterFails, n
    <2>2. PICK cells : InCells(Regular(sizes, display), sizes, cells)
      BY <1>1, <2>1, RegularAre
    <2>3. \A k \in 1 .. n : Regular(sizes, display)[k] \in Spots
      BY <1>1, <2>2, CellPlaces
    <2>4. \A k \in 1 .. n : \A j \in 1 .. k - 1 :
            ~Overlapped(PlacedRect(sizes[j], Regular(sizes, display)[j]), PlacedRect(sizes[k], Regular(sizes, display)[k]))
      BY <1>1, <2>2, CellsApart
    <2>5. QED
      BY <2>3, <2>4, ApartByPairs DEF sizes, n
  <1>5. QED
    BY <1>2, <1>3, <1>4 DEF LayoutsKeepApart, sizes

-----------------------------------------------------------------------------
(* The view *)

(* A point turned by quarters is a point.                                  *)
LEMMA RotatedPoint ==
  ASSUME NEW p \in Point, NEW quarters \in Int PROVE Rotated(p, quarters) \in Point
  <1>1. quarters % 4 \in 0 .. 3
    OBVIOUS
  <1>2. \/ Rotated(p, quarters) = p \/ Rotated(p, quarters) = Vec(-p.y, p.x)
        \/ Rotated(p, quarters) = Vec(-p.x, -p.y) \/ Rotated(p, quarters) = Vec(p.y, -p.x)
    BY <1>1 DEF Rotated
  <1>3. QED
    BY <1>2 DEF Point, Vec

(* The middle of the window is a point.                                    *)
LEMMA MiddlePoint == ASSUME display \in Extent PROVE Middle(display) \in Point
  BY DEF Middle, Extent, Point, Vec

(* set_scale() gives the view a scale above nothing, of the value that was *)
(* meant, and changes nothing else.                                        *)
LEMMA ScaleView ==
  ASSUME NEW v \in ViewType, NEW n \in Nat \ {0}, NEW d \in Nat \ {0}
  PROVE  /\ Scale(v, n, d) \in ViewType
         /\ n * Scale(v, n, d).den = d * Scale(v, n, d).num
         /\ Scale(v, n, d).angle = v.angle /\ Scale(v, n, d).offset = v.offset /\ Scale(v, n, d).bad = v.bad
  <1> DEFINE num == n \div Gcd(n, d)
             den == d \div Gcd(n, d)
  <1>1. num \in Nat \ {0} /\ den \in Nat \ {0} /\ n * den = d * num
    <2>1. n > 0 /\ d > 0
      OBVIOUS
    <2>2. n \in Nat /\ d \in Nat
      OBVIOUS
    <2>3. num \in Nat /\ num > 0 /\ den \in Nat /\ den > 0 /\ n * den = d * num
      BY <2>1, <2>2, Lowered, Zenon
    <2> HIDE DEF num, den
    <2>4. QED
      BY <2>3
  <1>2. Scale(v, n, d) = [v EXCEPT !.num = num, !.den = den]
    BY DEF Scale
  <1> HIDE DEF num, den
  <1>3. QED
    BY <1>1, <1>2 DEF ViewType

(* A view with another offset is a view.                                   *)
LEMMA OffsetView ==
  ASSUME NEW v \in ViewType, NEW p \in Point
  PROVE  [v EXCEPT !.offset = p] \in ViewType
  BY DEF ViewType

(* Zooming a view gives a view.                                            *)
LEMMA ZoomedView ==
  ASSUME NEW v \in ViewType, NEW n \in Nat \ {0}, NEW d \in Nat \ {0}, NEW pos \in Point, display \in Extent
  PROVE  Zoomed(v, n, d, pos) \in ViewType
  <1> DEFINE p == Plus(Rotated(Minus(pos, Middle(display)), -v.angle), Middle(display))
             offset == Minus(p, Times(Minus(p, v.offset), n, d))
  <1>1. v.num \in Nat \ {0} /\ v.den \in Nat \ {0} /\ v.offset \in Point /\ -v.angle \in Int
    BY DEF ViewType
  <1>2. p \in Point
    BY <1>1, MiddlePoint, Vectors, RotatedPoint
  <1> HIDE DEF p
  <1>3. offset \in Point
    BY <1>1, <1>2, Vectors, Multiples
  <1>4. \A a, b \in Nat \ {0} : a * b \in Nat \ {0}
    OBVIOUS
  <1>5. Scale(v, v.num * n, v.den * d) \in ViewType
    BY <1>1, <1>4, ScaleView
  <1>6. Zoomed(v, n, d, pos) = IF v.bad THEN v ELSE [Scale(v, v.num * n, v.den * d) EXCEPT !.offset = offset]
    BY DEF Zoomed, p
  <1> HIDE DEF offset
  <1>7. QED
    BY <1>3, <1>5, <1>6, OffsetView

(* Moving a view gives a view.                                             *)
LEMMA MovedView ==
  ASSUME NEW v \in ViewType, NEW by \in Point PROVE Moved(v, by) \in ViewType
  <1>1. v.offset \in Point /\ -v.angle \in Int
    BY DEF ViewType
  <1>2. Plus(v.offset, Rotated(by, -v.angle)) \in Point
    BY <1>1, Vectors, RotatedPoint
  <1>3. Moved(v, by) = [v EXCEPT !.offset = Plus(v.offset, Rotated(by, -v.angle))]
    BY DEF Moved
  <1>4. QED
    BY <1>2, <1>3, OffsetView

(* A view with another angle is a view.                                    *)
LEMMA AngleView ==
  ASSUME NEW v \in ViewType, NEW angle \in Int PROVE [v EXCEPT !.angle = angle] \in ViewType
  BY DEF ViewType

(* Turning a view gives a view.                                            *)
LEMMA TurnedView ==
  ASSUME NEW v \in ViewType, NEW quarters \in Int PROVE Turned(v, quarters) \in ViewType
  <1>1. v.angle + quarters \in Int
    BY DEF ViewType
  <1>2. Turned(v, quarters) = [v EXCEPT !.angle = v.angle + quarters]
    BY DEF Turned
  <1>3. QED
    BY <1>1, <1>2, AngleView

(* Zooming to a rectangle gives the view a scale, or leaves it none.       *)
LEMMA ZoomedToView ==
  ASSUME NEW v \in ViewType, NEW rect \in Box, Width(rect) \in Nat, Height(rect) \in Nat, display \in Extent
  PROVE  ZoomedTo(v, rect) \in ViewType
  <1> DEFINE w == Width(rect)
             h == Height(rect)
             wide == display.height * w > h * display.width
             s == IF wide THEN Scale(v, display.width, w) ELSE Scale(v, display.height, h)
             corner == Times(Vec(-rect.left, -rect.top), s.num, s.den)
             room == IF wide THEN Vec(0, (display.height - (h * s.num) \div s.den) \div 2)
                             ELSE Vec((display.width - (w * s.num) \div s.den) \div 2, 0)
  <1>1. ZoomedTo(v, rect) = IF w = 0 /\ h = 0 THEN [v EXCEPT !.bad = TRUE]
                            ELSE [s EXCEPT !.offset = Plus(corner, room), !.bad = FALSE]
    BY DEF ZoomedTo
  <1>2. display.width \in Nat \ {0} /\ display.height \in Nat \ {0}
    BY DEF Extent
  <1>3. [v EXCEPT !.bad = TRUE] \in ViewType
    BY DEF ViewType
  <1>4. ASSUME ~(w = 0 /\ h = 0) PROVE [s EXCEPT !.offset = Plus(corner, room), !.bad = FALSE] \in ViewType
    <2>1. w \in Nat /\ h \in Nat
      OBVIOUS
    <2> HIDE DEF w, h
    <2>2. wide => w # 0
      BY <1>2, <2>1
    <2>3. ~wide => h # 0
      BY <1>2, <1>4, <2>1
    <2> HIDE DEF wide
    <2>4. s \in ViewType
      <3>1. CASE wide
        BY <1>2, <2>1, <2>2, <3>1, ScaleView
      <3>2. CASE ~wide
        BY <1>2, <2>1, <2>3, <3>2, ScaleView
      <3>3. QED
        BY <3>1, <3>2
    <2> HIDE DEF s
    <2>5. s.num \in Nat \ {0} /\ s.den \in Nat \ {0}
      BY <2>4 DEF ViewType
    <2>6. corner \in Point
      <3>1. Vec(-rect.left, -rect.top) \in Point
        BY DEF Vec, Point, Box
      <3>2. QED
        BY <2>5, <3>1, Multiples
    <2>7. room \in Point
      <3>1. \A a, b \in Nat : a * b \in Nat
        OBVIOUS
      <3>2. (h * s.num) \div s.den \in Nat /\ (w * s.num) \div s.den \in Nat
        BY <2>1, <2>5, <3>1, NaturalDivision
      <3>3. PICK a \in Int : a = (display.height - (h * s.num) \div s.den) \div 2
        BY <1>2, <3>2
      <3>4. PICK b \in Int : b = (display.width - (w * s.num) \div s.den) \div 2
        BY <1>2, <3>2
      <3>5. room = Vec(0, a) \/ room = Vec(b, 0)
        BY <3>3, <3>4
      <3>6. QED
        BY <3>5 DEF Vec, Point
    <2> HIDE DEF corner, room
    <2>8. Plus(corner, room) \in Point
      BY <2>6, <2>7, Vectors
    <2>9. QED
      BY <2>4, <2>8 DEF ViewType
  <1>5. QED
    BY <1>1, <1>3, <1>4

(* A view takes points to points, in both directions.                      *)
LEMMA WorldPoint ==
  ASSUME NEW v \in ViewType, NEW p \in Point
  PROVE  World(v, p) \in Point /\ Screen(v, p) \in Point
  <1>1. v.num \in Nat \ {0} /\ v.den \in Nat \ {0} /\ v.offset \in Point
    BY DEF ViewType
  <1>2. Times(Minus(p, v.offset), v.den, v.num) \in Point /\ Plus(Times(p, v.num, v.den), v.offset) \in Point
    BY <1>1, Vectors, Multiples
  <1>3. QED
    BY <1>2 DEF World, Screen

(* A rectangle that is normalized has its sides in order.                  *)
LEMMA NormalizedBox ==
  ASSUME NEW p \in Point, NEW q \in Point
  PROVE  /\ Normalized(Rect(p, q)) \in Box
         /\ Width(Normalized(Rect(p, q))) \in Nat /\ Height(Normalized(Rect(p, q))) \in Nat
  BY DEF Normalized, Rect, Vec, Box, Point, Width, Height, Lesser, Greater

(* What is around images has a width and a height.                         *)
LEMMA AroundBox ==
  ASSUME GoodPics(pics), NEW ids \in Seq(Ids)
  PROVE  Around(ids) \in Box /\ Width(Around(ids)) \in Nat /\ Height(Around(ids)) \in Nat
  <1>1. CASE ids = <<>>
    <2>1. Around(ids) = Rect(Vec(0, 0), Vec(0, 0))
      BY <1>1 DEF Around
    <2>2. QED
      BY <2>1 DEF Rect, Vec, Box, Width, Height
  <1>2. CASE ids # <<>>
    <2> DEFINE n == Len(ids)
               r == [k \in 1 .. n |-> pics[ids[k]].rect]
               T == RectsOf(ids)
    <2>1. n \in Nat \ {0} /\ DOMAIN ids = 1 .. n /\ \A k \in 1 .. n : ids[k] \in Ids
      BY <1>2
    <2>2. \A i \in Ids : pics[i].rect \in Box /\ Width(pics[i].rect) \in Nat /\ Height(pics[i].rect) \in Nat
      BY ImageRectBox DEF GoodPics, GoodPic
    <2>3. /\ \A k \in 1 .. n : r[k] \in T
          /\ \A x \in T : \E k \in 1 .. n : r[k] = x
      BY <2>1 DEF RectsOf, ToSet
    <2>4. \A k \in 1 .. n : r[k] \in Box /\ Width(r[k]) \in Nat /\ Height(r[k]) \in Nat
      BY <2>1, <2>2
    <2>5. Around(ids) = Bounding(T)
      BY <1>2 DEF Around
    <2> HIDE DEF r, T, n
    <2>6. \A k \in 1 .. n : /\ r[k].left \in Int /\ r[k].right \in Int /\ r[k].left <= r[k].right
                            /\ r[k].top \in Int /\ r[k].bottom \in Int /\ r[k].top <= r[k].bottom
      BY <2>4 DEF Box, Width, Height
    <2> DEFINE L == {x.left : x \in T}
               R == {x.right : x \in T}
               U == {x.top : x \in T}
               B == {x.bottom : x \in T}
               lf == [k \in 1 .. n |-> r[k].left]
               rf == [k \in 1 .. n |-> r[k].right]
               uf == [k \in 1 .. n |-> r[k].top]
               bf == [k \in 1 .. n |-> r[k].bottom]
    <2>7. L = {lf[k] : k \in 1 .. n} /\ R = {rf[k] : k \in 1 .. n}
      BY <2>3
    <2>8. U = {uf[k] : k \in 1 .. n} /\ B = {bf[k] : k \in 1 .. n}
      BY <2>3
    <2>9. \A k \in 1 .. n : lf[k] \in Int /\ rf[k] \in Int /\ uf[k] \in Int /\ bf[k] \in Int
      BY <2>6
    <2>10. /\ lf[1] \in L /\ rf[1] \in R /\ uf[1] \in U /\ bf[1] \in B
           /\ lf[1] <= rf[1] /\ uf[1] <= bf[1]
      <3>1. 1 \in 1 .. n
        BY <2>1
      <3>2. lf[1] = r[1].left /\ rf[1] = r[1].right /\ uf[1] = r[1].top /\ bf[1] = r[1].bottom
        BY <3>1
      <3>3. lf[1] \in L /\ rf[1] \in R
        BY <2>7, <3>1
      <3>4. uf[1] \in U /\ bf[1] \in B
        BY <2>8, <3>1
      <3> HIDE DEF L, R, U, B, lf, rf, uf, bf
      <3>5. QED
        BY <2>6, <3>1, <3>2, <3>3, <3>4
    <2> HIDE DEF L, R, U, B, lf, rf, uf, bf
    <2>11. Min(L) \in L /\ (\A x \in L : Min(L) <= x) /\ L \subseteq Int
      BY <2>1, <2>7, <2>9, Extremes
    <2>12. Max(R) \in R /\ (\A x \in R : Max(R) >= x) /\ R \subseteq Int
      BY <2>1, <2>7, <2>9, Extremes
    <2>13. Min(U) \in U /\ (\A x \in U : Min(U) <= x) /\ U \subseteq Int
      BY <2>1, <2>8, <2>9, Extremes
    <2>14. Max(B) \in B /\ (\A x \in B : Max(B) >= x) /\ B \subseteq Int
      BY <2>1, <2>8, <2>9, Extremes
    <2>15. Min(L) \in Int /\ Max(R) \in Int /\ Min(L) <= Max(R)
      <3>1. Min(L) <= lf[1] /\ lf[1] <= rf[1] /\ rf[1] <= Max(R)
        BY <2>10, <2>11, <2>12
      <3>2. Min(L) \in Int /\ Max(R) \in Int /\ lf[1] \in Int /\ rf[1] \in Int
        BY <2>10, <2>11, <2>12
      <3>3. QED
        BY <3>1, <3>2
    <2>16. Min(U) \in Int /\ Max(B) \in Int /\ Min(U) <= Max(B)
      <3>1. Min(U) <= uf[1] /\ uf[1] <= bf[1] /\ bf[1] <= Max(B)
        BY <2>10, <2>13, <2>14
      <3>2. Min(U) \in Int /\ Max(B) \in Int /\ uf[1] \in Int /\ bf[1] \in Int
        BY <2>10, <2>13, <2>14
      <3>3. QED
        BY <3>1, <3>2
    <2>17. Bounding(T) = [left |-> Min(L), top |-> Min(U), right |-> Max(R), bottom |-> Max(B)]
      BY DEF Bounding, Rect, Vec, L, R, U, B
    <2>18. QED
      BY <2>5, <2>15, <2>16, <2>17 DEF Box, Width, Height
  <1>3. QED
    BY <1>1, <1>2

(* The direction to a point is a number.                                   *)
LEMMA BearingNumber == ASSUME NEW p PROVE Bearing(p) \in Int
  BY DEF Bearing

(* The distance to a point is a natural number.                            *)
LEMMA LengthNatural == ASSUME NEW p \in Point PROVE Length(p) \in Nat
  <1>1. \A a \in Int : a * a \in Nat
    OBVIOUS
  <1>2. p.x * p.x + p.y * p.y \in Nat
    BY <1>1 DEF Point
  <1>3. QED
    BY <1>2, RootNatural DEF Length

(* The image found under a point is one of the workspace.                  *)
LEMMA ImageAtId ==
  ASSUME images \in Seq(Ids), NEW p, Under(p) # {} PROVE ImageAt(p) \in Ids
  <1> DEFINE n == Len(images)
             S == Under(p)
             some == CHOOSE k \in S : TRUE
             f == [k \in 1 .. n |-> IF k \in S THEN k ELSE some]
  <1>1. n \in Nat /\ S \subseteq 1 .. n /\ \A k \in 1 .. n : images[k] \in Ids
    BY DEF Under
  <1>2. some \in S
    OBVIOUS
  <1> HIDE DEF S, some, n
  <1>3. n \in Nat \ {0}
    BY <1>1, <1>2
  <1>4. S = {f[k] : k \in 1 .. n} /\ \A k \in 1 .. n : f[k] \in Int
    <2>1. \A k \in 1 .. n : f[k] \in S
      BY <1>2
    <2>2. \A k \in S : k \in 1 .. n /\ f[k] = k
      BY <1>1
    <2> HIDE DEF f
    <2>3. \A k \in 1 .. n : f[k] \in Int
      <3>1. \A k \in S : k \in Int
        BY <1>1
      <3>2. QED
        BY <2>1, <3>1, Zenon
    <2>4. S \subseteq {f[k] : k \in 1 .. n}
      BY <2>2
    <2>5. {f[k] : k \in 1 .. n} \subseteq S
      BY <2>1
    <2>6. S = {f[k] : k \in 1 .. n}
      BY <2>4, <2>5, Zenon
    <2>7. QED
      BY <2>3, <2>6, Zenon
  <1> HIDE DEF f
  <1>5. Max(S) \in S
    BY <1>3, <1>4, Extremes
  <1>6. QED
    BY <1>1, <1>5 DEF ImageAt, S

(* A click with shift leaves a selection of images.                        *)
LEMMA ToggledIds ==
  ASSUME selection \in Seq(Ids), NEW i \in Ids PROVE Toggled(i) \in Seq(Ids)
  <1>1. Among(selection, Ids \ {i}) \in Seq(Ids) /\ Append(selection, i) \in Seq(Ids)
    BY AmongIds
  <1>2. QED
    BY <1>1 DEF Toggled

-----------------------------------------------------------------------------
(* Zooming keeps the place under the mouse *)

(* A positive factor keeps the order.                                      *)
LEMMA Products ==
  ASSUME NEW a \in Int, NEW b \in Int, NEW c \in Nat \ {0}
  PROVE  /\ a <= b => c * a <= c * b
         /\ a < b => c * a < c * b
         /\ c * a < c * b => a < b
         /\ c * a <= c * b => a <= b
  OBVIOUS

(* A length t on the screen is taken to the world by a scale num/den and   *)
(* back by the scale num2/den2, which is num/den times n/d.                *)
LEMMA ZoomRounds ==
  ASSUME NEW t \in Int, NEW num \in Nat \ {0}, NEW den \in Nat \ {0}, NEW n \in Nat \ {0}, NEW d \in Nat \ {0},
         NEW num2 \in Nat \ {0}, NEW den2 \in Nat \ {0}, (num * n) * den2 = (den * d) * num2
  PROVE  LET w == (t * den) \div num
         IN  ((w * num2) \div den2) - ((t * n) \div d) \in -(2 + (num2 \div den2)) .. 2 + (num2 \div den2)
  <1> DEFINE w == (t * den) \div num
             A == (w * num2) \div den2
             B == (t * n) \div d
             k == num2 \div den2
  <1>0. \A x, y \in Int : x * y \in Int
    OBVIOUS
  <1>1. w \in Int /\ num * w <= t * den /\ t * den < num * w + num
    <2>1. t * den \in Int
      BY <1>0
    <2>2. QED
      BY <2>1, Division
  <1> HIDE DEF w
  <1>2. A \in Int /\ den2 * A <= w * num2 /\ w * num2 < den2 * A + den2
    <2>1. w * num2 \in Int
      BY <1>0, <1>1
    <2>2. QED
      BY <2>1, Division
  <1>3. B \in Int /\ d * B <= t * n /\ t * n < d * B + d
    <2>1. t * n \in Int
      BY <1>0
    <2>2. QED
      BY <2>1, Division
  <1>4. k \in Nat /\ num2 < den2 * k + den2
    BY NaturalDivision
  <1> HIDE DEF A, B, k
  <1> DEFINE m == n * den2
             e == d * den2
  <1>5. m \in Nat \ {0} /\ e \in Nat \ {0}
    OBVIOUS
  <1>6. num * m = den * (d * num2)
    OBVIOUS
  <1>7. /\ d * num2 \in Nat \ {0} /\ t * m \in Int /\ (d * num2) * w \in Int
        /\ (d * num2) * (w + 1) \in Int
    BY <1>0, <1>1, <1>5
  <1>8. (d * num2) * w <= t * m
    <2>1. m * (num * w) <= m * (t * den)
      BY <1>0, <1>1, <1>5, Products
    <2>2. m * (num * w) = (num * m) * w /\ m * (t * den) = den * (t * m)
      BY <1>1, <1>5
    <2>3. (num * m) * w = den * ((d * num2) * w)
      <3>1. (den * (d * num2)) * w = den * ((d * num2) * w)
        BY <1>1, <1>7
      <3>2. QED
        BY <1>6, <3>1
    <2>4. den * ((d * num2) * w) <= den * (t * m)
      BY <2>1, <2>2, <2>3
    <2> HIDE DEF m
    <2>5. QED
      BY <1>7, <2>4, Products
  <1>9. t * m < (d * num2) * (w + 1)
    <2>1. t * den < num * (w + 1)
      BY <1>1
    <2>2. m * (t * den) < m * (num * (w + 1))
      BY <1>0, <1>1, <1>5, <2>1, Products
    <2>3. m * (num * (w + 1)) = (num * m) * (w + 1) /\ m * (t * den) = den * (t * m)
      BY <1>1, <1>5
    <2>4. (num * m) * (w + 1) = den * ((d * num2) * (w + 1))
      <3>1. (den * (d * num2)) * (w + 1) = den * ((d * num2) * (w + 1))
        BY <1>1, <1>7
      <3>2. QED
        BY <1>6, <3>1
    <2>5. den * (t * m) < den * ((d * num2) * (w + 1))
      BY <2>2, <2>3, <2>4
    <2> HIDE DEF m
    <2>6. QED
      BY <1>7, <2>5, Products
  <1>10. A < B + 1
    <2>1. d * (den2 * A) <= d * (w * num2)
      BY <1>0, <1>1, <1>2, Products
    <2>2. d * (den2 * A) = e * A /\ d * (w * num2) = (d * num2) * w
      BY <1>1, <1>2
    <2>3. den2 * (t * n) < den2 * (d * B + d)
      BY <1>0, <1>3, Products
    <2>4. den2 * (t * n) = t * m /\ den2 * (d * B + d) = e * (B + 1)
      BY <1>3
    <2>5. e * A \in Int /\ e * (B + 1) \in Int
      BY <1>0, <1>2, <1>3, <1>5
    <2>6. e * A < e * (B + 1)
      BY <1>7, <1>8, <2>1, <2>2, <2>3, <2>4, <2>5
    <2> HIDE DEF e
    <2>7. QED
      BY <1>2, <1>3, <1>5, <2>6, Products
  <1>11. B < A + k + 2
    <2>1. w * num2 < den2 * (A + 1)
      BY <1>2
    <2>2. d * (w * num2) < d * (den2 * (A + 1))
      BY <1>0, <1>1, <1>2, <2>1, Products
    <2>3. num2 < den2 * (k + 1)
      BY <1>4
    <2>4. d * num2 < d * (den2 * (k + 1))
      BY <1>0, <1>4, <2>3, Products
    <2>5. (d * num2) * (w + 1) = d * (w * num2) + d * num2
      BY <1>1
    <2>6. d * (den2 * (A + 1)) + d * (den2 * (k + 1)) = e * (A + k + 2)
      BY <1>2, <1>4
    <2>7. den2 * (d * B) <= den2 * (t * n)
      BY <1>0, <1>3, Products
    <2>8. den2 * (d * B) = e * B /\ den2 * (t * n) = t * m
      BY <1>3
    <2>9. /\ e * B \in Int /\ e * (A + k + 2) \in Int /\ d * (w * num2) \in Int
          /\ d * (den2 * (A + 1)) \in Int /\ d * (den2 * (k + 1)) \in Int
      BY <1>0, <1>1, <1>2, <1>3, <1>4, <1>5
    <2>10. e * B < e * (A + k + 2)
      BY <1>7, <1>9, <2>2, <2>4, <2>5, <2>6, <2>7, <2>8, <2>9
    <2> HIDE DEF e
    <2>11. QED
      BY <1>2, <1>3, <1>4, <1>5, <2>10, Products
  <1>12. A - B \in -(2 + k) .. 2 + k
    BY <1>2, <1>3, <1>4, <1>10, <1>11
  <1>13. QED
    BY <1>12 DEF w, A, B, k

(* Turning back what was turned, and what was added to it.                 *)
LEMMA RotatedBack ==
  ASSUME NEW p \in Point, NEW e \in Point, NEW angle \in Int
  PROVE  Rotated(Plus(Rotated(p, -angle), e), angle) = Plus(p, Rotated(e, angle))
  <1>1. \/ angle % 4 = 0 /\ (-angle) % 4 = 0
        \/ angle % 4 = 1 /\ (-angle) % 4 = 3
        \/ angle % 4 = 2 /\ (-angle) % 4 = 2
        \/ angle % 4 = 3 /\ (-angle) % 4 = 1
    OBVIOUS
  <1>2. p = Vec(p.x, p.y) /\ e = Vec(e.x, e.y) /\ p.x \in Int /\ p.y \in Int /\ e.x \in Int /\ e.y \in Int
    BY DEF Point, Vec
  <1>3. CASE angle % 4 = 0 /\ (-angle) % 4 = 0
    BY <1>3 DEF Rotated
  <1>4. CASE angle % 4 = 1 /\ (-angle) % 4 = 3
    <2>1. Rotated(p, -angle) = Vec(p.y, -p.x) /\ Rotated(e, angle) = Vec(-e.y, e.x)
      BY <1>4 DEF Rotated
    <2>2. Plus(Rotated(p, -angle), e) = Vec(p.y + e.x, -p.x + e.y)
      BY <2>1 DEF Plus, Vec
    <2>3. Rotated(Plus(Rotated(p, -angle), e), angle) = Vec(-(-p.x + e.y), p.y + e.x)
      BY <1>4, <2>2 DEF Rotated, Vec
    <2>4. Plus(p, Rotated(e, angle)) = Vec(p.x + (-e.y), p.y + e.x)
      BY <2>1 DEF Plus, Vec
    <2>5. -(-p.x + e.y) = p.x + (-e.y)
      BY <1>2
    <2>6. QED
      BY <2>3, <2>4, <2>5
  <1>5. CASE angle % 4 = 2 /\ (-angle) % 4 = 2
    <2>1. Rotated(p, -angle) = Vec(-p.x, -p.y) /\ Rotated(e, angle) = Vec(-e.x, -e.y)
      BY <1>5 DEF Rotated
    <2>2. Plus(Rotated(p, -angle), e) = Vec(-p.x + e.x, -p.y + e.y)
      BY <2>1 DEF Plus, Vec
    <2>3. Rotated(Plus(Rotated(p, -angle), e), angle) = Vec(-(-p.x + e.x), -(-p.y + e.y))
      BY <1>5, <2>2 DEF Rotated, Vec
    <2>4. Plus(p, Rotated(e, angle)) = Vec(p.x + (-e.x), p.y + (-e.y))
      BY <2>1 DEF Plus, Vec
    <2>5. -(-p.x + e.x) = p.x + (-e.x) /\ -(-p.y + e.y) = p.y + (-e.y)
      BY <1>2
    <2>6. QED
      BY <2>3, <2>4, <2>5
  <1>6. CASE angle % 4 = 3 /\ (-angle) % 4 = 1
    <2>1. Rotated(p, -angle) = Vec(-p.y, p.x) /\ Rotated(e, angle) = Vec(e.y, -e.x)
      BY <1>6 DEF Rotated
    <2>2. Plus(Rotated(p, -angle), e) = Vec(-p.y + e.x, p.x + e.y)
      BY <2>1 DEF Plus, Vec
    <2>3. Rotated(Plus(Rotated(p, -angle), e), angle) = Vec(p.x + e.y, -(-p.y + e.x))
      BY <1>6, <2>2 DEF Rotated, Vec
    <2>4. Plus(p, Rotated(e, angle)) = Vec(p.x + e.y, p.y + (-e.x))
      BY <2>1 DEF Plus, Vec
    <2>5. -(-p.y + e.x) = p.y + (-e.x)
      BY <1>2
    <2>6. QED
      BY <2>3, <2>4, <2>5
  <1>7. QED
    BY <1>1, <1>3, <1>4, <1>5, <1>6

(* Turning by quarters takes a square around the origin to itself.         *)
LEMMA RotatedNear ==
  ASSUME NEW e \in Point, NEW angle \in Int, NEW n \in Nat, e.x \in -n .. n, e.y \in -n .. n
  PROVE  Rotated(e, angle).x \in -n .. n /\ Rotated(e, angle).y \in -n .. n
  <1>1. angle % 4 \in 0 .. 3
    OBVIOUS
  <1>2. \/ Rotated(e, angle) = e \/ Rotated(e, angle) = Vec(-e.y, e.x)
        \/ Rotated(e, angle) = Vec(-e.x, -e.y) \/ Rotated(e, angle) = Vec(e.y, -e.x)
    BY <1>1 DEF Rotated
  <1>3. -e.x \in -n .. n /\ -e.y \in -n .. n
    BY DEF Point
  <1>4. QED
    BY <1>2, <1>3 DEF Vec

(* The corner of the zoomed view, and its scale.                           *)
LEMMA ZoomedParts ==
  ASSUME NEW v \in ViewType, ~v.bad, NEW n \in Nat \ {0}, NEW d \in Nat \ {0}, NEW pos \in Point, display \in Extent
  PROVE  LET P == Plus(Rotated(Minus(pos, Middle(display)), -v.angle), Middle(display))
             z == Zoomed(v, n, d, pos)
         IN  /\ z \in ViewType /\ z.angle = v.angle
             /\ (v.num * n) * z.den = (v.den * d) * z.num
             /\ z.offset = Minus(P, Times(Minus(P, v.offset), n, d))
  <1> DEFINE P == Plus(Rotated(Minus(pos, Middle(display)), -v.angle), Middle(display))
             offset == Minus(P, Times(Minus(P, v.offset), n, d))
             s == Scale(v, v.num * n, v.den * d)
             z == Zoomed(v, n, d, pos)
  <1>1. z \in ViewType
    BY ZoomedView
  <1>2. v.num \in Nat \ {0} /\ v.den \in Nat \ {0}
    BY DEF ViewType
  <1>3. v.num * n \in Nat \ {0} /\ v.den * d \in Nat \ {0}
    BY <1>2
  <1>4. s \in ViewType /\ (v.num * n) * s.den = (v.den * d) * s.num /\ s.angle = v.angle
    BY <1>3, ScaleView
  <1>5. z = [s EXCEPT !.offset = offset]
    BY DEF Zoomed
  <1> HIDE DEF s, offset, z
  <1>6. z.den = s.den /\ z.num = s.num /\ z.angle = s.angle /\ z.offset = offset
    BY <1>4, <1>5 DEF ViewType
  <1>7. QED
    BY <1>1, <1>4, <1>6 DEF offset, z

(* Zooming brings what is under the mouse at most a few pixels away from   *)
(* it: the rounding of the offset, taken back to the screen.               *)
LEMMA ZoomKeepsPlace ==
  ASSUME NEW v \in ViewType, ~v.bad, NEW n \in Nat \ {0}, NEW d \in Nat \ {0}, NEW p \in Point, display \in Extent
  PROVE  LET z == Zoomed(v, n, d, p)
         IN  Near(OnScreen(z, Under2(v, p)), p, 2 + z.num \div z.den)
  <1> DEFINE M == Middle(display)
             r == Rotated(Minus(p, M), -v.angle)
             P == Plus(r, M)
             T == Minus(P, v.offset)
             W == World(v, P)
             z == Zoomed(v, n, d, p)
             A == Times(W, z.num, z.den)
             B == Times(T, n, d)
             e == Minus(A, B)
             k == 2 + z.num \div z.den
  <1>1. v.num \in Nat \ {0} /\ v.den \in Nat \ {0} /\ v.offset \in Point /\ v.angle \in Int /\ -v.angle \in Int
    BY DEF ViewType
  <1>2. M \in Point
    BY MiddlePoint
  <1> HIDE DEF M
  <1>3. Minus(p, M) \in Point /\ r \in Point /\ P \in Point /\ T \in Point
    BY <1>1, <1>2, Vectors, RotatedPoint
  <1>4. /\ z \in ViewType /\ z.angle = v.angle
        /\ (v.num * n) * z.den = (v.den * d) * z.num
        /\ z.offset = Minus(P, B)
    BY ZoomedParts DEF M
  <1>5. z.num \in Nat \ {0} /\ z.den \in Nat \ {0}
    BY <1>4 DEF ViewType
  <1>6. W \in Point
    BY <1>3, WorldPoint
  <1>7. W.x = (T.x * v.den) \div v.num /\ W.y = (T.y * v.den) \div v.num
    BY DEF World, Times, Vec
  <1>8. A \in Point /\ B \in Point /\ e \in Point
    BY <1>3, <1>5, <1>6, Multiples, Vectors
  <1>9. /\ A.x = (W.x * z.num) \div z.den /\ A.y = (W.y * z.num) \div z.den
        /\ B.x = (T.x * n) \div d /\ B.y = (T.y * n) \div d
    BY DEF Times, Vec
  <1>10. OnScreen(z, Under2(v, p)) = Plus(Rotated(Minus(Plus(A, z.offset), M), v.angle), M)
    BY <1>4 DEF OnScreen, Under2, Screen, M
  <1>11. T.x \in Int /\ T.y \in Int
    BY <1>3 DEF Point
  <1> HIDE DEF z, r
  <1>12. Minus(Plus(A, z.offset), M) = Plus(r, e)
    <2> HIDE DEF A, B
    <2>1. /\ A.x \in Int /\ A.y \in Int /\ B.x \in Int /\ B.y \in Int /\ r.x \in Int /\ r.y \in Int
          /\ M.x \in Int /\ M.y \in Int
      BY <1>2, <1>3, <1>8 DEF Point
    <2>2. (A.x + ((r.x + M.x) - B.x)) - M.x = r.x + (A.x - B.x)
      BY <2>1
    <2>3. (A.y + ((r.y + M.y) - B.y)) - M.y = r.y + (A.y - B.y)
      BY <2>1
    <2>4. Minus(Plus(A, z.offset), M)
            = Vec((A.x + ((r.x + M.x) - B.x)) - M.x, (A.y + ((r.y + M.y) - B.y)) - M.y)
      BY <1>4 DEF Plus, Minus, Vec
    <2>5. Plus(r, e) = Vec(r.x + (A.x - B.x), r.y + (A.y - B.y))
      BY DEF Plus, Minus, Vec
    <2>6. QED
      BY <2>2, <2>3, <2>4, <2>5
  <1> HIDE DEF T, W, A, B, e
  <1>13. A.x - B.x \in -k .. k
    BY <1>1, <1>4, <1>5, <1>7, <1>9, <1>11, ZoomRounds
  <1>14. A.y - B.y \in -k .. k
    BY <1>1, <1>4, <1>5, <1>7, <1>9, <1>11, ZoomRounds
  <1>15. e.x = A.x - B.x /\ e.y = A.y - B.y
    BY DEF e, Minus, Vec
  <1>16. k \in Nat
    BY <1>5, NaturalDivision
  <1> HIDE DEF k
  <1>17. Rotated(e, v.angle).x \in -k .. k /\ Rotated(e, v.angle).y \in -k .. k
    BY <1>1, <1>8, <1>13, <1>14, <1>15, <1>16, RotatedNear
  <1> DEFINE q == Rotated(e, v.angle)
             o == OnScreen(z, Under2(v, p))
  <1>18. q \in Point
    BY <1>1, <1>8, RotatedPoint
  <1>19. Rotated(Plus(r, e), v.angle) = Plus(Minus(p, M), q)
    BY <1>1, <1>3, <1>8, RotatedBack DEF r
  <1>20. o = Plus(Plus(Minus(p, M), q), M)
    BY <1>10, <1>12, <1>19
  <1> HIDE DEF q, o
  <1>21. o.x - p.x = q.x /\ o.y - p.y = q.y
    BY <1>2, <1>18, <1>20 DEF Plus, Minus, Vec, Point
  <1>22. q.x \in -k .. k /\ q.y \in -k .. k
    BY <1>17 DEF q
  <1>23. QED
    BY <1>21, <1>22 DEF Near, o, z, k

(* So does every way of zooming a view that the viewer may have.           *)
LEMMA ZoomKeeps ==
  ASSUME WindowTypes PROVE ZoomKeepsPosition
  <1>1. ASSUME ~view.bad, NEW p \in Places, NEW f \in {<<2, 1>>, <<1, 2>>, <<11, 10>>}
        PROVE  LET v == Zoomed(view, f[1], f[2], p)
               IN  Near(OnScreen(v, Under2(view, p)), p, 2 + v.num \div v.den)
    <2>1. p \in Point
      BY ViewerAssumption DEF Point
    <2>2. f[1] \in Nat \ {0} /\ f[2] \in Nat \ {0}
      OBVIOUS
    <2>3. view \in ViewType /\ display \in Extent
      BY DEF WindowTypes, GridType
    <2>4. QED
      BY <1>1, <2>1, <2>2, <2>3, ZoomKeepsPlace
  <1>2. QED
    BY <1>1 DEF ZoomKeepsPosition

-----------------------------------------------------------------------------
(* The actions of the workspace *)

WorkspaceHolds == WorkspaceTypes /\ OthersAtRest

(* What does not send an image elsewhere.                                  *)
LEMMA StillHolds ==
  ASSUME WorkspaceHolds, KeepsAll(pics, pics'), images' = images, selection' \in Seq(Ids),
         progress' = progress, layouter' = layouter
  PROVE  WorkspaceHolds'
  <1>1. GoodPics(pics')
    BY KeepsAllGood
  <1>2. \A i \in Ids : AtRest(pics[i]) => AtRest(pics'[i])
    BY DEF KeepsAll, Keeps
  <1>3. OthersAtRest'
    BY <1>2 DEF WorkspaceHolds, OthersAtRest, IsAnimated
  <1>4. QED
    BY <1>1, <1>3 DEF WorkspaceHolds, WorkspaceTypes

(* A layout of all images: nothing else has a target it is not at.         *)
LEMMA LaidOutHolds ==
  ASSUME WorkspaceHolds, GoodPics(pics'), progress' = 0,
         \A i \in Ids : i \notin ToSet(images) => pics'[i] = pics[i],
         images' = images, selection' = selection, layouter' \in Layouter
  PROVE  WorkspaceHolds'
  <1>1. progress' \in 0 .. Finished /\ IsAnimated'
    BY DEF Finished, IsAnimated
  <1>2. OthersAtRest'
    BY <1>1 DEF WorkspaceHolds, OthersAtRest
  <1>3. QED
    BY <1>1, <1>2 DEF WorkspaceHolds, WorkspaceTypes

(* The keys for layouts keep the workspace's part of the invariant.        *)
LEMMA LayoutKeyHolds ==
  ASSUME WorkspaceHolds, display \in Extent, LayoutKey PROVE WorkspaceHolds'
  <1> USE DEF WorkspaceHolds, WorkspaceTypes
  <1>1. ASSUME NEW kind \in {"regular", "tight", "random", "spiral"},
               NewLayout([kind |-> kind, aspect |-> display])
        PROVE  WorkspaceHolds'
    <2> DEFINE l == [kind |-> kind, aspect |-> display]
    <2>1. l \in Layouter /\ l.kind # "none"
      BY DEF Layouter
    <2>2. /\ ~LayouterFails(l, images) /\ layouter' = l /\ RunLayouter(l, images)
          /\ images' = images /\ selection' = selection
      BY <1>1 DEF NewLayout
    <2> HIDE DEF l
    <2>3. GoodPics(pics') /\ progress' = 0 /\ \A i \in Ids : i \notin ToSet(images) => pics'[i] = pics[i]
      BY <2>1, <2>2, RunLayouterGood
    <2> HIDE DEF WorkspaceHolds
    <2>4. QED
      BY <2>1, <2>2, <2>3, LaidOutHolds
  <1>2. CASE LayoutVertical
    <2>1. GoodPics(pics') /\ progress' = 0 /\ \A i \in Ids : i \notin ToSet(images) => pics'[i] = pics[i]
      BY <1>2, LayoutVerticalGood
    <2>2. images' = images /\ selection' = selection /\ layouter' \in Layouter
      BY <1>2 DEF LayoutVertical
    <2> HIDE DEF WorkspaceHolds
    <2>3. QED
      BY <2>1, <2>2, LaidOutHolds
  <1>3. CASE SolveOverlaps
    <2>1. KeepsAll(pics, pics')
      BY <1>3, SolveOverlapsKeeps
    <2>2. images' = images /\ selection' \in Seq(Ids) /\ progress' = progress /\ layouter' = layouter
      BY <1>3 DEF SolveOverlaps
    <2> HIDE DEF WorkspaceHolds
    <2>3. QED
      BY <2>1, <2>2, StillHolds
  <1>4. QED
    BY <1>1, <1>2, <1>3 DEF LayoutKey

(* So do the keys that sort and shuffle.                                   *)
LEMMA SortKeyHolds ==
  ASSUME WorkspaceHolds, SortKey PROVE WorkspaceHolds'
  <1>1. PICK order \in SetToSeqs(ToSet(images)) : Reorder(order)
    BY DEF SortKey, SortNames, SortNamesReverse, Shuffled
  <1>2. GoodPics(pics') /\ images' \in Seq(Ids) /\ progress' \in 0 .. Finished /\ OthersAtRest'
    BY <1>1, ReorderGood DEF WorkspaceHolds, WorkspaceTypes
  <1>3. selection' = selection /\ layouter' = layouter
    BY <1>1 DEF Reorder
  <1>4. QED
    BY <1>2, <1>3 DEF WorkspaceHolds, WorkspaceTypes

(* The images that are given up are as new ones.                           *)
LEMMA KeepHolds ==
  ASSUME WorkspaceHolds, NEW ids \in Seq(Ids), Keep(ids) PROVE WorkspaceHolds'
  <1>1. /\ images' = ids /\ selection' = <<>> /\ progress' = progress /\ layouter' = layouter
        /\ pics' = [i \in Ids |-> IF i \in ToSet(ids) THEN pics[i] ELSE NewImage(<<>>)]
    BY DEF Keep, Forget
  <1>2. GoodPic(NewImage(<<>>)) /\ AtRest(NewImage(<<>>))
    BY NewImagePic
  <1>3. GoodPics(pics')
    BY <1>1, <1>2 DEF WorkspaceHolds, WorkspaceTypes, GoodPics
  <1>4. OthersAtRest'
    BY <1>1, <1>2 DEF WorkspaceHolds, OthersAtRest, IsAnimated
  <1>5. QED
    BY <1>1, <1>3, <1>4 DEF WorkspaceHolds, WorkspaceTypes

(* So do the keys for the selection.                                       *)
LEMMA SelectionKeyHolds ==
  ASSUME WorkspaceHolds, SelectionKey PROVE WorkspaceHolds'
  <1>0. images \in Seq(Ids) /\ selection \in Seq(Ids) /\ GoodPics(pics)
    BY DEF WorkspaceHolds, WorkspaceTypes
  <1>1. CASE IsolateSelection
    BY <1>0, <1>1, KeepHolds DEF IsolateSelection
  <1>2. CASE DeleteSelection
    <2>1. Among(images, Ids \ ToSet(selection)) \in Seq(Ids)
      BY <1>0, AmongIds
    <2>2. QED
      BY <1>2, <2>1, KeepHolds DEF DeleteSelection
  <1>3. CASE RefreshSelection
    <2>1. KeepsAll(pics, pics')
      BY <1>0, <1>3, RefreshSelectionKeeps
    <2>2. images' = images /\ selection' \in Seq(Ids) /\ progress' = progress /\ layouter' = layouter
      BY <1>0, <1>3 DEF RefreshSelection
    <2>3. QED
      BY <2>1, <2>2, StillHolds
  <1>4. QED
    BY <1>1, <1>2, <1>3 DEF SelectionKey

(* So does the end of a drawing.                                           *)
LEMMA ForgetRequestsHolds ==
  ASSUME WorkspaceHolds, ForgetRequests PROVE WorkspaceHolds'
  <1>1. GoodPics(pics) /\ selection \in Seq(Ids)
    BY DEF WorkspaceHolds, WorkspaceTypes
  <1>2. KeepsAll(pics, pics')
    BY <1>1, ForgetRequestsKeeps
  <1>3. images' = images /\ selection' \in Seq(Ids) /\ progress' = progress /\ layouter' = layouter
    BY <1>1 DEF ForgetRequests
  <1>4. QED
    BY <1>2, <1>3, StillHolds

(* So does an answer.                                                      *)
LEMMA ReplyArrivesHolds ==
  ASSUME WorkspaceHolds, NEW i \in Ids, ReplyArrives(i) PROVE WorkspaceHolds'
  <1>1. GoodPics(pics) /\ selection \in Seq(Ids)
    BY DEF WorkspaceHolds, WorkspaceTypes
  <1>2. KeepsAll(pics, pics')
    BY <1>1, ReplyArrivesKeeps
  <1>3. images' = images /\ selection' \in Seq(Ids) /\ progress' = progress /\ layouter' = layouter
    BY <1>1 DEF ReplyArrives
  <1>4. QED
    BY <1>2, <1>3, StillHolds

(* The images of a file are added at rest, whatever place was read.        *)
LEMMA FileKeyHolds ==
  ASSUME WorkspaceHolds, FileKey PROVE WorkspaceHolds'
  <1>1. CASE Save
    BY <1>1 DEF Save, WorkspaceHolds, WorkspaceTypes, OthersAtRest, IsAnimated
  <1>2. CASE Load
    <2> DEFINE sections == IF IsNamed(Parse(file), "galapix-workspace") THEN ImageSections(file) ELSE <<>>
               fresh == {ids \in SeqOf(Ids \ ToSet(images), MaxImages) :
                           Len(ids) = Len(sections) /\ IsInjective(ids)}
               added == CHOOSE ids \in fresh : TRUE
               url(i) == Read(sections[CHOOSE k \in DOMAIN added : added[k] = i]).url
    <2>1. /\ fresh # {} /\ images' = images \o added
          /\ pics' = [i \in Ids |-> IF i \in ToSet(added) THEN NewImage(url(i)) ELSE pics[i]]
          /\ selection' = selection /\ progress' = progress /\ layouter' = layouter
      BY <1>2 DEF Load
    <2>2. added \in SeqOf(Ids \ ToSet(images), MaxImages)
      BY <2>1
    <2> HIDE DEF added, url
    <2>3. added \in Seq(Ids)
      BY <2>2, WorkspaceAssumption DEF SeqOf
    <2>4. images \in Seq(Ids) /\ GoodPics(pics)
      BY DEF WorkspaceHolds, WorkspaceTypes
    <2>5. images' \in Seq(Ids)
      BY <2>1, <2>3, <2>4
    <2>6. \A i \in Ids : GoodPic(NewImage(url(i))) /\ AtRest(NewImage(url(i)))
      BY NewImagePic
    <2>7. GoodPics(pics')
      BY <2>1, <2>4, <2>6 DEF GoodPics
    <2>8. \A i \in ToSet(images) : i \in ToSet(images')
      <3>1. ASSUME NEW k \in 1 .. Len(images) PROVE images'[k] = images[k] /\ k \in 1 .. Len(images')
        BY <2>1, <2>3, <2>4
      <3>2. DOMAIN images = 1 .. Len(images) /\ DOMAIN images' = 1 .. Len(images')
        BY <2>4, <2>5
      <3>3. QED
        BY <3>1, <3>2 DEF ToSet
    <2>9. OthersAtRest'
      BY <2>1, <2>6, <2>8 DEF WorkspaceHolds, OthersAtRest, IsAnimated
    <2>10. QED
      BY <2>1, <2>5, <2>7, <2>9 DEF WorkspaceHolds, WorkspaceTypes
  <1>3. QED
    BY <1>1, <1>2 DEF FileKey

-----------------------------------------------------------------------------
(* What an event does not touch *)

ToolsHold == ToolsTypes /\ ModesHeld

ViewerInvariant == WorkspaceHolds /\ ToolsHold /\ WindowTypes

(* The workspace's part speaks of its own variables only.                  *)
LEMMA WorkspaceStays == ASSUME WorkspaceHolds, UNCHANGED workspaceVars PROVE WorkspaceHolds'
  BY DEF WorkspaceHolds, WorkspaceTypes, OthersAtRest, IsAnimated, workspaceVars

(* ModesHeld speaks of the tools only.                                     *)
LEMMA ModesStay == ASSUME ModesHeld, UNCHANGED tools PROVE ModesHeld'
  BY DEF ModesHeld, HeldBy, ToolOf

(* The tools' part speaks of the tools and the hand only.                  *)
LEMMA ToolsStay == ASSUME ToolsHold, UNCHANGED <<tools, hand>> PROVE ToolsHold'
  BY ModesStay DEF ToolsHold, ToolsTypes, HandType, ToolType

(* The events that happened are counted.                                   *)
LEMMA SpendNumbers ==
  ASSUME WindowTypes, NEW kind \in {"keys", "clicks", "other"}, Spend(kind)
  PROVE  spent' \in [keys : Nat, clicks : Nat, other : Nat]
  <1>1. spent \in [keys : Nat, clicks : Nat, other : Nat]
    BY DEF WindowTypes, GridType
  <1>2. spent' = [spent EXCEPT ![kind] = spent[kind] + 1]
    BY DEF Spend
  <1>3. QED
    BY <1>1, <1>2

(* An event that only changes the view.                                    *)
LEMMA OnlyViewHolds ==
  ASSUME ViewerInvariant, NEW v \in ViewType, OnlyView(v), spent' \in [keys : Nat, clicks : Nat, other : Nat]
  PROVE  ViewerInvariant'
  <1>1. WorkspaceHolds'
    BY WorkspaceStays DEF ViewerInvariant, OnlyView
  <1>2. ToolsHold'
    BY ToolsStay DEF ViewerInvariant, OnlyView
  <1>3. WindowTypes'
    BY DEF ViewerInvariant, OnlyView, WindowTypes, GridType
  <1>4. QED
    BY <1>1, <1>2, <1>3 DEF ViewerInvariant

(* The end of the program keeps everything.                                *)
LEMMA EndsHolds ==
  ASSUME ViewerInvariant, NEW how \in {"quit", "died"}, Ends(how), spent' \in [keys : Nat, clicks : Nat, other : Nat]
  PROVE  ViewerInvariant'
  <1>1. WorkspaceHolds'
    BY WorkspaceStays DEF ViewerInvariant, Ends
  <1>2. ToolsHold'
    BY ToolsStay DEF ViewerInvariant, Ends
  <1>3. WindowTypes'
    BY DEF ViewerInvariant, Ends, WindowTypes, GridType
  <1>4. QED
    BY <1>1, <1>2, <1>3 DEF ViewerInvariant

-----------------------------------------------------------------------------
(* The keys *)

(* Leaving the viewer.                                                     *)
LEMMA QuitHolds == ASSUME ViewerInvariant, Quit PROVE ViewerInvariant'
  <1>1. spent' \in [keys : Nat, clicks : Nat, other : Nat]
    BY SpendNumbers DEF ViewerInvariant, Quit
  <1>2. QED
    BY <1>1, EndsHolds DEF Quit

(* A key whose callback throws.                                            *)
LEMMA FatalKeyHolds == ASSUME ViewerInvariant, FatalKey PROVE ViewerInvariant'
  <1>1. spent' \in [keys : Nat, clicks : Nat, other : Nat]
    BY SpendNumbers DEF ViewerInvariant, FatalKey
  <1>2. QED
    BY <1>1, EndsHolds DEF FatalKey

(* The keys that zoom, turn and reset the view.                            *)
LEMMA ViewKeyHolds == ASSUME ViewerInvariant, ViewKey PROVE ViewerInvariant'
  <1>1. spent' \in [keys : Nat, clicks : Nat, other : Nat]
    BY SpendNumbers DEF ViewerInvariant, ViewKey
  <1>2. view \in ViewType /\ display \in Extent /\ view.offset \in Point /\ view.angle \in Int
    BY DEF ViewerInvariant, WindowTypes, GridType, ViewType
  <1>3. CASE ZoomToSelection
    <2> DEFINE ids == IF selection # <<>> THEN selection ELSE images
    <2>1. GoodPics(pics) /\ ids \in Seq(Ids)
      BY DEF ViewerInvariant, WorkspaceHolds, WorkspaceTypes
    <2>2. OnlyView(ZoomedTo(view, Around(ids)))
      BY <1>3 DEF ZoomToSelection
    <2> HIDE DEF ids
    <2>3. ZoomedTo(view, Around(ids)) \in ViewType
      BY <1>2, <2>1, AroundBox, ZoomedToView
    <2>4. QED
      BY <1>1, <2>2, <2>3, OnlyViewHolds
  <1>4. CASE \/ OnlyView(Zoomed(view, 5, 4, Middle(display)))
             \/ OnlyView(Zoomed(view, 4, 5, Middle(display)))
    <2>1. \A n, d \in Nat \ {0} : Zoomed(view, n, d, Middle(display)) \in ViewType
      BY <1>2, MiddlePoint, ZoomedView
    <2>2. 4 \in Nat \ {0} /\ 5 \in Nat \ {0}
      OBVIOUS
    <2>3. PICK n \in Nat \ {0}, d \in Nat \ {0} : OnlyView(Zoomed(view, n, d, Middle(display)))
      BY <1>4, <2>2
    <2>4. QED
      BY <1>1, <2>1, <2>3, OnlyViewHolds
  <1>5. ASSUME NEW by \in {Vec(0, 128), Vec(0, -128), Vec(128, 0), Vec(-128, 0)},
               OnlyView([view EXCEPT !.offset = Plus(@, by)])
        PROVE  ViewerInvariant'
    <2>1. by \in Point
      BY DEF Vec, Point
    <2>2. Plus(view.offset, by) \in Point
      BY <1>2, <2>1, Vectors
    <2>3. [view EXCEPT !.offset = Plus(view.offset, by)] \in ViewType
      BY <1>2, <2>2, OffsetView
    <2>4. QED
      BY <1>1, <1>5, <2>3, OnlyViewHolds
  <1>6. CASE OnlyView([num |-> 1, den |-> 1, offset |-> Vec(0, 0), angle |-> 0, bad |-> FALSE])
    <2>1. [num |-> 1, den |-> 1, offset |-> Vec(0, 0), angle |-> 0, bad |-> FALSE] \in ViewType
      BY DEF ViewType, Vec, Point
    <2>2. QED
      BY <1>1, <1>6, <2>1, OnlyViewHolds
  <1>7. ASSUME NEW angle \in {0, view.angle + 1, view.angle - 1}, OnlyView([view EXCEPT !.angle = angle])
        PROVE  ViewerInvariant'
    <2>1. angle \in Int
      BY <1>2
    <2>2. [view EXCEPT !.angle = angle] \in ViewType
      BY <1>2, <2>1, AngleView
    <2>3. QED
      BY <1>1, <1>7, <2>2, OnlyViewHolds
  <1>8. QED
    BY <1>3, <1>4, <1>5, <1>6, <1>7 DEF ViewKey

(* Other tools: what is held down is theirs, or the tools were switched.   *)
LEMMA ToolKeyHolds == ASSUME ViewerInvariant, ToolKey PROVE ViewerInvariant'
  <1>1. spent' \in [keys : Nat, clicks : Nat, other : Nat]
    BY SpendNumbers DEF ViewerInvariant, ToolKey
  <1>2. WorkspaceHolds' /\ WindowTypes'
    BY <1>1, WorkspaceStays DEF ViewerInvariant, ToolKey, WindowTypes, GridType
  <1>3. PICK set \in ToolSets :
          tools' = [tools EXCEPT !.left = set[1], !.right = set[2],
            !.switched = @ \/ ("left" \in tools.held /\ set[1] # tools.left)
                           \/ ("right" \in tools.held /\ set[2] # tools.right)]
    BY DEF ToolKey
  <1>4. set[1] \in {"zoom_in", "zoom_rect", "grid", "move"} /\ set[2] \in {"zoom_out", "resize", "rotate"}
    BY DEF ToolSets
  <1> DEFINE a == set[1]
             b == set[2]
             c == \/ tools.switched \/ ("left" \in tools.held /\ set[1] # tools.left)
                  \/ ("right" \in tools.held /\ set[2] # tools.right)
  <1>5. tools \in [left : {"zoom_in", "zoom_rect", "grid", "move"}, right : {"zoom_out", "resize", "rotate"},
                   active : SUBSET Modes, trackball : BOOLEAN,
                   held : SUBSET (Buttons \union DOMAIN KeyTools), switched : BOOLEAN]
    BY DEF ViewerInvariant, ToolsHold, ToolsTypes, HandType, ToolType
  <1>6. c \in BOOLEAN
    OBVIOUS
  <1>7. tools' = [tools EXCEPT !.left = a, !.right = b, !.switched = c]
    BY <1>3
  <1>8. /\ c => tools.switched \/ ("left" \in tools.held /\ a # tools.left) \/ ("right" \in tools.held /\ b # tools.right)
        /\ ~c => /\ ~tools.switched
                 /\ "left" \in tools.held => a = tools.left
                 /\ "right" \in tools.held => b = tools.right
    OBVIOUS
  <1>9. a \in {"zoom_in", "zoom_rect", "grid", "move"} /\ b \in {"zoom_out", "resize", "rotate"}
    BY <1>4
  <1> HIDE DEF a, b, c
  <1>10. /\ tools' \in [left : {"zoom_in", "zoom_rect", "grid", "move"}, right : {"zoom_out", "resize", "rotate"},
                        active : SUBSET Modes, trackball : BOOLEAN,
                        held : SUBSET (Buttons \union DOMAIN KeyTools), switched : BOOLEAN]
         /\ tools'.left = a /\ tools'.right = b /\ tools'.switched = c
         /\ tools'.held = tools.held /\ tools'.active = tools.active
    BY <1>5, <1>6, <1>7, <1>9
  <1>11. hand' = hand
    BY DEF ToolKey
  <1>12. ToolsTypes'
    BY <1>10, <1>11 DEF ViewerInvariant, ToolsHold, ToolsTypes, HandType, ToolType
  <1>13. ASSUME ~tools'.switched PROVE \A mode \in tools'.active : HeldBy(mode)'
    <2>1. /\ ~tools.switched
          /\ "left" \in tools.held => tools'.left = tools.left
          /\ "right" \in tools.held => tools'.right = tools.right
      BY <1>8, <1>10, <1>13
    <2>2. ASSUME NEW mode \in tools.active, HeldBy(mode) PROVE HeldBy(mode)'
      BY <1>10, <2>1, <2>2 DEF HeldBy, ToolOf
    <2>3. \A mode \in tools.active : HeldBy(mode)
      BY <2>1 DEF ViewerInvariant, ToolsHold, ModesHeld
    <2>4. QED
      BY <1>10, <2>2, <2>3
  <1>14. ASSUME ~tools'.switched PROVE ~({"drag", "move"} \subseteq tools'.active)
    <2>1. ~tools.switched
      BY <1>8, <1>10, <1>14
    <2>2. QED
      BY <1>10, <2>1 DEF ViewerInvariant, ToolsHold, ModesHeld
  <1>15. ModesHeld'
    BY <1>13, <1>14 DEF ModesHeld
  <1>16. QED
    BY <1>2, <1>12, <1>15 DEF ViewerInvariant, ToolsHold

(* The key for the trackball mode.                                         *)
LEMMA TrackballKeyHolds == ASSUME ViewerInvariant, TrackballKey PROVE ViewerInvariant'
  <1>1. spent' \in [keys : Nat, clicks : Nat, other : Nat]
    BY SpendNumbers DEF ViewerInvariant, TrackballKey
  <1>2. WorkspaceHolds' /\ WindowTypes'
    BY <1>1, WorkspaceStays DEF ViewerInvariant, TrackballKey, WindowTypes, GridType
  <1>3. /\ tools' = [tools EXCEPT !.trackball = ~tools.trackball]
        /\ hand' = hand /\ ToolsTypes /\ ModesHeld
    BY DEF TrackballKey, ViewerInvariant, ToolsHold
  <1>4. ToolsTypes'
    BY <1>3 DEF ToolsTypes, HandType, ToolType
  <1>5. /\ tools'.left = tools.left /\ tools'.right = tools.right /\ tools'.active = tools.active
        /\ tools'.held = tools.held /\ tools'.switched = tools.switched
    BY <1>3 DEF ToolsTypes, HandType, ToolType
  <1>6. ModesHeld'
    BY <1>3, <1>5 DEF ModesHeld, HeldBy, ToolOf
  <1>7. QED
    BY <1>2, <1>4, <1>6 DEF ViewerInvariant, ToolsHold

(* The grid is pinned to the world with the scale of the view.             *)
LEMMA GridSizeNumbers ==
  ASSUME NEW size \in [width : Int, height : Int], NEW n \in Nat \ {0}, NEW d \in Nat \ {0}
  PROVE  GridSize(size, n, d) \in [width : Int, height : Int]
  <1>1. (size.width * n) \div d \in Int /\ (size.height * n) \div d \in Int
    OBVIOUS
  <1>2. QED
    BY <1>1 DEF GridSize, Size

(* The grid with another place and size is a grid.                         *)
LEMMA GridOf ==
  ASSUME NEW g \in GridType, NEW pinned \in BOOLEAN, NEW offset \in Point, NEW size \in [width : Int, height : Int]
  PROVE  /\ [g EXCEPT !.pinned = pinned, !.offset = offset, !.size = size] \in GridType
         /\ [g EXCEPT !.offset = offset, !.size = size] \in GridType
  BY DEF GridType

(* The keys for the grid.                                                  *)
LEMMA GridKeyHolds == ASSUME ViewerInvariant, GridKey PROVE ViewerInvariant'
  <1>1. spent' \in [keys : Nat, clicks : Nat, other : Nat]
    BY SpendNumbers DEF ViewerInvariant, GridKey
  <1>2. WorkspaceHolds' /\ ToolsHold'
    BY WorkspaceStays, ToolsStay DEF ViewerInvariant, GridKey
  <1>3. view \in ViewType /\ grid \in GridType
    BY DEF ViewerInvariant, WindowTypes, GridType
  <1>4. view.num \in Nat \ {0} /\ view.den \in Nat \ {0}
    BY <1>3 DEF ViewType
  <1>5. grid.offset \in Point /\ grid.size \in [width : Int, height : Int]
    BY <1>3 DEF GridType
  <1>6. grid' \in GridType
    <2>1. CASE grid' = [grid EXCEPT !.drawn = ~@]
      BY <1>3, <2>1 DEF GridType
    <2>2. CASE grid' = [grid EXCEPT !.pinned = FALSE, !.offset = Screen(view, @),
                                    !.size = GridSize(@, view.num, view.den)]
      <3> DEFINE o == Screen(view, grid.offset)
                 s == GridSize(grid.size, view.num, view.den)
      <3>1. o \in Point /\ s \in [width : Int, height : Int]
        BY <1>3, <1>4, <1>5, WorldPoint, GridSizeNumbers
      <3>2. grid' = [grid EXCEPT !.pinned = FALSE, !.offset = o, !.size = s]
        BY <2>2
      <3> HIDE DEF o, s
      <3>3. QED
        BY <1>3, <3>1, <3>2, GridOf
    <2>3. CASE grid' = [grid EXCEPT !.pinned = TRUE, !.offset = World(view, @),
                                    !.size = GridSize(@, view.den, view.num)]
      <3> DEFINE o == World(view, grid.offset)
                 s == GridSize(grid.size, view.den, view.num)
      <3>1. o \in Point /\ s \in [width : Int, height : Int]
        BY <1>3, <1>4, <1>5, WorldPoint, GridSizeNumbers
      <3>2. grid' = [grid EXCEPT !.pinned = TRUE, !.offset = o, !.size = s]
        BY <2>3
      <3> HIDE DEF o, s
      <3>3. QED
        BY <1>3, <3>1, <3>2, GridOf
    <2>4. QED
      BY <2>1, <2>2, <2>3 DEF GridKey
  <1>7. WindowTypes'
    BY <1>1, <1>6 DEF ViewerInvariant, GridKey, WindowTypes, GridType
  <1>8. QED
    BY <1>2, <1>7 DEF ViewerInvariant

(* The keys for the workspace.                                             *)
LEMMA WorkspaceKeyHolds == ASSUME ViewerInvariant, WorkspaceKey PROVE ViewerInvariant'
  <1>1. spent' \in [keys : Nat, clicks : Nat, other : Nat]
    BY SpendNumbers DEF ViewerInvariant, WorkspaceKey
  <1>2. ToolsHold' /\ WindowTypes'
    BY <1>1, ToolsStay DEF ViewerInvariant, WorkspaceKey, OnlyWorkspace, WindowTypes, GridType
  <1>3. WorkspaceHolds /\ display \in Extent
    BY DEF ViewerInvariant, WindowTypes, GridType
  <1>4. WorkspaceHolds'
    BY <1>3, LayoutKeyHolds, SortKeyHolds, SelectionKeyHolds, ForgetRequestsHolds, FileKeyHolds DEF WorkspaceKey
  <1>5. QED
    BY <1>2, <1>4 DEF ViewerInvariant

(* The modes of the keys are no modes of a button.                         *)
LEMMA KeyModes ==
  /\ DOMAIN KeyTools = {"home", "end", "shift"}
  /\ KeyTools["home"] = "key_in" /\ KeyTools["end"] = "key_out" /\ KeyTools["shift"] = "view_rotate"
  BY DEF KeyTools

(* A key that works as a tool while it is held down.                       *)
LEMMA HoldKeyHolds ==
  ASSUME ViewerInvariant, NEW key \in DOMAIN KeyTools, HoldKey(key) PROVE ViewerInvariant'
  <1>1. spent' \in [keys : Nat, clicks : Nat, other : Nat]
    BY SpendNumbers DEF ViewerInvariant, HoldKey
  <1>2. WorkspaceHolds' /\ WindowTypes'
    BY <1>1, WorkspaceStays DEF ViewerInvariant, HoldKey, WindowTypes, GridType
  <1>3. ToolsTypes /\ ModesHeld
    BY DEF ViewerInvariant, ToolsHold
  <1>4. tools' = [tools EXCEPT !.held = tools.held \union {key}, !.active = tools.active \union {KeyTools[key]}]
    BY DEF HoldKey
  <1>5. KeyTools[key] \in {"key_in", "key_out", "view_rotate"}
    BY KeyModes
  <1>6. /\ tools' \in [left : {"zoom_in", "zoom_rect", "grid", "move"}, right : {"zoom_out", "resize", "rotate"},
                       active : SUBSET Modes, trackball : BOOLEAN,
                       held : SUBSET (Buttons \union DOMAIN KeyTools), switched : BOOLEAN]
        /\ tools'.left = tools.left /\ tools'.right = tools.right /\ tools'.switched = tools.switched
        /\ tools'.held = tools.held \union {key} /\ tools'.active = tools.active \union {KeyTools[key]}
    BY <1>3, <1>4, <1>5 DEF ToolsTypes, HandType, ToolType, Modes
  <1>7. Bearing(hand.pos) \in Int
    BY BearingNumber
  <1>8. ToolsTypes'
    <2>1. PICK b \in Int : hand' = hand \/ hand' = [hand EXCEPT !.start = b]
      BY <1>7 DEF HoldKey
    <2>2. QED
      BY <1>3, <1>6, <2>1 DEF ToolsTypes, HandType, ToolType
  <1>9. ModesHeld'
    <2>1. ASSUME ~tools.switched, NEW mode \in tools'.active PROVE HeldBy(mode)'
      BY <1>3, <1>6, <2>1 DEF ModesHeld, HeldBy, ToolOf
    <2>2. ASSUME ~tools.switched PROVE ~({"drag", "move"} \subseteq tools'.active)
      BY <1>3, <1>5, <1>6, <2>2 DEF ModesHeld
    <2>3. QED
      BY <1>6, <2>1, <2>2 DEF ModesHeld
  <1>10. QED
    BY <1>2, <1>8, <1>9 DEF ViewerInvariant, ToolsHold

(* Its release.                                                            *)
LEMMA ReleaseKeyHolds ==
  ASSUME ViewerInvariant, NEW key \in DOMAIN KeyTools, ReleaseKey(key) PROVE ViewerInvariant'
  <1>1. WorkspaceHolds' /\ WindowTypes'
    BY WorkspaceStays DEF ViewerInvariant, ReleaseKey, WindowTypes, GridType
  <1>2. ToolsTypes /\ ModesHeld
    BY DEF ViewerInvariant, ToolsHold
  <1>3. tools' = [tools EXCEPT !.held = tools.held \ {key}, !.active = tools.active \ {KeyTools[key]}]
    BY DEF ReleaseKey
  <1>4. /\ tools' \in [left : {"zoom_in", "zoom_rect", "grid", "move"}, right : {"zoom_out", "resize", "rotate"},
                       active : SUBSET Modes, trackball : BOOLEAN,
                       held : SUBSET (Buttons \union DOMAIN KeyTools), switched : BOOLEAN]
        /\ tools'.left = tools.left /\ tools'.right = tools.right /\ tools'.switched = tools.switched
        /\ tools'.held = tools.held \ {key} /\ tools'.active = tools.active \ {KeyTools[key]}
    BY <1>2, <1>3 DEF ToolsTypes, HandType, ToolType
  <1>5. ToolsTypes'
    BY <1>2, <1>4 DEF ToolsTypes, HandType, ToolType, ReleaseKey
  <1>6. ModesHeld'
    <2>1. ASSUME ~tools.switched, NEW mode \in tools'.active PROVE HeldBy(mode)'
      <3>1. HeldBy(mode) /\ mode # KeyTools[key]
        BY <1>2, <1>4, <2>1 DEF ModesHeld
      <3>2. key \notin Buttons
        BY KeyModes DEF Buttons
      <3>3. QED
        BY <1>4, <3>1, <3>2, KeyModes DEF HeldBy, ToolOf, Buttons
    <2>2. ASSUME ~tools.switched PROVE ~({"drag", "move"} \subseteq tools'.active)
      BY <1>2, <1>4, <2>2 DEF ModesHeld
    <2>3. QED
      BY <1>4, <2>1, <2>2 DEF ModesHeld
  <1>7. QED
    BY <1>1, <1>5, <1>6 DEF ViewerInvariant, ToolsHold

-----------------------------------------------------------------------------
(* The buttons of the mouse *)

(* What a tool remembers of the mouse when it goes down.                   *)
LEMMA HandOf ==
  ASSUME NEW h \in HandType, NEW p \in Point, NEW q \in Point, NEW r \in Point
  PROVE  /\ [h EXCEPT !.pos = p] \in HandType
         /\ [h EXCEPT !.pos = p, !.from = q, !.centre = r] \in HandType
         /\ \A t \in {"move", "zoom_rect", "grid"} : [h EXCEPT !.pos = p, !.click[t] = q] \in HandType
         /\ \A f \in (Nat \ {0}) \X (Nat \ {0}) : [h EXCEPT !.pos = p, !.old = f] \in HandType
  <1>1. [h EXCEPT !.pos = p] \in HandType
    BY DEF HandType
  <1>2. [h EXCEPT !.pos = p, !.from = q, !.centre = r] \in HandType
    BY DEF HandType
  <1>3. ASSUME NEW t \in {"move", "zoom_rect", "grid"}
        PROVE  [h EXCEPT !.pos = p, !.click[t] = q] \in HandType
    <2> DEFINE click == [h.click EXCEPT ![t] = q]
    <2>1. click \in [{"move", "zoom_rect", "grid"} -> Point]
      BY DEF HandType
    <2>2. [h EXCEPT !.pos = p, !.click[t] = q] = [h EXCEPT !.pos = p, !.click = click]
      OBVIOUS
    <2> HIDE DEF click
    <2>3. QED
      BY <2>1, <2>2 DEF HandType
  <1>4. ASSUME NEW f \in (Nat \ {0}) \X (Nat \ {0}) PROVE [h EXCEPT !.pos = p, !.old = f] \in HandType
    BY DEF HandType
  <1>5. QED
    BY <1>1, <1>2, <1>3, <1>4

(* A click or a dragged rectangle only selects.                            *)
LEMMA SelectedHolds ==
  ASSUME WorkspaceHolds, selection' \in Seq(Ids), UNCHANGED <<images, pics, progress, layouter>>
  PROVE  WorkspaceHolds'
  BY DEF WorkspaceHolds, WorkspaceTypes, OthersAtRest, IsAnimated

(* A button has one of its own tools; only the left one can move.          *)
LEMMA ToolOfButton ==
  ASSUME ToolsTypes, NEW button \in Buttons
  PROVE  /\ ToolOf(button) \in {"zoom_in", "zoom_rect", "grid", "move", "zoom_out", "resize", "rotate", "pan"}
         /\ ToolOf(button) = "move" <=> button = "left" /\ tools.left = "move"
  BY DEF ToolsTypes, HandType, ToolType, Buttons, ToolOf

(* A button that is pressed starts its tool, which no other button holds.  *)
LEMMA PressedHolds ==
  ASSUME ToolsHold, NEW button \in Buttons, button \notin tools.held, hand' \in HandType,
         NEW mode \in Modes,
         ToolOf(button) # "move" => mode = ToolOf(button),
         ToolOf(button) = "move" => mode \in {"move", "drag"},
         tools' = [tools EXCEPT !.held = @ \union {button}, !.active = @ \union {mode}]
  PROVE  ToolsHold'
  <1>1. ToolsTypes /\ ModesHeld
    BY DEF ToolsHold
  <1>2. /\ tools' \in ToolType
        /\ tools'.left = tools.left /\ tools'.right = tools.right /\ tools'.switched = tools.switched
        /\ tools'.held = tools.held \union {button} /\ tools'.active = tools.active \union {mode}
    BY <1>1 DEF ToolsTypes, HandType, ToolType
  <1>3. ToolsTypes'
    BY <1>2 DEF ToolsTypes, HandType, ToolType
  <1>4. /\ ToolOf(button) = "move" <=> button = "left" /\ tools.left = "move"
        /\ ToolOf(button) \notin {"drag"}
    BY <1>1, ToolOfButton
  <1>5. \A b : ToolOf(b)' = ToolOf(b)
    BY <1>2 DEF ToolOf
  <1>6. ASSUME ~tools.switched, NEW m \in tools'.active PROVE HeldBy(m)'
    <2>1. CASE m \in tools.active
      <3>1. HeldBy(m)
        BY <1>1, <1>6, <2>1 DEF ModesHeld
      <3>2. QED
        BY <1>2, <1>5, <3>1 DEF HeldBy
    <2>2. CASE m = mode /\ ToolOf(button) = "move"
      BY <1>2, <1>4, <2>2 DEF HeldBy
    <2>3. CASE m = mode /\ ToolOf(button) # "move"
      <3>1. m \notin {"move", "drag"} /\ m = ToolOf(button)'
        BY <1>4, <1>5, <2>3
      <3>2. button \in Buttons \cap tools'.held
        BY <1>2
      <3>3. QED
        BY <3>1, <3>2 DEF HeldBy
    <2>4. QED
      BY <1>2, <2>1, <2>2, <2>3
  <1>7. ASSUME ~tools.switched PROVE ~({"drag", "move"} \subseteq tools'.active)
    <2>1. CASE ToolOf(button) # "move"
      <3>1. mode \notin {"drag", "move"}
        BY <1>4, <2>1
      <3>2. QED
        BY <1>1, <1>2, <1>7, <3>1 DEF ModesHeld
    <2>2. CASE ToolOf(button) = "move"
      <3>1. "left" \notin tools.held
        BY <1>4, <2>2
      <3>2. \A m \in {"drag", "move"} : ~HeldBy(m)
        BY <3>1, KeyModes, <1>1 DEF HeldBy
      <3>3. "drag" \notin tools.active /\ "move" \notin tools.active
        BY <1>1, <1>7, <3>2 DEF ModesHeld
      <3>4. QED
        BY <1>2, <3>3
    <2>3. QED
      BY <2>1, <2>2
  <1>8. ModesHeld'
    BY <1>2, <1>6, <1>7 DEF ModesHeld
  <1>9. QED
    BY <1>3, <1>8 DEF ToolsHold

(* A button goes down.                                                     *)
LEMMA ButtonDownHolds ==
  ASSUME ViewerInvariant, NEW button \in Buttons, ButtonDown(button, hand.pos) PROVE ViewerInvariant'
  <1> DEFINE p == hand.pos
             tool == ToolOf(button)
  <1>1. spent' \in [keys : Nat, clicks : Nat, other : Nat]
    BY SpendNumbers DEF ViewerInvariant, ButtonDown
  <1>2. /\ hand \in HandType /\ p \in Point /\ view \in ViewType /\ ToolsTypes /\ WorkspaceHolds
        /\ images \in Seq(Ids) /\ selection \in Seq(Ids) /\ GoodPics(pics)
    BY DEF ViewerInvariant, ToolsHold, ToolsTypes, HandType, ToolType, WindowTypes, GridType, WorkspaceHolds, WorkspaceTypes
  <1>3. World(view, p) \in Point /\ SelectionCenter(pics) \in Point
    BY <1>2, WorldPoint, CenterPoint
  <1>4. button \notin tools.held /\ Rest
    BY DEF ButtonDown
  <1>5. view' = view /\ grid' = grid /\ status' = status /\ pics' = pics
    BY DEF ButtonDown, MoveDown
  <1>6. WindowTypes'
    BY <1>1, <1>4, <1>5 DEF ViewerInvariant, WindowTypes, GridType, Rest
  <1>7. selection' \in Seq(Ids)
    <2>1. CASE tool = "move"
      <3>1. selection' = <<>> \/ (Under(World(view, p)) # {} /\ selection' = Toggled(ImageAt(World(view, p))))
        BY <2>1 DEF ButtonDown, MoveDown
      <3>2. Under(World(view, p)) # {} => ImageAt(World(view, p)) \in Ids
        BY <1>2, ImageAtId
      <3>3. Under(World(view, p)) # {} => Toggled(ImageAt(World(view, p))) \in Seq(Ids)
        BY <1>2, <3>2, ToggledIds
      <3>4. <<>> \in Seq(Ids)
        OBVIOUS
      <3>5. QED
        BY <3>1, <3>3, <3>4
    <2>2. CASE tool # "move"
      BY <1>2, <2>2 DEF ButtonDown
    <2>3. QED
      BY <2>1, <2>2
  <1>8. WorkspaceHolds'
    BY <1>2, <1>4, <1>5, <1>7, SelectedHolds DEF Rest
  <1>9. ToolsHold'
    <2>1. CASE tool = "move"
      <3>1. PICK mode \in {"drag", "move"} :
              tools' = [tools EXCEPT !.held = @ \union {"left"}, !.active = @ \union {mode}]
        BY <2>1 DEF ButtonDown, MoveDown
      <3>2. hand' = [hand EXCEPT !.pos = p, !.click["move"] = World(view, p)]
        BY <2>1 DEF ButtonDown, MoveDown
      <3>3. button = "left" /\ mode \in Modes
        BY <1>2, <2>1, ToolOfButton DEF Modes
      <3>4. hand' \in HandType
        BY <1>2, <1>3, <3>2, HandOf
      <3>5. QED
        BY <1>4, <2>1, <3>1, <3>3, <3>4, PressedHolds DEF ViewerInvariant
    <2>2. CASE tool # "move"
      <3>1. /\ hand' = Remember(tool, p)
            /\ tools' = [tools EXCEPT !.held = @ \union {button}, !.active = @ \union {tool}]
        BY <2>2 DEF ButtonDown
      <3>2. hand' \in HandType
        BY <1>2, <1>3, <3>1, HandOf DEF Remember
      <3>3. tool \in Modes
        BY <1>2, ToolOfButton DEF Modes
      <3>4. QED
        BY <1>4, <2>2, <3>1, <3>2, <3>3, PressedHolds DEF ViewerInvariant
    <2>3. QED
      BY <2>1, <2>2
  <1>10. QED
    BY <1>6, <1>8, <1>9 DEF ViewerInvariant

(* A button that is released ends its tool.                                *)
LEMMA ReleasedHolds ==
  ASSUME ToolsHold, NEW button \in Buttons, hand' \in HandType,
         tools' = [tools EXCEPT !.held = @ \ {button}, !.active = @ \ EndedBy(ToolOf(button))]
  PROVE  ToolsHold'
  <1>1. ToolsTypes /\ ModesHeld
    BY DEF ToolsHold
  <1> DEFINE ended == EndedBy(ToolOf(button))
  <1>2. ToolOf(button) # "move" => ended = {ToolOf(button)}
    BY DEF EndedBy
  <1>3. ToolOf(button) = "move" => ended = {IF "drag" \in tools.active THEN "drag" ELSE "move"}
    BY DEF EndedBy
  <1> HIDE DEF ended
  <1>4. /\ tools' \in ToolType
        /\ tools'.left = tools.left /\ tools'.right = tools.right /\ tools'.switched = tools.switched
        /\ tools'.held = tools.held \ {button} /\ tools'.active = tools.active \ ended
    BY <1>1 DEF ToolsTypes, HandType, ToolType, ended
  <1>5. ToolsTypes'
    BY <1>4 DEF ToolsTypes, HandType, ToolType
  <1>6. ToolOf(button) = "move" <=> button = "left" /\ tools.left = "move"
    BY <1>1, ToolOfButton
  <1>7. \A b : ToolOf(b)' = ToolOf(b)
    BY <1>4 DEF ToolOf
  <1>8. ASSUME ~tools.switched, NEW m \in tools'.active PROVE HeldBy(m)'
    <2>1. HeldBy(m) /\ m \in tools.active /\ m \notin ended
      BY <1>1, <1>4, <1>8 DEF ModesHeld
    <2>2. CASE m \in {"move", "drag"} /\ tools.left = "move" /\ "left" \in tools.held
      <3>1. ASSUME button = "left" PROVE FALSE
        <4>1. ToolOf(button) = "move"
          BY <1>6, <2>2, <3>1
        <4>2. ~({"drag", "move"} \subseteq tools.active)
          BY <1>1, <1>8 DEF ModesHeld
        <4>3. QED
          BY <1>3, <2>1, <2>2, <4>1, <4>2
      <3>2. QED
        BY <1>4, <2>2, <3>1 DEF HeldBy
    <2>3. ASSUME m \notin {"move", "drag"}, NEW b \in Buttons \cap tools.held, m = ToolOf(b) PROVE HeldBy(m)'
      <3>1. b # button
        BY <1>2, <2>1, <2>3
      <3>2. b \in Buttons \cap tools'.held /\ m = ToolOf(b)'
        BY <1>4, <1>7, <2>3, <3>1
      <3>3. QED
        BY <2>3, <3>2 DEF HeldBy
    <2>4. ASSUME NEW key \in DOMAIN KeyTools \cap tools.held, m = KeyTools[key] PROVE HeldBy(m)'
      <3>1. key # button
        BY <2>4, KeyModes DEF Buttons
      <3>2. key \in DOMAIN KeyTools \cap tools'.held
        BY <1>4, <2>4, <3>1
      <3>3. QED
        BY <2>4, <3>2 DEF HeldBy
    <2>5. QED
      BY <2>1, <2>2, <2>3, <2>4 DEF HeldBy
  <1>9. ASSUME ~tools.switched PROVE ~({"drag", "move"} \subseteq tools'.active)
    BY <1>1, <1>4, <1>9 DEF ModesHeld
  <1>10. ModesHeld'
    BY <1>4, <1>8, <1>9 DEF ModesHeld
  <1>11. QED
    BY <1>5, <1>10 DEF ToolsHold

(* The rectangle of select() and zoom_to() is a normal one.                *)
LEMMA DraggedBox ==
  ASSUME hand \in HandType, view \in ViewType, NEW tool \in {"move", "zoom_rect"}
  PROVE  Dragged(tool) \in Box /\ Width(Dragged(tool)) \in Nat /\ Height(Dragged(tool)) \in Nat
  <1>1. hand.click[tool] \in Point /\ hand.seen[tool] \in Point
    BY DEF HandType
  <1>2. World(view, hand.seen[tool]) \in Point
    BY <1>1, WorldPoint
  <1>3. QED
    BY <1>1, <1>2, NormalizedBox DEF Dragged

(* The rectangle that was dragged becomes the grid.                        *)
LEMMA GridUpHolds ==
  ASSUME hand \in HandType, view \in ViewType, grid \in GridType, GridUp PROVE grid' \in GridType
  <1> DEFINE p == World(view, hand.click["grid"])
             q == World(view, hand.seen["grid"])
             r == Normalized(Rect(p, q))
             size == Size(Width(r), Height(r))
             corner == Vec(r.left, r.top)
  <1>1. hand.click["grid"] \in Point /\ hand.seen["grid"] \in Point
    BY DEF HandType
  <1>2. p \in Point /\ q \in Point
    BY <1>1, WorldPoint
  <1>3. r \in Box
    BY <1>2, NormalizedBox
  <1>4. grid' = IF grid.pinned
           THEN [grid EXCEPT !.offset = corner, !.size = size]
           ELSE [grid EXCEPT !.offset = Screen(view, corner), !.size = GridSize(size, view.num, view.den)]
    BY DEF GridUp
  <1> HIDE DEF p, q, r
  <1>5. corner \in Point /\ size \in [width : Int, height : Int]
    BY <1>3 DEF Box, Vec, Point, Size, Width, Height
  <1> HIDE DEF corner, size
  <1>6. view.num \in Nat \ {0} /\ view.den \in Nat \ {0}
    BY DEF ViewType
  <1>7. Screen(view, corner) \in Point /\ GridSize(size, view.num, view.den) \in [width : Int, height : Int]
    BY <1>5, <1>6, WorldPoint, GridSizeNumbers
  <1>8. QED
    BY <1>4, <1>5, <1>7, GridOf

(* A button comes up.                                                      *)
LEMMA ButtonUpHolds ==
  ASSUME ViewerInvariant, NEW button \in Buttons, ButtonUp(button, hand.pos) PROVE ViewerInvariant'
  <1> DEFINE tool == ToolOf(button)
             old == IF tool = "resize" THEN <<1, 1>> ELSE hand.old
  <1>1. /\ hand \in HandType /\ hand.pos \in Point /\ view \in ViewType /\ grid \in GridType
        /\ display \in Extent /\ WorkspaceHolds
        /\ images \in Seq(Ids) /\ selection \in Seq(Ids)
    BY DEF ViewerInvariant, ToolsHold, ToolsTypes, HandType, ToolType, WindowTypes, GridType, WorkspaceHolds, WorkspaceTypes
  <1>2. /\ hand' = [hand EXCEPT !.pos = hand.pos, !.old = old]
        /\ tools' = [tools EXCEPT !.held = @ \ {button}, !.active = @ \ EndedBy(tool)]
        /\ UNCHANGED spent /\ UNCHANGED pics /\ Rest
    BY DEF ButtonUp
  <1>3. hand' \in HandType
    <2>1. old \in (Nat \ {0}) \X (Nat \ {0})
      BY <1>1 DEF HandType
    <2> HIDE DEF old
    <2>2. QED
      BY <1>1, <1>2, <2>1, HandOf
  <1>4. ToolsHold'
    BY <1>2, <1>3, ReleasedHolds DEF ViewerInvariant
  <1>5. \/ selection' = (IF view.bad THEN <<>> ELSE Select(Dragged("move"))) /\ UNCHANGED <<view, grid, status>>
        \/ ZoomRectUp \/ GridUp \/ UNCHANGED <<view, grid, status, selection>>
    BY DEF ButtonUp
  <1>6. selection' \in Seq(Ids)
    <2>1. Select(Dragged("move")) \in Seq(Ids) /\ <<>> \in Seq(Ids)
      BY <1>1, AmongIds DEF Select
    <2>2. selection' \in {selection, <<>>, Select(Dragged("move"))}
      BY <1>5 DEF ZoomRectUp, GridUp
    <2>3. QED
      BY <1>1, <2>1, <2>2
  <1>7. WorkspaceHolds'
    BY <1>1, <1>2, <1>6, SelectedHolds DEF Rest
  <1>8. view' \in ViewType
    <2>1. ZoomedTo(view, Dragged("zoom_rect")) \in ViewType
      BY <1>1, DraggedBox, ZoomedToView
    <2>2. view' = view \/ view' = ZoomedTo(view, Dragged("zoom_rect"))
      BY <1>5 DEF ZoomRectUp, GridUp
    <2>3. QED
      BY <1>1, <2>1, <2>2
  <1>9. grid' \in GridType
    <2>1. grid' = grid \/ GridUp
      BY <1>5 DEF ZoomRectUp
    <2>2. QED
      BY <1>1, <2>1, GridUpHolds
  <1>10. status' \in {"running", "quit", "died"}
    BY <1>5 DEF ZoomRectUp, GridUp, ViewerInvariant, WindowTypes, GridType
  <1>11. WindowTypes'
    BY <1>2, <1>8, <1>9, <1>10 DEF ViewerInvariant, WindowTypes, GridType, Rest
  <1>12. QED
    BY <1>4, <1>7, <1>11 DEF ViewerInvariant

-----------------------------------------------------------------------------
(* The mouse moves *)

(* A view that is panned is a view.                                        *)
LEMMA PannedView ==
  ASSUME NEW v \in ViewType, NEW by \in Point PROVE Panned(v, by) \in ViewType
  <1>1. Times(by, 4, 1) \in Point
    BY Multiples
  <1>2. QED
    BY <1>1, MovedView DEF Panned

(* The images that are resized, and the factor that is remembered.         *)
LEMMA ResizedKeeps ==
  ASSUME NEW ps, GoodPics(ps), selection \in Seq(Ids), hand \in HandType, NEW p \in Point, NEW v \in ViewType,
         "resize" \in tools.active => Resized(p, v, ps).old[1] > 0
  PROVE  KeepsAll(ps, Resized(p, v, ps).pics) /\ Resized(p, v, ps).old \in (Nat \ {0}) \X (Nat \ {0})
  <1> DEFINE a == Length(Minus(hand.centre, World(v, p)))
             b == Length(Minus(hand.centre, hand.from))
             r == Resized(p, v, ps)
  <1>1. /\ hand.centre \in Point /\ hand.from \in Point
        /\ hand.old \in (Nat \ {0}) \X (Nat \ {0})
        /\ hand.old[1] \in Nat \ {0} /\ hand.old[2] \in Nat \ {0}
    BY DEF HandType
  <1>2. a \in Nat /\ b \in Nat
    BY <1>1, WorldPoint, Vectors, LengthNatural
  <1>3. r = IF "resize" \notin tools.active \/ tools.right # "resize" \/ b = 0
              THEN [pics |-> ps, old |-> hand.old]
              ELSE [pics |-> ScaleSelection(ps, a * hand.old[2], b * hand.old[1]), old |-> <<a, b>>]
    BY DEF Resized
  <1>4. "resize" \in tools.active => r.old[1] > 0
    OBVIOUS
  <1> HIDE DEF a, b, r
  <1>5. CASE "resize" \notin tools.active \/ tools.right # "resize" \/ b = 0
    <2>1. r.pics = ps /\ r.old = hand.old
      BY <1>3, <1>5
    <2>2. QED
      BY <1>1, <2>1, KeepsAllReflexive DEF r
  <1>6. CASE ~("resize" \notin tools.active \/ tools.right # "resize" \/ b = 0)
    <2> DEFINE n == a * hand.old[2]
               d == b * hand.old[1]
    <2>1. r.pics = ScaleSelection(ps, n, d) /\ r.old = <<a, b>>
      BY <1>3, <1>6
    <2>2. a \in Nat \ {0} /\ b \in Nat \ {0}
      BY <1>2, <1>4, <1>6, <2>1
    <2>3. n \in Nat /\ d \in Nat \ {0}
      <3>1. \A x, y \in Nat \ {0} : x * y \in Nat \ {0}
        OBVIOUS
      <3>2. n \in Nat \ {0} /\ d \in Nat \ {0}
        BY <1>1, <2>2, <3>1, Zenon
      <3> HIDE DEF n, d
      <3>3. QED
        BY <3>2
    <2> HIDE DEF n, d
    <2>4. KeepsAll(ps, ScaleSelection(ps, n, d))
      BY <2>3, ScaleSelectionKeeps
    <2>5. QED
      BY <2>1, <2>2, <2>4 DEF r
  <1>7. QED
    BY <1>5, <1>6

(* What the tools remember of the mouse when it moves.                     *)
LEMMA HandMoved ==
  ASSUME NEW h \in HandType, NEW p \in Point, NEW f \in (Nat \ {0}) \X (Nat \ {0}), NEW b \in Int,
         NEW s \in [{"move", "zoom_rect", "grid"} -> Point]
  PROVE  [h EXCEPT !.pos = p, !.old = f, !.start = b, !.seen = s] \in HandType
  BY DEF HandType

(* The mouse moves.                                                        *)
LEMMA MouseMotionHolds == ASSUME ViewerInvariant, NEW p \in Places, MouseMotion(p) PROVE ViewerInvariant'
  <1> DEFINE by == Minus(p, hand.pos)
             moved == IF tools.left = "move" /\ "move" \in tools.active /\ ~view.bad
                        THEN MoveSelection(pics, Times(by, view.den, view.num)) ELSE pics
             panned == Panned(view, by)
             resized == Resized(p, panned, moved)
             turned == "view_rotate" \in tools.active
             start == IF turned THEN Bearing(p) ELSE hand.start
  <1>1. spent' \in [keys : Nat, clicks : Nat, other : Nat]
    BY SpendNumbers DEF ViewerInvariant, MouseMotion
  <1>2. /\ "resize" \in tools.active => resized.old[1] > 0
        /\ pics' = resized.pics
        /\ view' = IF turned THEN Turned(panned, Bearing(p) - hand.start) ELSE panned
        /\ hand' = [hand EXCEPT
             !.pos = p, !.old = resized.old, !.start = start,
             !.seen = [t \in DOMAIN hand.seen |-> IF t = tools.left THEN p ELSE hand.seen[t]]]
        /\ UNCHANGED <<selection, grid, tools, status>> /\ Rest
    BY DEF MouseMotion
  <1>3. /\ p \in Point /\ hand \in HandType /\ hand.pos \in Point /\ hand.start \in Int
        /\ view \in ViewType /\ GoodPics(pics) /\ selection \in Seq(Ids) /\ WorkspaceHolds /\ ToolsTypes /\ ModesHeld
    BY ViewerAssumption
       DEF Point, ViewerInvariant, ToolsHold, ToolsTypes, HandType, ToolType, WindowTypes, GridType, WorkspaceHolds, WorkspaceTypes
  <1>4. view.num \in Nat \ {0} /\ view.den \in Nat \ {0}
    BY <1>3 DEF ViewType
  <1>5. by \in Point
    BY <1>3, Vectors
  <1> HIDE DEF by
  <1>6. KeepsAll(pics, moved)
    <2>1. Times(by, view.den, view.num) \in Point
      BY <1>4, <1>5, Multiples
    <2>2. QED
      BY <1>3, <2>1, MoveSelectionKeeps, KeepsAllReflexive
  <1>7. panned \in ViewType
    BY <1>3, <1>5, PannedView
  <1>8. Bearing(p) \in Int
    BY BearingNumber
  <1> HIDE DEF moved, panned
  <1>9. KeepsAll(moved, resized.pics) /\ resized.old \in (Nat \ {0}) \X (Nat \ {0})
    BY <1>2, <1>3, <1>6, <1>7, KeepsAllGood, ResizedKeeps
  <1>10. view' \in ViewType
    <2>1. Bearing(p) - hand.start \in Int
      BY <1>3, <1>8
    <2>2. QED
      BY <1>2, <1>7, <2>1, TurnedView
  <1>11. start \in Int
    BY <1>3, <1>8
  <1> HIDE DEF resized, start, turned
  <1>12. hand' \in HandType
    <2> DEFINE f == resized.old
               s == [t \in DOMAIN hand.seen |-> IF t = tools.left THEN p ELSE hand.seen[t]]
    <2>1. hand' = [hand EXCEPT !.pos = p, !.old = f, !.start = start, !.seen = s]
      BY <1>2
    <2>2. f \in (Nat \ {0}) \X (Nat \ {0})
      BY <1>9
    <2>3. hand \in HandType /\ p \in Point
      BY <1>3
    <2>4. s \in [{"move", "zoom_rect", "grid"} -> Point]
      BY <2>3 DEF HandType
    <2> HIDE DEF f, s
    <2>5. [hand EXCEPT !.pos = p, !.old = f, !.start = start, !.seen = s] \in HandType
      BY <1>11, <2>2, <2>3, <2>4, HandMoved
    <2>6. QED
      BY <2>1, <2>5, Zenon
  <1>13. ToolsHold'
    <2>1. ModesHeld'
      BY <1>2, <1>3, ModesStay
    <2>2. ToolsTypes'
      BY <1>2, <1>3, <1>12 DEF ToolsTypes, HandType, ToolType
    <2>3. QED
      BY <2>1, <2>2 DEF ToolsHold
  <1>14. KeepsAll(pics, pics')
    BY <1>2, <1>6, <1>9, KeepsAllTransitive
  <1>15. images' = images /\ selection' \in Seq(Ids) /\ progress' = progress /\ layouter' = layouter
    BY <1>2, <1>3 DEF Rest
  <1>16. WorkspaceHolds'
    BY <1>3, <1>14, <1>15, StillHolds
  <1>17. WindowTypes'
    BY <1>1, <1>2, <1>10 DEF ViewerInvariant, WindowTypes, GridType, Rest
  <1>18. QED
    BY <1>13, <1>16, <1>17 DEF ViewerInvariant

(* The wheel turns.                                                        *)
LEMMA MouseWheelHolds == ASSUME ViewerInvariant, MouseWheel PROVE ViewerInvariant'
  <1>1. spent' \in [keys : Nat, clicks : Nat, other : Nat]
    BY SpendNumbers DEF ViewerInvariant, MouseWheel
  <1>2. PICK p \in Places \union {Vec(0, 1), Vec(0, -1)} :
          OnlyView(Zoomed(view, 11, 10, p)) \/ OnlyView(Zoomed(view, 10, 11, p))
    BY DEF MouseWheel
  <1>3. p \in Point
    BY ViewerAssumption DEF Point, Vec
  <1>4. view \in ViewType /\ display \in Extent
    BY DEF ViewerInvariant, WindowTypes, GridType
  <1>5. \A n, d \in Nat \ {0} : Zoomed(view, n, d, p) \in ViewType
    BY <1>3, <1>4, ZoomedView
  <1>6. 10 \in Nat \ {0} /\ 11 \in Nat \ {0}
    OBVIOUS
  <1>7. PICK n \in Nat \ {0}, d \in Nat \ {0} : OnlyView(Zoomed(view, n, d, p))
    BY <1>2, <1>6
  <1>8. QED
    BY <1>1, <1>5, <1>7, OnlyViewHolds

-----------------------------------------------------------------------------
(* The window, controllers and frames *)

(* The window gets another size.                                           *)
LEMMA WindowResizedHolds ==
  ASSUME ViewerInvariant, NEW size \in ToSet(Displays), WindowResized(size) PROVE ViewerInvariant'
  <1>1. spent' \in [keys : Nat, clicks : Nat, other : Nat]
    BY SpendNumbers DEF ViewerInvariant, WindowResized
  <1>2. size \in Extent
    <2>1. Displays \in Seq(Extent)
      BY ViewerAssumption DEF Extent
    <2>2. QED
      BY <2>1 DEF ToSet
  <1>3. WorkspaceHolds' /\ ToolsHold'
    BY WorkspaceStays, ToolsStay DEF ViewerInvariant, WindowResized
  <1>4. WindowTypes'
    BY <1>1, <1>2 DEF ViewerInvariant, WindowResized, WindowTypes, GridType
  <1>5. QED
    BY <1>3, <1>4 DEF ViewerInvariant

(* Controllers come and go.                                                *)
LEMMA PadsHold == ASSUME ViewerInvariant, PadAdded \/ PadRemoved \/ SpnavAllows PROVE ViewerInvariant'
  <1>1. spent' \in [keys : Nat, clicks : Nat, other : Nat]
    BY SpendNumbers DEF ViewerInvariant, PadAdded, PadRemoved, SpnavAllows
  <1>2. WorkspaceHolds' /\ ToolsHold'
    BY WorkspaceStays, ToolsStay DEF ViewerInvariant, PadAdded, PadRemoved, SpnavAllows
  <1>3. /\ view' = view /\ grid' = grid /\ display' = display
        /\ pads' \in {<<>>, <<"opened">>, <<"failed">>} /\ spnav' \in BOOLEAN
        /\ status' \in {"running", "quit", "died"}
    BY DEF PadAdded, PadRemoved, SpnavAllows, ViewerInvariant, WindowTypes, GridType
  <1>4. WindowTypes'
    BY <1>1, <1>3 DEF ViewerInvariant, WindowTypes, GridType
  <1>5. QED
    BY <1>2, <1>4 DEF ViewerInvariant

(* A stick or the space navigator moves the view.                          *)
LEMMA SteerHolds ==
  ASSUME ViewerInvariant, NEW m \in Motions, NEW quarters \in Int, Steer(m, quarters),
         spent' \in [keys : Nat, clicks : Nat, other : Nat]
  PROVE  ViewerInvariant'
  <1> DEFINE n == m.zoom[1]
             d == m.zoom[2]
  <1>1. n \in Nat \ {0} /\ d \in Nat \ {0} /\ m.by \in Point
    BY ViewerAssumption DEF Point
  <1>2. view \in ViewType /\ display \in Extent
    BY DEF ViewerInvariant, WindowTypes, GridType
  <1> HIDE DEF n, d
  <1>3. Zoomed(view, n, d, Middle(display)) \in ViewType
    BY <1>1, <1>2, MiddlePoint, ZoomedView
  <1>4. Turned(Moved(Zoomed(view, n, d, Middle(display)), m.by), quarters) \in ViewType
    BY <1>1, <1>3, MovedView, TurnedView
  <1>5. OnlyView(Turned(Moved(Zoomed(view, n, d, Middle(display)), m.by), quarters))
    BY DEF Steer, n, d
  <1>6. QED
    BY <1>4, <1>5, OnlyViewHolds

(* Their events.                                                           *)
LEMMA SteeredHolds == ASSUME ViewerInvariant, PadMoved \/ SpnavMoved \/ SpnavUpright PROVE ViewerInvariant'
  <1>1. spent' \in [keys : Nat, clicks : Nat, other : Nat]
    BY SpendNumbers DEF ViewerInvariant, PadMoved, SpnavMoved, SpnavUpright
  <1>2. CASE PadMoved \/ SpnavMoved
    <2>1. PICK m \in Motions : \E quarters \in {m.quarters, 0} : Steer(m, quarters)
      BY <1>2 DEF PadMoved, SpnavMoved
    <2>2. PICK quarters \in Int : Steer(m, quarters)
      BY <2>1, ViewerAssumption
    <2>3. QED
      BY <1>1, <2>1, <2>2, SteerHolds
  <1>3. CASE SpnavUpright
    <2>1. [view EXCEPT !.angle = 0] \in ViewType
      BY AngleView DEF ViewerInvariant, WindowTypes, GridType
    <2>2. QED
      BY <1>1, <1>3, <2>1, OnlyViewHolds DEF SpnavUpright
  <1>4. QED
    BY <1>2, <1>3

(* The tools that are held down zoom the view at every frame.              *)
LEMMA ToolsZoomView ==
  ASSUME NEW v \in ViewType, display \in Extent, hand.pos \in Point PROVE ToolsZoom(v) \in ViewType
  <1>1. ASSUME NEW u \in ViewType, NEW tool, NEW n \in Nat \ {0}, NEW d \in Nat \ {0}
        PROVE  ToolZooms(u, tool, n, d) \in ViewType
    <2> DEFINE p == IF tools.trackball THEN Middle(display) ELSE hand.pos
    <2>1. p \in Point
      BY MiddlePoint
    <2>2. ToolZooms(u, tool, n, d) = IF tool \notin tools.active THEN u ELSE Zoomed(u, n, d, p)
      BY DEF ToolZooms
    <2> HIDE DEF p
    <2>3. Zoomed(u, n, d, p) \in ViewType
      BY <2>1, ZoomedView
    <2>4. QED
      BY <2>2, <2>3
  <1>2. 1 \in Nat \ {0} /\ 2 \in Nat \ {0}
    OBVIOUS
  <1>3. ToolZooms(v, "zoom_in", 2, 1) \in ViewType
    BY <1>1, <1>2
  <1>4. ToolZooms(ToolZooms(v, "zoom_in", 2, 1), "zoom_out", 1, 2) \in ViewType
    BY <1>1, <1>2, <1>3
  <1>5. ToolZooms(ToolZooms(ToolZooms(v, "zoom_in", 2, 1), "zoom_out", 1, 2), "key_in", 2, 1) \in ViewType
    BY <1>1, <1>2, <1>4
  <1>6. QED
    BY <1>1, <1>2, <1>5 DEF ToolsZoom

(* A frame: the images move on, arrive, and are drawn.                     *)
LEMMA FrameHolds == ASSUME ViewerInvariant, Frame PROVE ViewerInvariant'
  <1>1. /\ view \in ViewType /\ display \in Extent /\ hand.pos \in Point
        /\ GoodPics(pics) /\ progress \in 0 .. Finished /\ OthersAtRest
    BY DEF ViewerInvariant, ToolsHold, ToolsTypes, HandType, ToolType, WindowTypes, GridType, WorkspaceHolds, WorkspaceTypes
  <1>2. spent' \in [keys : Nat, clicks : Nat, other : Nat]
    <2>1. spent' = spent \/ Spend("other")
      BY DEF Frame
    <2>2. QED
      BY <2>1, SpendNumbers DEF ViewerInvariant, WindowTypes, GridType
  <1>3. /\ view' = ToolsZoom(view) /\ progress' = NextProgress
        /\ pics' = (IF view'.bad THEN Updated ELSE DrawImages(Updated, ClipRect(view')))
        /\ UNCHANGED <<images, selection, layouter, file, tools, hand, grid, display, pads, spnav>>
    BY DEF Frame
  <1>4. view' \in ViewType
    BY <1>1, <1>3, ToolsZoomView
  <1>5. status' \in {"running", "quit", "died"}
    BY DEF Frame, ViewerInvariant, WindowTypes, GridType
  <1>6. WindowTypes'
    BY <1>2, <1>3, <1>4, <1>5 DEF ViewerInvariant, WindowTypes, GridType
  <1>7. ToolsHold'
    BY <1>3, ToolsStay DEF ViewerInvariant
  <1>8. /\ GoodPics(Updated) /\ NextProgress \in 0 .. Finished
        /\ \A i \in Ids : (i \notin ToSet(images) \/ NextProgress = Finished) => AtRest(Updated[i])
    BY <1>1, UpdatedGood
  <1>9. KeepsAll(Updated, pics')
    BY <1>3, <1>8, DrawImagesKeeps, KeepsAllReflexive
  <1>10. GoodPics(pics') /\ \A i \in Ids : AtRest(Updated[i]) => AtRest(pics'[i])
    BY <1>9, KeepsAllGood DEF KeepsAll, Keeps
  <1>11. OthersAtRest'
    BY <1>3, <1>8, <1>10 DEF OthersAtRest, IsAnimated
  <1>12. WorkspaceTypes'
    BY <1>3, <1>8, <1>10 DEF ViewerInvariant, WorkspaceHolds, WorkspaceTypes
  <1>13. QED
    BY <1>6, <1>7, <1>11, <1>12 DEF ViewerInvariant, WorkspaceHolds

(* An answer from the database thread.                                     *)
LEMMA ReplyHolds == ASSUME ViewerInvariant, NEW i \in Ids, Reply(i) PROVE ViewerInvariant'
  <1>1. WorkspaceHolds'
    BY ReplyArrivesHolds DEF ViewerInvariant, Reply
  <1>2. ToolsHold' /\ WindowTypes'
    BY ToolsStay DEF ViewerInvariant, Reply, WindowTypes, GridType
  <1>3. QED
    BY <1>1, <1>2 DEF ViewerInvariant

-----------------------------------------------------------------------------
(* The start *)

(* Images given on the command line are at rest.                           *)
LEMMA OpenedPics ==
  /\ Opened = [i \in Ids |-> Opened[i]]
  /\ \A i \in Ids : GoodPic(Opened[i]) /\ AtRest(Opened[i])
  <1>1. \A i \in Ids : Opened[i] = NewImage(Names[i]) \/ Opened[i] = NewImage(<<>>)
    BY DEF Opened
  <1>2. QED
    BY <1>1, NewImagePic DEF Opened

(* The names on the command line are among the images there can be.        *)
LEMMA NamesAre ==
  /\ Len(Names) \in Nat /\ Len(Names) <= MaxImages /\ MaxImages \in Nat
  /\ DOMAIN Names = 1 .. Len(Names) /\ DOMAIN Names \subseteq Ids
  BY WorkspaceAssumption DEF Ids

(* The window has a size at the start.                                     *)
LEMMA DisplayAtStart == Displays[1] \in Extent
  <1>1. Displays \in Seq(Extent) /\ Displays # <<>>
    BY ViewerAssumption DEF Extent
  <1>2. QED
    BY <1>1

(* The images of the command line are where the tight layout puts them.    *)
LEMMA StartedGood == GoodPics(Started) /\ \A i \in Ids : AtRest(Started[i])
  <1> DEFINE n == Len(Names)
             sizes == [k \in 1 .. n |-> DefaultSize]
             places == Tight(sizes, Displays[1])
  <1>1. n \in Nat /\ DOMAIN Names = 1 .. n /\ 1 .. n \subseteq Ids
    BY NamesAre
  <1>2. DefaultSize \in Extent
    BY DEF DefaultSize, Size, Extent
  <1>3. sizes \in Seq(Extent) /\ Len(sizes) = n
    <2> HIDE DEF n
    <2>1. QED
      BY <1>1, <1>2
  <1>4. [k \in DOMAIN Names |-> DefaultSize] = sizes
    BY <1>1
  <1>5. Started = [i \in Ids |-> IF i \in 1 .. n THEN UpdatePos(SetTarget(Opened[i], places[i]), Finished)
                                                 ELSE Opened[i]]
    BY <1>1, <1>4 DEF Started
  <1> HIDE DEF sizes, n
  <1>6. PICK row : places = row.places /\ RowOf(row, sizes, n)
    BY <1>3, TightAre
  <1>7. row.places \in Seq(Spots) /\ Len(row.places) = n
    BY <1>6 DEF RowOf, Rows
  <1> HIDE DEF places
  <1>8. \A i \in 1 .. n : places[i] \in [pos : Point, scale : Nat]
    <2>1. \A i \in 1 .. n : row.places[i] \in Spots
      BY <1>7
    <2>2. QED
      BY <1>6, <2>1 DEF Spots
  <1>9. \A i \in 1 .. n : GoodPic(SetTarget(Opened[i], places[i]))
    BY <1>1, <1>8, OpenedPics, SetTargetPic
  <1>10. ASSUME NEW i \in Ids PROVE GoodPic(Started[i]) /\ AtRest(Started[i])
    <2>1. CASE i \in 1 .. n
      BY <1>5, <1>9, <2>1, UpdatePosPic
    <2>2. CASE i \notin 1 .. n
      BY <1>5, <2>2, OpenedPics
    <2>3. QED
      BY <2>1, <2>2
  <1>11. QED
    BY <1>5, <1>10 DEF GoodPics

(* The viewer's invariant is true at the start.                            *)
LEMMA InitHolds == ASSUME Init PROVE ViewerInvariant
  <1>1. images \in Seq(Ids)
    <2>1. images = [k \in 1 .. Len(Names) |-> k]
      BY NamesAre DEF Init, Given
    <2>2. QED
      BY <2>1, NamesAre
  <1>2. GoodPics(pics) /\ \A i \in Ids : AtRest(pics[i])
    BY StartedGood DEF Init
  <1>3. display \in Extent /\ layouter = [kind |-> "tight", aspect |-> display]
    BY DisplayAtStart DEF Init
  <1>4. WorkspaceHolds
    <2>1. layouter \in Layouter
      BY <1>3 DEF Layouter
    <2>2. selection \in Seq(Ids) /\ progress \in 0 .. Finished
      BY DEF Init, Finished
    <2>3. QED
      BY <1>1, <1>2, <2>1, <2>2 DEF WorkspaceHolds, WorkspaceTypes, OthersAtRest
  <1>5. view \in ViewType
    <2> DEFINE start == [num |-> 1, den |-> 1, offset |-> Vec(0, 0), angle |-> 0, bad |-> FALSE]
    <2>1. start \in ViewType
      BY DEF ViewType, Vec, Point
    <2>2. view = ZoomedTo(start, Around(images))
      BY DEF Init
    <2> HIDE DEF start
    <2>3. QED
      BY <1>1, <1>2, <1>3, <2>1, <2>2, AroundBox, ZoomedToView
  <1>6. tools = [left |-> "zoom_in", right |-> "zoom_out", active |-> {}, trackball |-> FALSE,
                 held |-> {}, switched |-> FALSE]
    BY DEF Init
  <1>7. hand \in HandType
    BY DEF Init, HandType, Vec, Point
  <1>8. ToolsHold
    <2>1. ToolsTypes
      BY <1>6, <1>7 DEF ToolsTypes, HandType, ToolType
    <2>2. ModesHeld
      BY <1>6 DEF ModesHeld
    <2>3. QED
      BY <2>1, <2>2 DEF ToolsHold
  <1>9. WindowTypes
    <2>1. grid \in GridType
      BY DEF Init, GridType, Vec, Point, Size
    <2>2. /\ pads \in {<<>>, <<"opened">>, <<"failed">>} /\ spnav \in BOOLEAN
          /\ status \in {"running", "quit", "died"} /\ spent \in [keys : Nat, clicks : Nat, other : Nat]
      BY DEF Init
    <2>3. QED
      BY <1>3, <1>5, <2>1, <2>2 DEF WindowTypes, GridType
  <1>10. QED
    BY <1>4, <1>8, <1>9 DEF ViewerInvariant

-----------------------------------------------------------------------------
(* The theorems *)

(* Every event keeps it.                                                   *)
LEMMA StepHolds == ASSUME ViewerInvariant, [Next]_viewerVars PROVE ViewerInvariant'
  <1>1. CASE \/ Quit \/ ViewKey \/ ToolKey \/ TrackballKey \/ GridKey \/ WorkspaceKey \/ FatalKey
    BY <1>1, QuitHolds, ViewKeyHolds, ToolKeyHolds, TrackballKeyHolds, GridKeyHolds, WorkspaceKeyHolds,
       FatalKeyHolds
  <1>2. ASSUME NEW key \in DOMAIN KeyTools, HoldKey(key) \/ ReleaseKey(key) PROVE ViewerInvariant'
    BY <1>2, HoldKeyHolds, ReleaseKeyHolds
  <1>3. ASSUME NEW p \in Places, MouseMotion(p) PROVE ViewerInvariant'
    BY <1>3, MouseMotionHolds
  <1>4. ASSUME NEW b \in Buttons, ButtonDown(b, hand.pos) \/ ButtonUp(b, hand.pos) PROVE ViewerInvariant'
    BY <1>4, ButtonDownHolds, ButtonUpHolds
  <1>5. CASE MouseWheel
    BY <1>5, MouseWheelHolds
  <1>6. ASSUME NEW size \in ToSet(Displays), WindowResized(size) PROVE ViewerInvariant'
    BY <1>6, WindowResizedHolds
  <1>7. CASE \/ PadAdded \/ PadRemoved \/ PadMoved \/ SpnavMoved \/ SpnavUpright \/ SpnavAllows
    BY <1>7, PadsHold, SteeredHolds
  <1>8. CASE Frame
    BY <1>8, FrameHolds
  <1>9. ASSUME NEW i \in Ids, Reply(i) PROVE ViewerInvariant'
    BY <1>9, ReplyHolds
  <1>10. CASE UNCHANGED viewerVars
    <2>1. WorkspaceHolds' /\ ToolsHold'
      BY <1>10, WorkspaceStays, ToolsStay DEF ViewerInvariant, viewerVars
    <2>2. WindowTypes'
      BY <1>10 DEF ViewerInvariant, WindowTypes, GridType, viewerVars
    <2>3. QED
      BY <2>1, <2>2 DEF ViewerInvariant
  <1>11. QED
    BY <1>1, <1>2, <1>3, <1>4, <1>5, <1>6, <1>7, <1>8, <1>9, <1>10 DEF Next, Buttons

(* So it is always true.                                                   *)
LEMMA ViewerInvariantHolds == Spec => []ViewerInvariant
  <1>1. Init => ViewerInvariant
    BY InitHolds
  <1>2. ViewerInvariant /\ [Next]_viewerVars => ViewerInvariant'
    BY StepHolds
  <1>3. QED
    BY <1>1, <1>2, PTL DEF Spec

(* The members of the viewer, its tools and its workspace have the values  *)
(* of their types: no event gives the view a scale of nothing or an image  *)
(* a size of nothing, and what the mouse, the keys and the images come to  *)
(* stays within the ids, tools and states there are (viewer.cpp,           *)
(* viewer_state.cpp, workspace.cpp, image.cpp).                            *)
THEOREM ViewerTypeCorrect == Spec => []ViewerTypeOK
  <1>1. ViewerInvariant => ViewerTypeOK
    BY DEF ViewerInvariant, WorkspaceHolds, ToolsHold, ViewerTypeOK
  <1>2. QED
    BY <1>1, ViewerInvariantHolds, PTL

(* PlacesAgree: the rectangle that clicks, selections and drawing look at  *)
(* is the one the image's position, size and scale give, and when no       *)
(* animation runs every image is where it is meant to be, whatever was     *)
(* laid out, moved, scaled, loaded or answered in between                  *)
(* (image.cpp:122-139, 389-395, workspace.cpp:347-387).                    *)
THEOREM PlacesAgreeHolds == Spec => []PlacesAgree
  <1>1. ASSUME ViewerInvariant PROVE PlacesAgree
    <2>1. \A i \in ToSet(images) : i \in Ids
      BY <1>1 DEF ViewerInvariant, WorkspaceHolds, WorkspaceTypes, ToSet
    <2>2. \A i \in Ids : pics[i].rect = ImageRect(pics[i])
      BY <1>1 DEF ViewerInvariant, WorkspaceHolds, WorkspaceTypes, GoodPics, GoodPic
    <2>3. \A i \in Ids : ~IsAnimated => AtRest(pics[i])
      BY <1>1 DEF ViewerInvariant, WorkspaceHolds, OthersAtRest
    <2>4. QED
      BY <2>1, <2>2, <2>3 DEF PlacesAgree, AtRest
  <1>2. QED
    BY <1>1, ViewerInvariantHolds, PTL

(* ToolsFollowButtons: unless tools were exchanged under a pressed button, *)
(* a tool is at work only while the button or the key that started it is   *)
(* held down, whatever the order of presses and releases                   *)
(* (viewer.cpp:186-306, move_tool.cpp:51-93).                              *)
THEOREM ToolsFollowButtonsHolds == Spec => []ToolsFollowButtons
  <1>1. ViewerInvariant => ToolsFollowButtons
    BY DEF ViewerInvariant, ToolsHold, ModesHeld, HeldBy, Buttons, ToolsFollowButtons
  <1>2. QED
    BY <1>1, ViewerInvariantHolds, PTL

(* LayoutsKeepApart: the spiral, tight and regular layouts never put one   *)
(* image upon another, for every number of images, every size of picture   *)
(* and of window (regular_layouter.cpp:31-57, tight_layouter.cpp:32-122,   *)
(* spiral_layouter.cpp:122-130).                                           *)
THEOREM LayoutsKeepApartHolds == Spec => []LayoutsKeepApart
  <1>1. ViewerInvariant => LayoutsKeepApart
    BY LayoutsApart DEF ViewerInvariant, WorkspaceHolds, WorkspaceTypes, WindowTypes, GridType
  <1>2. QED
    BY <1>1, ViewerInvariantHolds, PTL

(* ZoomKeepsPosition: what is under the mouse stays there, up to the       *)
(* rounding of the offset and of the mouse's place in the world, for every *)
(* scale and angle of the view and every place of the window               *)
(* (viewer_state.cpp:30-45).                                               *)
THEOREM ZoomKeepsPositionHolds == Spec => []ZoomKeepsPosition
  <1>1. ViewerInvariant => ZoomKeepsPosition
    BY ZoomKeeps DEF ViewerInvariant
  <1>2. QED
    BY <1>1, ViewerInvariantHolds, PTL

-----------------------------------------------------------------------------
(* One image on the screen, of any number of tiles *)

(* The members of the image and of its cache have the values of their      *)
(* types.                                                                  *)
PictureTypeOK ==
  /\ seen \in Views
  /\ provider \in {"none", "new", "stored"}
  /\ asked \in BOOLEAN /\ asking \in BOOLEAN /\ forsaken \in BOOLEAN
  /\ entries \in Nat
  /\ thumbs \subseteq Tiles /\ cutting \subseteq Tiles
  /\ cache \in [Tiles -> {"absent", "requested", "shown"}]
  /\ wanted \subseteq Tiles /\ arrived \subseteq Tiles
  /\ stale \subseteq Tiles /\ failed \subseteq Tiles

(* What AskedOnTheWay needs of the time an image has a provider: a refresh *)
(* or another provider may come between the request and its answer.        *)
FlagTells == asked => asking \/ entries > 0 \/ forsaken

(* Erasing leaves the other entries of the cache as they were.             *)
LEMMA ErasedRest ==
  ASSUME PictureTypeOK, RequestedOnTheWay, NEW gone \in SUBSET Tiles, Erase(gone), arrived' = arrived
  PROVE  /\ cache' \in [Tiles -> {"absent", "requested", "shown"}]
         /\ wanted' \subseteq Tiles /\ stale' \subseteq Tiles /\ failed' \subseteq Tiles
         /\ RequestedOnTheWay'
  BY DEF PictureTypeOK, Erase, RequestedOnTheWay

(* A new cache waits for nothing.                                          *)
LEMMA NewCacheEmpty ==
  ASSUME NewCache
  PROVE  /\ cache' \in [Tiles -> {"absent", "requested", "shown"}]
         /\ wanted' \subseteq Tiles /\ arrived' \subseteq Tiles
         /\ stale' \subseteq Tiles /\ failed' \subseteq Tiles
         /\ RequestedOnTheWay'
  BY DEF NewCache, NoTiles, RequestedOnTheWay

(* What cleanup() erases are tiles of the image. *)
LEMMA CleanedUpAreTiles == CleanedUp \subseteq Tiles
  BY DEF CleanedUp

(* The two invariants about requests have the types in common; each action *)
(* is looked at once.                                                      *)
LEMMA ImageStep ==
  ASSUME PictureTypeOK, FlagTells, RequestedOnTheWay,
         [ImageNext]_imageVars
  PROVE  PictureTypeOK' /\ FlagTells' /\ RequestedOnTheWay'
  <1>1. ASSUME BeginDraw \/ LoopEnds \/ Move \/ UNCHANGED imageVars
        PROVE  PictureTypeOK' /\ FlagTells' /\ RequestedOnTheWay'
    BY <1>1 DEF BeginDraw, LoopEnds, Move, imageVars, image, queues, tiles, requests, viewer,
                PictureTypeOK, FlagTells, RequestedOnTheWay
  <1>2. ASSUME CacheCleanup, UNCHANGED <<seen, provider, queues, cutting, arrived>>
        PROVE  PictureTypeOK' /\ FlagTells' /\ RequestedOnTheWay'
    <2>1. Erase(CleanedUp) /\ arrived' = arrived
      BY <1>2 DEF CacheCleanup
    <2>2. /\ cache' \in [Tiles -> {"absent", "requested", "shown"}]
          /\ wanted' \subseteq Tiles /\ stale' \subseteq Tiles /\ failed' \subseteq Tiles
          /\ RequestedOnTheWay'
      BY ONLY <2>1, PictureTypeOK, RequestedOnTheWay, ErasedRest, CleanedUpAreTiles, Zenon
    <2>3. QED
      BY <1>2, <2>2 DEF CacheCleanup, AbortAllJobs, queues, PictureTypeOK, FlagTells
  <1>3. CASE LeaveScreen \/ RenderNothing
    BY <1>2, <1>3 DEF LeaveScreen, RenderNothing, viewer
  <1>4. CASE ClearCache
    <2>1. Erase(Tiles) /\ arrived' = arrived
      BY <1>4 DEF ClearCache
    <2>2. /\ cache' \in [Tiles -> {"absent", "requested", "shown"}]
          /\ wanted' \subseteq Tiles /\ stale' \subseteq Tiles /\ failed' \subseteq Tiles
          /\ RequestedOnTheWay'
      BY <2>1, ErasedRest
    <2>3. QED
      BY <1>4, <2>2 DEF ClearCache, AbortAllJobs, queues, PictureTypeOK, FlagTells
  <1>5. CASE TakeEntry
    <2>1. NewCache
      BY <1>5 DEF TakeEntry, ChangeProvider
    <2>2. entries' \in Nat
      BY <1>5 DEF TakeEntry, PictureTypeOK
    <2>3. /\ provider' = "new" /\ asked' = FALSE /\ forsaken' = FALSE
          /\ UNCHANGED <<seen, thumbs, cutting>>
      BY <1>5 DEF TakeEntry, ChangeProvider
    <2>4. asking' \in BOOLEAN
      BY <1>5 DEF TakeEntry, ChangeProvider, AbortAllJobs, PictureTypeOK
    <2>5. QED
      BY <2>1, <2>2, <2>3, <2>4, NewCacheEmpty DEF PictureTypeOK, FlagTells
  <1>6. CASE TakeProvider
    <2>1. NewCache
      BY <1>6 DEF TakeProvider, ChangeProvider
    <2>2. /\ asking' \in BOOLEAN /\ provider' = "new"
          /\ UNCHANGED <<seen, asked, entries, thumbs, cutting>>
      BY <1>6 DEF TakeProvider, ChangeProvider, AbortAllJobs, PictureTypeOK
    <2>3. forsaken' = (forsaken \/ (asked /\ asking /\ ~asking'))
      BY <1>6 DEF TakeProvider
    <2>4. QED
      BY <2>1, <2>2, <2>3, NewCacheEmpty DEF PictureTypeOK, FlagTells
  <1>7. CASE Refresh
    <2>1. NewCache
      BY <1>7 DEF Refresh
    <2>2. asking' = FALSE /\ provider' = "none" /\ UNCHANGED <<seen, asked, entries, thumbs, cutting>>
      BY <1>7 DEF Refresh, AbortAllJobs, queues
    <2>3. forsaken' = (forsaken \/ (asked /\ asking))
      BY <1>7 DEF Refresh
    <2>4. QED
      BY <2>1, <2>2, <2>3, NewCacheEmpty DEF PictureTypeOK, FlagTells
  <1>8. CASE TakeThumb
    BY <1>8 DEF TakeThumb, viewer, image, requests, PictureTypeOK, FlagTells, RequestedOnTheWay
  <1>9. CASE AskForFile
    BY <1>9 DEF AskForFile, viewer, queues, tiles, requests, PictureTypeOK, FlagTells, RequestedOnTheWay
  <1>10. CASE ProcessQueue
    BY <1>10 DEF ProcessQueue, viewer, image, queues, requests, PictureTypeOK, FlagTells, RequestedOnTheWay
  <1>11. CASE RenderTiles
    <2>1. /\ UNCHANGED <<seen, provider, asked, asking, entries, thumbs, cutting, arrived,
                      forsaken>>
          /\ wanted' = (wanted \ Cancelled) \cup Missing
          /\ \E unnoticed \in SUBSET (wanted \cap Cancelled) : stale' = stale \cup unnoticed
          /\ failed' = failed \ Cancelled
      BY <1>11 DEF RenderTiles, viewer, image, queues, requests
    <2>2. /\ cache' \in [Tiles -> {"absent", "requested", "shown"}]
          /\ \A t \in Tiles : cache'[t] = "requested" =>
               t \in Missing \/ (cache[t] = "requested" /\ t \notin Cancelled)
      <3>1. cache' = [t \in Tiles |-> CASE t \in Missing   -> "requested"
                                        [] t \in Cancelled -> "absent"
                                        [] OTHER           -> cache[t]]
        BY <1>11 DEF RenderTiles
      <3> HIDE DEF Missing, Cancelled
      <3>2. QED
        BY <3>1 DEF PictureTypeOK
    <2>3. Missing \subseteq Tiles
      <3>1. seen \subseteq Tiles
        BY ImageAssumption DEF PictureTypeOK
      <3>2. QED
        BY <3>1 DEF Missing
    <2>4. QED
      BY <2>1, <2>2, <2>3 DEF PictureTypeOK, FlagTells, RequestedOnTheWay
  <1>12. CASE AnswerFile \/ AnswerLate \/ FileFails \/ DropLate \/ AnswerRefresh \/ Flush
    <2>1. CASE EntryArrives /\ asking' \in BOOLEAN
      <3>1. entries' \in Nat /\ entries' > 0 /\ cutting' \subseteq Tiles
        BY <2>1, ImageAssumption DEF EntryArrives, PictureTypeOK
      <3>2. QED
        BY <2>1, <3>1 DEF EntryArrives, viewer, tiles, PictureTypeOK, FlagTells, RequestedOnTheWay
    <2>2. AnswerFile \/ AnswerLate => EntryArrives /\ asking' \in BOOLEAN
      BY DEF AnswerFile, AnswerLate, PictureTypeOK
    <2>3. CASE FileFails
      BY <2>3 DEF FileFails, viewer, queues, tiles, requests, PictureTypeOK, FlagTells, RequestedOnTheWay
    <2>4. CASE DropLate \/ AnswerRefresh
      BY <2>4 DEF DropLate, AnswerRefresh, viewer, image, queues, tiles,
                  PictureTypeOK, FlagTells, RequestedOnTheWay
    <2>5. CASE Flush
      BY <2>5 DEF Flush, viewer, queues, tiles, requests, PictureTypeOK, FlagTells, RequestedOnTheWay
    <2>6. QED
      BY <1>12, <2>1, <2>2, <2>3, <2>4, <2>5
  <1>13. ASSUME NEW t \in Tiles, SendThumb(t) \/ AnswerTile(t) \/ EndStale(t) \/ TileFails(t)
         PROVE  PictureTypeOK' /\ FlagTells' /\ RequestedOnTheWay'
    BY <1>13 DEF SendThumb, AnswerTile, EndStale, TileFails, viewer, image, queues, tiles, requests,
                 PictureTypeOK, FlagTells, RequestedOnTheWay
  <1>14. QED
    BY <1>1, <1>3, <1>4, <1>5, <1>6, <1>7, <1>8, <1>9, <1>10, <1>11, <1>12, <1>13 DEF ImageNext

(* What the three have at the start, and at every later time.              *)
LEMMA ImageInvariant ==
  ImageSpec => [](PictureTypeOK /\ FlagTells /\ RequestedOnTheWay)
  <1>1. ImageInit => PictureTypeOK /\ FlagTells /\ RequestedOnTheWay
    <2> SUFFICES ASSUME ImageInit PROVE PictureTypeOK /\ FlagTells /\ RequestedOnTheWay
      OBVIOUS
    <2>1. thumbs \subseteq Tiles
      BY ImageAssumption DEF ImageInit
    <2>2. /\ cache \in [Tiles -> {"absent", "requested", "shown"}]
          /\ RequestedOnTheWay
      BY DEF ImageInit, NoTiles, RequestedOnTheWay
    <2>3. QED
      BY <2>1, <2>2 DEF ImageInit, PictureTypeOK, FlagTells
  <1>2. /\ PictureTypeOK /\ FlagTells /\ RequestedOnTheWay
        /\ [ImageNext]_imageVars
        => PictureTypeOK' /\ FlagTells' /\ RequestedOnTheWay'
    BY ImageStep
  <1>3. QED
    BY <1>1, <1>2, PTL DEF ImageSpec

(* AskedOnTheWay: an image that waits for its file entry has a request on  *)
(* its way, an answer in its queue, or is one of those that are known to   *)
(* wait in vain (image.cpp:239-296, 298-330).                              *)
THEOREM AskedOnTheWayHolds == ImageSpec => []AskedOnTheWay
  <1>1. FlagTells => AskedOnTheWay
    BY DEF FlagTells, AskedOnTheWay
  <1>2. QED
    BY <1>1, ImageInvariant, PTL

(* RequestedOnTheWay: no entry of the cache waits for a tile that nobody   *)
(* makes, whatever was cancelled and asked for again                       *)
(* (image_tile_cache.cpp:75-138, 164-219).                                 *)
THEOREM RequestedOnTheWayHolds == ImageSpec => []RequestedOnTheWay
  BY ImageInvariant, PTL
================================================================================
