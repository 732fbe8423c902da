------------------------------- MODULE MCViewer -------------------------------
(* Two images, one wide and one high, whose names sort by number, and are  *)
(* not only letters.                                                       *)
EXTENDS Viewer

UrlOf(n, end) == Text(<<"file:", "///", "pic">>) \o <<Number("int", n)>> \o Text(end)
NameList  == <<UrlOf(10, <<"space", "(", ")">>), UrlOf(9, <<"space", "quote", "(", "quote">>)>>
SizeList  == <<Size(500, 250), Size(250, 1000)>>
Windows   == <<Size(800, 600), Size(200, 600)>>
MouseAt   == {Vec(400, 300), Vec(600, 300)}
Bounds    ==
  {[keys |-> 2, clicks |-> 0, other |-> 1],
   [keys |-> 0, clicks |-> 1, other |-> 2],
   [keys |-> 1, clicks |-> 3, other |-> 0]}
Sticks    == {[zoom |-> <<2, 1>>, by |-> Vec(512, 0), quarters |-> 1],
              [zoom |-> <<1, 2>>, by |-> Vec(0, -512), quarters |-> -1]}
Scattered == {Place(Vec(700, 900), Unit \div 4)}
===============================================================================
