------------------------------ MODULE Workspace ------------------------------
(***************************************************************************)
(* src/galapix/workspace.cpp, selection.cpp and image_collection.cpp, and  *)
(* of image.cpp where an image is and how large: the images of the viewer, *)
(* their order, the selection, layouts and their animation, and the file   *)
(* they are saved to.  All of it runs in the thread of the viewer; only    *)
(* file entries arrive from other threads, in the queue of their image.    *)
(***************************************************************************)
EXTENDS Layouters, SExpressions

CONSTANTS
  Names,        \* the urls, as texts, in the order of the command line
  TrueSizes,    \* the size of the picture at each of them
  MaxImages,    \* bound on the images at any time
  RandomPlaces, \* what RandomLayouter may come up with
  ExponentFrom, \* operator<<(float) writes this number with an exponent, 1000000 in the code
  MaxReplies,   \* bound on the answers an image waits for at a time
  MaxPasses     \* bound on the passes of solve_overlaps(), which may go on forever

(* The size of a file that is no picture is 0x0. *)
ASSUME WorkspaceAssumption ==
  /\ MaxImages \in Nat \ {0} /\ ExponentFrom \in Nat /\ MaxReplies \in Nat \ {0} /\ MaxPasses \in Nat
  /\ Len(Names) \in 0 .. MaxImages /\ DOMAIN Names = 1 .. Len(Names)
  /\ TrueSizes \in [DOMAIN Names -> {Size(0, 0)} \union [width : Nat \ {0}, height : Nat \ {0}]]
  /\ RandomPlaces \subseteq [pos : [x : Int, y : Int], scale : Nat]

Ids      == 1 .. MaxImages
Finished == 2  \* m_progress 1.0; an update adds a half

VARIABLES
  images,     \* m_images, in the order they are drawn
  selection,  \* m_selection
  pics,       \* the images themselves
  progress,   \* m_progress
  layouter,   \* m_layouter
  file        \* the text of /tmp/workspace-dump.galapix

workspaceVars == <<images, selection, pics, progress, layouter, file>>

DefaultSize == Size(256, 256)

-----------------------------------------------------------------------------
(* Image *)

ImageRect(pic) ==
  LET size == Scaled(pic.size, pic.scale)
  IN  RectOf(Minus(pic.pos, Vec(size.width \div 2, size.height \div 2)), size)

WithRect(pic) == [pic EXCEPT !.rect = ImageRect(pic)]

(* An image without a provider, at the origin. *)
NewImage(url) ==
  WithRect([url |-> url, size |-> DefaultSize, provided |-> FALSE,
            requested |-> FALSE, replies |-> 0, queued |-> FALSE,
            pos |-> Vec(0, 0), last_pos |-> Vec(0, 0), target_pos |-> Vec(0, 0),
            scale |-> Unit, last_scale |-> Unit, target_scale |-> Unit,
            rect |-> Rect(Vec(0, 0), Vec(0, 0))])

SetPos(pic, p) ==
  WithRect([pic EXCEPT !.pos = p, !.last_pos = p, !.target_pos = p])

SetScale(pic, s) ==
  WithRect([pic EXCEPT !.scale = s, !.last_scale = s, !.target_scale = s])

SetTarget(pic, place) ==
  [pic EXCEPT !.last_pos = pic.pos, !.target_pos = place.pos,
              !.last_scale = pic.scale, !.target_scale = place.scale]

UpdatePos(pic, now) ==
  IF now = Finished
    THEN SetScale(SetPos(pic, pic.target_pos), pic.target_scale)
    ELSE WithRect([pic EXCEPT
           !.pos = Times(Plus(pic.last_pos, pic.target_pos), 1, 2),
           !.scale = (pic.last_scale + pic.target_scale) \div 2])

(* Mutant of SetProvider: the cached rectangle stays. *)
SetProviderOnly(pic, size, provided) == [pic EXCEPT !.size = size, !.provided = provided]

(* set_provider(): the image keeps its longer side on the screen.  The     *)
(* scale a running animation leads to is given up for the present one.     *)
SetProvider(pic, size, provided) ==
  LET scale == (pic.scale * Greater(pic.size.width, pic.size.height))
                 \div Greater(size.width, size.height)
  IN  WithRect([pic EXCEPT !.size = size, !.provided = provided,
                           !.scale = scale, !.target_scale = scale])

-----------------------------------------------------------------------------
(* Queries *)

(* Those of the images that are wanted, in their order. *)
Among(ids, wanted) ==
  LET kept[n \in 0 .. Len(ids)] ==
        IF n = 0 THEN <<>>
        ELSE IF ids[n] \in wanted THEN Append(kept[n - 1], ids[n]) ELSE kept[n - 1]
  IN  kept[Len(ids)]

Select(rect)  == Among(images, {i \in Ids : ContainsRect(rect, pics[i].rect)})  \* get_images
Under(p)      == {k \in DOMAIN images : ContainsPoint(pics[images[k]].rect, p)}
ImageAt(p)    == images[Max(Under(p))]                                           \* get_image
RectsOf(ids)  == {pics[i].rect : i \in ToSet(ids)}
IsAnimated    == progress # Finished

(* Selection::get_center() *)
SelectionCenter(ps) ==
  LET sum[n \in 0 .. Len(selection)] ==
        IF n = 0 THEN Vec(0, 0) ELSE Plus(sum[n - 1], ps[selection[n]].pos)
  IN  IF selection = <<>> THEN Vec(0, 0) ELSE Times(sum[Len(selection)], 1, Len(selection))

-----------------------------------------------------------------------------
(* Layouts *)

Sizes(ids) == [k \in DOMAIN ids |-> pics[ids[k]].size]

(* An image stands where the layouter puts it in its collection. *)
LayOut(ids, places) ==
  /\ pics' = [i \in Ids |->
       IF i \in ToSet(ids) THEN SetTarget(pics[i], places[CHOOSE k \in DOMAIN ids : ids[k] = i])
                           ELSE pics[i]]
  /\ progress' = 0

NoLayouter == [kind |-> "none", aspect |-> Size(1, 1)]

(* RegularLayouter divides by its width, which is 0 in a narrow window. *)
LayouterFails(l, ids) ==
  l.kind = "regular" /\ ids # <<>> /\ RegularWidth(Len(ids), l.aspect) = 0

RunLayouter(l, ids) ==
  CASE l.kind = "regular" -> LayOut(ids, IF ids = <<>> THEN <<>> ELSE Regular(Sizes(ids), l.aspect))
    [] l.kind = "tight"   -> LayOut(ids, IF ids = <<>> THEN <<>> ELSE Tight(Sizes(ids), l.aspect))
    [] l.kind = "spiral"  -> LayOut(ids, Spiral(Sizes(ids)))
    [] l.kind = "random"  -> \E places \in [DOMAIN ids -> RandomPlaces] : LayOut(ids, places)

(* layout_aspect(), layout_tight(), layout_spiral(), layout_random() *)
NewLayout(l) ==
  /\ ~LayouterFails(l, images)
  /\ layouter' = l
  /\ RunLayouter(l, images)
  /\ UNCHANGED <<images, selection, file>>

(* layout_vertical(): centres one below the other, the layouter stays. *)
LayoutVertical ==
  LET y[k \in 1 .. Len(images)] == IF k = 1 THEN 0 ELSE y[k - 1] + pics[images[k - 1]].size.height + 10
  IN  /\ LayOut(images, [k \in DOMAIN images |-> Place(Vec(0, y[k]), Unit)])
      /\ UNCHANGED <<images, selection, layouter, file>>

(* StringUtil::numeric_less(): numbers by value, other characters by code. *)
Code(ch) ==
  CASE ch.c = "space" -> 32 [] ch.c = "quote" -> 34 [] ch.c = "(" -> 40 [] ch.c = ")" -> 41
    [] ch.c = "int" -> 48 [] ch.c = "URL" -> 85 [] OTHER -> 97

NumericLess(l, r) ==
  LET differ == {i \in 1 .. Lesser(Len(l), Len(r)) : l[i] # r[i]}
      i == Min(differ)
  IN  IF differ = {} THEN Len(l) < Len(r)
      ELSE IF l[i].c = "int" /\ r[i].c = "int" THEN l[i].v < r[i].v
      ELSE Code(l[i]) < Code(r[i])

(* sort(), sort_reverse() and random_shuffle() lay out anew when they can. *)
Reorder(order) ==
  /\ ~LayouterFails(layouter, order)
  /\ images' = order
  /\ IF layouter.kind = "none" THEN UNCHANGED <<pics, progress>> ELSE RunLayouter(layouter, order)
  /\ UNCHANGED <<selection, layouter, file>>

Shuffled == \E order \in SetToSeqs(ToSet(images)) : Reorder(order)

(* std::sort() leaves images of the same name in any order. *)
SortNames ==
  \E order \in SetToSeqs(ToSet(images)) :
    /\ \A j, k \in DOMAIN order : j < k => ~NumericLess(pics[order[k]].url, pics[order[j]].url)
    /\ Reorder(order)

SortNamesReverse ==
  \E order \in SetToSeqs(ToSet(images)) :
    /\ \A j, k \in DOMAIN order : j < k => ~NumericLess(pics[order[j]].url, pics[order[k]].url)
    /\ Reorder(order)

(* solve_overlaps() goes over the pairs of images, and over them again     *)
(* while any were moved.                                                   *)
Apart(ps, i, j) ==
  LET clip == ClipTo(ps[i].rect, ps[j].rect)
      by == IF Width(clip) > Height(clip) THEN Vec(0, Height(clip) \div 2 + 16)
                                          ELSE Vec(Width(clip) \div 2 + 16, 0)
  IN  [[ps EXCEPT ![i] = SetPos(@, Minus(@.pos, by))] EXCEPT ![j] = SetPos(@, Plus(@.pos, by))]

Pairs == [k \in 1 .. Len(images) * Len(images) |->
            <<((k - 1) \div Len(images)) + 1, ((k - 1) % Len(images)) + 1>>]

Separated(ps, p) ==
  IF p[1] < p[2] /\ Overlapped(ps[images[p[1]]].rect, ps[images[p[2]]].rect)
    THEN Apart(ps, images[p[1]], images[p[2]]) ELSE ps

(* The images after so many pairs, from the first one again after the last. *)
OverlapsAfter(steps) ==
  LET ps[n \in 0 .. steps] ==
        IF n = 0 THEN pics ELSE Separated(ps[n - 1], Pairs[((n - 1) % Len(Pairs)) + 1])
  IN  ps[steps]

SolveOverlaps ==
  /\ \E pass \in 0 .. MaxPasses :
       /\ pics' = OverlapsAfter(pass * Len(Pairs))
       /\ \A k \in DOMAIN Pairs : Separated(pics', Pairs[k]) = pics'
  /\ UNCHANGED <<images, selection, progress, layouter, file>>

(* update() by half an animation: the images after it. *)
NextProgress == Lesser(progress + 1, Finished)
Updated ==
  IF IsAnimated
    THEN [i \in Ids |-> IF i \in ToSet(images) THEN UpdatePos(pics[i], NextProgress) ELSE pics[i]]
    ELSE pics

-----------------------------------------------------------------------------
(* The selection *)

(* A click on an image adds it to the selection or removes it. *)
Toggled(i) ==
  IF i \in ToSet(selection) THEN Among(selection, Ids \ {i}) ELSE Append(selection, i)

Selected(ps, Change(_)) == [i \in Ids |-> IF i \in ToSet(selection) THEN Change(ps[i]) ELSE ps[i]]

(* move_selection(), and Selection::scale() by n/d around its centre. *)
MoveSelection(ps, by) == Selected(ps, LAMBDA pic : SetPos(pic, Plus(pic.pos, by)))

ScaleSelection(ps, n, d) ==
  LET c == SelectionCenter(ps)
  IN  Selected(ps, LAMBDA pic :
        SetPos(SetScale(pic, (pic.scale * n) \div d), Plus(c, Times(Minus(pic.pos, c), n, d))))

Forget(ids) == [i \in Ids |-> IF i \in ToSet(ids) THEN pics[i] ELSE NewImage(<<>>)]

Keep(ids) ==
  /\ images' = ids /\ selection' = <<>> /\ pics' = Forget(ids)
  /\ UNCHANGED <<progress, layouter, file>>

IsolateSelection == Keep(selection)
DeleteSelection  == Keep(Among(images, Ids \ ToSet(selection)))

-----------------------------------------------------------------------------
(* File entries and providers *)

(* An answer to request_file() or refresh(), from another thread; one to a *)
(* deleted image is dropped.                                               *)
ReplyArrives(i) ==
  /\ i \in ToSet(images) /\ pics[i].replies > 0
  /\ pics' = [pics EXCEPT ![i].replies = @ - 1, ![i].queued = TRUE]
  /\ UNCHANGED <<images, selection, progress, layouter, file>>

(* What is at no url of the command line is no picture. *)
TrueSize(url) ==
  IF \E n \in DOMAIN Names : Names[n] = url
    THEN TrueSizes[CHOOSE n \in DOMAIN Names : Names[n] = url] ELSE Size(0, 0)

AskedOnce(pic) == [pic EXCEPT !.replies = Lesser(@ + 1, MaxReplies)]

(* Image::draw(): process_queues(), which rejects the size 0x0; without a  *)
(* provider then, the file is asked for.                                   *)
Processed(pic) ==
  IF ~pic.queued THEN pic
  ELSE IF TrueSize(pic.url) = Size(0, 0) THEN [pic EXCEPT !.queued = FALSE]
  ELSE SetProvider([pic EXCEPT !.queued = FALSE, !.requested = FALSE], TrueSize(pic.url), TRUE)

Drawn(pic) ==
  LET now == Processed(pic)
  IN  IF now.provided \/ now.requested THEN now ELSE [AskedOnce(now) EXCEPT !.requested = TRUE]

DrawImages(ps, cliprect) ==
  [i \in Ids |-> IF i \in ToSet(images) /\ Overlapped(ps[i].rect, cliprect)
                   THEN Drawn(ps[i]) ELSE ps[i]]

(* refresh(): the provider is given up, a new one arrives later. *)
RefreshSelection ==
  /\ pics' = Selected(pics, LAMBDA pic :
       IF pic.provided THEN SetProvider(AskedOnce(pic), DefaultSize, FALSE) ELSE pic)
  /\ UNCHANGED <<images, selection, progress, layouter, file>>

(* clear_cache(), cache_cleanup(): a request that is aborted in time is    *)
(* not answered, and the next drawing asks again.                          *)
ForgetRequests ==
  /\ \E late \in BOOLEAN :
       pics' = [i \in Ids |->
         IF i \notin ToSet(images) THEN pics[i]
         ELSE [pics[i] EXCEPT !.requested = FALSE, !.replies = IF late THEN @ ELSE 0]]
  /\ UNCHANGED <<images, selection, progress, layouter, file>>

-----------------------------------------------------------------------------
(* save() and load() *)

Written(n) ==
  Number(IF n \in 1 - ExponentFrom .. ExponentFrom - 1 THEN "int" ELSE "exp", n)
WrittenScale(s) == Number(IF s % Unit = 0 THEN "int" ELSE "real", s)

(* The url is not escaped, and operator<< puts it in quotes once more.     *)
UrlText(url) ==
  Text(<<"(", "url", "space", "quote", "URL", "(", "quote">>) \o url
    \o Text(<<"quote", ")", "quote", ")">>)

ImageText(pic) ==
  Text(<<"(", "image", "space">>) \o UrlText(pic.url)
    \o Text(<<"newline", "(", "pos", "space">>) \o <<Written(pic.pos.x)>>
    \o Text(<<"space">>) \o <<Written(pic.pos.y)>>
    \o Text(<<")", "newline", "(", "scale", "space">>) \o <<WrittenScale(pic.scale)>>
    \o Text(<<")", ")", "newline">>)

WorkspaceText ==
  Text(<<"(", "galapix-workspace", "newline", "(", "images", "newline">>)
    \o FlattenSeq([k \in DOMAIN images |-> ImageText(pics[images[k]])])
    \o Text(<<")", ")", "newline", ";", "EOF", ";", "newline">>)

Save ==
  /\ file' = WorkspaceText
  /\ UNCHANGED <<images, selection, pics, progress, layouter>>

(* The images of a workspace file, as load() reads them. *)
ImageSections(text) ==
  SelectSeq(Sections(Section(Parse(text), "images")), LAMBDA s : IsNamed(s, "image"))

Read(section) ==
  [url |-> ReadString(section, "url"), pos |-> ReadVector(section, "pos", Vec(0, 0)),
   scale |-> ReadFloat(section, "scale", Unit \div 2)]

(* URL::from_string() asserts that there is a slash. *)
NoUrl(section) ==
  Section(section, "url") # List(<<>>) /\ Char("///") \notin ToSet(ReadString(section, "url"))

LoadThrows(text) ==
  \/ Parse(text).type = "throws"
  \/ \E s \in ToSet(ImageSections(text)) : VectorThrows(s, "pos") \/ NoUrl(s)

(* The images that are added are not the ones whose place was set. *)
Load ==
  LET sections == IF IsNamed(Parse(file), "galapix-workspace") THEN ImageSections(file) ELSE <<>>
      fresh == {ids \in SeqOf(Ids \ ToSet(images), MaxImages) :
                  Len(ids) = Len(sections) /\ IsInjective(ids)}
      added == CHOOSE ids \in fresh : TRUE
  IN  /\ ~LoadThrows(file) /\ fresh # {}
      /\ images' = images \o added
      /\ pics' = [i \in Ids |->
           IF i \in ToSet(added)
             THEN NewImage(Read(sections[CHOOSE k \in DOMAIN added : added[k] = i]).url) ELSE pics[i]]
      /\ UNCHANGED <<selection, progress, layouter, file>>
===============================================================================
