-------------------------------- MODULE Viewer --------------------------------
(***************************************************************************)
(* src/galapix/viewer.cpp and viewer_state.cpp, src/tools and the events   *)
(* of src/sdl/sdl_viewer.cpp: what the user sees of a workspace and does   *)
(* to it.  An action is an event and all that its handler does; a frame is *)
(* the update and the drawing between events, a quarter of a second.       *)
(***************************************************************************)
EXTENDS Workspace

CONSTANTS
  Displays,    \* the sizes of the window, the first one at the start
  Places,      \* places of the mouse, on lines through the middle of the window
  Motions,     \* what a stick or the space navigator is moved by: zoom, by, quarters
  Budgets      \* bounds on keys, clicks and other events: a behaviour keeps to one of them

ASSUME ViewerAssumption ==
  /\ Displays \in Seq([width : Nat \ {0}, height : Nat \ {0}]) /\ Displays # <<>>
  /\ Places \subseteq [x : Int, y : Int] /\ Places # {}
  /\ Motions \subseteq [zoom : (Nat \ {0}) \X (Nat \ {0}), by : [x : Int, y : Int], quarters : Int]
  /\ Budgets \subseteq [keys : Nat, clicks : Nat, other : Nat]

VARIABLES
  view,     \* m_state: the scale num/den, the offset, the angle in quarters; bad: not a number
  tools,    \* left_tool, right_tool, the active tools, trackball mode, what is held down
  hand,     \* m_mouse_pos and what the tools remember of the mouse
  grid,     \* the grid: drawn, pinned, offset, size
  display,  \* the size of the framebuffer
  pads,     \* the game controllers attached to the computer: opened or failed
  spnav,    \* m_spnav_allow_rotate
  status,   \* "running", "quit", or "died": an assertion or a division by zero
  spent     \* the events so far

viewerVars == <<workspaceVars, view, tools, hand, grid, display, pads, spnav, status, spent>>

Middle(size) == Vec(size.width \div 2, size.height \div 2)

-----------------------------------------------------------------------------
(* ViewerState *)

Gcd(m, n) ==
  LET gcd[k \in 0 .. n] == [j \in Nat |-> IF k = 0 THEN j ELSE gcd[j % k][k]]
  IN  gcd[n][m]

Scale(v, n, d) == [v EXCEPT !.num = n \div Gcd(n, d), !.den = d \div Gcd(n, d)]

(* Mutant of Zoomed: the angle of the view is forgotten. *)
ZoomedUpright(v, n, d, pos) ==
  IF v.bad THEN v ELSE [Scale(v, v.num * n, v.den * d) EXCEPT
    !.offset = Minus(pos, Times(Minus(pos, v.offset), n, d))]

(* zoom() by n/d at a place on the screen. *)
Zoomed(v, n, d, pos) ==
  LET p == Plus(Rotated(Minus(pos, Middle(display)), -v.angle), Middle(display))
  IN  IF v.bad THEN v ELSE [Scale(v, v.num * n, v.den * d) EXCEPT
        !.offset = Minus(p, Times(Minus(p, v.offset), n, d))]

Moved(v, by) == [v EXCEPT !.offset = Plus(@, Rotated(by, -v.angle))]

Turned(v, quarters) == [v EXCEPT !.angle = @ + quarters]

World(v, p)    == Times(Minus(p, v.offset), v.den, v.num)              \* screen2world()
WorldRect(v)   == Rect(World(v, Vec(0, 0)), World(v, Vec(display.width, display.height)))
Screen(v, w)   == Plus(Times(w, v.num, v.den), v.offset)

(* zoom_to(): an empty rectangle makes the view infinitely small. *)
ZoomedTo(v, rect) ==
  LET w == Width(rect)
      h == Height(rect)
      wide == display.height * w > h * display.width
      s == IF wide THEN Scale(v, display.width, w) ELSE Scale(v, display.height, h)
      corner == Times(Vec(-rect.left, -rect.top), s.num, s.den)
      room == IF wide THEN Vec(0, (display.height - (h * s.num) \div s.den) \div 2)
                      ELSE Vec((display.width - (w * s.num) \div s.den) \div 2, 0)
  IN  IF w = 0 /\ h = 0 THEN [v EXCEPT !.bad = TRUE]
      ELSE [s EXCEPT !.offset = Plus(corner, room), !.bad = FALSE]

(* The cliprect of draw(): enough for any angle when the view is turned. *)
ClipRect(v) ==
  LET r == WorldRect(v)
      diagonal == Length(Vec(Width(r), Height(r)))
  IN  IF v.angle = 0 THEN r ELSE Grown(RectOf(Center(r), Size(0, 0)), diagonal, diagonal)

(* atan2() of a place around the middle of the window, in quarters. *)
Bearing(p) ==
  LET by == Minus(p, Middle(display))
  IN  CASE by.y > 0 /\ by.y > by.x -> 1
        [] by.y < 0 /\ by.y < by.x -> -1
        [] by.x < 0                -> 2
        [] OTHER                   -> 0

-----------------------------------------------------------------------------
(* Events *)

(* A frame in which a tool zooms is among the other events. *)
Spend(kind) ==
  /\ status = "running"
  /\ spent' = [spent EXCEPT ![kind] = @ + 1]
  /\ \E budget \in Budgets : \A k \in DOMAIN spent : spent'[k] <= budget[k]

OnlyView(v) ==
  /\ view' = v
  /\ UNCHANGED <<workspaceVars, tools, hand, grid, display, pads, spnav, status>>

OnlyWorkspace == UNCHANGED <<view, tools, hand, grid, display, pads, spnav, status>>

Ends(how) ==
  /\ status' = how
  /\ UNCHANGED <<workspaceVars, view, tools, hand, grid, display, pads, spnav>>

(* Escape and SDL_QUIT. *)
Quit == Spend("keys") /\ Ends("quit")

(* The keys of the view: d, keypad + and -, 8 2 4 6, h, up and down, left, right. *)
Around(ids) == IF ids = <<>> THEN Rect(Vec(0, 0), Vec(0, 0)) ELSE Bounding(RectsOf(ids))

ZoomToSelection == OnlyView(ZoomedTo(view, Around(IF selection # <<>> THEN selection ELSE images)))

ViewKey ==
  /\ Spend("keys")
  /\ \/ ZoomToSelection
     \/ OnlyView(Zoomed(view, 5, 4, Middle(display)))
     \/ OnlyView(Zoomed(view, 4, 5, Middle(display)))
     \/ \E by \in {Vec(0, 128), Vec(0, -128), Vec(128, 0), Vec(-128, 0)} :
          OnlyView([view EXCEPT !.offset = Plus(@, by)])
     \/ OnlyView([num |-> 1, den |-> 1, offset |-> Vec(0, 0), angle |-> 0, bad |-> FALSE])
     \/ \E angle \in {0, view.angle + 1, view.angle - 1} : OnlyView([view EXCEPT !.angle = angle])

(* p, z, y, m, r: the tools of the left and the right button.  What was    *)
(* begun with the tools before is not ended.                               *)
ToolSets ==
  {<<"zoom_in", "zoom_out">>, <<"zoom_rect", "zoom_out">>, <<"grid", "zoom_out">>,
   <<"move", "resize">>, <<"move", "rotate">>}

ToolKey ==
  /\ Spend("keys")
  /\ \E set \in ToolSets :
       tools' = [tools EXCEPT !.left = set[1], !.right = set[2],
         !.switched = @ \/ ("left" \in tools.held /\ set[1] # tools.left)
                        \/ ("right" \in tools.held /\ set[2] # tools.right)]
  /\ UNCHANGED <<workspaceVars, view, hand, grid, display, pads, spnav, status>>

(* t: trackball mode. *)
TrackballKey ==
  /\ Spend("keys")
  /\ tools' = [tools EXCEPT !.trackball = ~@]
  /\ UNCHANGED <<workspaceVars, view, hand, grid, display, pads, spnav, status>>

(* g and f: the grid is drawn, and pinned to the world. *)
GridSize(size, n, d) == Size((size.width * n) \div d, (size.height * n) \div d)

GridKey ==
  /\ Spend("keys") /\ ~view.bad
  /\ grid' \in {[grid EXCEPT !.drawn = ~@],
       IF grid.pinned
         THEN [grid EXCEPT !.pinned = FALSE, !.offset = Screen(view, @),
                           !.size = GridSize(@, view.num, view.den)]
         ELSE [grid EXCEPT !.pinned = TRUE, !.offset = World(view, @),
                           !.size = GridSize(@, view.den, view.num)]}
  /\ UNCHANGED <<workspaceVars, view, tools, hand, display, pads, spnav, status>>

(* 1 to 6: the layouts.  s and n: the order; shift sorts backwards. *)
LayoutKey ==
  \/ \E kind \in {"regular", "tight", "random", "spiral"} : NewLayout([kind |-> kind, aspect |-> display])
  \/ LayoutVertical
  \/ SolveOverlaps

SortKey == (IF "shift" \in tools.held THEN SortNamesReverse ELSE SortNames) \/ Shuffled

(* i, delete, F5; c and k; F3 and F2. *)
SelectionKey == IsolateSelection \/ DeleteSelection \/ RefreshSelection
FileKey      == Save \/ (file # <<>> /\ Load)

WorkspaceKey ==
  /\ Spend("keys")
  /\ OnlyWorkspace
  /\ LayoutKey \/ SortKey \/ SelectionKey \/ ForgetRequests \/ FileKey

(* The layout that divides by zero, and the file that makes load() throw. *)
FatalKey ==
  /\ Spend("keys")
  /\ \/ LayouterFails([kind |-> "regular", aspect |-> display], images)
     \/ LayouterFails(layouter, images)
     \/ file = <<>> \/ LoadThrows(file)
  /\ Ends("died")

(* Home, end and shift. *)
KeyTools == [home |-> "key_in", end |-> "key_out", shift |-> "view_rotate"]

HoldKey(key) ==
  /\ Spend("keys") /\ key \notin tools.held
  /\ tools' = [tools EXCEPT !.held = @ \union {key}, !.active = @ \union {KeyTools[key]}]
  /\ hand' = IF key = "shift" THEN [hand EXCEPT !.start = Bearing(hand.pos)] ELSE hand
  /\ UNCHANGED <<workspaceVars, view, grid, display, pads, spnav, status>>

ReleaseKey(key) ==
  /\ status = "running" /\ key \in tools.held
  /\ tools' = [tools EXCEPT !.held = @ \ {key}, !.active = @ \ {KeyTools[key]}]
  /\ UNCHANGED <<workspaceVars, view, hand, grid, display, pads, spnav, status, spent>>

-----------------------------------------------------------------------------
(* The mouse *)

ToolOf(button) == CASE button = "left" -> tools.left [] button = "right" -> tools.right [] OTHER -> "pan"

Rest == UNCHANGED <<images, progress, layouter, file, display, pads, spnav>>

(* MoveTool::down(): on an image it moves the selection, beside the images *)
(* it drags a rectangle.                                                   *)
MoveDown(p) ==
  LET w == World(view, p)
      hit == Under(w)
  IN  /\ hand' = [hand EXCEPT !.pos = p, !.click["move"] = w]
      /\ selection' = IF hit = {} THEN <<>> ELSE Toggled(ImageAt(w))
      /\ tools' = [tools EXCEPT !.held = @ \union {"left"},
                                !.active = @ \union {IF hit = {} THEN "drag" ELSE "move"}]
      /\ UNCHANGED <<view, grid, status, pics>>

(* What the other tools do when their button goes down. *)
Remember(tool, p) ==
  CASE tool = "zoom_rect" -> [hand EXCEPT !.pos = p, !.click["zoom_rect"] = World(view, p)]
    [] tool = "grid"      -> [hand EXCEPT !.pos = p, !.click["grid"] = p]
    [] tool = "resize"    -> [hand EXCEPT !.pos = p, !.from = World(view, p),
                                          !.centre = SelectionCenter(pics)]
    [] OTHER              -> [hand EXCEPT !.pos = p]

(* A tool that would remember a place in a view without numbers is outside *)
(* of the model.                                                           *)
ButtonDown(button, p) ==
  /\ Spend("clicks") /\ button \notin tools.held
  /\ view.bad => ToolOf(button) \notin {"move", "zoom_rect", "resize"}
  /\ IF ToolOf(button) = "move" THEN MoveDown(p)
     ELSE /\ hand' = Remember(ToolOf(button), p)
          /\ tools' = [tools EXCEPT !.held = @ \union {button}, !.active = @ \union {ToolOf(button)}]
          /\ UNCHANGED <<view, grid, status, selection, pics>>
  /\ Rest

(* The rectangle a tool was dragged over, up to where it last saw the mouse. *)
Dragged(tool) == Normalized(Rect(hand.click[tool], World(view, hand.seen[tool])))

(* zoom_to() asserts that its rectangle is normal, which no NaN is. *)
ZoomRectUp ==
  IF view.bad THEN status' = "died" /\ UNCHANGED <<view, grid, selection>>
  ELSE view' = ZoomedTo(view, Dragged("zoom_rect")) /\ UNCHANGED <<grid, status, selection>>

GridUp ==
  LET r == Normalized(Rect(World(view, hand.click["grid"]), World(view, hand.seen["grid"])))
      size == Size(Width(r), Height(r))
  IN  /\ ~view.bad
      /\ grid' = IF grid.pinned
           THEN [grid EXCEPT !.offset = Vec(r.left, r.top), !.size = size]
           ELSE [grid EXCEPT !.offset = Screen(view, Vec(r.left, r.top)),
                             !.size = GridSize(size, view.num, view.den)]
      /\ UNCHANGED <<view, status, selection>>

(* Mutant of EndedBy: MoveTool::up() ends both of its modes only together. *)
EndedByFirst(tool) == IF tool = "move" THEN {"drag"} ELSE {tool}

(* The modes of a tool that end when its button is released. *)
EndedBy(tool) == IF tool # "move" THEN {tool} ELSE {IF "drag" \in tools.active THEN "drag" ELSE "move"}

ButtonUp(button, p) ==
  LET tool == ToolOf(button)
  IN  /\ status = "running" /\ button \in tools.held /\ UNCHANGED spent
      /\ hand' = [hand EXCEPT !.pos = p, !.old = IF tool = "resize" THEN <<1, 1>> ELSE @]
      /\ tools' = [tools EXCEPT !.held = @ \ {button}, !.active = @ \ EndedBy(tool)]
      /\ CASE tool = "move" /\ "drag" \in tools.active ->
                selection' = (IF view.bad THEN <<>> ELSE Select(Dragged("move")))
                /\ UNCHANGED <<view, grid, status>>
           [] tool = "zoom_rect" /\ tool \in tools.active -> ZoomRectUp
           [] tool = "grid" /\ tool \in tools.active -> GridUp
           [] OTHER -> UNCHANGED <<view, grid, status, selection>>
      /\ UNCHANGED pics
      /\ Rest

(* The resize tool scales by how much farther from the centre the mouse is *)
(* than when its button went down, each time relative to the time before.  *)
Resized(p, v, ps) ==
  LET a == Length(Minus(hand.centre, World(v, p)))
      b == Length(Minus(hand.centre, hand.from))
  IN  IF "resize" \notin tools.active \/ tools.right # "resize" \/ b = 0
        THEN [pics |-> ps, old |-> hand.old]
        ELSE [pics |-> ScaleSelection(ps, a * hand.old[2], b * hand.old[1]), old |-> <<a, b>>]

Panned(v, by) == IF tools.trackball \/ "pan" \in tools.active THEN Moved(v, Times(by, 4, 1)) ELSE v

(* Motion: the tools of the three buttons, in their order, and the one of  *)
(* the shift key.  A tool whose button it no longer is sees nothing.  A    *)
(* selection that a view without numbers, or a factor of 0, would make     *)
(* NaN too is outside of the model.                                        *)
MouseMotion(p) ==
  LET by == Minus(p, hand.pos)
      moved == IF tools.left = "move" /\ "move" \in tools.active /\ ~view.bad
                 THEN MoveSelection(pics, Times(by, view.den, view.num)) ELSE pics
      panned == Panned(view, by)
      resized == Resized(p, panned, moved)
      turned == "view_rotate" \in tools.active
  IN  /\ Spend("clicks") /\ p # hand.pos
      /\ "resize" \in tools.active => ~view.bad /\ resized.old[1] > 0
      /\ pics' = resized.pics
      /\ view' = IF turned THEN Turned(panned, Bearing(p) - hand.start) ELSE panned
      /\ hand' = [hand EXCEPT
           !.pos = p, !.old = resized.old, !.start = IF turned THEN Bearing(p) ELSE @,
           !.seen = [t \in DOMAIN hand.seen |-> IF t = tools.left THEN p ELSE hand.seen[t]]]
      /\ UNCHANGED <<selection, grid, tools, status>>
      /\ Rest

(* The wheel zooms at a place read from the wrong member of the event. *)
MouseWheel ==
  /\ Spend("clicks")
  /\ \E p \in Places \union {Vec(0, 1), Vec(0, -1)} :
       \/ OnlyView(Zoomed(view, 11, 10, p))
       \/ OnlyView(Zoomed(view, 10, 11, p))

-----------------------------------------------------------------------------
(* The window, game controllers and the space navigator *)

WindowResized(size) ==
  /\ Spend("other") /\ size # display
  /\ display' = size
  /\ UNCHANGED <<workspaceVars, view, tools, hand, grid, pads, spnav, status>>

PadAdded ==
  /\ Spend("other") /\ pads = <<>>
  /\ pads' \in {<<"opened">>, <<"failed">>}
  /\ UNCHANGED <<workspaceVars, view, tools, hand, grid, display, spnav, status>>

(* A controller that could not be opened is not found: an assertion. *)
PadRemoved ==
  /\ Spend("other") /\ pads # <<>>
  /\ pads' = <<>>
  /\ status' = IF pads = <<"failed">> THEN "died" ELSE "running"
  /\ UNCHANGED <<workspaceVars, view, tools, hand, grid, display, spnav>>

(* update_gamecontrollers() and SPNAV_EVENT_MOTION: zoom, move and turn. *)
Steer(m, quarters) ==
  OnlyView(Turned(Moved(Zoomed(view, m.zoom[1], m.zoom[2], Middle(display)), m.by), quarters))

PadMoved      == Spend("other") /\ pads = <<"opened">> /\ \E m \in Motions : Steer(m, m.quarters)
SpnavMoved    == Spend("other") /\ \E m \in Motions : Steer(m, IF spnav THEN m.quarters ELSE 0)
SpnavUpright  == Spend("other") /\ OnlyView([view EXCEPT !.angle = 0])
SpnavAllows   ==
  /\ Spend("other")
  /\ spnav' = ~spnav
  /\ UNCHANGED <<workspaceVars, view, tools, hand, grid, display, pads, status>>

-----------------------------------------------------------------------------
(* Frames *)

(* update() of the zoom tools in their order, a quarter of a second. *)
ToolZooms(v, tool, n, d) ==
  IF tool \notin tools.active THEN v
  ELSE Zoomed(v, n, d, IF tools.trackball THEN Middle(display) ELSE hand.pos)

ToolsZoom(v) ==
  ToolZooms(ToolZooms(ToolZooms(ToolZooms(v, "zoom_in", 2, 1), "zoom_out", 1, 2),
                      "key_in", 2, 1), "key_out", 1, 2)

Frame ==
  /\ IF ToolsZoom(view) = view THEN status = "running" /\ UNCHANGED spent ELSE Spend("other")
  /\ view' = ToolsZoom(view)
  /\ pics' = IF view'.bad THEN Updated ELSE DrawImages(Updated, ClipRect(view'))
  /\ progress' = NextProgress
  /\ UNCHANGED <<images, selection, layouter, file, tools, hand, grid, display, pads, spnav, status>>

Reply(i) ==
  /\ status = "running" /\ ReplyArrives(i)
  /\ UNCHANGED <<view, tools, hand, grid, display, pads, spnav, status, spent>>

-----------------------------------------------------------------------------
(* view(): the images of the command line, in a tight layout, all in view. *)

Given   == [k \in DOMAIN Names |-> k]
Opened  == [i \in Ids |-> IF i \in DOMAIN Names THEN NewImage(Names[i]) ELSE NewImage(<<>>)]
Started ==
  LET places == Tight([k \in DOMAIN Names |-> DefaultSize], Displays[1])
  IN  [i \in Ids |-> IF i \in DOMAIN Names THEN UpdatePos(SetTarget(Opened[i], places[i]), Finished)
                                           ELSE Opened[i]]

Init ==
  /\ images = Given /\ selection = <<>> /\ progress = Finished /\ file = <<>>
  /\ pics = Started
  /\ layouter = [kind |-> "tight", aspect |-> Displays[1]]
  /\ display = Displays[1]
  /\ view = ZoomedTo([num |-> 1, den |-> 1, offset |-> Vec(0, 0), angle |-> 0, bad |-> FALSE],
                     Around(images))
  /\ tools = [left |-> "zoom_in", right |-> "zoom_out", active |-> {}, trackball |-> FALSE,
              held |-> {}, switched |-> FALSE]
  /\ hand = [pos |-> Vec(0, 0), seen |-> [t \in {"move", "zoom_rect", "grid"} |-> Vec(0, 0)],
             click |-> [t \in {"move", "zoom_rect", "grid"} |-> Vec(0, 0)],
             from |-> Vec(0, 0), centre |-> Vec(0, 0), old |-> <<1, 1>>, start |-> 0]
  /\ grid = [drawn |-> FALSE, pinned |-> FALSE, offset |-> Vec(0, 0), size |-> Size(400, 300)]
  /\ pads = <<>> /\ spnav = FALSE /\ status = "running"
  /\ spent = [keys |-> 0, clicks |-> 0, other |-> 0]

Next ==
  \/ Quit \/ ViewKey \/ ToolKey \/ TrackballKey \/ GridKey \/ WorkspaceKey \/ FatalKey
  \/ \E key \in DOMAIN KeyTools : HoldKey(key) \/ ReleaseKey(key)
  \/ \E p \in Places : MouseMotion(p)
  \/ \E b \in {"left", "middle", "right"} : ButtonDown(b, hand.pos) \/ ButtonUp(b, hand.pos)
  \/ MouseWheel
  \/ \E size \in ToSet(Displays) : WindowResized(size)
  \/ PadAdded \/ PadRemoved \/ PadMoved \/ SpnavMoved \/ SpnavUpright \/ SpnavAllows
  \/ Frame
  \/ \E i \in Ids : Reply(i)

Spec == Init /\ [][Next]_viewerVars

-----------------------------------------------------------------------------
(* An image's cached rectangle, which is drawn and clicked, is always the  *)
(* one its position, size and scale give, whatever layouts, tools and late *)
(* file entries did to it; and when nothing is animated, every image is at *)
(* the place and of the scale it was last sent to (image.cpp, m_image_rect *)
(* and the targets).                                                       *)
PlacesAgree ==
  \A i \in ToSet(images) :
    /\ pics[i].rect = ImageRect(pics[i])
    /\ ~IsAnimated => pics[i].pos = pics[i].target_pos /\ pics[i].scale = pics[i].target_scale

(* Whatever the zoom, the offset and the angle of the view have come to,   *)
(* zooming keeps the place of the world that is under the mouse there, but *)
(* for rounding ("keeping pos on the same position of the framebuffer",    *)
(* viewer_state.hpp:40).                                                   *)
OnScreen(v, w) == Plus(Rotated(Minus(Screen(v, w), Middle(display)), v.angle), Middle(display))
Under2(v, p)   == World(v, Plus(Rotated(Minus(p, Middle(display)), -v.angle), Middle(display)))
Near(p, q, n)  == p.x - q.x \in -n .. n /\ p.y - q.y \in -n .. n

ZoomKeepsPosition ==
  ~view.bad => \A p \in Places, f \in {<<2, 1>>, <<1, 2>>, <<11, 10>>} :
    LET v == Zoomed(view, f[1], f[2], p)
    IN  Near(OnScreen(v, Under2(view, p)), p, 2 + v.num \div v.den)

(* Unless tools were exchanged under a pressed button, a tool acts only    *)
(* while the button or the key that started it is held.                    *)
ToolsFollowButtons ==
  ~tools.switched => \A mode \in tools.active :
    \/ mode \in {"move", "drag"} /\ tools.left = "move" /\ "left" \in tools.held
    \/ \E button \in {"left", "middle", "right"} \cap tools.held : mode = ToolOf(button)
    \/ \E key \in DOMAIN KeyTools \cap tools.held : mode = KeyTools[key]

(* No layout of the images, as large as they are now known to be, puts two *)
(* of them over each other (the layouters of src/galapix).                 *)
PlacedRect(size, place) ==
  LET room == Scaled(size, place.scale)
  IN  RectOf(Minus(place.pos, Vec(room.width \div 2, room.height \div 2)), room)

KeepsApart(places) ==
  \A j, k \in DOMAIN images :
    j # k => ~Overlapped(Grown(PlacedRect(pics[images[j]].size, places[j]), -1, -1),
                         PlacedRect(pics[images[k]].size, places[k]))

LayoutsKeepApart ==
  images # <<>> =>
    /\ KeepsApart(Spiral(Sizes(images)))
    /\ KeepsApart(Tight(Sizes(images), display))
    /\ ~LayouterFails([kind |-> "regular", aspect |-> display], images) =>
          KeepsApart(Regular(Sizes(images), display))

(* Neither a quote nor a delimiter of the url reaches past its section, as *)
(* nothing is escaped; and no coordinate is written with an exponent.      *)
Enclosed(url) ==
  LET section == Parse(UrlText(url)).items
  IN  section # <<>> /\ Last(section) = Atom(Token("string", Text(<<")">>)))

Writable(pic) ==
  Enclosed(pic.url) /\ {pic.pos.x, pic.pos.y} \subseteq 1 - ExponentFrom .. ExponentFrom - 1

PlaceOf(image) == [pos |-> image.pos, scale |-> image.scale]

(* Of what save() writes, the lisp parser reads back as many images, in    *)
(* their order and where they were, whatever stands between the quotes of  *)
(* their urls (workspace.cpp:389-409, 434-446).                            *)
PlacesReadBack ==
  [][(file' # file /\ \A i \in ToSet(images) : Writable(pics[i])) =>
       LET sections == ImageSections(file')
       IN  [k \in DOMAIN sections |-> PlaceOf(Read(sections[k]))]
             = [k \in DOMAIN images |-> PlaceOf(pics[images[k]])]]_viewerVars
===============================================================================
