------------------------------ MODULE MCLoading ------------------------------
(* Instances for model checking Loading. *)
EXTENDS Loading

EveryTool == {"xcfinfo", "xcf2png", "ufraw-batch", "rsvg", "vidthumb", "koconverter",
              "rar", "unzip", "tar", "7zr"}

WordEndings(w) == IF w = "guitar" THEN {"tar"} ELSE {w}

Picture(w, h, tag, alpha) == [size |-> Size(w, h), orientation |-> tag, alpha |-> alpha]
Dot == Picture(1, 1, 0, FALSE)

File(name, kind) ==
  [name |-> name, kind |-> kind, small |-> FALSE, picture |-> Dot, members |-> <<>>, mime |-> ""]
Archive(name, kind, members) == [File(name, kind) EXCEPT !.members = members]
Page(kind, mime)  == [File(<<"picture", kind>>, kind) EXCEPT !.mime = mime]

D == <<"d">>
Directory(names) == [type |-> "directory", names |-> names]
Link(path)       == [type |-> "link", path |-> path]
Leaf(file)       == [type |-> "file", file |-> file]

Flat(files) ==
  (<<>> :> Directory(<<D>>)) @@ (<<D>> :> Directory([i \in DOMAIN files |-> files[i].name]))
    @@ [p \in {<<D, f.name>> : f \in Range(files)} |->
          Leaf(CHOOSE f \in Range(files) : f.name = Last(p))]

World == [tree |-> Flat(<<>>), cwd |-> <<>>, path |-> <<D>>, stack |-> FALSE,
          web |-> <<>>, view |-> FALSE, permits |-> 2, tools |-> EveryTool,
          wanted |-> -1, lost |-> FALSE, wish |-> 2]
Dir(files) == [World EXCEPT !.tree = Flat(files)]
Web(pages) == [World EXCEPT !.web = pages]

(* Pictures of all sizes, turned in all ways. *)
Jpegs == {[File(<<"a", "jpg">>, "jpeg") EXCEPT !.picture = Picture(w, h, tag, FALSE)] :
            w \in {1, 3, 6, 9}, h \in {2, 7}, tag \in 0 .. 8}
Others == {[File(<<"a", "gif">>, "gif") EXCEPT !.picture = Picture(w, h, 0, alpha)] :
            w \in {1, 4, 5}, h \in {1, 5}, alpha \in BOOLEAN}

Textures == {[File(<<"a", "dds">>, "dds") EXCEPT !.picture = Picture(w, 4, 0, FALSE)] : w \in {4, 6, 8}}

PictureWorlds ==
  {[Dir(<<p>>) EXCEPT !.wanted = c[1], !.lost = c[2]] :
     p \in Jpegs \cup Others \cup Textures,
     c \in {<<-1, FALSE>>, <<0, FALSE>>, <<0, TRUE>>, <<1, TRUE>>}}

ZipFile(name) == Archive(name, "zip", <<File(<<"p", "png">>, "png"), File(<<"notes">>, "text")>>)

OtherWorlds ==
  {Dir(<<File(<<"a", ext>>, kind)>>) :
     ext \in {"svg", "raw", "kra", "mp4", "dds"}, kind \in {"svg", "raw", "kra", "video"}}
  \cup {Dir(<<[File(<<"a", "png">>, kind) EXCEPT !.small = s]>>) :
          kind \in {"jpeg", "xcf", "text", "png"}, s \in BOOLEAN}
  \cup {[Dir(<<ZipFile(<<"z", "zip">>)>>) EXCEPT !.permits = p] : p \in {0, 1}}
  \cup {Dir(<<ZipFile(name)>>) : name \in {<<"z", "cbr">>, <<"guitar">>, <<"z", "tar", "gz">>}}
  \cup {Dir(<<Archive(<<"z", "7z">>, "7z", <<File(<<"p", "png">>, "png")>>)>>)}
  \cup {[Dir(<<ZipFile(<<"z", "zip">>)>>) EXCEPT !.tools = EveryTool \ {"unzip"}]}
  \cup {[Dir(<<ZipFile(<<"z", "zip">>), Archive(<<"r", "rar">>, "rar", <<File(<<"notes">>, "text")>>)>>)
           EXCEPT !.permits = 1]}
  \cup {Web((<<<<"1", "xcf">>>> :> Page("xcf", "application/x-gimp-image"))
             @@ (<<<<"2", "xcf">>>> :> Page("xcf", "")))}
  \cup {Web(<<<<"1", "jpg">>>> :> Page("jpg", "image/png"))}

(* A directory with what is skipped, another one, a file in each, and a    *)
(* link back to the top.                                                   *)
A == <<"a", "png">>
B == <<"b", "galapix">>
Deep(link) ==
  (<<>> :> Directory(<<D, <<"e">>, <<"l">>>>))
    @@ (<<D>> :> Directory(<<A, <<"", "thumbnails">>, <<"loop", "png">>, <<"sub">>>>))
    @@ (<<D, A>> :> Leaf(File(A, "png")))
    @@ (<<D, <<"", "thumbnails">>>> :> Directory(<<A>>))
    @@ (<<D, <<"", "thumbnails">>, A>> :> Leaf(File(A, "png")))
    @@ (<<D, <<"loop", "png">>>> :> link)
    @@ (<<D, <<"sub">>>> :> Directory(<<B>>))
    @@ (<<D, <<"sub">>, B>> :> Leaf(File(B, "text")))
    @@ (<<<<"e">>>> :> Directory(<<A>>)) @@ (<<<<"e">>, A>> :> Leaf(File(A, "png")))
    @@ (<<<<"l">>>> :> Link(<<D, <<"sub">>>>))

DirectoryWorlds ==
  {[World EXCEPT !.tree = Deep(link), !.path = path, !.cwd = cwd, !.stack = stack] :
     link \in {Link(<<D>>), Link(<<<<"e">>>>), Link(<<<<"f">>>>), Leaf(File(<<"loop", "png">>, "png"))},
     path \in {<<D>>, <<D, <<"sub">>, Up, Up, D, Here, Nothing>>, <<D, <<"sub">>, Up, A>>, <<<<"l">>, Up>>,
              <<<<"f">>>>},
     cwd \in {<<>>}, stack \in BOOLEAN}
  \cup {[World EXCEPT !.tree = Deep(Link(<<D>>)), !.path = <<Up, Up, <<"e">>>>, !.cwd = <<D, <<"sub">>>>]}

(* Pictures of Zoomify and the Mandelbrot set. *)
Properties == <<"ImageProperties", "xml">>
Large(kind, w, h) == [Page(kind, "") EXCEPT !.picture = Picture(w, h, 0, FALSE)]

ProviderWorlds ==
  {[Web(<<<<"p">>, Properties>> :> Large("zoomify", w, h)) EXCEPT !.view = view] :
     w \in {1, 4, 5, 9, 18, 30}, h \in {1, 7, 17}, view \in BOOLEAN}
  \cup {[Web(<<<<"p">>, Properties>> :> Page("text", "")) EXCEPT !.view = TRUE]}
  \cup {[Dir(<<[File(Properties, "zoomify") EXCEPT !.picture = Picture(9, 5, 0, FALSE)],
              File(B, "text")>>) EXCEPT !.view = TRUE]}
  \cup {[Web(<<<<"mandelbrot">>>> :> Page("mandelbrot", "")) EXCEPT !.view = view] : view \in BOOLEAN}

AllWorlds == PictureWorlds \cup OtherWorlds \cup DirectoryWorlds \cup ProviderWorlds
===============================================================================
