--------------------------------- MODULE Paths ---------------------------------
(***************************************************************************)
(* Directories and the names of files: the functions of                    *)
(* src/util/filesystem.cpp that the scan uses, on a file system with       *)
(* symbolic links.                                                         *)
(*                                                                         *)
(* A path is the sequence of its parts between the slashes, a part the     *)
(* sequence of its words between the dots, as in Formats.  A tree maps the *)
(* paths there are to nodes: a directory with the names of its entries in  *)
(* the order of readdir(), a link with the path it stands for, or a file.  *)
(***************************************************************************)
EXTENDS Integers, Sequences, SequencesExt

CONSTANT MaxLinks   \* links the system follows in one path, 40 on Linux

ASSUME PathsAssumption == MaxLinks \in Nat

Nothing == <<>>
Here    == <<".">>
Up      == <<"..">>

-----------------------------------------------------------------------------
(* What the operating system makes of an absolute path *)

Nowhere == <<<<"nowhere">>>>

Parts(tree, path) ==
  LET links == {p \in DOMAIN tree : tree[p].type = "link"}
  IN  UNION {Range(p) : p \in DOMAIN tree \cup {tree[l].path : l \in links} \cup {path}}

Resolved(tree, path) ==
  LET parts == Parts(tree, path)
      place[at \in Seq(parts), rest \in Seq(parts), links \in 0 .. MaxLinks] ==
        LET to == Append(at, Head(rest))
        IN  IF rest = <<>> THEN at
            ELSE IF tree[at].type # "directory" THEN Nowhere
            ELSE IF Head(rest) \in {Nothing, Here} THEN place[at, Tail(rest), links]
            ELSE IF Head(rest) = Up
              THEN place[IF at = <<>> THEN at ELSE Front(at), Tail(rest), links]
            ELSE IF to \notin DOMAIN tree THEN Nowhere
            ELSE IF tree[to].type # "link" THEN place[to, Tail(rest), links]
            ELSE IF links = 0 THEN Nowhere
            ELSE place[<<>>, tree[to].path \o Tail(rest), links - 1]
  IN  place[<<>>, path, MaxLinks]

exist(tree, path) == Resolved(tree, path) # Nowhere

-----------------------------------------------------------------------------
(* filesystem.cpp *)

(* Of a link to nothing, which stat() cannot follow, is_directory() says   *)
(* what happens to be on the stack.                                        *)
is_directory(tree, path, garbage) ==
  IF exist(tree, path) THEN tree[Resolved(tree, path)].type = "directory" ELSE garbage

Skipped == {<<"", "thumbnails">>, <<"", "xvpics">>}

(* The paths of the files below a directory, also of those that are below  *)
(* it by a link.  What cannot be opened is empty.                          *)
open_directory_recursivly(tree, pathname, garbage) ==
  LET parts == Parts(tree, pathname)
      Names(path) == IF exist(tree, path)
                     THEN SelectSeq(tree[Resolved(tree, path)].names, LAMBDA n : n \notin Skipped)
                     ELSE <<>>
      files[path \in Seq(parts), n \in Nat] ==  \* of its first n entries
        LET new == Append(path, Names(path)[n])
        IN  IF n = 0 THEN <<>>
            ELSE files[path, n - 1] \o IF is_directory(tree, new, garbage)
                                       THEN files[new, Len(Names(new))] ELSE <<new>>
  IN  files[pathname, Len(Names(pathname))]

(* Mutant of realpath_fast: of several "..", one is remembered. *)
realpath_once(path) ==
  LET kept[n \in 0 .. Len(path), skip \in Nat] ==
        IF n = 0 THEN <<>>
        ELSE IF path[n] = Up THEN kept[n - 1, 1]
        ELSE IF path[n] \in {Nothing, Here} THEN kept[n - 1, skip]
        ELSE IF skip > 0 THEN kept[n - 1, skip - 1]
        ELSE Append(kept[n - 1, 0], path[n])
  IN  kept[Len(path), 0]

(* From the last part to the first: each ".." takes away a part that is    *)
(* still to come.  Links are not looked at, and a slash at the end, which  *)
(* may stay, is left out.                                                  *)
realpath_fast(path) ==
  LET kept[n \in 0 .. Len(path), skip \in Nat] ==
        IF n = 0 THEN <<>>
        ELSE IF path[n] = Up THEN kept[n - 1, skip + 1]
        ELSE IF path[n] \in {Nothing, Here} THEN kept[n - 1, skip]
        ELSE IF skip > 0 THEN kept[n - 1, skip - 1]
        ELSE Append(kept[n - 1, 0], path[n])
  IN  kept[Len(path), 0]
===============================================================================
