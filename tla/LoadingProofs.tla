----------------------------- MODULE LoadingProofs -----------------------------
(***************************************************************************)
(* Theorems about Loading, for any number of threads and of permits, every *)
(* size of a pipe, every amount of output and every world: the calls of    *)
(* programs, and the scan, which lists archives by such calls.             *)
(***************************************************************************)
EXTENDS Loading, FiniteSetTheorems, TLAPS

Outputs == {"stdout", "stderr"}
Sides   == {"read", "write"}

Phases      == {"none", "called", "piped", "threw", "forked", "feeding", "reading",
                "waiting", "returned"}
ChildStates == {"none", "forked", "running", "exited"}

ChildType ==
  [state : ChildStates, reads : BOOLEAN, order : {"read", "write"},
   out : Nat, err : Nat, wrote : [Outputs -> Nat], at_end : BOOLEAN, outcome : {0, 1}]

(* The members of Exec, its children and the descriptors have the values   *)
(* of their types.                                                         *)
CallsOK ==
  /\ phase \in [Threads -> Phases]
  /\ pipe \in [Threads -> [Pipes -> Nat]]
  /\ got \in [Threads -> [Outputs -> Nat]]
  /\ eof \in [Threads -> SUBSET Outputs]
  /\ child \in [Threads -> ChildType]
  /\ fds \in [Processes -> SUBSET (Threads \X Pipes \X Sides)]

(* A call has a child from fork() on, and before that nobody has written.  *)
ChildWhenForked(t) ==
  /\ phase[t] \in {"none", "called", "piped", "threw"} <=> child[t].state = "none"
  /\ child[t].state = "none" => \A p \in Outputs : child[t].wrote[p] = 0

(* What a program has written has been read or is in the pipe.             *)
NothingLost(t) == \A p \in Outputs : got[t][p] + pipe[t][p] = child[t].wrote[p]

(* The program holds the writing end of both pipes as long as it lives; it *)
(* has them from the caller, which opened them before it forked.           *)
Writing(t) == {End(t, "stdout", "write"), End(t, "stderr", "write")}
HoldsEnds(t) ==
  /\ phase[t] = "piped" => Writing(t) \subseteq fds[Galapix]
  /\ child[t].state \in {"forked", "running"} => Writing(t) \subseteq fds[t]

(* A pipe has been read to its end when its program has exited.            *)
EndMeansExit(t) ==
  /\ \A p \in eof[t] : pipe[t][p] = 0 /\ child[t].state = "exited"
  /\ phase[t] \in {"waiting", "returned"} => eof[t] = Outputs

CallOK(t) ==
  ChildWhenForked(t) /\ NothingLost(t) /\ HoldsEnds(t) /\ EndMeansExit(t)

CallInv == CallsOK /\ \A t \in Threads : CallOK(t)

-----------------------------------------------------------------------------
(* Data *)

(* The counts of a child that has just been started. *)
LEMMA NothingWritten == [stdout |-> 0, stderr |-> 0] \in [Outputs -> Nat]
  BY DEF Outputs

(* A call without a child. *)
LEMMA NoChildOK == NoChild \in ChildType
  <1> DEFINE w == [stdout |-> 0, stderr |-> 0]
  <1>1. w \in [Outputs -> Nat]
    BY NothingWritten
  <1>2. NoChild = [state |-> "none", reads |-> FALSE, order |-> "read", out |-> 0, err |-> 0,
                   wrote |-> w, at_end |-> FALSE, outcome |-> 1]
    BY DEF NoChild
  <1> HIDE DEF w
  <1>3. QED
    BY <1>1, <1>2 DEF ChildType, ChildStates

(* What a child does changes one member of it.                             *)
LEMMA ChildChanges ==
  ASSUME NEW c \in ChildType
  PROVE  /\ \A s \in ChildStates :
              /\ [c EXCEPT !.state = s] \in ChildType
              /\ [c EXCEPT !.state = s].state = s
              /\ [c EXCEPT !.state = s].wrote = c.wrote
         /\ [c EXCEPT !.at_end = TRUE] \in ChildType
         /\ [c EXCEPT !.at_end = TRUE].state = c.state
         /\ [c EXCEPT !.at_end = TRUE].wrote = c.wrote
         /\ \A w \in [Outputs -> Nat] :
              /\ [c EXCEPT !.wrote = w] \in ChildType
              /\ [c EXCEPT !.wrote = w].state = c.state
              /\ [c EXCEPT !.wrote = w].wrote = w
  BY DEF ChildType

(* Pipes of different calls have no end in common.                         *)
LEMMA EndsApart ==
  ASSUME NEW t \in Threads, NEW u \in Threads, t # u
  PROVE  Writing(u) \cap OwnEnds(t) = {}
  BY DEF Writing, OwnEnds, End

(* The child's writing ends are none of those the caller keeps. *)
LEMMA EndsTyped ==
  ASSUME NEW t \in Threads
  PROVE  /\ OwnEnds(t) \subseteq Threads \X Pipes \X Sides
         /\ Writing(t) \subseteq OwnEnds(t)
         /\ Writing(t) \cap CallersEnds(t) = {}
         /\ Writing(t) \subseteq ChildsEnds(t)
         /\ CallersEnds(t) \subseteq OwnEnds(t)
         /\ ChildsEnds(t) \subseteq OwnEnds(t)
  <1>1. OwnEnds(t) \subseteq Threads \X Pipes \X Sides
    <2> SUFFICES ASSUME NEW e \in Pipes \X Sides PROVE <<t, e[1], e[2]>> \in Threads \X Pipes \X Sides
      BY DEF OwnEnds, End, Ends, Sides
    <2>1. QED
      OBVIOUS
  <1>2. \A p \in Pipes, side \in Sides : End(t, p, side) \in OwnEnds(t)
    <2> SUFFICES ASSUME NEW p \in Pipes, NEW side \in Sides PROVE End(t, p, side) \in OwnEnds(t)
      OBVIOUS
    <2>1. <<p, side>> \in Ends /\ <<p, side>>[1] = p /\ <<p, side>>[2] = side
      BY DEF Ends, Sides
    <2>2. QED
      BY <2>1 DEF OwnEnds
  <1>3. ChildsEnds(t) \subseteq OwnEnds(t)
    BY <1>2 DEF ChildsEnds, Pipes, Sides
  <1>4. Writing(t) \subseteq ChildsEnds(t)
    BY DEF Writing, ChildsEnds
  <1>5. QED
    BY <1>1, <1>3, <1>4 DEF CallersEnds

(* Galapix and its children are different processes. *)
LEMMA Roles == Galapix \in Processes /\ Galapix \notin Threads /\ Threads \subseteq Processes
  BY ExecAssumption DEF Galapix, Processes

-----------------------------------------------------------------------------
(* Steps *)

(* What a thread or its child does leaves the calls of the others alone.   *)
LEMMA OthersKeep ==
  ASSUME NEW u \in Threads, CallOK(u), eof[u] \subseteq Outputs,
         phase'[u] = phase[u], got'[u] = got[u], eof'[u] = eof[u],
         \A p \in Outputs : pipe'[u][p] = pipe[u][p],
         child'[u].state = child[u].state, child'[u].wrote = child[u].wrote,
         Writing(u) \cap fds[Galapix] \subseteq fds'[Galapix],
         Writing(u) \cap fds[u] \subseteq fds'[u]
  PROVE  CallOK(u)'
  BY DEF CallOK, ChildWhenForked, NothingLost, HoldsEnds, EndMeansExit, Writing, End

(* pipe() three times, before there is a child. *)
LEMMA MakePipesOK ==
  ASSUME CallInv, NEW t \in Threads, MakePipes(t)
  PROVE  CallInv'
  <1>1. CallsOK'
    BY EndsTyped, Roles DEF CallInv, CallsOK, MakePipes, Phases
  <1>2. CallOK(t)'
    BY EndsTyped, Roles DEF CallInv, CallsOK, MakePipes, Phases,
       CallOK, ChildWhenForked, NothingLost, HoldsEnds, EndMeansExit
  <1>3. ASSUME NEW u \in Threads, u # t PROVE CallOK(u)'
    BY <1>3, OthersKeep, Roles DEF CallInv, CallsOK, MakePipes
  <1>4. QED
    BY <1>1, <1>2, <1>3 DEF CallInv

(* fork() fails: there is no child. *)
LEMMA CannotForkOK ==
  ASSUME CallInv, NEW t \in Threads, CannotFork(t)
  PROVE  CallInv'
  <1>1. CallsOK'
    BY EndsTyped, Roles DEF CallInv, CallsOK, CannotFork, Phases, Closed
  <1>2. CallOK(t)'
    BY EndsTyped, Roles DEF CallInv, CallsOK, CannotFork, Phases, Closed,
       CallOK, ChildWhenForked, NothingLost, HoldsEnds, EndMeansExit
  <1>3. ASSUME NEW u \in Threads, u # t PROVE CallOK(u)'
    BY <1>3, OthersKeep, EndsApart, Roles DEF CallInv, CallsOK, CannotFork, Closed
  <1>4. QED
    BY <1>1, <1>2, <1>3 DEF CallInv

(* The child has every descriptor the process had. *)
LEMMA ForkOK ==
  ASSUME CallInv, NEW t \in Threads, Fork(t)
  PROVE  CallInv'
  <1>1. CallsOK'
    BY EndsTyped, ChildChanges, Roles DEF CallInv, CallsOK, Fork, Phases, ChildStates
  <1>2. child'[t].state = "forked" /\ child'[t].wrote = child[t].wrote
    BY ChildChanges DEF CallInv, CallsOK, Fork, ChildStates
  <1>3. CallOK(t)'
    BY <1>2, EndsTyped, Roles DEF CallInv, CallsOK, Fork, Phases,
       CallOK, ChildWhenForked, NothingLost, HoldsEnds, EndMeansExit
  <1>4. ASSUME NEW u \in Threads, u # t PROVE CallOK(u)'
    BY <1>4, OthersKeep, Roles DEF CallInv, CallsOK, Fork
  <1>5. QED
    BY <1>1, <1>3, <1>4 DEF CallInv

(* The caller closes the child's ends of the pipes. *)
LEMMA CloseChildsEndsOK ==
  ASSUME CallInv, NEW t \in Threads, CloseChildsEnds(t)
  PROVE  CallInv'
  <1>1. CallsOK'
    BY EndsTyped, Roles DEF CallInv, CallsOK, CloseChildsEnds, Phases, Closed
  <1>2. CallOK(t)'
    BY EndsTyped, Roles DEF CallInv, CallsOK, CloseChildsEnds, Phases, Closed,
       CallOK, ChildWhenForked, NothingLost, HoldsEnds, EndMeansExit
  <1>3. ASSUME NEW u \in Threads, u # t PROVE CallOK(u)'
    BY <1>3, OthersKeep, EndsApart, EndsTyped, Roles DEF CallInv, CallsOK, CloseChildsEnds, Closed
  <1>4. QED
    BY <1>1, <1>2, <1>3 DEF CallInv

(* A write to the child's input. *)
LEMMA FeedOK ==
  ASSUME CallInv, NEW t \in Threads, Feed(t)
  PROVE  CallInv'
  <1>1. UNCHANGED <<phase, got, eof, child, fds>>
    BY DEF Feed
  <1>2. \/ pipe' = pipe
        \/ pipe' = [pipe EXCEPT ![t]["stdin"] = @ + 1]
    BY DEF Feed
  <1>3. /\ pipe' \in [Threads -> [Pipes -> Nat]]
        /\ \A u \in Threads, p \in Outputs : pipe'[u][p] = pipe[u][p]
    BY <1>2 DEF CallInv, CallsOK, Pipes, Outputs
  <1>4. CallsOK'
    BY <1>1, <1>3 DEF CallInv, CallsOK
  <1>5. ASSUME NEW u \in Threads PROVE CallOK(u)'
    BY <1>1, <1>3, OthersKeep DEF CallInv, CallsOK
  <1>6. QED
    BY <1>4, <1>5 DEF CallInv

(* The input ends. *)
LEMMA CloseStdinOK ==
  ASSUME CallInv, NEW t \in Threads, CloseStdin(t)
  PROVE  CallInv'
  <1>1. CallsOK'
    BY EndsTyped, Roles DEF CallInv, CallsOK, CloseStdin, Phases, Closed
  <1>2. CallOK(t)'
    BY EndsTyped, Roles DEF CallInv, CallsOK, CloseStdin, Phases, Closed,
       CallOK, ChildWhenForked, NothingLost, HoldsEnds, EndMeansExit
  <1>3. ASSUME NEW u \in Threads, u # t PROVE CallOK(u)'
    <2>1. Writing(u) \cap {End(t, "stdin", "write")} = {}
      BY <1>3 DEF Writing, End
    <2>2. QED
      BY <1>3, <2>1, OthersKeep, Roles DEF CallInv, CallsOK, CloseStdin, Closed
  <1>4. QED
    BY <1>1, <1>2, <1>3 DEF CallInv

(* waitpid(): the child has exited. *)
LEMMA ReapOK ==
  ASSUME CallInv, NEW t \in Threads, Reap(t)
  PROVE  CallInv'
  <1>1. CallsOK'
    BY EndsTyped, Roles DEF CallInv, CallsOK, Reap, Phases, Closed
  <1>2. CallOK(t)'
    BY EndsTyped, Roles DEF CallInv, CallsOK, Reap, Phases, Closed,
       CallOK, ChildWhenForked, NothingLost, HoldsEnds, EndMeansExit
  <1>3. ASSUME NEW u \in Threads, u # t PROVE CallOK(u)'
    BY <1>3, OthersKeep, EndsApart, EndsTyped, Roles DEF CallInv, CallsOK, Reap, Closed
  <1>4. QED
    BY <1>1, <1>2, <1>3 DEF CallInv

(* select() and the reads of what is ready: what leaves a pipe is added to *)
(* what was read, and an end of file is seen only where nobody can write.  *)
LEMMA SelectOK ==
  ASSUME CallInv, NEW t \in Threads, Select(t)
  PROVE  CallInv'
  <1> DEFINE ready == {p \in {"stdout", "stderr"} \ eof[t] : pipe[t][p] > 0 \/ AtEnd(t, p)}
             ended == {p \in ready : AtEnd(t, p)}
  <1>1. /\ phase[t] = "reading"
        /\ pipe' = [pipe EXCEPT ![t] = [p \in Pipes |-> IF p \in ready \ ended THEN @[p] - 1 ELSE @[p]]]
        /\ got' = [got EXCEPT ![t] = [p \in DOMAIN @ |-> IF p \in ready \ ended THEN @[p] + 1 ELSE @[p]]]
        /\ eof' = [eof EXCEPT ![t] = @ \cup ended]
        /\ fds' = [fds EXCEPT ![Galapix] = @ \ {End(t, p, "read") : p \in ended}]
        /\ phase' = [phase EXCEPT ![t] = IF eof'[t] = {"stdout", "stderr"} THEN "waiting" ELSE @]
        /\ UNCHANGED child
    BY DEF Select, Closed
  <1>2. /\ ready \subseteq Outputs /\ ended \subseteq ready
        /\ \A p \in ready \ ended : pipe[t][p] \in Nat /\ pipe[t][p] > 0 /\ p \notin eof[t]
        /\ \A p \in ended : pipe[t][p] = 0 /\ ~Open(End(t, p, "write"))
    BY DEF AtEnd, Outputs, CallInv, CallsOK, Pipes
  <1>3. \A p \in ended : child[t].state = "exited"
    <2> SUFFICES ASSUME NEW p \in ended PROVE child[t].state = "exited"
      OBVIOUS
    <2>1. child[t].state \in ChildStates /\ child[t].state # "none"
      BY <1>1 DEF CallInv, CallsOK, ChildType, CallOK, ChildWhenForked
    <2>2. End(t, p, "write") \notin fds[t] /\ End(t, p, "write") \in Writing(t)
      BY <1>2, Roles DEF Open, Writing, Outputs
    <2>3. QED
      BY <2>1, <2>2 DEF CallInv, CallOK, HoldsEnds, ChildStates
  <1> HIDE DEF ready, ended
  <1>4. \A p \in Outputs : got'[t][p] + pipe'[t][p] = got[t][p] + pipe[t][p]
    BY <1>1, <1>2 DEF CallInv, CallsOK, Outputs, Pipes
  <1>5. CallsOK'
    <2>1. pipe' \in [Threads -> [Pipes -> Nat]] /\ got' \in [Threads -> [Outputs -> Nat]]
      BY <1>1, <1>2 DEF CallInv, CallsOK, Outputs, Pipes
    <2>2. QED
      BY <1>1, <1>2, <2>1 DEF CallInv, CallsOK, Phases
  <1>6. CallOK(t)'
    <2>1. ChildWhenForked(t)' /\ HoldsEnds(t)'
      BY <1>1, Roles DEF CallInv, CallsOK, CallOK, ChildWhenForked, HoldsEnds, Writing, End
    <2>2. NothingLost(t)'
      BY <1>1, <1>4 DEF CallInv, CallOK, NothingLost
    <2>3. \A p \in eof'[t] : pipe'[t][p] = 0 /\ child'[t].state = "exited"
      <3>1. eof[t] \subseteq Outputs /\ eof'[t] = eof[t] \cup ended
        BY <1>1 DEF CallInv, CallsOK
      <3>2. \A p \in Outputs : p \in eof'[t] => pipe'[t][p] = pipe[t][p]
        BY <1>1, <1>2, <3>1 DEF CallInv, CallsOK, Outputs, Pipes
      <3>3. \A p \in eof[t] : pipe[t][p] = 0 /\ child[t].state = "exited"
        BY DEF CallInv, CallOK, EndMeansExit
      <3>4. QED
        BY <1>1, <1>2, <1>3, <3>1, <3>2, <3>3
    <2>4. phase'[t] \in {"waiting", "returned"} => eof'[t] = Outputs
      BY <1>1 DEF CallInv, CallsOK, Outputs
    <2>5. EndMeansExit(t)'
      BY <2>3, <2>4 DEF EndMeansExit
    <2>6. QED
      BY <2>1, <2>2, <2>5 DEF CallOK
  <1>7. ASSUME NEW u \in Threads, u # t PROVE CallOK(u)'
    <2>1. Writing(u) \cap {End(t, p, "read") : p \in ended} = {}
      BY <1>7 DEF Writing, End
    <2>2. QED
      BY <1>1, <1>7, <2>1, OthersKeep, Roles DEF CallInv, CallsOK
  <1>8. QED
    BY <1>5, <1>6, <1>7 DEF CallInv

(* A job calls a program. *)
LEMMA CalledOK ==
  ASSUME CallInv, NEW t \in Threads, NEW input, NEW may_succeed, phase[t] = "none",
         Called(t, input, may_succeed)
  PROVE  CallInv'
  <1>1. /\ phase' = [phase EXCEPT ![t] = "called"]
        /\ UNCHANGED <<pipe, got, eof, fds>>
    BY DEF Called
  <1>2. \E c \in ChildType : /\ child' = [child EXCEPT ![t] = c]
                            /\ c.state = "none" /\ c.wrote = [stdout |-> 0, stderr |-> 0]
    <2>1. PICK out \in {0, MaxOutput}, err \in {0, MaxErrors}, code \in {0, 1},
               order \in {"read", "write"} :
            child' = [child EXCEPT ![t] =
              [NoChild EXCEPT !.reads = input > 0, !.order = order,
                              !.out = out, !.err = err, !.outcome = code]]
      BY DEF Called
    <2>2. out \in Nat /\ err \in Nat /\ (input > 0) \in BOOLEAN
      BY ExecAssumption
    <2> DEFINE reads == input > 0
               c == [NoChild EXCEPT !.reads = reads, !.order = order,
                                    !.out = out, !.err = err, !.outcome = code]
    <2>3. child' = [child EXCEPT ![t] = c]
      BY <2>1
    <2>4. reads \in BOOLEAN
      BY <2>2
    <2>5. c \in ChildType /\ c.state = "none" /\ c.wrote = [stdout |-> 0, stderr |-> 0]
      <3> HIDE DEF reads
      <3>1. /\ NoChild \in ChildType /\ NoChild.state = "none"
            /\ NoChild.wrote = [stdout |-> 0, stderr |-> 0]
        BY NoChildOK DEF NoChild
      <3>2. c \in ChildType
        BY <2>2, <2>4, <3>1 DEF ChildType
      <3>3. c.state = NoChild.state /\ c.wrote = NoChild.wrote
        BY <3>1 DEF ChildType
      <3>4. QED
        BY <3>1, <3>2, <3>3
    <2> HIDE DEF c
    <2>6. QED
      BY <2>3, <2>5
  <1>3. CallsOK'
    BY <1>1, <1>2 DEF CallInv, CallsOK, Phases
  <1>4. CallOK(t)'
    <2> DEFINE nothing == [stdout |-> 0, stderr |-> 0]
    <2>1. \A p \in Outputs : nothing[p] = 0
      BY DEF Outputs
    <2>2. child'[t].state = "none" /\ child'[t].wrote = nothing
      BY <1>2 DEF CallInv, CallsOK
    <2> HIDE DEF nothing
    <2>3. child[t].state = "none" /\ eof[t] = {} /\ \A p \in Outputs : got[t][p] + pipe[t][p] = 0
      BY DEF CallInv, CallsOK, CallOK, ChildWhenForked, NothingLost, EndMeansExit
    <2>4. QED
      BY <1>1, <2>1, <2>2, <2>3 DEF CallInv, CallsOK, CallOK, ChildWhenForked, NothingLost, HoldsEnds,
         EndMeansExit
  <1>5. ASSUME NEW u \in Threads, u # t PROVE CallOK(u)'
    BY <1>1, <1>2, <1>5, OthersKeep DEF CallInv, CallsOK
  <1>6. QED
    BY <1>3, <1>4, <1>5 DEF CallInv

(* The job has taken the result of its call. *)
LEMMA CallOverOK ==
  ASSUME CallInv, NEW t \in Threads, CallOver(t)
  PROVE  CallInv'
  <1> DEFINE nothing == [stdout |-> 0, stderr |-> 0]
  <1>1. /\ phase' = [phase EXCEPT ![t] = "none"]
        /\ pipe' = [pipe EXCEPT ![t] = [p \in Pipes |-> 0]]
        /\ got' = [got EXCEPT ![t] = nothing]
        /\ eof' = [eof EXCEPT ![t] = {}]
        /\ child' = [child EXCEPT ![t] = NoChild]
        /\ fds' = [p \in Processes |-> fds[p] \ OwnEnds(t)]
    BY DEF CallOver
  <1>2. /\ nothing \in [Outputs -> Nat] /\ \A p \in Outputs : nothing[p] = 0
        /\ NoChild.state = "none" /\ NoChild.wrote = nothing
    BY NothingWritten DEF NoChild, Outputs
  <1> HIDE DEF nothing
  <1>3. CallsOK'
    BY <1>1, <1>2, NoChildOK DEF CallInv, CallsOK, Phases
  <1>4. CallOK(t)'
    <2>1. /\ phase'[t] = "none" /\ pipe'[t] = [p \in Pipes |-> 0] /\ got'[t] = nothing
          /\ eof'[t] = {} /\ child'[t] = NoChild
      BY <1>1 DEF CallInv, CallsOK
    <2>2. QED
      BY <1>2, <2>1 DEF CallOK, ChildWhenForked, NothingLost, HoldsEnds, EndMeansExit, Pipes, Outputs
  <1>5. ASSUME NEW u \in Threads, u # t PROVE CallOK(u)'
    BY <1>1, <1>5, OthersKeep, EndsApart, Roles DEF CallInv, CallsOK
  <1>6. QED
    BY <1>3, <1>4, <1>5 DEF CallInv

(* exec() in the child. *)
LEMMA ChildStartsOK ==
  ASSUME CallInv, NEW t \in Threads, ChildStarts(t)
  PROVE  CallInv'
  <1>1. child'[t].state = "running" /\ child'[t].wrote = child[t].wrote
    BY ChildChanges DEF CallInv, CallsOK, ChildStarts, ChildStates
  <1>2. CallsOK'
    BY ChildChanges, Roles DEF CallInv, CallsOK, ChildStarts, ChildStates, Closed
  <1>3. CallOK(t)'
    BY <1>1, EndsTyped, Roles DEF CallInv, CallsOK, ChildStarts, Closed,
       CallOK, ChildWhenForked, NothingLost, HoldsEnds, EndMeansExit
  <1>4. ASSUME NEW u \in Threads, u # t PROVE CallOK(u)'
    BY <1>4, OthersKeep, Roles DEF CallInv, CallsOK, ChildStarts, Closed
  <1>5. QED
    BY <1>2, <1>3, <1>4 DEF CallInv

(* The child reads its input or meets its end. *)
LEMMA ChildReadsOK ==
  ASSUME CallInv, NEW t \in Threads, ChildReads(t)
  PROVE  CallInv'
  <1>1. UNCHANGED <<phase, got, eof, fds>>
    BY DEF ChildReads
  <1>2. /\ pipe' \in [Threads -> [Pipes -> Nat]]
        /\ \A u \in Threads, p \in Outputs : pipe'[u][p] = pipe[u][p]
    <2>1. \/ pipe[t]["stdin"] > 0 /\ pipe' = [pipe EXCEPT ![t]["stdin"] = @ - 1]
          \/ pipe' = pipe
      BY DEF ChildReads
    <2>2. "stdin" \in Pipes /\ "stdin" \notin Outputs /\ Outputs \subseteq Pipes
      BY DEF Pipes, Outputs
    <2>3. pipe \in [Threads -> [Pipes -> Nat]] /\ pipe[t]["stdin"] \in Nat
      BY <2>2 DEF CallInv, CallsOK
    <2>4. CASE pipe[t]["stdin"] > 0 /\ pipe' = [pipe EXCEPT ![t]["stdin"] = @ - 1]
      <3>1. pipe[t]["stdin"] - 1 \in Nat
        BY <2>3, <2>4
      <3>2. QED
        BY <2>2, <2>3, <2>4, <3>1
    <2>5. QED
      BY <2>1, <2>2, <2>3, <2>4
  <1>3. /\ child' \in [Threads -> ChildType]
        /\ \A u \in Threads : child'[u].state = child[u].state /\ child'[u].wrote = child[u].wrote
    <2> DEFINE c == [child[t] EXCEPT !.at_end = TRUE]
    <2>1. child' = child \/ child' = [child EXCEPT ![t] = c]
      BY DEF ChildReads
    <2>2. c \in ChildType /\ c.state = child[t].state /\ c.wrote = child[t].wrote
      BY ChildChanges DEF CallInv, CallsOK
    <2> HIDE DEF c
    <2>3. QED
      BY <2>1, <2>2 DEF CallInv, CallsOK
  <1>4. CallsOK'
    BY <1>1, <1>2, <1>3 DEF CallInv, CallsOK
  <1>5. ASSUME NEW u \in Threads PROVE CallOK(u)'
    BY <1>1, <1>2, <1>3, OthersKeep DEF CallInv, CallsOK
  <1>6. QED
    BY <1>4, <1>5 DEF CallInv

(* The child writes: what it has written is in the pipe. *)
LEMMA ChildWritesOK ==
  ASSUME CallInv, NEW t \in Threads, ChildWrites(t)
  PROVE  CallInv'
  <1>1. /\ child[t].state = "running"
        /\ UNCHANGED <<phase, got, eof, fds>>
    BY DEF ChildWrites
  <1>2. PICK p \in Outputs : /\ pipe' = [pipe EXCEPT ![t][p] = @ + 1]
                             /\ child' = [child EXCEPT ![t].wrote[p] = @ + 1]
    BY DEF ChildWrites, Outputs
  <1> DEFINE w == [child[t].wrote EXCEPT ![p] = @ + 1]
             c == [child[t] EXCEPT !.wrote = w]
  <1>3. child[t] \in ChildType /\ child[t].wrote \in [Outputs -> Nat]
    BY DEF CallInv, CallsOK, ChildType
  <1>4. w \in [Outputs -> Nat] /\ w[p] = child[t].wrote[p] + 1
        /\ \A q \in Outputs \ {p} : w[q] = child[t].wrote[q]
    BY <1>3
  <1>5. c \in ChildType /\ c.state = "running" /\ c.wrote = w
    <2> HIDE DEF w
    <2>1. QED
      BY <1>1, <1>3, <1>4, ChildChanges
  <1>6. /\ child' = [child EXCEPT ![t] = c]
        /\ pipe' = [pipe EXCEPT ![t][p] = @ + 1]
    BY <1>2
  <1> HIDE DEF w, c
  <1>7. CallsOK'
    BY <1>1, <1>5, <1>6 DEF CallInv, CallsOK, Pipes, Outputs
  <1>8. CallOK(t)'
    <2>1. child'[t] = c
      BY <1>6 DEF CallInv, CallsOK
    <2>2. \A q \in Outputs : got'[t][q] + pipe'[t][q] = w[q]
      BY <1>1, <1>4, <1>6 DEF CallInv, CallsOK, CallOK, NothingLost, Pipes, Outputs
    <2>3. eof[t] = {}
      BY <1>1 DEF CallInv, CallsOK, CallOK, EndMeansExit
    <2>4. QED
      BY <1>1, <1>5, <2>1, <2>2, <2>3 DEF CallInv, CallOK, ChildWhenForked, NothingLost, HoldsEnds,
         EndMeansExit, Writing, End
  <1>9. ASSUME NEW u \in Threads, u # t PROVE CallOK(u)'
    BY <1>1, <1>6, <1>9, OthersKeep DEF CallInv, CallsOK
  <1>10. QED
    BY <1>7, <1>8, <1>9 DEF CallInv

(* The child exits and lets go of all descriptors. *)
LEMMA ChildExitsOK ==
  ASSUME CallInv, NEW t \in Threads, ChildExits(t)
  PROVE  CallInv'
  <1>1. child'[t].state = "exited" /\ child'[t].wrote = child[t].wrote
    BY ChildChanges DEF CallInv, CallsOK, ChildExits, ChildStates
  <1>2. CallsOK'
    BY ChildChanges, Roles DEF CallInv, CallsOK, ChildExits, ChildStates, Closed
  <1>3. CallOK(t)'
    BY <1>1, Roles DEF CallInv, CallsOK, ChildExits, Closed,
       CallOK, ChildWhenForked, NothingLost, HoldsEnds, EndMeansExit
  <1>4. ASSUME NEW u \in Threads, u # t PROVE CallOK(u)'
    BY <1>4, OthersKeep, Roles DEF CallInv, CallsOK, ChildExits, Closed
  <1>5. QED
    BY <1>2, <1>3, <1>4 DEF CallInv

(* Every step of the program and its children.                             *)
LEMMA CallInvStep == CallInv /\ [Next]_vars => CallInv'
  <1> SUFFICES ASSUME CallInv, [Next]_vars PROVE CallInv'
    OBVIOUS
  <1>1. ASSUME UNCHANGED execVars PROVE CallInv'
    BY <1>1 DEF execVars, CallInv, CallsOK, CallOK, ChildWhenForked, NothingLost, HoldsEnds,
       EndMeansExit, Writing, End
  <1>2. CASE UNCHANGED vars
    BY <1>1, <1>2 DEF vars
  <1>3. CASE Main
    BY <1>1, <1>3 DEF Main, Walk, Gather, ScanDone, EntriesDone, TilesDone, Export
  <1>4. ASSUME NEW t \in Threads, ThreadStep(t) PROVE CallInv'
    <2>1. CASE Call(t)
      BY <2>1, CalledOK DEF Call
    <2>2. CASE Return(t)
      BY <2>2, CallOverOK DEF Return
    <2>3. CASE CallStep(t)
      BY <2>3, MakePipesOK, CannotForkOK, ForkOK, CloseChildsEndsOK, FeedOK, CloseStdinOK, SelectOK,
         ReapOK DEF CallStep
    <2>4. CASE \/ Acquire(t) \/ TakeJob(t) \/ Start(t) \/ Fetch(t) \/ Decode(t) \/ Fit(t) \/ Cut(t)
               \/ Provide(t) \/ NoProgram(t)
      BY <1>1, <2>4 DEF Acquire, TakeJob, Start, Fetch, Decode, Fit, Cut, Provide, NoProgram
    <2>5. QED
      BY <1>4, <2>1, <2>2, <2>3, <2>4 DEF ThreadStep
  <1>5. ASSUME NEW t \in Threads, ChildStep(t) PROVE CallInv'
    BY <1>5, ChildStartsOK, ChildReadsOK, ChildWritesOK, ChildExitsOK DEF ChildStep
  <1>6. QED
    BY <1>2, <1>3, <1>4, <1>5 DEF Next

(* No program has been called. *)
LEMMA CallInvInit == Init => CallInv
  <1> SUFFICES ASSUME Init PROVE CallInv
    OBVIOUS
  <1> DEFINE nothing == [stdout |-> 0, stderr |-> 0]
  <1>1. /\ nothing \in [Outputs -> Nat] /\ \A p \in Outputs : nothing[p] = 0
        /\ NoChild.state = "none" /\ NoChild.wrote = nothing
    BY NothingWritten DEF NoChild, Outputs
  <1>2. /\ phase = [t \in Threads |-> "none"]
        /\ pipe = [t \in Threads |-> [p \in Pipes |-> 0]]
        /\ got = [t \in Threads |-> nothing]
        /\ eof = [t \in Threads |-> {}]
        /\ child = [t \in Threads |-> NoChild]
        /\ fds = [p \in Processes |-> {}]
    BY DEF Init, ExecInit
  <1> HIDE DEF nothing
  <1>3. CallsOK
    BY <1>1, <1>2, NoChildOK DEF CallsOK, Phases
  <1>4. ASSUME NEW t \in Threads PROVE CallOK(t)
    BY <1>1, <1>2 DEF CallOK, ChildWhenForked, NothingLost, HoldsEnds, EndMeansExit, Outputs, Pipes
  <1>5. QED
    BY <1>3, <1>4 DEF CallInv

(* What a thread's call, its child, its pipes and the descriptors have to  *)
(* do with each other, at any time: nothing that was written is lost, and  *)
(* an end of file means that the child is gone (exec.cpp:55-256).          *)
THEOREM CallsHold == Spec => []CallInv
  BY CallInvInit, CallInvStep, PTL DEF Spec

(* OutputComplete: a call that returns has all its program wrote, however  *)
(* its reads and the program's writes were interleaved, and whoever else   *)
(* had inherited an end of its pipes (exec.cpp:55-256).                    *)
THEOREM OutputCompleteHolds == Spec => []OutputComplete
  <1>1. CallInv => OutputComplete
    <2> SUFFICES ASSUME CallInv, NEW t \in Threads, phase[t] \in {"waiting", "returned"}
                 PROVE  got[t] = child[t].wrote
      BY DEF OutputComplete
    <2>1. \A p \in Outputs : got[t][p] + pipe[t][p] = child[t].wrote[p] /\ pipe[t][p] = 0
      BY DEF CallInv, CallOK, NothingLost, EndMeansExit
    <2>2. got[t] \in [Outputs -> Nat] /\ child[t].wrote \in [Outputs -> Nat]
      BY DEF CallInv, CallsOK, ChildType
    <2>3. \A p \in Outputs : got[t][p] = child[t].wrote[p]
      BY <2>1, <2>2
    <2>4. QED
      BY <2>2, <2>3
  <1>2. QED
    BY <1>1, CallsHold, PTL
-----------------------------------------------------------------------------
(* The scan: which archiver is asked for a file it has listed *)

(* The names alone tell where the archives are, as the scan takes it.      *)
Straight ==
  \A n \in Nat : n < Len(lst) /\ is_archive(Last(lst[n + 1]))
                   => FileAt(realpath_fast(lst[n + 1])) = FileAt(lst[n + 1])

Readable(u) == u.plugin \notin {"", SevenZipArchiver.str} => Unpacker(u.plugin).kind = Item(u).kind

AllReadable(urls) == \E U : urls \in Seq(U) /\ \A u \in U : Readable(u)

(* A task of the scan: it is about the archive it was made for; the one    *)
(* that lists it is the one loader_out tells; and a call of it that will   *)
(* succeed has been given an archive it can list.                          *)
OpensArchive(j) ==
  /\ j.url = FromString("file", j.url.payload)
  /\ FileAt(realpath_fast(j.url.payload)) = FileAt(j.url.payload)

JobFields == {"task", "url", "step", "loader", "archiver", "retried"}

ListsWell(t) ==
  LET j == job[t]
  IN  \/ j.task = "none" /\ j.step = "idle" /\ phase[t] = "none"
      \/ /\ j.task = "list" /\ j.step \in {"start", "list"}
         /\ JobFields \subseteq DOMAIN j
         /\ OpensArchive(j)
         /\ j.step = "start" => j.retried = FALSE
         /\ j.retried => j.loader = j.archiver
         /\ phase[t] # "none" => j.step = "list"
         /\ j.step = "list" => j.archiver \in Archivers \cup {NoArchiver}
         /\ phase[t] # "none" /\ child[t].outcome = 0 => Item(j.url).kind = j.archiver.plugin.kind

Scanning ==
  /\ walked \in Nat
  /\ job = [t \in Threads |-> job[t]]
  /\ \A p \in DOMAIN sublists : AllReadable(sublists[p])
  /\ \A t \in Threads : ListsWell(t)

ScanInv == world \in Worlds /\ AllReadable(found) /\ (stage = "scan" => Scanning)

(* What is in a sequence does not depend on which set it is taken from.    *)
LEMMA AllReadableParts ==
  ASSUME NEW urls, AllReadable(urls)
  PROVE  \A i \in DOMAIN urls : Readable(urls[i])
  <1>1. PICK U : urls \in Seq(U) /\ \A u \in U : Readable(u)
    BY DEF AllReadable
  <1> HIDE DEF Readable
  <1>2. QED
    BY <1>1

(* No URL at all.                                                          *)
LEMMA NothingReadable == AllReadable(<<>>)
  <1>1. PICK U : U = {}
    OBVIOUS
  <1>2. <<>> \in Seq(U)
    OBVIOUS
  <1>3. \A u \in U : Readable(u)
    BY <1>1
  <1>4. QED
    BY <1>2, <1>3 DEF AllReadable

(* Joining lists of readable URLs.                                         *)
LEMMA JoinReadable ==
  ASSUME NEW s, NEW r, AllReadable(s), AllReadable(r)
  PROVE  AllReadable(s \o r)
  <1>1. PICK U : s \in Seq(U) /\ \A u \in U : Readable(u)
    BY DEF AllReadable
  <1>2. PICK V : r \in Seq(V) /\ \A u \in V : Readable(u)
    BY DEF AllReadable
  <1> HIDE DEF Readable
  <1> DEFINE W == U \cup V
  <1>3. s \in Seq(W) /\ r \in Seq(W) /\ \A u \in W : Readable(u)
    BY <1>1, <1>2
  <1>4. s \o r \in Seq(W)
    BY <1>3
  <1>5. QED
    BY <1>3, <1>4 DEF AllReadable

(* SetToSeq() of a finite set is a sequence of its elements.               *)
LEMMA ListOf ==
  ASSUME NEW S, IsFiniteSet(S) PROVE SetToSeq(S) \in Seq(S)
  <1>1. Cardinality(S) \in Nat /\ ExistsBijection(1 .. Cardinality(S), S)
    BY FS_CardinalityType
  <1>2. PICK f \in [1 .. Cardinality(S) -> S] : IsInjective(f)
    BY <1>1 DEF ExistsBijection, Bijection, Injection, IsInjective
  <1>3. SetToSeq(S) \in [1 .. Cardinality(S) -> S]
    BY <1>2 DEF SetToSeq
  <1>4. QED
    BY <1>1, <1>3

(* And a list of readable URLs is one of each of its elements.             *)
LEMMA MapReadable ==
  ASSUME NEW g, NEW S, g \in Seq(S), NEW U, NEW f, DOMAIN f = 1 .. Len(g),
         f = [i \in 1 .. Len(g) |-> f[i]], \A i \in 1 .. Len(g) : f[i] \in U,
         \A u \in U : Readable(u)
  PROVE  AllReadable(f)
  <1> HIDE DEF Readable
  <1>1. Len(g) \in Nat
    OBVIOUS
  <1>2. f \in Seq(U)
    BY <1>1
  <1>3. QED
    BY <1>2 DEF AllReadable

(* Listing an archive: an archiver calls its plugin what get_blob() calls  *)
(* it, but for 7z (url.cpp:120-146).                                       *)
LEMMA MemberReadable ==
  ASSUME NEW path, NEW archiver \in Archivers \cup {NoArchiver}, NEW m,
         FileAt(path).kind = archiver.plugin.kind
  PROVE  Readable(MemberUrl(path, archiver, m))
  <1> DEFINE u == MemberUrl(path, archiver, m)
  <1>1. u.plugin = archiver.str /\ Item(u) = FileAt(path)
    BY DEF MemberUrl, Item, is_remote
  <1>2. archiver.str # SevenZipArchiver.str => Unpacker(archiver.str) = archiver.plugin
    BY DEF Archivers, NoArchiver, NoPlugin, RarArchiver, ZipArchiver, TarArchiver, SevenZipArchiver, Archiver,
       Unpacker, RarPlugin, ZipPlugin, TarPlugin, SevenZipPlugin, Plugin
  <1> HIDE DEF u
  <1>3. QED
    BY <1>1, <1>2 DEF Readable, u

(* The world does not change, and the scan's list of paths neither.        *)
LEMMA WorldStays ==
  ASSUME [Next]_vars
  PROVE  /\ world' = world /\ lst' = lst
         /\ stage # "scan" => stage' # "scan"
  <1>1. CASE UNCHANGED vars
    BY <1>1 DEF vars, loadVars, scanVars
  <1>2. CASE Main
    BY <1>2 DEF Main, Walk, Gather, ScanDone, EntriesDone, TilesDone, Export, scanVars
  <1>3. ASSUME NEW t \in Threads, ThreadStep(t) PROVE UNCHANGED <<world, lst, stage>>
    BY <1>3 DEF ThreadStep, Acquire, TakeJob, Start, Fetch, Decode, Fit, Cut, Provide, Call, NoProgram, Return,
       scanVars, loadVars
  <1>4. CASE \E t \in Threads : ChildStep(t) /\ UNCHANGED loadVars
    BY <1>4 DEF loadVars, scanVars
  <1>5. QED
    BY <1>1, <1>2, <1>3, <1>4 DEF Next

(* So a file that is readable stays so.                                    *)
LEMMA ReadableStays ==
  ASSUME world' = world, NEW u PROVE Readable(u)' = Readable(u)
  BY DEF Readable, Item, FileAt, Missing

(* And a list of files that are readable.                                  *)
LEMMA ListStays ==
  ASSUME world' = world, NEW urls, AllReadable(urls)
  PROVE  \E U : urls \in Seq(U) /\ \A u \in U : Readable(u)'
  <1>1. PICK U : urls \in Seq(U) /\ \A u \in U : Readable(u)
    BY DEF AllReadable
  <1>2. \A u \in U : Readable(u)'
    BY <1>1, ReadableStays
  <1> HIDE DEF Readable
  <1>3. QED
    BY <1>1, <1>2

(* So the list of files is still one of readable files.                   *)
LEMMA FoundStays ==
  ASSUME world' = world, found' = found, AllReadable(found) PROVE AllReadable(found)'
  <1>1. \E U : found \in Seq(U) /\ \A u \in U : Readable(u)'
    BY ListStays
  <1> HIDE DEF Readable
  <1>2. QED
    BY <1>1 DEF AllReadable

(* The lists of the tasks, one of which may have come just now.            *)
LEMMA ListsStay ==
  ASSUME world' = world, \A p \in DOMAIN sublists : AllReadable(sublists[p]),
         \/ sublists' = sublists
         \/ \E p, urls : AllReadable(urls) /\ sublists' = WithList(p, urls)
  PROVE  (\A p \in DOMAIN sublists : AllReadable(sublists[p]))'
  <1>1. ASSUME NEW p \in DOMAIN sublists' PROVE AllReadable(sublists'[p])
    <2>1. CASE sublists' = sublists
      BY <2>1
    <2>2. ASSUME NEW q, NEW urls, AllReadable(urls), sublists' = WithList(q, urls)
          PROVE AllReadable(sublists'[p])
      BY <2>2 DEF WithList
    <2>3. QED
      BY <2>1, <2>2
  <1>2. ASSUME NEW p \in DOMAIN sublists'
        PROVE \E U : sublists'[p] \in Seq(U) /\ \A u \in U : Readable(u)'
    BY <1>1, ListStays
  <1> HIDE DEF Readable
  <1>3. QED
    BY <1>2 DEF AllReadable

(* Nobody moves an archive.                                                *)
LEMMA StraightStays == Straight /\ [Next]_vars => Straight'
  BY WorldStays DEF Straight, FileAt, Missing

(* A task that nothing happens to.                                         *)
LEMMA WellStays ==
  ASSUME NEW t \in Threads, ListsWell(t), world' = world, job'[t] = job[t],
         phase'[t] = "none" <=> phase[t] = "none", child'[t].outcome = child[t].outcome
  PROVE  ListsWell(t)'
  BY DEF ListsWell, OpensArchive, Item, FileAt, Missing

(* Neither a call nor its child changes what is going to come of it.       *)
LEMMA OutcomeStays ==
  ASSUME CallInv, NEW t \in Threads, CallStep(t) \/ ChildStep(t), NEW u \in Threads
  PROVE  /\ phase'[u] = "none" <=> phase[u] = "none"
         /\ child'[u].outcome = child[u].outcome
  <1>1. phase \in [Threads -> Phases] /\ child \in [Threads -> ChildType]
    BY DEF CallInv, CallsOK
  <1>2. phase'[u] = "none" <=> phase[u] = "none"
    <2>1. CASE CallStep(t)
      BY <1>1, <2>1 DEF CallStep, MakePipes, CannotFork, Fork, CloseChildsEnds, Feed, CloseStdin, Select, Reap
    <2>2. CASE ChildStep(t)
      BY <2>2 DEF ChildStep, ChildStarts, ChildReads, ChildWrites, ChildExits
    <2>3. QED
      BY <2>1, <2>2
  <1>3. \/ child' = child
        \/ \E s \in ChildStates : child' = [child EXCEPT ![t].state = s]
        \/ child' = [child EXCEPT ![t].at_end = TRUE]
        \/ \E p \in Outputs : child' = [child EXCEPT ![t].wrote[p] = @ + 1]
    <2>1. CASE CallStep(t)
      BY <2>1 DEF CallStep, MakePipes, CannotFork, Fork, CloseChildsEnds, Feed, CloseStdin, Select, Reap, ChildStates
    <2>2. CASE ChildStep(t)
      BY <2>2 DEF ChildStep, ChildStarts, ChildReads, ChildWrites, ChildExits, ChildStates, Outputs
    <2>3. QED
      BY <2>1, <2>2
  <1>4. CASE child' = child
    BY <1>2, <1>4
  <1>5. ASSUME NEW s \in ChildStates, child' = [child EXCEPT ![t].state = s]
        PROVE child'[u].outcome = child[u].outcome
    BY <1>1, <1>5 DEF ChildType
  <1>6. CASE child' = [child EXCEPT ![t].at_end = TRUE]
    BY <1>1, <1>2, <1>6 DEF ChildType
  <1>7. ASSUME NEW p \in Outputs, child' = [child EXCEPT ![t].wrote[p] = @ + 1]
        PROVE child'[u].outcome = child[u].outcome
    <2> DEFINE w == [child[t].wrote EXCEPT ![p] = @ + 1]
    <2>1. child' = [child EXCEPT ![t].wrote = w]
      BY <1>7
    <2> HIDE DEF w
    <2>2. QED
      BY <1>1, <2>1 DEF ChildType
  <1>8. QED
    BY <1>2, <1>3, <1>4, <1>5, <1>6, <1>7

-----------------------------------------------------------------------------
(* The steps of the scan *)

(* A job for an archive.                                                   *)
LEMMA NewListJob ==
  ASSUME NEW url
  PROVE  LET j == NewJob("list", url, 0)
         IN  /\ j.task = "list" /\ j.step = "start" /\ j.url = url /\ j.retried = FALSE
             /\ JobFields \subseteq DOMAIN j
  BY DEF NewJob, Idle, JobFields

(* A thread without a job.                                                 *)
LEMMA IdleWell ==
  ASSUME NEW t \in Threads
  PROVE  /\ job'[t] = Idle /\ phase'[t] = "none" => ListsWell(t)'
         /\ job[t] = Idle /\ ListsWell(t) => phase[t] = "none"
  BY DEF ListsWell, Idle

(* The next path: a task for an archive, or a file.                        *)
LEMMA WalkOK ==
  ASSUME CallInv, Straight, ScanInv, Walk PROVE ScanInv'
  <1>0. PICK path : path = lst[walked + 1]
    OBVIOUS
  <1>1. /\ stage = "scan" /\ walked \in Nat /\ walked < Len(lst) /\ walked' = walked + 1
        /\ UNCHANGED <<world, stage, sublists, phase, child>>
    BY DEF Walk, ScanInv, Scanning, execVars
  <1>2. world \in Worlds /\ Scanning /\ AllReadable(found)
    BY <1>1 DEF ScanInv
  <1>3. (\A p \in DOMAIN sublists : AllReadable(sublists[p]))'
    BY <1>1, <1>2, ListsStay DEF Scanning
  <1>4. CASE is_archive(Last(path))
    <2> DEFINE j == NewJob("list", FromString("file", path), 0)
    <2>1. PICK f \in Threads : job[f] = Idle /\ job' = [job EXCEPT ![f] = j] /\ found' = found
      BY <1>0, <1>4 DEF Walk, FreeThread
    <2>2. phase[f] = "none"
      BY <1>2, <2>1, IdleWell DEF Scanning
    <2>3. j.task = "list" /\ j.step = "start" /\ j.url = FromString("file", path) /\ j.retried = FALSE
         /\ JobFields \subseteq DOMAIN j
      BY NewListJob
    <2>4. FromString("file", path).payload = path
      BY DEF FromString
    <2>5. FileAt(realpath_fast(path)) = FileAt(path)
      BY <1>0, <1>1, <1>4 DEF Straight
    <2> HIDE DEF j
    <2>6. job' = [t \in Threads |-> job'[t]] /\ job'[f] = j /\ \A t \in Threads \ {f} : job'[t] = job[t]
      BY <1>2, <2>1 DEF Scanning
    <2>7. (FileAt(realpath_fast(path)) = FileAt(path))'
      BY <1>1, <2>5 DEF FileAt, Missing
    <2>8. ListsWell(f)'
      BY <1>1, <2>2, <2>3, <2>4, <2>6, <2>7 DEF ListsWell, OpensArchive
    <2>9. ASSUME NEW t \in Threads, t # f PROVE ListsWell(t)'
      BY <1>1, <1>2, <2>6, <2>9, WellStays DEF Scanning
    <2>10. QED
      BY <1>1, <1>2, <1>3, <2>1, <2>6, <2>8, <2>9, FoundStays DEF ScanInv, Scanning
  <1>5. CASE ~is_archive(Last(path))
    <2>1. job' = job /\ (found' = found \/ found' = Append(found, FromFilename(realpath_fast(path))))
      BY <1>0, <1>5 DEF Walk
    <2>2. Readable(FromFilename(realpath_fast(path)))'
      BY DEF Readable, FromFilename
    <2>3. AllReadable(found)'
      <3>1. PICK U : found \in Seq(U) /\ \A u \in U : Readable(u)'
        BY <1>1, <1>2, ListStays
      <3> DEFINE v == FromFilename(realpath_fast(path))
                 W == U \cup {v}
      <3> HIDE DEF v, Readable
      <3>2. found' \in Seq(W) /\ \A u \in W : Readable(u)'
        <4>1. found \in Seq(W) /\ v \in W /\ \A u \in W : Readable(u)'
          BY <2>2, <3>1 DEF v
        <4>2. Append(found, v) \in Seq(W)
          BY <4>1
        <4>3. QED
          BY <2>1, <4>1, <4>2 DEF v
      <3>3. QED
        BY <3>2 DEF AllReadable
    <2>4. \A t \in Threads : ListsWell(t)'
      BY <1>1, <1>2, <2>1, WellStays DEF Scanning
    <2>5. QED
      BY <1>1, <1>2, <1>3, <2>1, <2>3, <2>4 DEF ScanInv, Scanning
  <1>6. QED
    BY <1>4, <1>5

(* A step of the main thread that leaves the tasks alone.                  *)
LEMMA ScanKeeps ==
  ASSUME Scanning, UNCHANGED <<world, walked, sublists, job, phase, child>>
  PROVE  Scanning'
  <1>1. (\A p \in DOMAIN sublists : AllReadable(sublists[p]))'
    BY ListsStay DEF Scanning
  <1>2. \A t \in Threads : ListsWell(t)'
    BY WellStays DEF Scanning
  <1>3. QED
    BY <1>1, <1>2 DEF Scanning

(* task.get()                                                              *)
LEMMA GatherOK ==
  ASSUME ScanInv, Gather PROVE ScanInv'
  <1>1. /\ stage = "scan" /\ Head(tasks) \in DOMAIN sublists
        /\ found' = found \o sublists[Head(tasks)]
        /\ UNCHANGED <<world, stage, walked, sublists, job, phase, child>>
    BY DEF Gather, execVars
  <1>2. world \in Worlds /\ Scanning /\ AllReadable(found)
    BY <1>1 DEF ScanInv
  <1>3. AllReadable(found')
    <2>1. AllReadable(sublists[Head(tasks)])
      BY <1>1, <1>2 DEF Scanning
    <2>2. QED
      BY <1>1, <1>2, <2>1, JoinReadable
  <1>4. \E U : found' \in Seq(U) /\ \A u \in U : Readable(u)'
    BY <1>1, <1>3, ListStays
  <1>5. AllReadable(found)'
    <2> HIDE DEF Readable
    <2>1. QED
      BY <1>4 DEF AllReadable
  <1>6. QED
    BY <1>1, <1>2, <1>5, ScanKeeps DEF ScanInv

(* The pages of the command line join the list.                            *)
LEMMA ScanDoneOK ==
  ASSUME ScanInv, ScanDone PROVE ScanInv'
  <1>1. PICK pages : pages = SetToSeq(DOMAIN world.web)
    OBVIOUS
  <1> DEFINE Page(p) == FromString(IF world.web[p].kind = "mandelbrot" THEN "builtin" ELSE "http", p)
             more == [k \in DOMAIN pages |-> Page(pages[k])]
             U    == {Page(p) : p \in DOMAIN world.web}
  <1>2. world' = world /\ found' = found \o more /\ stage' # "scan"
    BY <1>1 DEF ScanDone
  <1>3. pages \in Seq(DOMAIN world.web)
    BY <1>1, ListOf, LoadingAssumption DEF ScanInv
  <1>4. \A p : Page(p).plugin = ""
    BY DEF FromString
  <1>5. \A u \in U : Readable(u)
    BY <1>4 DEF Readable
  <1>6. DOMAIN more = 1 .. Len(pages) /\ more = [k \in 1 .. Len(pages) |-> more[k]]
        /\ \A k \in 1 .. Len(pages) : more[k] \in U
    BY <1>3
  <1> HIDE DEF Readable, Page, U, more
  <1>7. AllReadable(more)
    BY <1>3, <1>5, <1>6, MapReadable
  <1>8. AllReadable(found')
    BY <1>2, <1>7, JoinReadable DEF ScanInv
  <1>9. \E V : found' \in Seq(V) /\ \A u \in V : Readable(u)'
    BY <1>2, <1>8, ListStays
  <1>10. QED
    BY <1>2, <1>9 DEF ScanInv, AllReadable

(* SemaphoreLock lock(task_limiter): the archiver of the file name.        *)
LEMMA AcquireOK ==
  ASSUME ScanInv, stage = "scan", NEW t \in Threads, Acquire(t) PROVE ScanInv'
  <1>1. PICK a \in Archivers \cup {NoArchiver} :
          job' = [job EXCEPT ![t].step = "list", ![t].archiver = a]
    <2>1. ArchiverByFilename(NameOf(job[t].url)) \in Archivers \cup {NoArchiver}
      BY DEF ArchiverByFilename, Only
    <2>2. QED
      BY <2>1 DEF Acquire
  <1>2. /\ At(t, {"list"}, "start")
        /\ UNCHANGED <<world, stage, walked, found, sublists, phase, child>>
    BY DEF Acquire, execVars
  <1>3. world \in Worlds /\ Scanning /\ AllReadable(found)
    BY DEF ScanInv
  <1>4. /\ job[t].task = "list" /\ job[t].step = "start" /\ JobFields \subseteq DOMAIN job[t]
        /\ OpensArchive(job[t]) /\ job[t].retried = FALSE /\ phase[t] = "none"
    BY <1>2, <1>3 DEF Scanning, ListsWell, At
  <1>5. /\ job' = [u \in Threads |-> job'[u]]
        /\ job'[t].task = "list" /\ job'[t].step = "list" /\ job'[t].archiver = a
        /\ job'[t].retried = FALSE /\ job'[t].url = job[t].url /\ JobFields \subseteq DOMAIN job'[t]
    <2> DEFINE j == [job[t] EXCEPT !.step = "list", !.archiver = a]
    <2>1. job' = [job EXCEPT ![t] = j]
      BY <1>1
    <2>2. /\ j.task = job[t].task /\ j.step = "list" /\ j.archiver = a /\ j.retried = job[t].retried
          /\ j.url = job[t].url /\ DOMAIN j = DOMAIN job[t]
      BY <1>4 DEF JobFields
    <2> HIDE DEF j
    <2>3. QED
      BY <1>3, <1>4, <2>1, <2>2 DEF Scanning
  <1>6. ListsWell(t)'
    BY <1>2, <1>4, <1>5 DEF ListsWell, OpensArchive, FileAt, Missing
  <1>7. ASSUME NEW u \in Threads, u # t PROVE ListsWell(u)'
    <2>1. job'[u] = job[u]
      BY <1>1, <1>3, <1>7 DEF Scanning
    <2>2. QED
      BY <1>2, <1>3, <2>1, WellStays DEF Scanning
  <1>8. (\A p \in DOMAIN sublists : AllReadable(sublists[p]))'
    BY <1>2, <1>3, ListsStay DEF Scanning
  <1>9. QED
    BY <1>2, <1>3, <1>5, <1>6, <1>7, <1>8, FoundStays DEF ScanInv, Scanning

(* A call of a program that lists: it succeeds only for an archive it can  *)
(* list.                                                                   *)
LEMMA CallOK2 ==
  ASSUME CallInv, ScanInv, stage = "scan", NEW t \in Threads, Call(t) PROVE ScanInv'
  <1>1. /\ AtCall(t) /\ phase[t] = "none"
        /\ Called(t, Input(t), MaySucceed(t))
        /\ UNCHANGED <<world, stage, walked, found, sublists, job>>
    BY DEF Call, loadVars, scanVars
  <1>2. world \in Worlds /\ Scanning /\ AllReadable(found)
    BY DEF ScanInv
  <1>3. job[t].task = "list" /\ job[t].step = "list"
    BY <1>1, <1>2 DEF AtCall, Scanning, ListsWell
  <1>4. Lister(t) = job[t].archiver
    BY <1>2, <1>3 DEF Lister, Scanning, ListsWell
  <1>5. phase' = [phase EXCEPT ![t] = "called"]
    BY <1>1 DEF Called
  <1>6. PICK c : /\ child' = [child EXCEPT ![t] = c]
                 /\ c.outcome = 0 => Item(job[t].url).kind = job[t].archiver.plugin.kind
    <2>1. PICK out \in {0, MaxOutput}, err \in {0, MaxErrors}, code \in {0, 1},
               order \in {"read", "write"} :
            /\ code = 0 => MaySucceed(t)
            /\ child' = [child EXCEPT ![t] =
                 [NoChild EXCEPT !.reads = Input(t) > 0, !.order = order,
                                 !.out = out, !.err = err, !.outcome = code]]
      BY <1>1 DEF Called
    <2> DEFINE reads == Input(t) > 0
               c == [NoChild EXCEPT !.reads = reads, !.order = order,
                                    !.out = out, !.err = err, !.outcome = code]
    <2>2. child' = [child EXCEPT ![t] = c]
      BY <2>1
    <2> HIDE DEF reads
    <2>3. c.outcome = code
      BY DEF NoChild
    <2>4. MaySucceed(t) => Item(job[t].url).kind = job[t].archiver.plugin.kind
      BY <1>3, <1>4 DEF MaySucceed
    <2> HIDE DEF c
    <2>5. QED
      BY <2>1, <2>2, <2>3, <2>4
  <1>7. phase \in [Threads -> Phases] /\ child \in [Threads -> ChildType]
    BY DEF CallInv, CallsOK
  <1>8. phase'[t] = "called" /\ child'[t] = c
    BY <1>5, <1>6, <1>7
  <1>9. ListsWell(t)'
    BY <1>1, <1>2, <1>3, <1>6, <1>8 DEF Scanning, ListsWell, OpensArchive, Item, FileAt, Missing
  <1>10. ASSUME NEW u \in Threads, u # t PROVE ListsWell(u)'
    <2>1. phase'[u] = phase[u] /\ child'[u] = child[u]
      BY <1>5, <1>6, <1>7, <1>10
    <2>2. QED
      BY <1>1, <1>2, <2>1, WellStays DEF Scanning
  <1>11. (\A p \in DOMAIN sublists : AllReadable(sublists[p]))'
    BY <1>1, <1>2, ListsStay DEF Scanning
  <1>12. QED
    BY <1>1, <1>2, <1>9, <1>10, <1>11, FoundStays DEF ScanInv, Scanning

(* What a task leaves of the scan's state, and of the other calls.         *)
LeavesOthers(t) ==
  /\ UNCHANGED <<world, stage, walked, found>>
  /\ phase'[t] = "none"
  /\ \A u \in Threads : u # t => phase'[u] = phase[u] /\ child'[u] = child[u]

(* The task is over.                                                       *)
LEMMA ListedOK ==
  ASSUME ScanInv, stage = "scan", NEW t \in Threads, NEW urls, AllReadable(urls), Listed(t, urls),
         LeavesOthers(t)
  PROVE  ScanInv'
  <1>1. world \in Worlds /\ Scanning /\ AllReadable(found)
    BY DEF ScanInv
  <1>2. /\ sublists' = WithList(job[t].url.payload, urls)
        /\ job' = [job EXCEPT ![t] = Idle]
        /\ UNCHANGED <<world, stage, walked, found>>
        /\ phase'[t] = "none"
        /\ \A u \in Threads : u # t => phase'[u] = phase[u] /\ child'[u] = child[u]
    BY DEF Listed, JobOver, LeavesOthers
  <1>3. job' = [u \in Threads |-> job'[u]] /\ job'[t] = Idle /\ \A u \in Threads : u # t => job'[u] = job[u]
    BY <1>1, <1>2 DEF Scanning
  <1>4. ListsWell(t)'
    BY <1>2, <1>3, IdleWell
  <1>5. ASSUME NEW u \in Threads, u # t PROVE ListsWell(u)'
    BY <1>1, <1>2, <1>3, <1>5, WellStays DEF Scanning
  <1>6. (\A p \in DOMAIN sublists : AllReadable(sublists[p]))'
    BY <1>1, <1>2, ListsStay DEF Scanning
  <1>7. QED
    BY <1>1, <1>2, <1>3, <1>4, <1>5, <1>6, FoundStays DEF ScanInv, Scanning

(* The archiver of the magic tries, or nothing is listed.                  *)
LEMMA ListFailedOK ==
  ASSUME ScanInv, stage = "scan", NEW t \in Threads, job[t].step = "list", ListFailed(t), LeavesOthers(t)
  PROVE  ScanInv'
  <1>1. world \in Worlds /\ Scanning /\ AllReadable(found)
    BY DEF ScanInv
  <1>2. PICK other : other = ArchiverByMagic(Data(job[t].url))
    OBVIOUS
  <1>3. other \in Archivers \cup {NoArchiver}
    BY <1>2 DEF ArchiverByMagic, Only
  <1>4. CASE Listed(t, <<>>)
    BY <1>4, NothingReadable, ListedOK
  <1>5. CASE job' = [job EXCEPT ![t] = Retried(@, other)] /\ UNCHANGED <<sublists, permits>>
    <2>1. /\ job[t].task = "list" /\ job[t].step = "list" /\ JobFields \subseteq DOMAIN job[t]
          /\ OpensArchive(job[t])
      BY <1>1 DEF Scanning, ListsWell
    <2> DEFINE j == [job[t] EXCEPT !.archiver = other, !.loader = other, !.retried = TRUE]
    <2>2. job' = [job EXCEPT ![t] = j]
      BY <1>5 DEF Retried
    <2>3. /\ j.task = "list" /\ j.step = "list" /\ j.archiver = other /\ j.loader = other
          /\ j.url = job[t].url /\ DOMAIN j = DOMAIN job[t]
      BY <2>1 DEF JobFields
    <2> HIDE DEF j
    <2>4. job' = [u \in Threads |-> job'[u]] /\ job'[t] = j /\ \A u \in Threads : u # t => job'[u] = job[u]
      BY <1>1, <2>2 DEF Scanning
    <2>5. ListsWell(t)'
      BY <1>3, <2>1, <2>3, <2>4 DEF ListsWell, OpensArchive, FileAt, Missing, LeavesOthers
    <2>6. ASSUME NEW u \in Threads, u # t PROVE ListsWell(u)'
      BY <1>1, <2>4, <2>6, WellStays DEF Scanning, LeavesOthers
    <2>7. (\A p \in DOMAIN sublists : AllReadable(sublists[p]))'
      BY <1>1, <1>5, ListsStay DEF Scanning, LeavesOthers
    <2>8. QED
      BY <1>1, <2>4, <2>5, <2>6, <2>7, FoundStays DEF ScanInv, Scanning, LeavesOthers
  <1>6. QED
    BY <1>2, <1>4, <1>5 DEF ListFailed

(* The files of the archive.                                               *)
LEMMA ListDoneOK ==
  ASSUME ScanInv, stage = "scan", NEW t \in Threads, job[t].step = "list", phase[t] # "none",
         child[t].outcome = 0, ListDone(t), LeavesOthers(t)
  PROVE  ScanInv'
  <1>1. PICK a, path, ms : /\ a = job[t].archiver /\ path = realpath_fast(job[t].url.payload)
                           /\ ms = Item(job[t].url).members
    OBVIOUS
  <1> DEFINE S == {m \in DOMAIN ms : has_supported_extension(Tools, ms[m].name)}
  <1>2. PICK good : good = SetToSeq(S)
    OBVIOUS
  <1> DEFINE urls == [i \in 1 .. Len(good) |-> MemberUrl(path, a, good[i])]
             U    == {MemberUrl(path, a, m) : m \in S}
  <1>3. Listed(t, urls)
    BY <1>1, <1>2 DEF ListDone
  <1>4. /\ OpensArchive(job[t]) /\ a \in Archivers \cup {NoArchiver}
        /\ Item(job[t].url).kind = a.plugin.kind
    BY <1>1 DEF ScanInv, Scanning, ListsWell
  <1>5. Item(job[t].url) = FileAt(job[t].url.payload) /\ FileAt(path) = FileAt(job[t].url.payload)
    <2>1. \A f : ~is_remote(FromString("file", f))
      BY DEF is_remote, FromString
    <2>2. ~is_remote(job[t].url)
      BY <1>4, <2>1, Zenon DEF OpensArchive
    <2>3. QED
      BY <1>1, <1>4, <2>2 DEF OpensArchive, Item
  <1>6. \A m : Readable(MemberUrl(path, a, m))
    BY <1>4, <1>5, MemberReadable
  <1>7. IsFiniteSet(DOMAIN ms)
    <2> DEFINE p == Resolved(world.tree, job[t].url.payload)
    <2>1. CASE p \in DOMAIN world.tree /\ world.tree[p].type = "file"
      <3>1. ms = world.tree[p].file.members
        BY <1>1, <1>5, <2>1 DEF FileAt
      <3> HIDE DEF p
      <3>2. QED
        BY <2>1, <3>1, LoadingAssumption DEF ScanInv
    <2>2. CASE ~(p \in DOMAIN world.tree /\ world.tree[p].type = "file")
      <3>1. ms = <<>>
        <4>1. FileAt(job[t].url.payload) = Missing
          BY <2>2 DEF FileAt
        <4>2. Missing.members = <<>>
          BY DEF Missing
        <4>3. QED
          BY <1>1, <1>5, <4>1, <4>2
      <3>2. DOMAIN ms = {}
        BY <3>1
      <3>3. QED
        BY <3>2, FS_EmptySet
    <2>3. QED
      BY <2>1, <2>2
  <1>8. IsFiniteSet(S)
    BY <1>7, FS_Subset
  <1> HIDE DEF S
  <1>9. good \in Seq(S)
    BY <1>2, <1>8, ListOf
  <1>10. DOMAIN urls = 1 .. Len(good) /\ urls = [i \in 1 .. Len(good) |-> urls[i]]
         /\ \A i \in 1 .. Len(good) : urls[i] \in U
    BY <1>9
  <1>11. \A u \in U : Readable(u)
    BY <1>6
  <1> HIDE DEF Readable, urls, U
  <1>12. AllReadable(urls)
    BY <1>9, <1>10, <1>11, MapReadable
  <1>13. QED
    BY <1>3, <1>12, ListedOK

(* The program is not installed.                                           *)
LEMMA NoProgramOK ==
  ASSUME ScanInv, stage = "scan", NEW t \in Threads, NoProgram(t) PROVE ScanInv'
  <1>1. job[t].step = "list"
    BY DEF NoProgram, AtCall, ScanInv, Scanning, ListsWell
  <1>2. ListFailed(t)
    BY <1>1 DEF NoProgram, CallFailed
  <1>3. LeavesOthers(t)
    BY DEF NoProgram, execVars, LeavesOthers
  <1>4. QED
    BY <1>1, <1>2, <1>3, ListFailedOK

(* The program has ended, or could not be started.                         *)
LEMMA ReturnOK ==
  ASSUME CallInv, ScanInv, stage = "scan", NEW t \in Threads, Return(t) PROVE ScanInv'
  <1>1. job[t].step = "list" /\ phase[t] # "none"
    BY DEF Return, AtCall, ScanInv, Scanning, ListsWell
  <1>2. LeavesOthers(t)
    BY DEF Return, CallOver, LeavesOthers, CallInv, CallsOK
  <1>3. CASE ~Good(t)
    BY <1>1, <1>2, <1>3, ListFailedOK DEF Return, CallFailed
  <1>4. CASE Good(t)
    <2>1. ListDone(t) /\ child[t].outcome = 0
      BY <1>1, <1>4 DEF Return, Good, Succeeded, ExitCode
    <2>2. QED
      BY <1>1, <1>2, <2>1, ListDoneOK
  <1>5. QED
    BY <1>3, <1>4

(* Nobody takes a job, nor loads a picture, before the scan is done.       *)
LEMMA OnlyLists ==
  ASSUME ScanInv, stage = "scan", NEW t \in Threads
  PROVE  ~(TakeJob(t) \/ Start(t) \/ Fetch(t) \/ Decode(t) \/ Fit(t) \/ Cut(t) \/ Provide(t))
  BY DEF TakeJob, Start, Fetch, Decode, Fit, Cut, Provide, At, ScanInv, Scanning, ListsWell

(* A call goes on, or its child.                                           *)
LEMMA CallGoesOn ==
  ASSUME CallInv, ScanInv, stage = "scan", NEW t \in Threads, CallStep(t) \/ ChildStep(t),
         UNCHANGED loadVars
  PROVE  ScanInv'
  <1>1. UNCHANGED <<world, stage, walked, found, sublists, job>>
    BY DEF loadVars, scanVars
  <1>2. world \in Worlds /\ Scanning /\ AllReadable(found)
    BY DEF ScanInv
  <1>3. ASSUME NEW u \in Threads PROVE ListsWell(u)'
    <2>1. (phase'[u] = "none" <=> phase[u] = "none") /\ child'[u].outcome = child[u].outcome
      BY OutcomeStays
    <2>2. ListsWell(u)
      BY <1>2 DEF Scanning
    <2>3. QED
      BY <1>1, <2>1, <2>2, WellStays
  <1>4. (\A p \in DOMAIN sublists : AllReadable(sublists[p]))'
    BY <1>1, <1>2, ListsStay DEF Scanning
  <1>5. QED
    BY <1>1, <1>2, <1>3, <1>4, FoundStays DEF ScanInv, Scanning

(* After the scan the list of files stays as it is.                        *)
LEMMA AfterScan ==
  ASSUME ScanInv, stage # "scan", [Next]_vars PROVE ScanInv'
  <1>1. found' = found
    <2>1. CASE UNCHANGED vars
      BY <2>1 DEF vars, loadVars, scanVars
    <2>2. CASE Main
      BY <2>2 DEF Main, Walk, Gather, ScanDone, EntriesDone, TilesDone, Export, scanVars
    <2>3. ASSUME NEW t \in Threads, ThreadStep(t) PROVE found' = found
      BY <2>3 DEF ThreadStep, Acquire, TakeJob, Start, Fetch, Decode, Fit, Cut, Provide, Call, NoProgram,
         Return, scanVars, loadVars
    <2>4. CASE \E t \in Threads : ChildStep(t) /\ UNCHANGED loadVars
      BY <2>4 DEF loadVars, scanVars
    <2>5. QED
      BY <2>1, <2>2, <2>3, <2>4 DEF Next
  <1>2. world' = world /\ stage' # "scan"
    BY WorldStays
  <1>3. QED
    BY <1>1, <1>2, FoundStays DEF ScanInv

(* Every step of the scan, and of what comes after it.                     *)
LEMMA ScanStep == CallInv /\ Straight /\ ScanInv /\ [Next]_vars => ScanInv'
  <1> SUFFICES ASSUME CallInv, Straight, ScanInv, [Next]_vars, stage = "scan" PROVE ScanInv'
    BY AfterScan
  <1>1. CASE UNCHANGED vars
    <2>1. UNCHANGED <<world, stage, walked, found, sublists, job, phase, child>>
      BY <1>1 DEF vars, loadVars, scanVars, execVars
    <2>2. QED
      BY <2>1, ScanKeeps, FoundStays DEF ScanInv
  <1>2. CASE Main
    <2>1. CASE EntriesDone \/ TilesDone \/ Export
      BY <2>1 DEF EntriesDone, TilesDone, Export
    <2>2. QED
      BY <1>2, <2>1, WalkOK, GatherOK, ScanDoneOK DEF Main
  <1>3. ASSUME NEW t \in Threads, ThreadStep(t) PROVE ScanInv'
    BY <1>3, OnlyLists, AcquireOK, CallOK2, NoProgramOK, ReturnOK, CallGoesOn DEF ThreadStep
  <1>4. ASSUME NEW t \in Threads, ChildStep(t), UNCHANGED loadVars PROVE ScanInv'
    BY <1>4, CallGoesOn
  <1>5. QED
    BY <1>1, <1>2, <1>3, <1>4 DEF Next

(* The scan has found nothing yet.                                         *)
LEMMA ScanInit == Init => ScanInv
  <1> SUFFICES ASSUME Init PROVE ScanInv
    OBVIOUS
  <1>1. /\ world \in Worlds /\ walked = 0 /\ found = <<>> /\ sublists = <<>>
        /\ job = [t \in Threads |-> Idle] /\ phase = [t \in Threads |-> "none"]
    BY DEF Init, ExecInit
  <1>2. AllReadable(found)
    BY <1>1, NothingReadable
  <1>3. ASSUME NEW t \in Threads PROVE ListsWell(t)
    BY <1>1 DEF ListsWell, Idle
  <1>4. DOMAIN sublists = {}
    BY <1>1
  <1>5. QED
    BY <1>1, <1>2, <1>3, <1>4 DEF ScanInv, Scanning

(* MembersReadable: a file listed in an archive is asked of the archiver   *)
(* that could list it, whatever the archive is called, whichever archiver  *)
(* was tried first, and however many threads list archives at a time; but  *)
(* for 7z, whose URLs no plugin answers to (archive_manager.cpp:111-150,   *)
(* filesystem.cpp:370-381, url.cpp:120-146).  Straight leaves out what     *)
(* realpath_fast() gets wrong: archives behind a path that goes up from    *)
(* behind a link.                                                          *)
THEOREM MembersReadableHolds == Spec /\ Straight => []MembersReadable
  <1>1. ScanInv => MembersReadable
    <2> SUFFICES ASSUME ScanInv PROVE MembersReadable
      OBVIOUS
    <2>1. \A i \in DOMAIN found : Readable(found[i])
      BY AllReadableParts DEF ScanInv
    <2>2. QED
      BY <2>1, Zenon DEF Readable, MembersReadable
  <1>2. QED
    BY <1>1, ScanInit, ScanStep, StraightStays, CallsHold, PTL DEF Spec

================================================================================
