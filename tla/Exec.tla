-------------------------------- MODULE Exec --------------------------------
(***************************************************************************)
(* src/util/exec.cpp: calls of external programs, from several threads at  *)
(* once.  Each thread has at most one call, which has three pipes to and   *)
(* from a child process.  The program and its children are processes with  *)
(* descriptors: the ends of pipes they hold.  A fork() copies all of them, *)
(* also those of the other threads' calls, and nothing closes these on     *)
(* exec; a pipe is at its end when nobody holds its writing end.           *)
(*                                                                         *)
(* Data are counted in pieces: what one read() takes.  Not modelled: the   *)
(* descriptors a failing pipe() leaves open, a select() or read() that     *)
(* fails, and a program that a signal ends, which the code takes for one   *)
(* that has succeeded.                                                     *)
(***************************************************************************)
EXTENDS Integers, Sequences, FiniteSets

CONSTANTS
  Threads,     \* numbers from 1 on
  PipeSize,    \* pieces that fit in a pipe
  MaxOutput,   \* bound of the model: pieces a program that writes to stdout does
  MaxErrors    \* bound of the model: and one that writes to stderr

ASSUME ExecAssumption ==
  /\ Threads \subseteq Nat \ {0}
  /\ PipeSize \in Nat \ {0}
  /\ MaxOutput \in Nat /\ MaxErrors \in Nat

Galapix == 0
Processes == Threads \cup {Galapix}
Pipes == {"stdin", "stdout", "stderr"}
Ends  == Pipes \X {"read", "write"}

VARIABLES
  phase,    \* where the call of a thread is
  to_write, \* pieces of m_stdin_data it has not written
  pipe,     \* pieces in its pipes
  got,      \* m_stdout_vec and m_stderr_vec: pieces read from each
  eof,      \* stdout_eof and stderr_eof, as the set of those at their end
  child,    \* its child process: what it does, has done and is going to do
  fds,      \* the ends each process holds
  killed    \* SIGPIPE has ended the program

execVars == <<phase, to_write, pipe, got, eof, child, fds, killed>>

NoChild == [state |-> "none", reads |-> FALSE, order |-> "read",
            out |-> 0, err |-> 0, wrote |-> [stdout |-> 0, stderr |-> 0],
            at_end |-> FALSE, outcome |-> 1]

ExecInit ==
  /\ phase = [t \in Threads |-> "none"]
  /\ to_write = [t \in Threads |-> 0]
  /\ pipe = [t \in Threads |-> [p \in Pipes |-> 0]]
  /\ got = [t \in Threads |-> [stdout |-> 0, stderr |-> 0]]
  /\ eof = [t \in Threads |-> {}]
  /\ child = [t \in Threads |-> NoChild]
  /\ fds = [p \in Processes |-> {}]
  /\ killed = FALSE

End(t, p, side) == <<t, p, side>>
OwnEnds(t)      == {End(t, e[1], e[2]) : e \in Ends}
Open(end)       == \E p \in Processes : end \in fds[p]
Closed(p, ends) == fds' = [fds EXCEPT ![p] = @ \ ends]

(* The call: exec(), with the data set_stdin() was given.  A program which *)
(* is told to read them reads stdin; what it will say is up to it, but it  *)
(* can only succeed if it may, and says something if it fails.             *)
Called(t, input, may_succeed) ==
  /\ phase' = [phase EXCEPT ![t] = "called"]
  /\ to_write' = [to_write EXCEPT ![t] = input]
  /\ \E out \in {0, MaxOutput}, err \in {0, MaxErrors}, code \in {0, 1},
        order \in {"read", "write"} :
       /\ IF code = 0 THEN may_succeed /\ out > 0 ELSE err > 0
       /\ input = 0 => order = "read"
       /\ child' = [child EXCEPT ![t] =
            [NoChild EXCEPT !.reads = input > 0, !.order = order,
                            !.out = out, !.err = err, !.outcome = code]]
  /\ UNCHANGED <<pipe, got, eof, fds, killed>>

-----------------------------------------------------------------------------
(* The calling thread *)

MakePipes(t) ==
  /\ phase[t] = "called"
  /\ fds' = [fds EXCEPT ![Galapix] = @ \cup OwnEnds(t)]
  /\ phase' = [phase EXCEPT ![t] = "piped"]
  /\ UNCHANGED <<to_write, pipe, got, eof, child, killed>>

(* pipe() or fork() fails. *)
CannotFork(t) ==
  /\ phase[t] \in {"called", "piped"}
  /\ Closed(Galapix, OwnEnds(t))
  /\ phase' = [phase EXCEPT ![t] = "threw"]
  /\ UNCHANGED <<to_write, pipe, got, eof, child, killed>>

(* The child has a copy of every descriptor the program has at this moment.*)
Fork(t) ==
  /\ phase[t] = "piped"
  /\ fds' = [fds EXCEPT ![t] = fds[Galapix]]
  /\ child' = [child EXCEPT ![t].state = "forked"]
  /\ phase' = [phase EXCEPT ![t] = "forked"]
  /\ UNCHANGED <<to_write, pipe, got, eof, killed>>

ChildsEnds(t)  == {End(t, "stdin", "read"), End(t, "stdout", "write"), End(t, "stderr", "write")}
CallersEnds(t) == OwnEnds(t) \ ChildsEnds(t)

CloseChildsEnds(t) ==
  /\ phase[t] = "forked"
  /\ Closed(Galapix, ChildsEnds(t))
  /\ phase' = [phase EXCEPT ![t] = "feeding"]
  /\ UNCHANGED <<to_write, pipe, got, eof, child, killed>>

(* write() of all of stdin, which blocks while the pipe is full and raises *)
(* SIGPIPE, which nobody handles, when nobody can read it any more.        *)
Feed(t) ==
  /\ phase[t] = "feeding" /\ to_write[t] > 0
  /\ IF Open(End(t, "stdin", "read"))
     THEN /\ pipe[t]["stdin"] < PipeSize
          /\ pipe' = [pipe EXCEPT ![t]["stdin"] = @ + 1]
          /\ to_write' = [to_write EXCEPT ![t] = @ - 1]
          /\ UNCHANGED killed
     ELSE /\ killed' = TRUE
          /\ UNCHANGED <<pipe, to_write>>
  /\ UNCHANGED <<phase, got, eof, child, fds>>

CloseStdin(t) ==
  /\ phase[t] = "feeding" /\ to_write[t] = 0
  /\ Closed(Galapix, {End(t, "stdin", "write")})
  /\ phase' = [phase EXCEPT ![t] = "reading"]
  /\ UNCHANGED <<to_write, pipe, got, eof, child, killed>>

(* Mutant of AtEnd: a pipe nobody writes to any more is taken for read.    *)
AtEndHungUp(t, p) == ~Open(End(t, p, "write"))

AtEnd(t, p) == pipe[t][p] = 0 /\ ~Open(End(t, p, "write"))

(* One turn of the loop: select(), and a read() from all that is ready.    *)
Select(t) ==
  LET ready == {p \in {"stdout", "stderr"} \ eof[t] : pipe[t][p] > 0 \/ AtEnd(t, p)}
      ended == {p \in ready : AtEnd(t, p)}
  IN  /\ phase[t] = "reading"
      /\ ready # {}
      /\ pipe' = [pipe EXCEPT ![t] = [p \in Pipes |-> IF p \in ready \ ended THEN @[p] - 1 ELSE @[p]]]
      /\ got' = [got EXCEPT ![t] = [p \in DOMAIN @ |-> IF p \in ready \ ended THEN @[p] + 1 ELSE @[p]]]
      /\ eof' = [eof EXCEPT ![t] = @ \cup ended]
      /\ Closed(Galapix, {End(t, p, "read") : p \in ended})
      /\ phase' = [phase EXCEPT ![t] = IF eof'[t] = {"stdout", "stderr"} THEN "waiting" ELSE @]
      /\ UNCHANGED <<to_write, child, killed>>

(* waitpid(), and the exit code *)
Reap(t) ==
  /\ phase[t] = "waiting"
  /\ child[t].state = "exited"
  /\ phase' = [phase EXCEPT ![t] = "returned"]
  /\ UNCHANGED <<to_write, pipe, got, eof, child, fds, killed>>

ExitCode(t) == child[t].outcome
Succeeded(t) == phase[t] = "returned" /\ ExitCode(t) = 0

(* The Exec object goes; whoever still holds an end of its pipes holds a   *)
(* pipe nobody will use.                                                   *)
CallOver(t) ==
  /\ phase' = [phase EXCEPT ![t] = "none"]
  /\ to_write' = [to_write EXCEPT ![t] = 0]
  /\ pipe' = [pipe EXCEPT ![t] = [p \in Pipes |-> 0]]
  /\ got' = [got EXCEPT ![t] = [stdout |-> 0, stderr |-> 0]]
  /\ eof' = [eof EXCEPT ![t] = {}]
  /\ child' = [child EXCEPT ![t] = NoChild]
  /\ fds' = [p \in Processes |-> fds[p] \ OwnEnds(t)]
  /\ UNCHANGED killed

-----------------------------------------------------------------------------
(* The child *)

(* It closes the ends that are the caller's and becomes the program.  What *)
(* cannot be executed says so, and is a program that fails.                *)
ChildStarts(t) ==
  /\ child[t].state = "forked"
  /\ Closed(t, CallersEnds(t))
  /\ child' = [child EXCEPT ![t].state = "running"]
  /\ UNCHANGED <<phase, to_write, pipe, got, eof, killed>>

HasRead(t)    == ~child[t].reads \/ child[t].at_end
HasWritten(t) == child[t].wrote = [stdout |-> child[t].out, stderr |-> child[t].err]

ChildReads(t) ==
  /\ child[t].state = "running" /\ ~HasRead(t)
  /\ child[t].order = "read" \/ HasWritten(t)
  /\ IF pipe[t]["stdin"] > 0
     THEN pipe' = [pipe EXCEPT ![t]["stdin"] = @ - 1] /\ UNCHANGED child
     ELSE /\ AtEnd(t, "stdin")
          /\ child' = [child EXCEPT ![t].at_end = TRUE]
          /\ UNCHANGED pipe
  /\ UNCHANGED <<phase, to_write, got, eof, fds, killed>>

ChildWrites(t) ==
  /\ child[t].state = "running"
  /\ child[t].order = "write" \/ HasRead(t) \/ child[t].outcome # 0
  /\ \E p \in {"stdout", "stderr"} :
       /\ child[t].wrote[p] < (IF p = "stdout" THEN child[t].out ELSE child[t].err)
       /\ pipe[t][p] < PipeSize
       /\ pipe' = [pipe EXCEPT ![t][p] = @ + 1]
       /\ child' = [child EXCEPT ![t].wrote[p] = @ + 1]
  /\ UNCHANGED <<phase, to_write, got, eof, fds, killed>>

(* A program that fails need not have read its input. *)
ChildExits(t) ==
  /\ child[t].state = "running" /\ HasWritten(t)
  /\ HasRead(t) \/ child[t].outcome # 0
  /\ child' = [child EXCEPT ![t].state = "exited"]
  /\ Closed(t, fds[t])
  /\ UNCHANGED <<phase, to_write, pipe, got, eof, killed>>

CallStep(t) ==
  \/ MakePipes(t) \/ CannotFork(t) \/ Fork(t) \/ CloseChildsEnds(t)
  \/ Feed(t) \/ CloseStdin(t) \/ Select(t) \/ Reap(t)

ChildStep(t) == ChildStarts(t) \/ ChildReads(t) \/ ChildWrites(t) \/ ChildExits(t)

-----------------------------------------------------------------------------
(* The ways in which a call never returns *)

AwaitsInput(t) == child[t].state = "running" /\ ~HasRead(t) /\ pipe[t]["stdin"] = 0

(* The program wants to be read before it reads, and the caller to be read *)
(* before it reads (exec.cpp:151-166).                                     *)
StuckWriting(t) ==
  /\ phase[t] = "feeding" /\ to_write[t] > 0 /\ pipe[t]["stdin"] = PipeSize
  /\ child[t].state = "running" /\ ~HasWritten(t)
  /\ \E p \in {"stdout", "stderr"} : pipe[t][p] = PipeSize

(* Two children wait for the end of their input, and each holds the        *)
(* writing end of the other's (exec.cpp:62-91).                            *)
CrossedPipes ==
  \E t, u \in Threads :
    /\ t # u
    /\ AwaitsInput(t) /\ AwaitsInput(u)
    /\ End(t, "stdin", "write") \in fds[u]
    /\ End(u, "stdin", "write") \in fds[t]

(* OutputComplete: a call that returns has all its program wrote, to       *)
(* stdout and to stderr, however much that was, in whatever order it came, *)
(* and whoever else still held an end of its pipes (exec.cpp:168-255).     *)
OutputComplete == \A t \in Threads : phase[t] \in {"waiting", "returned"} => got[t] = child[t].wrote
===============================================================================
