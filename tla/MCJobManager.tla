---------------------------- MODULE MCJobManager ----------------------------
(* Instances of JobManager for TLC. *)
EXTENDS JobManager, TLC

CONSTANTS j1, j2, j3, c1, c2

ThreeJobs  == {j1, j2, j3}
TwoJobs    == {j1, j2}
OneJob     == {j1}
TwoClients == {c1, c2}
OneClient  == {c1}

(* Jobs that report on their handle, whatever happens to them. *)
ReportingOutcomes == {"finished", "failed"}
SomeOutcomes      == {"finished", "unreported"}

NobodyWaits == {}

Both == {"stop", "abort"}

Symmetry == Permutations(ThreeJobs) \cup Permutations(TwoClients)
===============================================================================
