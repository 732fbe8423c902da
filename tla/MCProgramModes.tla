---------------------------- MODULE MCProgramModes ----------------------------
(* Instances of ProgramModes for TLC. *)
EXTENDS ProgramModes, TLC

TwoFiles == 1 .. 2
AllModes == {"view", "thumbgen", "filegen", "test"}
(* The first has two scales, the second is small enough for one. *)
Small    == <<1, 0>>
Thumbgen == {"thumbgen"}
===============================================================================
