------------------------ MODULE MCThreadMessageQueue2 ------------------------
(* Instances of ThreadMessageQueue2 for TLC. *)
EXTENDS ThreadMessageQueue2, TLC

CONSTANTS p1, p2, c1

(* Every queue of the program is emptied by one thread. *)
TwoProducers == {p1, p2}
OneConsumer  == {c1}
===============================================================================
