----------------------------- MODULE MCLifoPool -----------------------------
(***************************************************************************)
(* LifoPool on small instances.  Four tasks and two workers over a queue   *)
(* of two (taskBufferSize = 0) or three: the queue overflows by submit()   *)
(* and by terminators, and workers can be idle, busy, dead or stopped when *)
(* the shutdown comes.                                                     *)
(***************************************************************************)
EXTENDS LifoPool

CONSTANTS w1, w2

MCTasks == 1..4
MCWorkers == {w1, w2}

=============================================================================
