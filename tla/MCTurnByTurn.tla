---------------------------- MODULE MCTurnByTurn ----------------------------
(***************************************************************************)
(* TurnByTurn on small instances.  With one thread for the worker, two     *)
(* divergences make a reroute; one more thread would need a third, for     *)
(* else one look of each could make a reroute within another.              *)
(***************************************************************************)
EXTENDS TurnByTurn

CONSTANTS w1

MCWorkers == {w1}

=============================================================================
