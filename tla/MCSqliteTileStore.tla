-------------------------- MODULE MCSqliteTileStore --------------------------
(***************************************************************************)
(* SqliteTileStore with two tiles whose data takes one or two units, and   *)
(* storage databases of three: a tile can outgrow its database and find    *)
(* room in another one, or in none.                                        *)
(***************************************************************************)
EXTENDS SqliteTileStore, TLC

CONSTANTS t1, t2

MCTiles == {t1, t2}

MCSymmetry == Permutations(MCTiles)

=============================================================================
