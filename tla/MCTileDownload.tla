--------------------------- MODULE MCTileDownload ---------------------------
(***************************************************************************)
(* TileDownload on a small instance: two requests for a tile of the same   *)
(* map, so that the second can find the tile registered, and two more for  *)
(* a tile without a URL on two maps, so that every worker can die and      *)
(* leave requests behind.  The stack of two workers can overflow.          *)
(***************************************************************************)
EXTENDS TileDownload

CONSTANTS t1, t2, m1, m2, w1, w2

MCTiles == {t1, t2}
MCBadTiles == {t2}
MCWorkers == {w1, w2}

MCTileOf == [r \in Requests |-> IF r <= 2 THEN t1 ELSE t2]
MCTagOf == [r \in Requests |-> IF r <= 3 THEN m1 ELSE m2]

=============================================================================
