----------------------------- MODULE MCTileView -----------------------------
(***************************************************************************)
(* TileView on a small map: two places, of which one or both are seen, two *)
(* zoom levels, a base layer and one overlay, which may be the same layer. *)
(* The first layer times out.                                              *)
(***************************************************************************)
EXTENDS TileView

CONSTANTS p1, p2, s1, s2, a, b, base, over, files, sqlite

MCPlaces == {p1, p2}
MCSlots == {s1, s2}
MCWindows == {{p1}, {p2}, {p1, p2}}
MCFirst == {p1}
MCLayers == {a, b}
MCRows == {base, over}
MCTypes == {files, sqlite}
MCZooms == {1, 2}
MCIds == MCLayers \X MCZooms \X MCPlaces

\* Files of an earlier session that have timed out, and one database.
MCBefore == [y \in MCTypes |-> [id \in MCIds |->
                IF y = files /\ id = <<a, 1, p1>> THEN "timed-out"
                ELSE IF y = sqlite /\ id = <<b, 1, p1>> THEN "fresh" ELSE "none"]]
MCTimesOut == {a}

=============================================================================
