----------------------------- MODULE StoreTiles -----------------------------
(***************************************************************************)
(* The front end of the tile storage, modules/mod_storeTiles.py: which     *)
(* store of a layer a tile is written to and which are asked for it, in    *)
(* what order, and what a layer's time-out does to the answer.  The stores *)
(* themselves are FilesTileStore and SqliteTileStore; here a store only    *)
(* holds a copy of a tile or does not, and knows how old it is.            *)
(*                                                                         *)
(* A tile is a tuple that begins with its layer (lzxy).  The stores of a   *)
(* layer are opened at its first use; as nobody but this module creates    *)
(* one, opening them at the start gives the same.                          *)
(*                                                                         *)
(* The module has no next-state relation of its own: TileView composes its *)
(* actions with those who call them.                                       *)
(***************************************************************************)
EXTENDS Sequences, SequencesExt

CONSTANTS Layers, Ids,   \* layers and tiles
          Types,         \* TILE_STORAGE_TYPES
          FirstType,     \* the type the options name at the start
          TimesOut,      \* the layers that have a timeout
          Before         \* what the stores hold at the start

\* A copy may be absent, the newest, valid although a newer one has been
\* written to another store, or older than the layer's timeout.
Copies == {"none", "fresh", "aging", "timed-out"}
Valid == {"fresh", "aging"}

ASSUME StoreAssumption ==
    /\ TimesOut \subseteq Layers
    /\ IsFiniteSet(Types) /\ FirstType \in Types
    /\ Before \in [Types -> [Ids -> Copies]]
    /\ \A id \in Ids : id[1] \in Layers

VARIABLES primary,   \* _primary_tile_storage_type
          stores,    \* _stores: the types of a layer's open stores, in order
          held       \* what the stores hold of every tile

\* _sort_store_tuples(): the sort is stable and only tells the primary type
\* from the others; a layer has one store of a type at most.
Sorted(types, first) ==
    IF Contains(types, first)
    THEN <<first>> \o RemoveAt(types, CHOOSE i \in DOMAIN types : types[i] = first)
    ELSE types

\* _get_existing_stores_for_layer(): the stores of earlier sessions.
StoreInit ==
    /\ primary = FirstType
    /\ held = Before
    /\ \E existing \in [Layers -> SUBSET Types] :
          /\ \A l \in Layers, y \in Types :
                y \in existing[l] <=> \E id \in Ids : id[1] = l /\ held[y][id] # "none"
          /\ stores = [l \in Layers |-> Sorted(SetToSeq(existing[l]), primary)]

StoreTypeOK ==
    /\ primary \in Types
    /\ stores \in [Layers -> Seq(Types)]
    /\ held \in [Types -> [Ids -> Copies]]

\* _primary_tile_storage_type_changed_cb() with a type that exists.
Resorted(opened, y) == [l \in Layers |-> Sorted(opened[l], y)]

\* Mutant: the new store is put last.
AddedLast(types) == Append(types, primary)

\* _get_store_for_writing(), with a new store put where the order wants it.
Added(types) == Sorted(Append(types, primary), primary)
Opened(l) == [stores EXCEPT ![l] = IF Contains(@, primary) THEN @ ELSE Added(@)]

\* store_tile_data() of the store that has been returned.
Write(y, id) ==
    /\ held' = [t \in Types |-> [held[t] EXCEPT ![id] =
                   IF t = y THEN "fresh" ELSE IF @ = "fresh" THEN "aging" ELSE @]]
    /\ UNCHANGED primary

\* The clock passes the timeout of a copy, the oldest first.
GrowOld(y, id) ==
    /\ id[1] \in TimesOut
    /\ held[y][id] \in Valid
    /\ held[y][id] = "fresh" => \A t \in Types : held[t][id] # "aging"
    /\ held' = [held EXCEPT ![y][id] = "timed-out"]
    /\ UNCHANGED <<primary, stores>>

\* The loop of tile_is_stored() and get_tile_data(): the first store that holds
\* the tile answers for all of them, also when its copy has timed out.
Found(id) ==
    LET Copy(i) == held[stores[id[1]][i]][id]
    IN  \E i \in DOMAIN stores[id[1]] :
            Copy(i) \in Valid /\ \A j \in 1..(i - 1) : Copy(j) = "none"

=============================================================================
