--------------------------- MODULE SqliteTileStore ---------------------------
(***************************************************************************)
(* SqliteTileStore of core/tile_storage/sqlite_store.py: tiles are kept in *)
(* storage databases of limited size, and one lookup database says for     *)
(* every tile in which of them it is.  The databases are committed one     *)
(* after the other, so a failure or a kill can come between two commits.   *)
(*                                                                         *)
(* Storing, deleting and get_tile() exclude each other (_db_lock); at most *)
(* one operation is under way.  An SQL statement and its commit are one    *)
(* step.  Nothing calls rollback(): what a failed commit ("database is     *)
(* locked") was to write stays pending on its connection, is read there,   *)
(* is not in the file, and is written by the next commit, unless SQLite    *)
(* rolls the transaction back (disk full) or the process ends.             *)
(*                                                                         *)
(* A new storage database is created only when there is none: _add_store() *)
(* raises as soon as one exists, having used up the map object that it     *)
(* sorts afterwards.                                                       *)
(***************************************************************************)
EXTENDS Integers, FiniteSets, FiniteSetsExt

CONSTANTS Tiles,
          Extensions,   \* what layer.type can be, in the order of the index
          Sizes,        \* sizes of tile data; they stand for the data as well
          Databases,    \* the numbers of the storage databases in the folder
          MaxSize,      \* MAX_STORAGE_DB_FILE_SIZE
          FailureBound  \* how often SQLite fails or the process is killed

ASSUME StoreAssumption ==
    /\ Sizes \subseteq Nat \ {0}
    /\ MaxSize \in Nat
    /\ Databases \subseteq Nat /\ Databases # {} /\ IsFiniteSet(Databases)
    /\ Extensions \subseteq Nat /\ Extensions # {} /\ IsFiniteSet(Extensions)
    /\ IsFiniteSet(Tiles) /\ Tiles # {}
    /\ FailureBound \in Nat

VARIABLES lookup,    \* the lookup database: the storage database of every tile
          rows,      \* the storage databases: the data of every tile and type
          lookupSaved, \* what of the lookup database is committed
          rowsSaved, \* what of the storage databases is committed
          fileSize,  \* the sizes of their files, which never shrink
          available, \* _new_tiles_store_name
          type,      \* layer.type, read from the configuration at start
          op,        \* the step at which the operation under way is
          tile,      \* its tile
          data,      \* the data it is to store
          where,     \* the storage database it has chosen
          failures,  \* how often SQLite has failed or the process been killed
          latest,    \* history: what get_tile() may return for a tile
          moved,     \* history: tiles that had to move to another database
          ahead,     \* history: tiles updated where an entry still pending said
          retyped    \* history: whether layer.type has changed

opVars == <<op, tile, data, where, failures>>
history == <<latest, moved, ahead, retyped>>
stores == <<rows, rowsSaved, fileSize>>
lookups == <<lookup, lookupSaved>>
vars == <<lookups, stores, available, type, opVars, history>>

NoDatabase == -1
NoData == 0

Ops == {"none", "updating", "updated", "moving", "deleted", "moved", "adding",
        "added", "deleting", "unlisting"}

First(S) == CHOOSE x \in S : \A y \in S : x <= y

Init ==
    /\ lookup = [t \in Tiles |-> NoDatabase]
    /\ rows = [d \in Databases |-> [t \in Tiles |-> [e \in Extensions |-> NoData]]]
    /\ lookupSaved = lookup
    /\ rowsSaved = rows
    /\ fileSize = [d \in Databases |-> 0]
    /\ available = First(Databases)
    /\ type \in Extensions
    /\ op = "none"
    /\ tile \in Tiles
    /\ data = NoData
    /\ where = NoDatabase
    /\ failures = 0
    /\ latest = [t \in Tiles |-> {NoData}]
    /\ moved = {}
    /\ ahead = {}
    /\ retyped = FALSE

-----------------------------------------------------------------------------
(* The databases.                                                          *)

\* Mutant: the size of the new data is left out.
FitsAsItIs(d, size) == fileSize[d] <= MaxSize

\* _will_it_fit_in(), by the size of the file: freed space does not count.
Fits(d, size) == fileSize[d] + size <= MaxSize

Used(r) == MapThenSumSet(LAMBDA k : r[k[1]][k[2]], Tiles \X Extensions)

SetRow(d, t, e, size) == rows' = [rows EXCEPT ![d][t][e] = size]

\* "delete from tiles where z=? and x=? and y=?", whatever the extension.
ClearRows(d, t) == rows' = [rows EXCEPT ![d][t] = [e \in Extensions |-> NoData]]

\* commit() of a storage database writes all that is pending there.  The file
\* grows when the rows need more than it has ever held.
CommitStore(d) ==
    /\ rowsSaved' = [rowsSaved EXCEPT ![d] = rows'[d]]
    /\ fileSize' = [fileSize EXCEPT ![d] = Max({@, Used(rows'[d])})]

CommitLookup == lookupSaved' = lookup'

\* _get_name_connection_to_available_store(): the last one used, then any.
Candidates(size) ==
    IF Fits(available, size) THEN {available} ELSE {d \in Databases : Fits(d, size)}

\* What get_tile() returns: fetchone() follows the index of the primary key.
GetTile(t) ==
    LET present == {e \in Extensions : rows[lookup[t]][t][e] # NoData} IN
    IF lookup[t] = NoDatabase \/ present = {} THEN NoData
    ELSE rows[lookup[t]][t][First(present)]

TileIsStored(t) == lookup[t] # NoDatabase

-----------------------------------------------------------------------------
(* store_tile_data().                                                      *)

Goto(step) == op' = step /\ UNCHANGED <<tile, data, where, failures>>

Finish == op' = "none" /\ data' = NoData /\ where' = NoDatabase /\ UNCHANGED tile

Succeed(d) ==
    /\ Finish
    /\ latest' = [latest EXCEPT ![tile] = {d}]
    /\ UNCHANGED failures

\* An exception ends the operation: what the tile is then is its old or its
\* new data.
Raise == Finish /\ latest' = [latest EXCEPT ![tile] = @ \cup {data}]

Fail == Raise /\ UNCHANGED failures

\* The exception comes from SQLite, or the process is killed.
CanFail == failures < FailureBound /\ failures' = failures + 1

Break == CanFail /\ Raise

\* What is written is committed and the operation goes on; or the commit
\* raises, and the operation ends with the change pending.
Stored(d, step) ==
    \/ CommitStore(d) /\ Goto(step) /\ UNCHANGED latest
    \/ Break /\ UNCHANGED <<rowsSaved, fileSize>>

\* The lookup decides what is to be done.
Begin(t, d) ==
    /\ op = "none"
    /\ op' = IF ~TileIsStored(t) THEN "adding"
             ELSE IF Fits(lookup[t], d) THEN "updating" ELSE "moving"
    /\ tile' = t
    /\ data' = d
    /\ where' = lookup[t]
    /\ UNCHANGED failures
    /\ moved' = IF op' = "moving" THEN moved \cup {t} ELSE moved
    /\ UNCHANGED <<lookups, stores, available, type, latest, ahead, retyped>>

\* The history of a tile that is updated where a pending entry said.
Ahead == IF lookupSaved[tile] # where THEN ahead \cup {tile} ELSE ahead

\* Mutant: "insert or ignore".
UpdateIfAbsent ==
    /\ op = "updating"
    /\ IF rows[where][tile][type] = NoData
       THEN SetRow(where, tile, type, data) ELSE UNCHANGED rows
    /\ Stored(where, "updated")
    /\ ahead' = Ahead
    /\ UNCHANGED <<lookups, available, type, moved, retyped>>

\* "insert or replace" for this extension.
Update ==
    /\ op = "updating"
    /\ SetRow(where, tile, type, data)
    /\ Stored(where, "updated")
    /\ ahead' = Ahead
    /\ UNCHANGED <<lookups, available, type, moved, retyped>>

\* The lookup database gets the new extension and time, and its commit writes
\* the entries that are pending.
UpdateLookup ==
    /\ op = "updated"
    /\ UNCHANGED lookup
    /\ \/ CommitLookup /\ Succeed(data)
       \/ Break /\ UNCHANGED lookupSaved
    /\ UNCHANGED <<stores, available, type, moved, ahead, retyped>>

\* No room for the new data where the tile is: first it is deleted there.
MoveDelete ==
    /\ op = "moving"
    /\ ClearRows(where, tile)
    /\ Stored(where, "deleted")
    /\ UNCHANGED <<lookups, available, type, moved, ahead, retyped>>

MoveInsert ==
    /\ op = "deleted"
    /\ \E d \in Candidates(data) :
          /\ available' = d
          /\ SetRow(d, tile, type, data)
          /\ Stored(d, "moved")
    /\ UNCHANGED <<lookups, type, moved, ahead, retyped>>

\* "... where where z=?": the update of the lookup database is a syntax error.
MoveLookup ==
    /\ op = "moved"
    /\ Fail
    /\ UNCHANGED <<lookups, stores, available, type, moved, ahead, retyped>>

\* No storage database has room for the data, and no new one can be added.
NoRoom ==
    /\ op \in {"deleted", "adding"}
    /\ Candidates(data) = {}
    /\ Fail
    /\ UNCHANGED <<lookups, stores, available, type, moved, ahead, retyped>>

\* A new tile: the lookup database first ...
AddLookup ==
    /\ op = "adding"
    /\ \E d \in Candidates(data) :
          /\ available' = d
          /\ lookup' = [lookup EXCEPT ![tile] = d]
          /\ \/ /\ CommitLookup
                /\ op' = "added"
                /\ where' = d
                /\ UNCHANGED <<tile, data, failures, latest>>
             \/ Break /\ UNCHANGED lookupSaved
    /\ UNCHANGED <<stores, type, moved, ahead, retyped>>

\* ... then the storage database, where a row left over raises IntegrityError.
Add ==
    /\ op = "added"
    /\ \/ /\ rows[where][tile][type] = NoData
          /\ SetRow(where, tile, type, data)
          /\ \/ CommitStore(where) /\ Succeed(data)
             \/ Break /\ UNCHANGED <<rowsSaved, fileSize>>
       \/ /\ rows[where][tile][type] # NoData
          /\ Fail
          /\ UNCHANGED stores
    /\ UNCHANGED <<lookups, available, type, moved, ahead, retyped>>

-----------------------------------------------------------------------------
(* delete_tile(); for a tile that is not listed it raises at once.         *)

\* Mutant: the lookup database is updated before the storage database.
BeginDeleteUnlisted(t) ==
    /\ op = "none"
    /\ TileIsStored(t)
    /\ op' = "deleting"
    /\ tile' = t
    /\ data' = NoData
    /\ where' = lookup[t]
    /\ UNCHANGED failures
    /\ lookup' = [lookup EXCEPT ![t] = NoDatabase]
    /\ CommitLookup
    /\ UNCHANGED <<stores, available, type, history>>

BeginDelete(t) ==
    /\ op = "none"
    /\ TileIsStored(t)
    /\ op' = "deleting"
    /\ tile' = t
    /\ data' = NoData
    /\ where' = lookup[t]
    /\ UNCHANGED failures
    /\ UNCHANGED <<lookups, stores, available, type, history>>

Delete ==
    /\ op = "deleting"
    /\ ClearRows(where, tile)
    /\ Stored(where, "unlisting")
    /\ UNCHANGED <<lookups, available, type, moved, ahead, retyped>>

Unlist ==
    /\ op = "unlisting"
    /\ lookup' = [lookup EXCEPT ![tile] = NoDatabase]
    /\ \/ CommitLookup /\ Succeed(NoData)
       \/ Break /\ UNCHANGED lookupSaved
    /\ UNCHANGED <<stores, available, type, moved, ahead, retyped>>

-----------------------------------------------------------------------------
(* Failures of SQLite and of the process.                                  *)

\* The storage databases that the operation under way may use next: where it
\* is, or any with room once it looks for one.
Chosen == IF op \in {"deleted", "adding"} THEN Candidates(data) ELSE {where}

\* A statement fails, before or after room has been looked for; the exception
\* ends the operation.
Fault ==
    /\ op # "none"
    /\ Break
    /\ \/ UNCHANGED available
       \/ op \in {"deleted", "adding"} /\ available' \in Candidates(data)
    /\ UNCHANGED <<lookups, stores, type, moved, ahead, retyped>>

\* As Fault, but SQLite rolls the connection's transaction back, and with it
\* what was pending there.
FaultRollsBack ==
    /\ op # "none"
    /\ Break
    /\ \E d \in Chosen :
          /\ available' = IF op \in {"deleted", "adding"} THEN d ELSE available
          /\ \/ /\ op \in {"updating", "moving", "deleted", "added", "deleting"}
                /\ rows' = [rows EXCEPT ![d] = rowsSaved[d]]
                /\ UNCHANGED lookup
             \/ /\ op \in {"updated", "adding", "unlisting"}
                /\ lookup' = lookupSaved
                /\ UNCHANGED rows
    /\ UNCHANGED <<lookupSaved, rowsSaved, fileSize, type, moved, ahead, retyped>>

\* modRana ends or is killed, and opens the store again: the databases are as
\* committed, the first is available, and the layer's type may be a new one.
Restart ==
    /\ CanFail
    /\ IF op = "none" THEN UNCHANGED <<op, tile, data, where, latest>> ELSE Raise
    /\ lookup' = lookupSaved
    /\ rows' = rowsSaved
    /\ available' = First(Databases)
    /\ type' \in Extensions
    /\ retyped' = (retyped \/ type' # type)
    /\ UNCHANGED <<lookupSaved, rowsSaved, fileSize, moved, ahead>>

Next ==
    \/ \E t \in Tiles, d \in Sizes : Begin(t, d)
    \/ Update \/ UpdateLookup
    \/ MoveDelete \/ MoveInsert \/ MoveLookup
    \/ NoRoom
    \/ AddLookup \/ Add
    \/ \E t \in Tiles : BeginDelete(t)
    \/ Delete \/ Unlist
    \/ Fault \/ FaultRollsBack
    \/ Restart

Spec == Init /\ [][Next]_vars

-----------------------------------------------------------------------------
(* Properties.                                                             *)

TypeOK ==
    /\ {lookup, lookupSaved} \subseteq [Tiles -> Databases \cup {NoDatabase}]
    /\ {rows, rowsSaved} \subseteq
          [Databases -> [Tiles -> [Extensions -> Sizes \cup {NoData}]]]
    /\ fileSize \in [Databases -> Nat]
    /\ available \in Databases
    /\ type \in Extensions
    /\ op \in Ops
    /\ tile \in Tiles
    /\ data \in Sizes \cup {NoData}
    /\ where \in Databases \cup {NoDatabase}
    /\ latest \in [Tiles -> SUBSET (Sizes \cup {NoData})]
    /\ moved \subseteq Tiles
    /\ ahead \subseteq Tiles
    /\ retyped \in BOOLEAN
    /\ failures \in 0..FailureBound

\* A storage database grows past the limit only by a commit that also writes
\* what a failed one has left pending, which the size of the file does not
\* count.  Otherwise it stays within it, whichever path a tile takes: an update
\* in place, a move or an insertion, with the space of deleted rows reused or
\* not.
WithinLimit ==
    [][\A d \in Databases :
          \/ fileSize'[d] <= fileSize[d]
          \/ fileSize'[d] <= MaxSize
          \/ rows[d] # rowsSaved[d]]_vars

\* A storage database holds a tile, pending or committed, only if the lookup
\* database names it for the tile, whatever failed and whenever the process
\* was killed; excepted are only tiles that had to move, and those once updated
\* where an entry said that was itself still pending.  So no data is out of
\* reach of get_tile() and delete_tile(), and the plain insert of a new tile
\* finds no old row.  The types come with it.
RowsAreListed ==
    /\ TypeOK
    /\ \A t \in Tiles \ (moved \cup ahead) : \A d \in Databases : \A e \in Extensions :
          /\ rows[d][t][e] # NoData => lookup[t] = d
          /\ rowsSaved[d][t][e] # NoData => lookupSaved[t] = d

\* After a store or a delete get_tile() returns what was stored last, and
\* after one that failed or was cut short what was there before or what was to
\* be there, nothing else, though pending changes come and go.  Excepted are
\* the tiles excepted above, and stores whose layer has changed its type.
OldOrNew ==
    \A t \in Tiles \ (moved \cup ahead) :
        op = "none" /\ ~retyped => GetTile(t) \in latest[t]

\* What the lookup database mentions is there ("this should never happen as
\* long as the database is properly managed"), as long as nothing fails.
MentionedIsStored ==
    \A t \in Tiles : op = "none" /\ TileIsStored(t) => GetTile(t) # NoData

=============================================================================
