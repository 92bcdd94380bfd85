--------------------------- MODULE FilesTileStore ---------------------------
(***************************************************************************)
(* FileBasedTileStore of core/tile_storage/files_store.py, the default     *)
(* tile store: one image file per tile.  A tile is written to a .part file *)
(* which is then renamed; when a step fails both files are removed.        *)
(* Readers look at the tile's file and, if that is no image, at whatever   *)
(* else matches <y>.*, the .part file included.  The store has no lock:    *)
(* each step below is one system call of a thread.                         *)
(*                                                                         *)
(* The files of different tiles have nothing in common but their folder.   *)
(* rename() replaces its target atomically, as on every POSIX system.  A   *)
(* file that is renamed or removed stays open for those who have it open.  *)
(***************************************************************************)
EXTENDS Naturals, FiniteSets

CONSTANTS Tiles,    \* the tiles of one layer
          Writers,  \* the threads that store tiles
          Readers   \* the threads that look for tiles

ASSUME FilesAssumption == Tiles # {}

VARIABLES file,       \* what is in the .part and in the final file of every tile
          writer,     \* how far a writer has come in store_tile_data()
          target,     \* the tile a writer stores
          fd,         \* the name under which the file a writer has open is found
          reader,     \* how far a reader has come
          sought,     \* the tile a reader looks for
          listed,     \* the names that glob has given the reader to try
          path,       \* the file _fuzzy_find_tile() has found
          got,        \* what get_tile() has read
          overlapped, \* history: the tiles stored by two writers at a time
          mishap      \* history: a system call failed or the process was killed

writerVars == <<writer, target, fd>>
readerVars == <<reader, sought, listed, path, got>>
vars == <<file, writerVars, readerVars, overlapped, mishap>>

Names == {"part", "final"}

\* "whole": one tile image; "partial": its beginning; "mixed": bytes of two
\* downloads of the tile; "none": there is no such file.
Contents == {"none", "empty", "partial", "whole", "mixed"}

\* is_an_image() looks at the first 32 bytes.
Image(c) == c \in {"partial", "whole", "mixed"}

WriterStates == {"out", "opened", "written", "failed", "removing-part",
                 "part-removed", "removing-final"}
ReaderStates == {"out", "primary", "globbing", "trying", "found", "dated",
                 "stored", "missing", "raised"}

Idle(w) == writer[w] = "out"

WriterInit ==
    /\ writer = [w \in Writers |-> "out"]
    /\ target = [w \in Writers |-> CHOOSE t \in Tiles : TRUE]
    /\ fd = [w \in Writers |-> "none"]

ReaderInit ==
    /\ reader = [r \in Readers |-> "out"]
    /\ sought = [r \in Readers |-> CHOOSE t \in Tiles : TRUE]
    /\ listed = [r \in Readers |-> {}]
    /\ path = [r \in Readers |-> "none"]
    /\ got = [r \in Readers |-> "none"]

Init ==
    /\ file = [t \in Tiles |-> [n \in Names |-> "none"]]
    /\ WriterInit
    /\ ReaderInit
    /\ overlapped = {}
    /\ mishap = FALSE

-----------------------------------------------------------------------------
(* store_tile_data().                                                      *)

Storing(t) == {w \in Writers : ~Idle(w) /\ target[w] = t}

\* What the open files of tile t are called after a rename or a removal.
Renamed(t) ==
    [w \in Writers |-> IF target[w] # t \/ fd[w] \notin Names THEN fd[w]
                       ELSE IF fd[w] = "part" THEN "final" ELSE "gone"]

Unlinked(t, n) ==
    [w \in Writers |-> IF target[w] = t /\ fd[w] = n THEN "gone" ELSE fd[w]]

\* Mutant: the tile is written straight to its final file.
OpenFinal(w, t) ==
    /\ Idle(w)
    /\ file' = [file EXCEPT ![t]["final"] = "empty"]
    /\ fd' = [fd EXCEPT ![w] = "final"]
    /\ writer' = [writer EXCEPT ![w] = "opened"]
    /\ target' = [target EXCEPT ![w] = t]
    /\ overlapped' = IF Storing(t) = {} THEN overlapped ELSE overlapped \cup {t}
    /\ UNCHANGED <<readerVars, mishap>>

\* open(partial_file_path, 'wb') creates the file or truncates the one there.
Open(w, t) ==
    /\ Idle(w)
    /\ file' = [file EXCEPT ![t]["part"] = "empty"]
    /\ fd' = [fd EXCEPT ![w] = "part"]
    /\ writer' = [writer EXCEPT ![w] = "opened"]
    /\ target' = [target EXCEPT ![w] = t]
    /\ overlapped' = IF Storing(t) = {} THEN overlapped ELSE overlapped \cup {t}
    /\ UNCHANGED <<readerVars, mishap>>

\* The folder or the file cannot be created.
OpenFails(w, t) ==
    /\ Idle(w)
    /\ writer' = [writer EXCEPT ![w] = "failed"]
    /\ target' = [target EXCEPT ![w] = t]
    /\ overlapped' = IF Storing(t) = {} THEN overlapped ELSE overlapped \cup {t}
    /\ mishap' = TRUE
    /\ UNCHANGED <<file, fd, readerVars>>

\* The file the writer has open gets content c; it is closed either way.
Fill(w, c) ==
    /\ file' = IF fd[w] \in Names THEN [file EXCEPT ![target[w]][fd[w]] = c] ELSE file
    /\ fd' = [fd EXCEPT ![w] = "none"]

Found(w) == IF fd[w] \in Names THEN file[target[w]][fd[w]] ELSE "empty"

\* All is written, from the start of the file: over another download, if
\* that is longer its end remains.
Write(w) ==
    /\ writer[w] = "opened"
    /\ \E c \in {"whole", "mixed"} : (c = "mixed" => Found(w) # "empty") /\ Fill(w, c)
    /\ writer' = [writer EXCEPT ![w] = "written"]
    /\ UNCHANGED <<target, readerVars, overlapped, mishap>>

\* The write fails after some of the data, the storage being full.
WriteFails(w) ==
    /\ writer[w] = "opened"
    /\ \E c \in {Found(w), IF Found(w) = "empty" THEN "partial" ELSE "mixed"} : Fill(w, c)
    /\ writer' = [writer EXCEPT ![w] = "failed"]
    /\ mishap' = TRUE
    /\ UNCHANGED <<target, readerVars, overlapped>>

\* os.rename(); without a .part file it raises.
Rename(w) ==
    /\ writer[w] = "written"
    /\ LET t == target[w] IN
       IF file[t]["part"] # "none"
       THEN /\ file' = [file EXCEPT ![t]["final"] = file[t]["part"], ![t]["part"] = "none"]
            /\ fd' = Renamed(t)
            /\ writer' = [writer EXCEPT ![w] = "out"]
       ELSE /\ writer' = [writer EXCEPT ![w] = "failed"]
            /\ UNCHANGED <<file, fd>>
    /\ UNCHANGED <<target, readerVars, overlapped, mishap>>

\* One test os.path.exists() of the except branch, for the file named n.
TestPart(w) ==
    /\ writer[w] = "failed"
    /\ writer' = [writer EXCEPT ![w] = IF file[target[w]]["part"] # "none"
                                       THEN "removing-part" ELSE "part-removed"]
    /\ UNCHANGED <<file, target, fd, readerVars, overlapped, mishap>>

\* os.remove(); if the file has gone meanwhile the cleanup ends here.
RemovePart(w) ==
    /\ writer[w] = "removing-part"
    /\ file' = [file EXCEPT ![target[w]]["part"] = "none"]
    /\ fd' = Unlinked(target[w], "part")
    /\ writer' = [writer EXCEPT ![w] = IF file[target[w]]["part"] # "none"
                                       THEN "part-removed" ELSE "out"]
    /\ UNCHANGED <<target, readerVars, overlapped, mishap>>

\* Mutant: the cleanup leaves the tile's own file alone.
SkipFinal(w) ==
    /\ writer[w] = "part-removed"
    /\ writer' = [writer EXCEPT ![w] = "out"]
    /\ UNCHANGED <<file, target, fd, readerVars, overlapped, mishap>>

TestFinal(w) ==
    /\ writer[w] = "part-removed"
    /\ writer' = [writer EXCEPT ![w] = IF file[target[w]]["final"] # "none"
                                       THEN "removing-final" ELSE "out"]
    /\ UNCHANGED <<file, target, fd, readerVars, overlapped, mishap>>

RemoveFinal(w) ==
    /\ writer[w] = "removing-final"
    /\ file' = [file EXCEPT ![target[w]]["final"] = "none"]
    /\ fd' = Unlinked(target[w], "final")
    /\ writer' = [writer EXCEPT ![w] = "out"]
    /\ UNCHANGED <<target, readerVars, overlapped, mishap>>

StoreStep(w) ==
    \/ Write(w) \/ WriteFails(w) \/ Rename(w)
    \/ TestPart(w) \/ RemovePart(w) \/ TestFinal(w) \/ RemoveFinal(w)

-----------------------------------------------------------------------------
(* get_tile() and tile_is_stored().                                        *)

Look(r, t) ==
    /\ reader[r] = "out"
    /\ reader' = [reader EXCEPT ![r] = "primary"]
    /\ sought' = [sought EXCEPT ![r] = t]
    /\ UNCHANGED <<file, writerVars, listed, path, got, overlapped, mishap>>

\* What a read of the file named n can get: a read is not atomic with the
\* write of another thread and may get the part written so far.
Seen(t, n) ==
    {file[t][n]} \cup {p \in {"partial"} :
        \E w \in Writers : writer[w] = "opened" /\ target[w] = t /\ fd[w] = n}

\* _fuzzy_find_tile(): the tile's own file, if it is an image.
Primary(r) ==
    /\ reader[r] = "primary"
    /\ \/ /\ \E c \in Seen(sought[r], "final") : Image(c)
          /\ reader' = [reader EXCEPT ![r] = "found"]
          /\ path' = [path EXCEPT ![r] = "final"]
       \/ /\ \E c \in Seen(sought[r], "final") : ~Image(c)
          /\ reader' = [reader EXCEPT ![r] = "globbing"]
          /\ UNCHANGED path
    /\ UNCHANGED <<file, writerVars, sought, listed, got, overlapped, mishap>>

\* glob.iglob("<y>.*") reads the folder.
Glob(r) ==
    /\ reader[r] = "globbing"
    /\ listed' = [listed EXCEPT ![r] = {n \in Names : file[sought[r]][n] # "none"}]
    /\ reader' = [reader EXCEPT ![r] = "trying"]
    /\ UNCHANGED <<file, writerVars, sought, path, got, overlapped, mishap>>

\* A listed file is opened, outside of any try: one that has gone raises.
Try(r, n) ==
    /\ reader[r] = "trying"
    /\ n \in listed[r]
    /\ listed' = [listed EXCEPT ![r] = @ \ {n}]
    /\ path' = [path EXCEPT ![r] = n]
    /\ \E c \in Seen(sought[r], n) :
          reader' = [reader EXCEPT ![r] = CASE c = "none" -> "raised"
                                            [] Image(c)   -> "found"
                                            [] OTHER      -> "trying"]
    /\ UNCHANGED <<file, writerVars, sought, got, overlapped, mishap>>

NothingFound(r) ==
    /\ reader[r] = "trying"
    /\ listed[r] = {}
    /\ reader' = [reader EXCEPT ![r] = "missing"]
    /\ UNCHANGED <<file, writerVars, sought, listed, path, got, overlapped, mishap>>

\* os.path.isfile() of the path found.
Stat(r) ==
    /\ reader[r] = "found"
    /\ reader' = [reader EXCEPT ![r] = IF file[sought[r]][path[r]] # "none"
                                       THEN "dated" ELSE "missing"]
    /\ UNCHANGED <<file, writerVars, sought, listed, path, got, overlapped, mishap>>

\* tile_is_stored(): os.path.getmtime() raises if the file has gone.
IsStored(r) ==
    /\ reader[r] = "dated"
    /\ reader' = [reader EXCEPT ![r] = IF file[sought[r]][path[r]] # "none"
                                       THEN "stored" ELSE "raised"]
    /\ UNCHANGED <<file, writerVars, sought, listed, path, got, overlapped, mishap>>

\* get_tile(): the same within a try that returns None, then the data is read.
GetTile(r) ==
    /\ reader[r] = "dated"
    /\ \E c \in Seen(sought[r], path[r]) : got' = [got EXCEPT ![r] = c]
    /\ reader' = [reader EXCEPT ![r] = IF got'[r] # "none" THEN "stored" ELSE "missing"]
    /\ UNCHANGED <<file, writerVars, sought, listed, path, overlapped, mishap>>

\* The caller has the answer.
Return(r) ==
    /\ reader[r] \in {"stored", "missing", "raised"}
    /\ reader' = [reader EXCEPT ![r] = "out"]
    /\ listed' = [listed EXCEPT ![r] = {}]
    /\ path' = [path EXCEPT ![r] = "none"]
    /\ got' = [got EXCEPT ![r] = "none"]
    /\ UNCHANGED <<file, writerVars, sought, overlapped, mishap>>

\* What both have in common, up to the last step.
FindStep(r) ==
    \/ Primary(r) \/ Glob(r) \/ NothingFound(r) \/ Stat(r)
    \/ \E n \in Names : Try(r, n)

-----------------------------------------------------------------------------
\* The process is killed; the folder stays as it is, and modRana starts anew.
Crash ==
    /\ mishap' = TRUE
    /\ writer' = [w \in Writers |-> "out"]
    /\ fd' = [w \in Writers |-> "none"]
    /\ reader' = [r \in Readers |-> "out"]
    /\ got' = [r \in Readers |-> "none"]
    /\ listed' = [r \in Readers |-> {}]
    /\ path' = [r \in Readers |-> "none"]
    /\ UNCHANGED <<file, target, sought, overlapped>>

Next ==
    \/ \E w \in Writers, t \in Tiles : Open(w, t) \/ OpenFails(w, t)
    \/ \E w \in Writers : StoreStep(w)
    \/ \E r \in Readers, t \in Tiles : Look(r, t)
    \/ \E r \in Readers : FindStep(r)
    \/ \E r \in Readers : IsStored(r) \/ GetTile(r) \/ Return(r)
    \/ Crash

Spec == Init /\ [][Next]_vars

-----------------------------------------------------------------------------
(* Properties.                                                             *)

\* With the types: a writer has a file open exactly while it writes, and a name
\* given for an open file is a name in the folder.
WriterTypeOK ==
    /\ file \in [Tiles -> [Names -> Contents]]
    /\ writer \in [Writers -> WriterStates]
    /\ target \in [Writers -> Tiles]
    /\ fd \in [Writers -> Names \cup {"none", "gone"}]
    /\ \A w \in Writers : /\ fd[w] # "none" <=> writer[w] = "opened"
                          /\ fd[w] \in Names => file[target[w]][fd[w]] # "none"

ReaderTypeOK ==
    /\ reader \in [Readers -> ReaderStates]
    /\ sought \in [Readers -> Tiles]
    /\ listed \in [Readers -> SUBSET Names]
    /\ path \in [Readers -> Names \cup {"none"}]
    /\ got \in [Readers -> Contents]

TypeOK ==
    /\ WriterTypeOK
    /\ ReaderTypeOK
    /\ overlapped \subseteq Tiles
    /\ mishap \in BOOLEAN

\* The reason for the .part file: a tile that is never stored by two threads
\* at a time has either no file of its own or a whole one, at every moment
\* and whatever fails, a kill in the middle of a write included.  Readers may
\* be handed the .part file, and with it a torn image; from the tile's own
\* file get_tile() returns whole images only.
FinalIsWhole ==
    /\ TypeOK
    /\ \A t \in Tiles \ overlapped : file[t]["final"] \in {"none", "whole"}
    /\ \A r \in Readers :
          path[r] = "final" /\ sought[r] \notin overlapped => got[r] \in {"none", "whole"}

\* Two threads that store one tile share the .part file: one's rename can put
\* the other's empty file in place and its write then changes the tile where
\* it is.  But each time they share a file one of them fails to rename, and
\* its cleanup removes the tile: once all have returned, no empty or mixed
\* tile is left, nor a .part file.
SettlesWhole ==
    \A t \in Tiles :
        ~mishap /\ Storing(t) = {} => /\ file[t]["part"] = "none"
                                      /\ file[t]["final"] \in {"none", "whole"}

\* The tile's own file, once found to be an image, is there when the reader
\* comes back to it: the path is not stale as long as nobody overlaps.
FoundIsThere ==
    \A r \in Readers :
        /\ reader[r] \in {"found", "dated"}
        /\ path[r] = "final"
        /\ ~mishap
        /\ sought[r] \notin overlapped
        => file[sought[r]]["final"] = "whole"

=============================================================================
