------------------------ MODULE FilesTileStoreProofs ------------------------
(***************************************************************************)
(* Proofs about FilesTileStore, for any tiles, writers and readers: as     *)
(* long as no two threads store a tile at a time, its own file is whole or *)
(* missing and stays there for a reader who has found it, whatever fails;  *)
(* and once storing is over with nothing failed, all that is there of a    *)
(* tile is whole.                                                          *)
(***************************************************************************)
EXTENDS FilesTileStore, TLAPS

-----------------------------------------------------------------------------
(* The inductive invariant.                                                *)

\* Two threads in the middle of storing one tile have overlapped.
Alone ==
    \A v, w \in Writers :
        v # w /\ ~Idle(v) /\ ~Idle(w) /\ target[v] = target[w] => target[v] \in overlapped

\* A thread that stores a tile alone writes to a .part file of its own, ...
OwnPart ==
    \A w \in Writers : target[w] \notin overlapped =>
        /\ writer[w] = "opened" => fd[w] = "part" /\ file[target[w]]["part"] = "empty"
        /\ writer[w] = "written" => file[target[w]]["part"] = "whole"

\* ... and does not get as far as the cleanup without a failure.
NoCleanup ==
    ~mishap => \A w \in Writers : target[w] \notin overlapped =>
                   writer[w] \in {"out", "opened", "written"}

\* Only get_tile() has read anything, and only at its end, from a path found.
ReadLast ==
    \A r \in Readers :
        /\ got[r] # "none" => reader[r] = "stored"
        /\ reader[r] \in {"found", "dated"} => path[r] \in Names

FinalGood == \A t \in Tiles \ overlapped : file[t]["final"] \in {"none", "whole"}

ReadGood ==
    \A r \in Readers :
        path[r] = "final" /\ sought[r] \notin overlapped => got[r] \in {"none", "whole"}

StoreInv ==
    /\ TypeOK
    /\ FinalGood
    /\ ReadGood
    /\ FoundIsThere
    /\ Alone
    /\ OwnPart
    /\ NoCleanup
    /\ ReadLast

USE DEF Names, Idle, Image, Contents, WriterStates, ReaderStates

LEMMA InitInv == Init => StoreInv
  <1> SUFFICES ASSUME Init PROVE StoreInv
    OBVIOUS
  <1>1. (CHOOSE t \in Tiles : TRUE) \in Tiles
    BY FilesAssumption
  <1>2. TypeOK
    <2>1. WriterTypeOK
      BY <1>1 DEF Init, WriterInit, WriterTypeOK
    <2>2. ReaderTypeOK
      BY <1>1 DEF Init, ReaderInit, ReaderTypeOK
    <2> QED
      BY <2>1, <2>2 DEF Init, TypeOK
  <1>3. FinalGood /\ ReadGood /\ FoundIsThere /\ ReadLast
    BY DEF Init, ReaderInit, FinalGood, ReadGood, FoundIsThere, ReadLast
  <1>4. Alone /\ OwnPart /\ NoCleanup
    BY DEF Init, WriterInit, Alone, OwnPart, NoCleanup
  <1> QED
    BY <1>2, <1>3, <1>4 DEF StoreInv

-----------------------------------------------------------------------------
(* The types of a writer's steps.                                          *)

\* The content that a write finds in its file.
LEMMA FoundType ==
    ASSUME WriterTypeOK, NEW w \in Writers
    PROVE  Found(w) \in Contents /\ (fd[w] \in Names => Found(w) # "none")
  <1>1. CASE fd[w] \in Names
    <2>1. file[target[w]][fd[w]] \in Contents /\ file[target[w]][fd[w]] # "none"
      BY <1>1 DEF WriterTypeOK
    <2> QED
      BY <1>1, <2>1 DEF Found
  <1>2. CASE fd[w] \notin Names
    BY <1>2 DEF Found
  <1> QED
    BY <1>1, <1>2

LEMMA FillType ==
    ASSUME WriterTypeOK, NEW w \in Writers, NEW c \in Contents,
           fd[w] \in Names => c # "none", Fill(w, c),
           NEW s \in WriterStates \ {"opened"}, writer' = [writer EXCEPT ![w] = s],
           UNCHANGED target
    PROVE  WriterTypeOK'
  <1>1. file' \in [Tiles -> [Names -> Contents]]
    BY DEF WriterTypeOK, Fill
  <1>2. \A t \in Tiles, n \in Names : file[t][n] # "none" => file'[t][n] # "none"
    BY DEF WriterTypeOK, Fill
  <1> QED
    BY <1>1, <1>2 DEF WriterTypeOK, Fill

\* What a rename does, if there is a file to rename.
LEMMA RenameMoves ==
    ASSUME WriterTypeOK, NEW w \in Writers, Rename(w), NEW t \in Tiles, t = target[w],
           file[t]["part"] # "none"
    PROVE  /\ file' \in [Tiles -> [Names -> Contents]]
           /\ file'[t]["final"] = file[t]["part"]
           /\ \A u \in Tiles \ {t} : file'[u] = file[u]
           /\ fd' \in [Writers -> Names \cup {"none", "gone"}]
           /\ \A v \in Writers :
                 /\ target[v] # t => fd'[v] = fd[v]
                 /\ target[v] = t => fd'[v] # "part" /\ (fd'[v] = "none" <=> fd[v] = "none")
           /\ writer' = [writer EXCEPT ![w] = "out"]
  <1>1. /\ file' = [file EXCEPT ![t]["final"] = file[t]["part"], ![t]["part"] = "none"]
        /\ fd' = Renamed(t)
        /\ writer' = [writer EXCEPT ![w] = "out"]
    BY DEF Rename
  <1>2. file \in [Tiles -> [Names -> Contents]]
    BY DEF WriterTypeOK
  <1>3. fd \in [Writers -> Names \cup {"none", "gone"}]
    BY DEF WriterTypeOK
  <1>4. /\ file' \in [Tiles -> [Names -> Contents]]
        /\ file'[t]["final"] = file[t]["part"]
        /\ \A u \in Tiles \ {t} : file'[u] = file[u]
    BY <1>1, <1>2
  <1>5. /\ fd' \in [Writers -> Names \cup {"none", "gone"}]
        /\ \A v \in Writers :
              /\ target[v] # t => fd'[v] = fd[v]
              /\ target[v] = t => fd'[v] # "part" /\ (fd'[v] = "none" <=> fd[v] = "none")
    BY <1>1, <1>3 DEF Renamed
  <1> QED
    BY <1>1, <1>4, <1>5

LEMMA RenameType ==
    ASSUME WriterTypeOK, NEW w \in Writers, Rename(w)
    PROVE  WriterTypeOK'
  <1>1. CASE file[target[w]]["part"] = "none"
    BY <1>1 DEF WriterTypeOK, Rename
  <1>2. ASSUME NEW t \in Tiles, t = target[w], file[t]["part"] # "none"
        PROVE  WriterTypeOK'
    <2>1. /\ file' \in [Tiles -> [Names -> Contents]]
          /\ file'[t]["final"] # "none"
          /\ \A u \in Tiles \ {t} : file'[u] = file[u]
          /\ fd' \in [Writers -> Names \cup {"none", "gone"}]
          /\ \A v \in Writers :
                /\ target[v] # t => fd'[v] = fd[v]
                /\ target[v] = t => fd'[v] # "part" /\ (fd'[v] = "none" <=> fd[v] = "none")
          /\ writer' = [writer EXCEPT ![w] = "out"]
      BY <1>2, RenameMoves
    <2>2. /\ writer \in [Writers -> WriterStates] /\ writer[w] = "written"
          /\ target \in [Writers -> Tiles] /\ UNCHANGED target
      BY DEF WriterTypeOK, Rename
    <2>3. writer' \in [Writers -> WriterStates]
      BY <2>1, <2>2
    <2>4. ASSUME NEW v \in Writers
          PROVE  /\ fd'[v] # "none" <=> writer'[v] = "opened"
                 /\ fd'[v] \in Names => file'[target'[v]][fd'[v]] # "none"
      <3>1. /\ fd[v] # "none" <=> writer[v] = "opened"
            /\ fd[v] \in Names => file[target[v]][fd[v]] # "none"
        BY DEF WriterTypeOK
      <3> QED
        BY <2>1, <2>2, <3>1
    <2> QED
      BY <2>1, <2>2, <2>3, <2>4 DEF WriterTypeOK
  <1> QED
    BY <1>1, <1>2 DEF WriterTypeOK

LEMMA StoreType ==
    ASSUME WriterTypeOK, NEW w \in Writers, StoreStep(w)
    PROVE  WriterTypeOK'
  <1>1. CASE Write(w)
    <2>1. PICK c \in {"whole", "mixed"} : Fill(w, c)
      BY <1>1 DEF Write
    <2> QED
      BY <1>1, <2>1, FillType DEF Write
  <1>2. CASE WriteFails(w)
    <2>1. PICK c \in {Found(w), IF Found(w) = "empty" THEN "partial" ELSE "mixed"} : Fill(w, c)
      BY <1>2 DEF WriteFails
    <2> QED
      BY <1>2, <2>1, FoundType, FillType DEF WriteFails
  <1>3. CASE Rename(w)
    BY <1>3, RenameType
  <1>4. CASE TestPart(w)
    BY <1>4 DEF WriterTypeOK, TestPart
  <1>5. CASE RemovePart(w)
    BY <1>5 DEF WriterTypeOK, RemovePart, Unlinked
  <1>6. CASE TestFinal(w)
    BY <1>6 DEF WriterTypeOK, TestFinal
  <1>7. CASE RemoveFinal(w)
    BY <1>7 DEF WriterTypeOK, RemoveFinal, Unlinked
  <1> QED
    BY <1>1, <1>2, <1>3, <1>4, <1>5, <1>6, <1>7 DEF StoreStep

-----------------------------------------------------------------------------
(* The steps.                                                              *)

\* Readers keep what they know of a file that stays whole.
LEMMA ReadersUnmoved ==
    ASSUME StoreInv, TypeOK', UNCHANGED readerVars, overlapped \subseteq overlapped',
           mishap => mishap',
           \A t \in Tiles \ overlapped' :
              /\ file'[t]["final"] \in {"none", "whole"}
              /\ ~mishap' => file'[t]["final"] \in {file[t]["final"], "whole"}
    PROVE  FinalGood' /\ ReadGood' /\ FoundIsThere' /\ ReadLast'
  <1>1. FinalGood'
    BY DEF FinalGood
  <1>2. ReadGood' /\ ReadLast'
    BY DEF ReadGood, ReadLast, StoreInv, readerVars
  <1>3. FoundIsThere'
    <2> SUFFICES ASSUME NEW r \in Readers, reader[r] \in {"found", "dated"},
                        path[r] = "final", ~mishap', sought[r] \notin overlapped'
                 PROVE  file'[sought[r]]["final"] = "whole"
      BY DEF FoundIsThere, readerVars
    <2>1. file[sought[r]]["final"] = "whole"
      BY DEF StoreInv, FoundIsThere
    <2>2. sought[r] \in Tiles \ overlapped'
      BY DEF StoreInv, TypeOK, ReaderTypeOK
    <2> QED
      BY <2>1, <2>2
  <1> QED
    BY <1>1, <1>2, <1>3

\* A store begins, with a fresh .part file or with a failure: a tile that
\* somebody stores already is overlapped from now on.
LEMMA BeginStep ==
    ASSUME StoreInv, NEW w \in Writers, NEW t \in Tiles, Open(w, t) \/ OpenFails(w, t)
    PROVE  StoreInv'
  <1>1. WriterTypeOK /\ ReaderTypeOK /\ overlapped \subseteq Tiles
    BY DEF StoreInv, TypeOK
  <1>2. /\ writer[w] = "out"
        /\ target' = [target EXCEPT ![w] = t]
        /\ overlapped' = IF Storing(t) = {} THEN overlapped ELSE overlapped \cup {t}
        /\ UNCHANGED readerVars
    BY DEF Open, OpenFails
  <1>3. \A v \in Writers \ {w} :
           /\ writer'[v] = writer[v] /\ target'[v] = target[v] /\ fd'[v] = fd[v]
    <2>1. CASE Open(w, t)
      BY <1>1, <2>1 DEF Open, WriterTypeOK
    <2>2. CASE OpenFails(w, t)
      BY <1>1, <2>2 DEF OpenFails, WriterTypeOK
    <2> QED
      BY <2>1, <2>2
  <1>4. target'[w] = t
    BY <1>1, <1>2 DEF WriterTypeOK
  <1>5. \A u \in Tiles : /\ file'[u]["final"] = file[u]["final"]
                         /\ u # t => file'[u] = file[u]
    <2>0. file \in [Tiles -> [Names -> Contents]]
      BY <1>1 DEF WriterTypeOK
    <2>1. CASE Open(w, t)
      <3>1. file' = [file EXCEPT ![t]["part"] = "empty"]
        BY <2>1 DEF Open
      <3> QED
        BY <2>0, <3>1
    <2>2. CASE OpenFails(w, t)
      BY <2>2 DEF OpenFails
    <2> QED
      BY <2>1, <2>2
  <1>6. WriterTypeOK'
    <2>1. CASE Open(w, t)
      BY <1>1, <2>1 DEF Open, WriterTypeOK
    <2>2. CASE OpenFails(w, t)
      BY <1>1, <2>2 DEF OpenFails, WriterTypeOK
    <2> QED
      BY <2>1, <2>2
  <1>7. TypeOK'
    <2>1. ReaderTypeOK'
      BY <1>1, <1>2 DEF ReaderTypeOK, readerVars
    <2>2. overlapped' \subseteq Tiles
      BY <1>1, <1>2
    <2>3. mishap' \in BOOLEAN
      BY Zenon DEF Open, OpenFails, StoreInv, TypeOK
    <2> QED
      BY <1>6, <2>1, <2>2, <2>3 DEF TypeOK
  <1>8. \A v \in Writers \ {w} : writer[v] # "out" /\ target[v] = t => t \in overlapped'
    BY <1>2 DEF Storing
  <1>9. overlapped \subseteq overlapped'
    BY <1>2
  <1>10. Alone'
    BY <1>3, <1>4, <1>8, <1>9 DEF Alone, StoreInv
  <1>11. OwnPart'
    <2> SUFFICES ASSUME NEW v \in Writers, target'[v] \notin overlapped'
                 PROVE  /\ writer'[v] = "opened" =>
                              fd'[v] = "part" /\ file'[target'[v]]["part"] = "empty"
                        /\ writer'[v] = "written" => file'[target'[v]]["part"] = "whole"
      BY DEF OwnPart
    <2>1. CASE v # w
      <3>1. target[v] = t => writer[v] = "out"
        BY <1>3, <1>8, <2>1
      <3>2. target[v] \in Tiles
        BY <1>1 DEF WriterTypeOK
      <3> QED
        BY <1>3, <1>5, <1>9, <2>1, <3>1, <3>2 DEF OwnPart, StoreInv
    <2>2. CASE v = w /\ Open(w, t)
      <3>1. /\ file \in [Tiles -> [Names -> Contents]]
            /\ writer \in [Writers -> WriterStates]
            /\ fd \in [Writers -> Names \cup {"none", "gone"}]
        BY <1>1 DEF WriterTypeOK
      <3>2. /\ file' = [file EXCEPT ![t]["part"] = "empty"]
            /\ fd' = [fd EXCEPT ![w] = "part"]
            /\ writer' = [writer EXCEPT ![w] = "opened"]
        BY <2>2 DEF Open
      <3> QED
        BY <1>4, <2>2, <3>1, <3>2
    <2>3. CASE v = w /\ OpenFails(w, t)
      BY <1>1, <2>3 DEF OpenFails, WriterTypeOK
    <2> QED
      BY <2>1, <2>2, <2>3
  <1>12. NoCleanup'
    <2> SUFFICES ASSUME ~mishap', NEW v \in Writers, target'[v] \notin overlapped'
                 PROVE  writer'[v] \in {"out", "opened", "written"}
      BY DEF NoCleanup
    <2>1. Open(w, t) /\ ~mishap
      BY DEF Open, OpenFails
    <2>2. CASE v = w
      BY <1>1, <2>1, <2>2 DEF Open, WriterTypeOK
    <2>3. CASE v # w
      BY <1>3, <1>9, <2>1, <2>3 DEF NoCleanup, StoreInv
    <2> QED
      BY <2>2, <2>3
  <1>13. FinalGood' /\ ReadGood' /\ FoundIsThere' /\ ReadLast'
    <2>1. mishap => mishap'
      BY DEF Open, OpenFails
    <2>2. \A u \in Tiles \ overlapped' : file'[u]["final"] \in {"none", "whole"}
      BY <1>5, <1>9 DEF StoreInv, FinalGood
    <2> QED
      BY <1>2, <1>5, <1>7, <1>9, <2>1, <2>2, ReadersUnmoved
  <1> QED
    BY <1>7, <1>10, <1>11, <1>12, <1>13 DEF StoreInv

\* What a thread does to a tile that it stores alone.
LEMMA StoresWhole ==
    ASSUME StoreInv, NEW w \in Writers, StoreStep(w), NEW t \in Tiles, t = target[w],
           t \notin overlapped
    PROVE  /\ writer'[w] = "written" => file'[t]["part"] = "whole"
           /\ writer'[w] # "opened"
           /\ ~mishap' => writer'[w] \in {"out", "written"}
           /\ file'[t]["final"] \in {"none", "whole"}
           /\ ~mishap' => file'[t]["final"] \in {file[t]["final"], "whole"}
  <1>1. /\ WriterTypeOK
        /\ file[t]["final"] \in {"none", "whole"}
        /\ writer[w] = "opened" => fd[w] = "part" /\ file[t]["part"] = "empty"
        /\ writer[w] = "written" => file[t]["part"] = "whole"
        /\ ~mishap => writer[w] \in {"out", "opened", "written"}
    BY DEF StoreInv, TypeOK, FinalGood, OwnPart, NoCleanup
  <1>2. /\ file \in [Tiles -> [Names -> Contents]]
        /\ writer \in [Writers -> WriterStates]
        /\ fd \in [Writers -> Names \cup {"none", "gone"}]
    BY <1>1 DEF WriterTypeOK
  <1>3. CASE Write(w)
    <2>1. file' = [file EXCEPT ![t]["part"] = "whole"]
      BY <1>1, <1>3 DEF Write, Fill, Found
    <2>2. writer' = [writer EXCEPT ![w] = "written"]
      BY <1>3 DEF Write
    <2>3. file'[t]["part"] = "whole" /\ file'[t]["final"] = file[t]["final"]
      BY <1>2, <2>1
    <2> QED
      BY <1>1, <1>2, <2>2, <2>3
  <1>4. CASE WriteFails(w)
    <2>1. PICK c \in {Found(w), IF Found(w) = "empty" THEN "partial" ELSE "mixed"} : Fill(w, c)
      BY <1>4 DEF WriteFails
    <2>2. file' = [file EXCEPT ![t]["part"] = c]
      BY <1>1, <1>4, <2>1 DEF WriteFails, Fill
    <2>3. writer' = [writer EXCEPT ![w] = "failed"] /\ mishap'
      BY <1>4 DEF WriteFails
    <2>4. file'[t]["final"] = file[t]["final"]
      <3>1. c \in Contents
        BY <1>1, <2>1, FoundType
      <3> QED
        BY <1>2, <2>2, <3>1
    <2> QED
      BY <1>1, <1>2, <2>3, <2>4
  <1>5. CASE Rename(w)
    <2>1. file[t]["part"] = "whole"
      BY <1>1, <1>5 DEF Rename
    <2>2. file'[t]["final"] = "whole" /\ writer' = [writer EXCEPT ![w] = "out"]
      BY <1>1, <1>5, <2>1, RenameMoves
    <2> QED
      BY <1>2, <2>2
  <1>6. CASE TestPart(w) \/ TestFinal(w)
    BY <1>1, <1>2, <1>6 DEF TestPart, TestFinal
  <1>7. CASE RemovePart(w) \/ RemoveFinal(w)
    BY <1>1, <1>2, <1>7 DEF RemovePart, RemoveFinal
  <1> QED
    BY <1>3, <1>4, <1>5, <1>6, <1>7 DEF StoreStep

\* A thread goes on with its store.
LEMMA StoreStepInv ==
    ASSUME StoreInv, NEW w \in Writers, StoreStep(w)
    PROVE  StoreInv'
  <1>1. WriterTypeOK /\ ReaderTypeOK /\ overlapped \subseteq Tiles
    BY DEF StoreInv, TypeOK
  <1>2. target[w] \in Tiles
    BY <1>1 DEF WriterTypeOK
  <1>3. /\ UNCHANGED <<target, readerVars, overlapped>>
        /\ writer[w] # "out"
    BY DEF StoreStep, Write, WriteFails, Rename, TestPart, RemovePart, TestFinal, RemoveFinal
  <1>4. \A v \in Writers \ {w} : writer'[v] = writer[v]
    <2>1. \E s \in WriterStates : writer' = [writer EXCEPT ![w] = s]
      BY DEF StoreStep, Write, WriteFails, Rename, TestPart, RemovePart, TestFinal, RemoveFinal
    <2>2. writer \in [Writers -> WriterStates]
      BY <1>1 DEF WriterTypeOK
    <2> QED
      BY <2>1, <2>2
  <1>5. \A u \in Tiles \ {target[w]} : file'[u] = file[u]
    <2>1. file \in [Tiles -> [Names -> Contents]]
      BY <1>1 DEF WriterTypeOK
    <2> QED
      BY <1>2, <2>1 DEF StoreStep, Write, WriteFails, Fill, Rename, TestPart, RemovePart,
                        TestFinal, RemoveFinal
  <1>6. \A v \in Writers : target[v] # target[w] => fd'[v] = fd[v]
    <2>1. fd \in [Writers -> Names \cup {"none", "gone"}]
      BY <1>1 DEF WriterTypeOK
    <2> QED
      BY <1>2, <2>1 DEF StoreStep, Write, WriteFails, Fill, Rename, Renamed, TestPart,
                        RemovePart, Unlinked, TestFinal, RemoveFinal
  <1>7. TypeOK'
    <2>1. WriterTypeOK'
      BY <1>1, StoreType
    <2>2. ReaderTypeOK'
      BY <1>1, <1>3 DEF ReaderTypeOK, readerVars
    <2>3. mishap' \in BOOLEAN
      BY Zenon DEF StoreStep, Write, WriteFails, Rename, TestPart, RemovePart, TestFinal,
                   RemoveFinal, StoreInv, TypeOK
    <2> QED
      BY <1>1, <1>3, <2>1, <2>2, <2>3 DEF TypeOK
  <1>8. mishap => mishap'
    BY DEF StoreStep, Write, WriteFails, Rename, TestPart, RemovePart, TestFinal, RemoveFinal
  <1>9. Alone'
    BY <1>3, <1>4 DEF Alone, StoreInv
  <1>10. \A v \in Writers \ {w} :
            target[v] = target[w] /\ target[w] \notin overlapped => writer[v] = "out"
    BY <1>3 DEF Alone, StoreInv
  <1>11. target[w] \notin overlapped =>
            /\ writer'[w] = "written" => file'[target[w]]["part"] = "whole"
            /\ writer'[w] # "opened"
            /\ ~mishap' => writer'[w] \in {"out", "written"}
            /\ file'[target[w]]["final"] \in {"none", "whole"}
            /\ ~mishap' => file'[target[w]]["final"] \in {file[target[w]]["final"], "whole"}
    BY <1>2, StoresWhole
  <1>12. OwnPart'
    <2> SUFFICES ASSUME NEW v \in Writers, target[v] \notin overlapped
                 PROVE  /\ writer'[v] = "opened" =>
                              fd'[v] = "part" /\ file'[target[v]]["part"] = "empty"
                        /\ writer'[v] = "written" => file'[target[v]]["part"] = "whole"
      BY <1>3 DEF OwnPart
    <2>1. CASE v = w
      BY <1>11, <2>1
    <2>2. CASE v # w /\ target[v] = target[w]
      BY <1>4, <1>10, <2>2
    <2>3. CASE target[v] # target[w]
      <3>1. target[v] \in Tiles
        BY <1>1 DEF WriterTypeOK
      <3> QED
        BY <1>4, <1>5, <1>6, <2>3, <3>1 DEF OwnPart, StoreInv
    <2> QED
      BY <2>1, <2>2, <2>3
  <1>13. NoCleanup'
    BY <1>3, <1>4, <1>8, <1>11 DEF NoCleanup, StoreInv
  <1>14. FinalGood' /\ ReadGood' /\ FoundIsThere' /\ ReadLast'
    <2>1. \A u \in Tiles \ overlapped' :
             /\ file'[u]["final"] \in {"none", "whole"}
             /\ ~mishap' => file'[u]["final"] \in {file[u]["final"], "whole"}
      BY <1>3, <1>5, <1>11 DEF FinalGood, StoreInv
    <2> QED
      BY <1>3, <1>7, <1>8, <2>1, ReadersUnmoved
  <1> QED
    BY <1>7, <1>9, <1>12, <1>13, <1>14 DEF StoreInv

\* What a reader sees under the tile's own name is what is there, as a thread
\* that stores the tile alone writes to the .part file.
LEMMA SeenWhole ==
    ASSUME StoreInv, NEW t \in Tiles, t \notin overlapped, NEW c \in Seen(t, "final")
    PROVE  c = file[t]["final"] /\ c \in {"none", "whole"}
  BY DEF Seen, StoreInv, FinalGood, OwnPart

LEMMA SeenType ==
    ASSUME WriterTypeOK, NEW t \in Tiles, NEW n \in Names
    PROVE  Seen(t, n) \subseteq Contents
  <1>1. file[t][n] \in Contents
    <2>1. file \in [Tiles -> [Names -> Contents]]
      BY DEF WriterTypeOK
    <2> QED
      BY <2>1
  <1> QED
    BY <1>1 DEF Seen

ReadStep(r) ==
    \/ \E t \in Tiles : Look(r, t)
    \/ FindStep(r) \/ IsStored(r) \/ GetTile(r) \/ Return(r)

LEMMA ReadType ==
    ASSUME StoreInv, NEW r \in Readers, ReadStep(r)
    PROVE  ReaderTypeOK'
  <1>1. WriterTypeOK /\ ReaderTypeOK
    BY DEF StoreInv, TypeOK
  <1>2. CASE \E t \in Tiles : Look(r, t)
    BY <1>1, <1>2 DEF Look, ReaderTypeOK
  <1>3. CASE Primary(r)
    BY <1>1, <1>3 DEF Primary, ReaderTypeOK
  <1>4. CASE Glob(r)
    BY <1>1, <1>4 DEF Glob, ReaderTypeOK
  <1>5. CASE NothingFound(r)
    BY <1>1, <1>5 DEF NothingFound, ReaderTypeOK
  <1>6. CASE Stat(r)
    BY <1>1, <1>6 DEF Stat, ReaderTypeOK
  <1>7. ASSUME NEW n \in Names, Try(r, n) PROVE ReaderTypeOK'
    BY <1>1, <1>7 DEF Try, ReaderTypeOK
  <1>8. CASE IsStored(r)
    BY <1>1, <1>8 DEF IsStored, ReaderTypeOK
  <1>9. CASE GetTile(r)
    <2>1. sought[r] \in Tiles /\ path[r] \in Names
      BY <1>1, <1>9 DEF GetTile, ReaderTypeOK, ReadLast, StoreInv
    <2>2. Seen(sought[r], path[r]) \subseteq Contents
      BY <1>1, <2>1, SeenType
    <2>3. got' \in [Readers -> Contents]
      BY <1>1, <1>9, <2>2 DEF GetTile, ReaderTypeOK
    <2> QED
      BY <1>1, <1>9, <2>3 DEF GetTile, ReaderTypeOK
  <1>10. CASE Return(r)
    BY <1>1, <1>10 DEF Return, ReaderTypeOK
  <1> QED
    BY <1>2, <1>3, <1>4, <1>5, <1>6, <1>7, <1>8, <1>9, <1>10 DEF ReadStep, FindStep

\* A reader takes a step.
LEMMA ReaderStep ==
    ASSUME StoreInv, NEW r \in Readers, ReadStep(r)
    PROVE  StoreInv'
  <1>1. WriterTypeOK /\ ReaderTypeOK /\ overlapped \subseteq Tiles /\ ReadLast
    BY DEF StoreInv, TypeOK
  <1>2. UNCHANGED <<file, writerVars, overlapped, mishap>>
    BY DEF ReadStep, Look, FindStep, Primary, Glob, NothingFound, Stat, Try, IsStored, GetTile,
           Return
  <1>3. FinalGood' /\ Alone' /\ OwnPart' /\ NoCleanup'
    BY <1>2 DEF FinalGood, Alone, OwnPart, NoCleanup, StoreInv, writerVars
  <1>4. TypeOK'
    <2>1. WriterTypeOK'
      BY <1>1, <1>2 DEF WriterTypeOK, writerVars
    <2>2. mishap' \in BOOLEAN
      BY <1>2, Zenon DEF StoreInv, TypeOK
    <2> QED
      BY <1>1, <1>2, <2>1, <2>2, ReadType DEF TypeOK
  <1>5. \A q \in Readers \ {r} :
           /\ reader'[q] = reader[q] /\ sought'[q] = sought[q]
           /\ path'[q] = path[q] /\ got'[q] = got[q]
    BY <1>1 DEF ReadStep, Look, FindStep, Primary, Glob, NothingFound, Stat, Try, IsStored,
                GetTile, Return, ReaderTypeOK
  <1>6. sought[r] \in Tiles /\ sought'[r] \in Tiles
    BY <1>1, <1>4 DEF TypeOK, ReaderTypeOK
  <1> DEFINE Reads == path'[r] = "final" /\ sought'[r] \notin overlapped
                         => got'[r] \in {"none", "whole"}
             Finds == /\ reader'[r] \in {"found", "dated"}
                      /\ path'[r] = "final"
                      /\ ~mishap
                      /\ sought'[r] \notin overlapped
                      => file[sought'[r]]["final"] = "whole"
             Order == /\ got'[r] # "none" => reader'[r] = "stored"
                      /\ reader'[r] \in {"found", "dated"} => path'[r] \in Names
  <1>7. Reads /\ Finds /\ Order
    <2>1. CASE \E t \in Tiles : Look(r, t)
      BY <1>1, <2>1 DEF Look, ReaderTypeOK, ReadLast
    <2>2. CASE Primary(r)
      <3>1. got[r] = "none" /\ got' = got /\ sought' = sought
        BY <1>1, <2>2 DEF Primary, ReadLast
      <3>2. CASE /\ \E c \in Seen(sought[r], "final") : Image(c)
                 /\ reader' = [reader EXCEPT ![r] = "found"]
                 /\ path' = [path EXCEPT ![r] = "final"]
        <4>1. sought[r] \notin overlapped => file[sought[r]]["final"] = "whole"
          BY <1>6, <3>2, SeenWhole
        <4> QED
          BY <1>1, <3>1, <3>2, <4>1 DEF ReaderTypeOK
      <3>3. CASE reader' = [reader EXCEPT ![r] = "globbing"]
        BY <1>1, <3>1, <3>3 DEF ReaderTypeOK
      <3> QED
        BY <2>2, <3>2, <3>3 DEF Primary
    <2>3. CASE Glob(r) \/ NothingFound(r) \/ IsStored(r) \/ Return(r)
      BY <1>1, <2>3 DEF Glob, NothingFound, IsStored, Return, ReaderTypeOK, ReadLast
    <2>4. CASE Stat(r)
      <3>1. Finds
        BY <1>1, <2>4 DEF Stat, FoundIsThere, StoreInv, ReaderTypeOK
      <3> QED
        BY <1>1, <2>4, <3>1 DEF Stat, ReaderTypeOK, ReadLast
    <2>5. ASSUME NEW n \in Names, Try(r, n) PROVE Reads /\ Finds /\ Order
      <3>1. /\ got[r] = "none" /\ got' = got /\ sought' = sought
            /\ path'[r] = n
        BY <1>1, <2>5 DEF Try, ReadLast, ReaderTypeOK
      <3>2. PICK c \in Seen(sought[r], n) :
               reader' = [reader EXCEPT ![r] = CASE c = "none" -> "raised"
                                                 [] Image(c)   -> "found"
                                                 [] OTHER      -> "trying"]
        BY <2>5 DEF Try
      <3>3. reader'[r] \in {"found", "dated"} => Image(c)
        BY <1>1, <3>2 DEF ReaderTypeOK
      <3>4. n = "final" /\ sought[r] \notin overlapped /\ Image(c)
               => file[sought[r]]["final"] = "whole"
        BY <1>6, <3>2, SeenWhole
      <3> QED
        BY <3>1, <3>3, <3>4
    <2>6. CASE GetTile(r)
      <3>1. PICK c \in Seen(sought[r], path[r]) : got' = [got EXCEPT ![r] = c]
        BY <2>6 DEF GetTile
      <3>2. /\ got'[r] = c /\ path' = path /\ sought' = sought
            /\ reader'[r] = IF c # "none" THEN "stored" ELSE "missing"
        BY <1>1, <2>6, <3>1 DEF GetTile, ReaderTypeOK
      <3>3. path[r] = "final" /\ sought[r] \notin overlapped => c \in {"none", "whole"}
        BY <1>6, <3>1, SeenWhole
      <3> QED
        BY <3>2, <3>3
    <2> QED
      BY <2>1, <2>2, <2>3, <2>4, <2>5, <2>6 DEF ReadStep, FindStep
  <1>8. ReadGood'
    BY <1>2, <1>5, <1>7 DEF ReadGood, StoreInv
  <1>9. FoundIsThere'
    BY <1>2, <1>5, <1>7 DEF FoundIsThere, StoreInv
  <1>10. ReadLast'
    BY <1>1, <1>5, <1>7 DEF ReadLast
  <1> QED
    BY <1>3, <1>4, <1>8, <1>9, <1>10 DEF StoreInv

LEMMA CrashStep ==
    ASSUME StoreInv, Crash
    PROVE  StoreInv'
  <1>1. TypeOK'
    <2>1. WriterTypeOK'
      BY DEF StoreInv, TypeOK, WriterTypeOK, Crash
    <2>2. ReaderTypeOK'
      BY DEF StoreInv, TypeOK, ReaderTypeOK, Crash
    <2> QED
      BY <2>1, <2>2 DEF StoreInv, TypeOK, Crash
  <1>2. FinalGood' /\ ReadGood' /\ FoundIsThere' /\ ReadLast'
    BY DEF StoreInv, FinalGood, ReadGood, FoundIsThere, ReadLast, Crash
  <1>3. Alone' /\ OwnPart' /\ NoCleanup'
    BY DEF Alone, OwnPart, NoCleanup, Crash
  <1> QED
    BY <1>1, <1>2, <1>3 DEF StoreInv

LEMMA Unmoved == StoreInv /\ UNCHANGED vars => StoreInv'
  <1> SUFFICES ASSUME StoreInv, UNCHANGED vars PROVE StoreInv'
    OBVIOUS
  <1> USE DEF vars, writerVars, readerVars
  <1>1. TypeOK'
    BY DEF StoreInv, TypeOK, WriterTypeOK, ReaderTypeOK
  <1>2. FinalGood' /\ ReadGood' /\ FoundIsThere' /\ ReadLast'
    BY DEF StoreInv, FinalGood, ReadGood, FoundIsThere, ReadLast
  <1>3. Alone' /\ OwnPart' /\ NoCleanup'
    BY DEF StoreInv, Alone, OwnPart, NoCleanup
  <1> QED
    BY <1>1, <1>2, <1>3 DEF StoreInv

LEMMA StoreInvStep == StoreInv /\ [Next]_vars => StoreInv'
  <1> SUFFICES ASSUME StoreInv, [Next]_vars PROVE StoreInv'
    OBVIOUS
  <1>1. ASSUME NEW w \in Writers, NEW t \in Tiles, Open(w, t) \/ OpenFails(w, t)
        PROVE  StoreInv'
    BY <1>1, BeginStep
  <1>2. ASSUME NEW w \in Writers, StoreStep(w) PROVE StoreInv'
    BY <1>2, StoreStepInv
  <1>3. ASSUME NEW r \in Readers, ReadStep(r) PROVE StoreInv'
    BY <1>3, ReaderStep
  <1>4. CASE Crash
    BY <1>4, CrashStep
  <1>5. CASE UNCHANGED vars
    BY <1>5, Unmoved
  <1> QED
    BY <1>1, <1>2, <1>3, <1>4, <1>5 DEF Next, ReadStep

THEOREM StoreInvariant == Spec => []StoreInv
  BY InitInv, StoreInvStep, PTL DEF Spec

-----------------------------------------------------------------------------
(* Threads that store one tile at a time settle: what they do to each other *)
(* is undone by the cleanup of the last of them that cannot rename.         *)

\* The threads that are going to rename the .part file of the tile.
Active(t) == {w \in Writers : writer[w] \in {"opened", "written"} /\ target[w] = t}

\* There are more of them than .part files, so that one will fail.
Excess(t) ==
    \E w \in Active(t) : file[t]["part"] = "none" \/ \E v \in Active(t) : v # w

\* A cleanup is under way that will remove the tile's own file, or the .part
\* file first.
Cleaned(t) ==
    \E w \in Writers :
        /\ target[w] = t
        /\ \/ writer[w] \in {"failed", "part-removed", "removing-final"}
           \/ writer[w] = "removing-part" /\ file[t]["part"] # "none"

\* A .part file belongs to somebody, and if to one thread alone it is as that
\* thread has left it.
PartOwned(t) ==
    file[t]["part"] # "none" =>
        \E w \in Active(t) :
            \/ \E v \in Active(t) : v # w
            \/ /\ writer[w] = "opened" => fd[w] = "part" /\ file[t]["part"] = "empty"
               /\ writer[w] = "written" => file[t]["part"] = "whole"

\* A tile that is torn will be removed or replaced.
TornIsCleaned(t) ==
    file[t]["final"] \in {"none", "whole"} \/ Excess(t) \/ Cleaned(t)

Settling(t) == PartOwned(t) /\ TornIsCleaned(t)

SettleInv == ~mishap => \A t \in Tiles : Settling(t)

\* What happens to other tiles does not matter.
LEMMA OtherTile ==
    ASSUME NEW t \in Tiles, Settling(t), file'[t] = file[t],
           \A w \in Writers : (~Idle(w) /\ target[w] = t) <=> (~Idle(w) /\ target[w] = t)',
           \A w \in Writers : ~Idle(w) /\ target[w] = t =>
                                  writer'[w] = writer[w] /\ fd'[w] = fd[w]
    PROVE  Settling(t)'
  <1>1. Active(t)' = Active(t)
    BY DEF Active
  <1>2. \A w \in Active(t) : writer'[w] = writer[w] /\ fd'[w] = fd[w]
    BY DEF Active
  <1>3. PartOwned(t)'
    BY <1>1, <1>2 DEF Settling, PartOwned
  <1>4. TornIsCleaned(t)'
    BY <1>1 DEF Settling, TornIsCleaned, Excess, Cleaned
  <1> QED
    BY <1>3, <1>4 DEF Settling

\* A thread that begins makes a .part file or joins those who share one.
LEMMA OpenSettles ==
    ASSUME WriterTypeOK, NEW w \in Writers, NEW t \in Tiles, Settling(t), Open(w, t)
    PROVE  Settling(t)'
  <1>1. /\ writer[w] = "out"
        /\ writer' = [writer EXCEPT ![w] = "opened"]
        /\ target' = [target EXCEPT ![w] = t]
        /\ fd' = [fd EXCEPT ![w] = "part"]
        /\ file' = [file EXCEPT ![t]["part"] = "empty"]
    BY DEF Open
  <1>2. file'[t]["part"] = "empty" /\ file'[t]["final"] = file[t]["final"]
    BY <1>1 DEF WriterTypeOK
  <1>3. writer'[w] = "opened" /\ target'[w] = t /\ fd'[w] = "part"
    BY <1>1 DEF WriterTypeOK
  <1>4. \A v \in Writers \ {w} : writer'[v] = writer[v] /\ target'[v] = target[v]
    BY <1>1 DEF WriterTypeOK
  <1>5. Active(t)' = Active(t) \cup {w} /\ w \notin Active(t)
    BY <1>1, <1>3, <1>4 DEF Active
  <1>6. PartOwned(t)'
    BY <1>2, <1>3, <1>5 DEF PartOwned
  <1>7. Excess(t) => Excess(t)'
    BY <1>5 DEF Excess
  <1>8. Cleaned(t) => Cleaned(t)'
    BY <1>1, <1>2, <1>4 DEF Cleaned
  <1> QED
    BY <1>2, <1>6, <1>7, <1>8 DEF Settling, TornIsCleaned

\* A thread that writes into the tile's own file has lost its .part file to
\* another, so somebody will fail.
LEMMA WriteSettles ==
    ASSUME WriterTypeOK, NEW w \in Writers, NEW t \in Tiles, t = target[w], Settling(t),
           Write(w)
    PROVE  Settling(t)'
  <1>1. /\ writer[w] = "opened"
        /\ writer' = [writer EXCEPT ![w] = "written"]
        /\ target' = target
    BY DEF Write
  <1>2. PICK c \in {"whole", "mixed"} : (c = "mixed" => Found(w) # "empty") /\ Fill(w, c)
    BY DEF Write
  <1>3. /\ file' = IF fd[w] \in Names THEN [file EXCEPT ![t][fd[w]] = c] ELSE file
        /\ fd' = [fd EXCEPT ![w] = "none"]
    BY <1>2 DEF Fill
  <1>4. w \in Active(t) /\ Active(t)' = Active(t)
    BY <1>1 DEF Active, WriterTypeOK
  <1>5. file'[t]["part"] = "none" <=> file[t]["part"] = "none"
    BY <1>2, <1>3 DEF WriterTypeOK
  <1>6. Excess(t)' <=> Excess(t)
    BY <1>4, <1>5 DEF Excess
  <1>7. Cleaned(t) => Cleaned(t)'
    BY <1>1, <1>5 DEF Cleaned, WriterTypeOK
  <1>8. PartOwned(t)'
    <2> SUFFICES ASSUME file[t]["part"] # "none", \A v \in Active(t) : v = w
                 PROVE  file'[t]["part"] = "whole" /\ writer'[w] = "written"
      BY <1>4, <1>5 DEF PartOwned
    <2>1. fd[w] = "part" /\ file[t]["part"] = "empty"
      BY <1>1 DEF Settling, PartOwned
    <2>2. Found(w) = "empty"
      BY <2>1 DEF Found
    <2>3. c = "whole"
      BY <1>2, <2>2
    <2> QED
      BY <1>1, <1>3, <2>1, <2>3 DEF WriterTypeOK
  <1>9. TornIsCleaned(t)'
    <2>1. CASE fd[w] = "final"
      <3>1. Excess(t)
        BY <1>1, <1>4, <2>1 DEF Settling, PartOwned, Excess
      <3> QED
        BY <1>6, <3>1 DEF TornIsCleaned
    <2>2. CASE fd[w] # "final"
      <3>1. file'[t]["final"] = file[t]["final"]
        BY <1>3, <2>2 DEF WriterTypeOK
      <3> QED
        BY <1>6, <1>7, <3>1 DEF Settling, TornIsCleaned
    <2> QED
      BY <2>1, <2>2
  <1> QED
    BY <1>8, <1>9 DEF Settling

\* A thread that shares no .part file renames a whole one; of those that share
\* one somebody remains, and one that finds none begins to clean up.
LEMMA RenameSettles ==
    ASSUME WriterTypeOK, NEW w \in Writers, NEW t \in Tiles, t = target[w], Settling(t),
           Rename(w)
    PROVE  Settling(t)'
  <1>1. writer[w] = "written" /\ target' = target /\ w \in Active(t)
    BY DEF Rename, Active
  <1>2. CASE file[t]["part"] # "none"
    <2>1. /\ file' = [file EXCEPT ![t]["final"] = file[t]["part"], ![t]["part"] = "none"]
          /\ writer' = [writer EXCEPT ![w] = "out"]
      BY <1>2 DEF Rename
    <2>2. file'[t]["part"] = "none" /\ file'[t]["final"] = file[t]["part"]
      BY <2>1 DEF WriterTypeOK
    <2>3. ASSUME NEW v \in Active(t), v # w
          PROVE  Excess(t)'
      <3>1. v \in Active(t)'
        BY <1>1, <2>1, <2>3 DEF Active, WriterTypeOK
      <3> QED
        BY <2>2, <3>1 DEF Excess
    <2>4. ASSUME \A v \in Active(t) : v = w
          PROVE  file[t]["part"] = "whole"
      BY <1>1, <1>2, <2>4 DEF Settling, PartOwned
    <2> QED
      BY <2>2, <2>3, <2>4 DEF Settling, PartOwned, TornIsCleaned
  <1>3. CASE file[t]["part"] = "none"
    <2>1. file' = file /\ writer' = [writer EXCEPT ![w] = "failed"]
      BY <1>3 DEF Rename
    <2>2. Cleaned(t)'
      BY <1>1, <2>1 DEF Cleaned, WriterTypeOK
    <2> QED
      BY <1>3, <2>1, <2>2 DEF Settling, PartOwned, TornIsCleaned
  <1> QED
    BY <1>2, <1>3

\* A cleanup goes on until the tile's own file is removed, or until it finds
\* that the .part file it wanted to remove is gone.
LEMMA CleanupSettles ==
    ASSUME WriterTypeOK, NEW w \in Writers, NEW t \in Tiles, t = target[w], Settling(t),
           TestPart(w) \/ RemovePart(w) \/ TestFinal(w) \/ RemoveFinal(w)
    PROVE  Settling(t)'
  <1>1. target' = target /\ w \notin Active(t)
    BY DEF TestPart, RemovePart, TestFinal, RemoveFinal, Active
  <1>2. PICK s \in {"removing-part", "part-removed", "removing-final", "out"} :
            writer' = [writer EXCEPT ![w] = s]
    BY DEF TestPart, RemovePart, TestFinal, RemoveFinal
  <1>3. Active(t)' = Active(t) /\ \A v \in Active(t) : writer'[v] = writer[v]
    BY <1>1, <1>2 DEF Active, WriterTypeOK
  <1>4. CASE RemovePart(w)
    <2>1. /\ writer[w] = "removing-part"
          /\ file' = [file EXCEPT ![t]["part"] = "none"]
          /\ writer' = [writer EXCEPT ![w] = IF file[t]["part"] # "none"
                                             THEN "part-removed" ELSE "out"]
      BY <1>4 DEF RemovePart
    <2>2. file'[t]["part"] = "none" /\ file'[t]["final"] = file[t]["final"]
      BY <2>1 DEF WriterTypeOK
    <2>3. CASE file[t]["part"] # "none"
      <3>1. Cleaned(t)'
        BY <1>1, <2>1, <2>3 DEF Cleaned, WriterTypeOK
      <3> QED
        BY <2>2, <3>1 DEF Settling, PartOwned, TornIsCleaned
    <2>4. CASE file[t]["part"] = "none"
      <3>1. Cleaned(t) => Cleaned(t)'
        BY <1>1, <2>1, <2>2, <2>4 DEF Cleaned, WriterTypeOK
      <3>2. Excess(t) => Excess(t)'
        BY <1>3, <2>2 DEF Excess
      <3> QED
        BY <2>2, <3>1, <3>2 DEF Settling, PartOwned, TornIsCleaned
    <2> QED
      BY <2>3, <2>4
  <1>5. CASE TestPart(w) \/ TestFinal(w) \/ RemoveFinal(w)
    <2>1. file'[t]["part"] = file[t]["part"]
      BY <1>5 DEF TestPart, TestFinal, RemoveFinal, WriterTypeOK
    <2>2. \A v \in Active(t) : fd[v] = "part" => fd'[v] = "part"
      BY <1>5 DEF TestPart, TestFinal, RemoveFinal, Unlinked, Active, WriterTypeOK
    <2>3. PartOwned(t)'
      BY <1>3, <2>1, <2>2 DEF Settling, PartOwned
    <2>4. TestPart(w) => Cleaned(t)'
      BY <1>1 DEF TestPart, Cleaned, WriterTypeOK
    <2>5. TestFinal(w) => file'[t]["final"] = "none" \/ Cleaned(t)'
      BY <1>1 DEF TestFinal, Cleaned, WriterTypeOK
    <2>6. RemoveFinal(w) => file'[t]["final"] = "none"
      BY DEF RemoveFinal, WriterTypeOK
    <2> QED
      BY <1>5, <2>3, <2>4, <2>5, <2>6 DEF Settling, TornIsCleaned
  <1> QED
    BY <1>4, <1>5

\* A step of a store touches one tile, the thread's own.
LEMMA OwnTileOnly ==
    ASSUME WriterTypeOK, NEW w \in Writers, StoreStep(w),
           NEW t \in Tiles, t # target[w], Settling(t)
    PROVE  Settling(t)'
  <1>1. target' = target /\ \A v \in Writers \ {w} : writer'[v] = writer[v]
    BY DEF StoreStep, Write, WriteFails, Rename, TestPart, RemovePart, TestFinal, RemoveFinal,
           WriterTypeOK
  <1>2. \A v \in Writers : target[v] = t => v # w
    OBVIOUS
  <1>3. \A v \in Writers : target[v] = t => fd'[v] = fd[v]
    BY DEF StoreStep, Write, WriteFails, Fill, Rename, Renamed, TestPart, RemovePart,
           TestFinal, RemoveFinal, Unlinked, WriterTypeOK
  <1>4. file'[t] = file[t]
    BY DEF StoreStep, Write, WriteFails, Fill, Rename, TestPart, RemovePart, TestFinal,
           RemoveFinal, WriterTypeOK
  <1> QED
    BY <1>1, <1>2, <1>3, <1>4, OtherTile

LEMMA SettleInit == Init => SettleInv
  BY DEF Init, WriterInit, SettleInv, Settling, PartOwned, TornIsCleaned

\* A tile that nobody stores is settled.
LEMMA SettledIsWhole == SettleInv => SettlesWhole
  <1> SUFFICES ASSUME SettleInv, NEW t \in Tiles, ~mishap, Storing(t) = {}
               PROVE  file[t]["part"] = "none" /\ file[t]["final"] \in {"none", "whole"}
    BY DEF SettlesWhole
  <1>1. Active(t) = {} /\ ~Cleaned(t)
    BY DEF Storing, Active, Cleaned
  <1> QED
    BY <1>1 DEF SettleInv, Settling, PartOwned, TornIsCleaned, Excess

LEMMA SettleStep == StoreInv /\ SettleInv /\ [Next]_vars => SettleInv'
  <1> SUFFICES ASSUME StoreInv, SettleInv, [Next]_vars, ~mishap', NEW t \in Tiles
               PROVE  Settling(t)'
    BY DEF SettleInv
  <1>1. WriterTypeOK
    BY DEF StoreInv, TypeOK
  <1>2. ~mishap
    BY DEF Next, Open, OpenFails, StoreStep, Write, WriteFails, Rename, TestPart, RemovePart,
           TestFinal, RemoveFinal, Look, FindStep, Primary, Glob, NothingFound, Stat, Try,
           IsStored, GetTile, Return, Crash, vars
  <1>3. Settling(t)
    BY <1>2 DEF SettleInv
  <1>4. ASSUME NEW w \in Writers, NEW u \in Tiles, Open(w, u) \/ OpenFails(w, u)
        PROVE  Settling(t)'
    <2>1. Open(w, u)
      BY <1>4 DEF OpenFails
    <2>2. CASE u = t
      BY <1>1, <1>3, <2>1, <2>2, OpenSettles
    <2>3. CASE u # t
      <3>1. file'[t] = file[t] /\ writer[w] = "out"
        BY <1>1, <2>1, <2>3 DEF Open, WriterTypeOK
      <3>2. target'[w] = u /\ \A v \in Writers \ {w} : /\ writer'[v] = writer[v]
                                                       /\ target'[v] = target[v]
                                                       /\ fd'[v] = fd[v]
        BY <1>1, <2>1 DEF Open, WriterTypeOK
      <3> QED
        BY <1>3, <2>3, <3>1, <3>2, OtherTile
    <2> QED
      BY <2>2, <2>3
  <1>5. ASSUME NEW w \in Writers, StoreStep(w)
        PROVE  Settling(t)'
    <2>1. CASE t = target[w]
      <3>1. ~WriteFails(w)
        BY DEF WriteFails
      <3> QED
        BY <1>1, <1>3, <1>5, <2>1, <3>1, WriteSettles, RenameSettles, CleanupSettles DEF StoreStep
    <2>2. CASE t # target[w]
      BY <1>1, <1>3, <1>5, <2>2, OwnTileOnly
    <2> QED
      BY <2>1, <2>2
  <1>6. ASSUME NEW r \in Readers, ReadStep(r)
        PROVE  Settling(t)'
    <2>1. UNCHANGED <<file, writerVars>>
      BY <1>6 DEF ReadStep, Look, FindStep, Primary, Glob, NothingFound, Stat, Try, IsStored,
                  GetTile, Return
    <2> QED
      BY <1>3, <2>1, OtherTile DEF writerVars
  <1>7. CASE UNCHANGED vars
    BY <1>3, <1>7, OtherTile DEF vars, writerVars
  <1>8. ~Crash
    BY DEF Crash
  <1> QED
    BY <1>4, <1>5, <1>6, <1>7, <1>8 DEF Next, ReadStep

-----------------------------------------------------------------------------
(* A tile that has begun to be stored is kept.  The users of the store rely *)
(* on it for what they report.                                             *)

\* The tile is stored, or it will be.
Kept(t) ==
    ~mishap /\ t \notin overlapped => file[t]["final"] = "whole" \/ Storing(t) # {}

\* Who has read a tile, if only its .part file, has read one that is kept.
ReadIsKept ==
    \A r \in Readers : got[r] \notin {"none", "empty"} => Kept(sought[r])

\* A tile is kept as soon as a thread has begun to store it.
LEMMA BegunIsKept ==
    ASSUME StoreInv, NEW w \in Writers, NEW t \in Tiles, Open(w, t) \/ OpenFails(w, t)
    PROVE  Kept(t)'
  <1>1. writer'[w] # "out" /\ target'[w] = t
    BY DEF Open, OpenFails, StoreInv, TypeOK, WriterTypeOK
  <1> QED
    BY <1>1 DEF Kept, Storing

LEMMA KeptStep ==
    ASSUME StoreInv, [Next]_vars, NEW t \in Tiles, Kept(t)
    PROVE  Kept(t)'
  <1> SUFFICES ASSUME ~mishap', t \notin overlapped'
               PROVE  file'[t]["final"] = "whole" \/ Storing(t)' # {}
    BY DEF Kept
  <1>1. WriterTypeOK
    BY DEF StoreInv, TypeOK
  <1>2. ~mishap /\ t \notin overlapped
    <2>1. ~mishap
      BY DEF Next, Open, OpenFails, StoreStep, Write, WriteFails, Rename, TestPart, RemovePart,
             TestFinal, RemoveFinal, Look, FindStep, Primary, Glob, NothingFound, Stat, Try,
             IsStored, GetTile, Return, Crash, vars
    <2>2. \/ UNCHANGED overlapped
          \/ \E u \in Tiles : overlapped' = IF Storing(u) = {} THEN overlapped
                                                              ELSE overlapped \cup {u}
      BY DEF Next, Open, OpenFails, StoreStep, Write, WriteFails, Rename, TestPart, RemovePart,
             TestFinal, RemoveFinal, Look, FindStep, Primary, Glob, NothingFound, Stat, Try,
             IsStored, GetTile, Return, Crash, vars
    <2> QED
      BY <2>1, <2>2
  <1>3. file[t]["final"] = "whole" \/ \E w \in Writers : writer[w] # "out" /\ target[w] = t
    BY <1>2 DEF Kept, Storing
  <1>4. ASSUME NEW w \in Writers, NEW u \in Tiles, Open(w, u) \/ OpenFails(w, u)
        PROVE  file'[t]["final"] = "whole" \/ Storing(t)' # {}
    <2>1. Open(w, u)
      BY <1>4 DEF OpenFails
    <2>2. file'[t]["final"] = file[t]["final"]
      BY <1>1, <2>1 DEF Open, WriterTypeOK
    <2>3. \A v \in Writers : writer[v] # "out" => writer'[v] # "out" /\ target'[v] = target[v]
      BY <1>1, <2>1 DEF Open, WriterTypeOK
    <2> QED
      BY <1>3, <2>2, <2>3 DEF Storing
  <1>5. ASSUME NEW w \in Writers, StoreStep(w)
        PROVE  file'[t]["final"] = "whole" \/ Storing(t)' # {}
    <2>1. \A v \in Writers \ {w} : writer'[v] = writer[v]
      BY <1>1, <1>5 DEF StoreStep, Write, WriteFails, Rename, TestPart, RemovePart, TestFinal,
            RemoveFinal, WriterTypeOK
    <2>2. target' = target
      BY <1>5 DEF StoreStep, Write, WriteFails, Rename, TestPart, RemovePart, TestFinal, RemoveFinal
    <2>3. CASE target[w] = t
      <3>1. /\ file'[t]["final"] \in {file[t]["final"], "whole"}
            /\ writer'[w] \in {"out", "written"}
        BY <1>2, <1>5, <2>3, StoresWhole
      <3>2. writer'[w] = "out" => file'[t]["final"] = "whole"
        <4>1. writer[w] \in {"opened", "written"}
          BY <1>2, <1>5, <2>3 DEF StoreInv, NoCleanup, StoreStep, Write, WriteFails, Rename,
                TestPart, RemovePart, TestFinal, RemoveFinal
        <4>2. CASE writer[w] = "opened"
          BY <1>1, <1>2, <1>5, <4>2 DEF WriterTypeOK, StoreStep, Write, WriteFails, Rename,
                TestPart, RemovePart, TestFinal, RemoveFinal
        <4>3. CASE writer[w] = "written"
          <5>1. file[t]["part"] = "whole" /\ Rename(w)
            BY <1>2, <1>5, <2>3, <4>3 DEF StoreInv, OwnPart, StoreStep, Write, WriteFails,
                  TestPart, RemovePart, TestFinal, RemoveFinal
          <5> QED
            BY <1>1, <2>3, <5>1, RenameMoves
        <4> QED
          BY <4>1, <4>2, <4>3
      <3> QED
        BY <1>3, <2>1, <2>2, <2>3, <3>1, <3>2 DEF Storing
    <2>4. CASE target[w] # t
      <3>1. file'[t] = file[t]
        BY <1>1, <1>5, <2>4 DEF StoreStep, Write, WriteFails, Fill, Rename, TestPart, RemovePart,
              TestFinal, RemoveFinal, WriterTypeOK
      <3> QED
        BY <1>3, <2>1, <2>2, <2>4, <3>1 DEF Storing
    <2> QED
      BY <2>3, <2>4
  <1>6. ASSUME UNCHANGED <<file, writer, target>>
        PROVE  file'[t]["final"] = "whole" \/ Storing(t)' # {}
    BY <1>3, <1>6 DEF Storing
  <1>7. ASSUME NEW r \in Readers, ReadStep(r)
        PROVE  UNCHANGED <<file, writer, target>>
    BY <1>7 DEF ReadStep, Look, FindStep, Primary, Glob, NothingFound, Stat, Try, IsStored,
                GetTile, Return, writerVars
  <1>8. CASE UNCHANGED vars
    BY <1>6, <1>8 DEF vars, writerVars
  <1>9. ~Crash
    BY DEF Crash
  <1> QED
    BY <1>4, <1>5, <1>6, <1>7, <1>8, <1>9 DEF Next, ReadStep

LEMMA ReadIsKeptStep ==
    ASSUME StoreInv, SettleInv, ReadIsKept, [Next]_vars
    PROVE  ReadIsKept'
  <1> SUFFICES ASSUME NEW r \in Readers, got'[r] \notin {"none", "empty"}
               PROVE  Kept(sought[r])'
    BY DEF ReadIsKept
  <1>1. ReaderTypeOK /\ WriterTypeOK /\ ReadLast
    BY DEF StoreInv, TypeOK
  <1>2. ASSUME got'[r] = got[r]
        PROVE  Kept(sought[r])'
    <2>1. sought[r] \in Tiles /\ Kept(sought[r])
      BY <1>1, <1>2 DEF ReadIsKept, ReaderTypeOK
    <2>2. sought'[r] = sought[r]
      BY <1>1, <1>2 DEF Next, Open, OpenFails, StoreStep, Write, WriteFails, Rename, TestPart,
            RemovePart, TestFinal, RemoveFinal, Look, FindStep, Primary, Glob, NothingFound, Stat,
            Try, IsStored, GetTile, Return, Crash, vars, readerVars, ReadLast, ReaderTypeOK
    <2>3. PICK t \in Tiles : t = sought[r]
      BY <2>1
    <2>4. Kept(t)'
      BY <2>1, <2>3, KeptStep
    <2> QED
      BY <2>2, <2>3, <2>4 DEF Kept, Storing
  <1>3. ASSUME got'[r] # got[r]
        PROVE  GetTile(r)
    BY <1>1, <1>3 DEF Next, Open, OpenFails, StoreStep, Write, WriteFails, Rename, TestPart,
          RemovePart, TestFinal, RemoveFinal, Look, FindStep, Primary, Glob, NothingFound, Stat,
          Try, IsStored, GetTile, Return, Crash, vars, readerVars, ReaderTypeOK
  <1>4. CASE GetTile(r)
    <2>1. UNCHANGED <<file, writer, target, sought, overlapped, mishap>>
      BY <1>4 DEF GetTile, writerVars
    <2>2. PICK t \in Tiles : t = sought[r]
      BY <1>1 DEF ReaderTypeOK
    <2>3. path[r] \in Names /\ got'[r] \in Seen(t, path[r])
      BY <1>1, <1>4, <2>2 DEF GetTile, ReaderTypeOK, ReadLast
    <2>4. Kept(t)
      <3> SUFFICES ASSUME ~mishap, t \notin overlapped, Storing(t) = {}
                   PROVE  file[t]["final"] = "whole"
        BY DEF Kept
      <3>1. file[t]["part"] = "none"
        BY SettledIsWhole DEF SettlesWhole
      <3>2. got'[r] = file[t][path[r]]
        BY <2>3 DEF Seen, Storing
      <3>3. path[r] = "final"
        BY <2>3, <3>1, <3>2
      <3> QED
        BY <1>4, <2>2, <3>3 DEF StoreInv, FoundIsThere, GetTile
    <2> QED
      BY <2>1, <2>2, <2>4 DEF Kept, Storing
  <1> QED
    BY <1>2, <1>3, <1>4

-----------------------------------------------------------------------------
(* The theorems.                                                           *)

\* A tile that no two threads store at a time is whole or missing under its own
\* name, through failing calls and kills (FinalIsWhole).
THEOREM FinalStaysWhole == Spec => []FinalIsWhole
  <1>1. StoreInv => FinalIsWhole
    BY DEF StoreInv, FinalGood, ReadGood, FinalIsWhole
  <1> QED
    BY <1>1, StoreInvariant, PTL

\* A tile found under its own name is there when it is read, as long as nothing
\* fails (FoundIsThere).
THEOREM FoundStaysThere == Spec => []FoundIsThere
  <1>1. StoreInv => FoundIsThere
    BY DEF StoreInv
  <1> QED
    BY <1>1, StoreInvariant, PTL

\* However many threads store a tile at a time, and whoever renames or removes
\* whose file: once all have returned, and nothing has failed, the tile is
\* whole or missing and there is no .part file (SettlesWhole).
THEOREM AllSettleWhole == Spec => []SettlesWhole
  BY SettleInit, SettledIsWhole, StoreInvariant, SettleStep, PTL DEF Spec

=============================================================================
