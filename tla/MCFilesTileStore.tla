-------------------------- MODULE MCFilesTileStore --------------------------
(***************************************************************************)
(* FilesTileStore for three writers of one tile, with one reader.  Two     *)
(* writers can share a .part file; the third makes the cases in which one  *)
(* writer renames or removes the file of another.                          *)
(***************************************************************************)
EXTENDS FilesTileStore, TLC

CONSTANTS t1, a, b, c, r1

MCTiles == {t1}
MCWriters == {a, b, c}
MCReaders == {r1}
WriterSymmetry == Permutations(MCWriters)

=============================================================================
