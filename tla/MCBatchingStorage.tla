------------------------- MODULE MCBatchingStorage -------------------------
(***************************************************************************)
(* Small instances of BatchingStorage.  The roles are model values given   *)
(* by each configuration; writers, readers and closers are interchangeable *)
(* among themselves, and so are two backends of the same kind.             *)
(***************************************************************************)
EXTENDS BatchingStorage, TLC

Symmetry ==
    Permutations(Writers) \cup Permutations(Readers) \cup Permutations(Closers)
=============================================================================
