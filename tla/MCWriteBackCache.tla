------------------------- MODULE MCWriteBackCache -------------------------
(***************************************************************************)
(* The cache for TLC.  Sectors and offsets are interchangeable: the module *)
(* compares them for equality only.                                        *)
(***************************************************************************)
EXTENDS WriteBackCache, TLC

Interchangeable == Permutations(Sectors) \cup Permutations(Offsets)
=============================================================================
