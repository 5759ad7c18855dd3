--------------------------- MODULE MCFileStreamCache ---------------------------
(* TLC instance of FileStreamCache: model values and symmetry.             *)
EXTENDS FileStreamCache, TLC

Symmetry == Permutations(Procs) \cup Permutations(Threads) \cup Permutations(Keys)
=============================================================================
