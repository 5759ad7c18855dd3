------------------------- MODULE MCGraphBuilderCapture -------------------------
(* TLC instance of GraphBuilderCapture: model values and symmetry.         *)
EXTENDS GraphBuilderCapture, TLC

Symmetry == Permutations(Builders) \cup Permutations(Streams) \cup Permutations(Graphs)
=============================================================================
