-------------------------- MODULE MCGraphAttachments --------------------------
(* TLC instance of GraphAttachments: model values and symmetry.            *)
EXTENDS GraphAttachments, TLC

Symmetry == Permutations(Roots) \cup Permutations(Graphs \ Roots) \cup Permutations(Versions) \cup Permutations(Nodes)
=============================================================================
