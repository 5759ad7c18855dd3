---------------------------- MODULE MCVirtualMemory ----------------------------
(* TLC instance of VirtualMemory: model values, symmetry and a bound.      *)
EXTENDS VirtualMemory, TLC

Symmetry == Permutations(Threads) \cup Permutations(Buffers) \cup Permutations(Handles)

\* No range has been handed out that a box remembered.
NotRecycled == ~recycled
=============================================================================
