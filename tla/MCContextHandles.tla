--------------------------- MODULE MCContextHandles ---------------------------
(* TLC instance of ContextHandles: model values and their symmetry.        *)
EXTENDS ContextHandles, TLC

\* Another library uses the primary context, which is then valid whatever
\* cuda.core does; or it is retained twice, or a driver call fails.
OneOrTheOther == ~(foreign /\ (retains > 1 \/ faults > 0))

Symmetry == Permutations(Threads) \cup Permutations(Boxes)
=============================================================================
