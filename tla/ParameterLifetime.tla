-------------------------- MODULE ParameterLifetime --------------------------
(***************************************************************************)
(* What the graph attachments promise: consumers (graph definitions,       *)
(* executables, launches) take up and drop versions of parameters as they  *)
(* please, a version's resources are released at most once, and only while *)
(* no consumer uses them; a consumer never takes up a released version.    *)
(***************************************************************************)
CONSTANTS Versions, Consumers

VARIABLES
    uses,       \* uses[c]: versions consumer c refers to
    released    \* versions whose resources are gone

vars == <<uses, released>>

Init ==
    /\ uses = [c \in Consumers |-> {}]
    /\ released = {}

Change ==
    /\ uses' \in [Consumers -> SUBSET (Versions \ released)]
    /\ UNCHANGED released

Release ==
    /\ released' \in SUBSET Versions
    /\ released \subseteq released'
    /\ \A c \in Consumers : uses[c] \cap released' = {}
    /\ UNCHANGED uses

Next == Change \/ Release

Spec == Init /\ [][Next]_vars
=============================================================================
