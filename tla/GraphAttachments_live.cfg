\* The failures that the code undoes completely, so no node is lost track of;
\* no symmetry, for liveness.
CONSTANTS
    Graphs = {g1, g2, c1}
    Roots = {g1, g2}
    Nodes = {n1}
    Versions = {v1, v2}
    Execs = {e1}
    Launches = {l1}
    Faults = {"mutate"}
    None = none
    Absent = absent
SPECIFICATION FairSpec
INVARIANT RetainsOnlyCurrent
PROPERTIES ImplementsLifetime Reclaimed
CHECK_DEADLOCK FALSE
