\* Every driver call may fail, restoring the context included.
CONSTANTS
    Graphs = {g1, g2, c1, c2}
    Roots = {g1, g2}
    Nodes = {n1}
    Versions = {v1, v2}
    Execs = {}
    Launches = {}
    Faults = {"create", "retain", "mutate", "tail", "find", "undo", "restore"}
    None = none
    Absent = absent
SYMMETRY Symmetry
SPECIFICATION Spec
INVARIANTS OthersAlive MetadataNeverDangles LookupIsCurrent
CHECK_DEADLOCK FALSE
