\* Two executables of one source, launches in flight, every call may fail.
CONSTANTS
    Sources = {s1}
    Execs = {e1, e2}
    Launches = {l1}
    Nodes = {n1}
    Accumulators = {a1, a2}
    Owners = {o1, o2}
    MaxOwners = 2
    ReleaseFails = TRUE
    None = none
SPECIFICATION Spec
INVARIANTS AccumulatorCurrent UsesAreOwned
PROPERTIES ImplementsLifetime Reclaimed
CHECK_DEADLOCK FALSE
