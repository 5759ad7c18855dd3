\* Two processes, each with one thread.
CONSTANTS
    Procs = {p1, p2}
    Threads = {t1}
    Keys = {k1, k2}
    Sizes = {1, 2}
    Cap = 2
    MaxOps = 6
    MaxCrash = 1
    MaxFail = 1
    None = none
SYMMETRY Symmetry
SPECIFICATION Spec
INVARIANTS TypeOK PassReconciles EvictsLeastRecent FreshIsRecent SequentialExact
CHECK_DEADLOCK FALSE
