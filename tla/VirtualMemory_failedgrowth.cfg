\* One thread, no injected failure: growing the same Buffer twice.
CONSTANTS
    Threads = {t1}
    Buffers = {b1, b2, b3}
    Handles = {h1, h2, h3}
    Top = 8
    Gran = 2
    Sizes = {2, 4, 6}
    MaxOps = 3
    MaxFaults = 0
    None = none
SYMMETRY Symmetry
CONSTRAINT NotRecycled
SPECIFICATION Spec
INVARIANTS FailedGrowthKeepsBuffer
CHECK_DEADLOCK FALSE
