\* Two threads, one growth and its neighbours, a failing driver call.
CONSTANTS
    Threads = {t1, t2}
    Buffers = {b1, b2, b3}
    Handles = {h1, h2, h3}
    Top = 6
    Gran = 2
    Sizes = {2, 3, 4}
    MaxOps = 3
    MaxFaults = 1
    None = none
SYMMETRY Symmetry
SPECIFICATION Spec
INVARIANTS TypeOK OpenIsBacked NothingStranded ReferencesAccounted GrowthKeepsContents
PROPERTIES NeverRefused
CHECK_DEADLOCK FALSE
