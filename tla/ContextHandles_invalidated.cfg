\* Two threads take the primary context, no call fails, nobody else uses it.
CONSTANTS
    Threads = {t1, t2}
    Boxes = {b1, b2}
    Primary = primary
    Greens = {}
    Items = {i1}
    MaxRetains = 2
    Foreign = FALSE
    MaxFaults = 0
    None = none
SPECIFICATION Spec
INVARIANTS HandlesValid
SYMMETRY Symmetry
CHECK_DEADLOCK FALSE
