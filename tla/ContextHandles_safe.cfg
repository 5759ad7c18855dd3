\* Two threads, a primary context that both may retain and a green one, items of
\* both kinds; a driver call may fail, or another library use the primary context.
CONSTANTS
    Threads = {t1, t2}
    Boxes = {b1, b2}
    Primary = primary
    Greens = {g1}
    Items = {i1}
    MaxRetains = 2
    Foreign = TRUE
    MaxFaults = 1
    None = none
SPECIFICATION Spec
INVARIANTS OtherHandlesValid GreenKnown EnteredIsHome CallerRestored NoOrphans
SYMMETRY Symmetry
CHECK_DEADLOCK FALSE
CONSTRAINT OneOrTheOther
