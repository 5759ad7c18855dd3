\* The driver of nvbug 5570902, where one free unmaps every import; no call fails.
CONSTANTS
    Threads = {t1, t2}
    Descriptors = {d1}
    Boxes = {b1, b2}
    None = none
    FreeUnmapsAll = TRUE
    Pinned = FALSE
    OwnedStreams = FALSE
    MayFail = FALSE
SPECIFICATION Spec
INVARIANT UsableWhileHeld
