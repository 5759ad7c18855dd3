\* The driver of nvbug 5570902, where one free unmaps every import; every call
\* may fail; no symmetry, for liveness.
CONSTANTS
    Threads = {t1, t2}
    Descriptors = {d1}
    Boxes = {b1, b2}
    None = none
    FreeUnmapsAll = TRUE
    Pinned = FALSE
    OwnedStreams = TRUE
    MayFail = TRUE
SPECIFICATION FairSpec
INVARIANTS TypeOK MappedUnlessImportedAgain OneDeleterPerImport
PROPERTY CallsReturn
