\* Release stores may be buffered, pending calls refused at any time; no
\* symmetry, for liveness.
CONSTANTS
    Items = {i1, i2}
    CudaThreads = {c1, c2}
    PyThreads = {}
    Main = main
    Null = null
    PendingCallsFill = TRUE
    StoreBuffers = TRUE
SPECIFICATION FairSpec
INVARIANTS NoPayloadLost ScheduledIsOwned QueuedWorkIsCovered
PROPERTIES ImplementsReclamation RetiredIsDestroyed
