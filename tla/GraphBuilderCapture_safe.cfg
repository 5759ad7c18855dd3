\* A stream for every builder; every driver call may fail.
CONSTANTS
    Builders = {b1, b2, b3}
    Streams = {s1, s2, s3}
    Graphs = {g1, g2, g3}
    SharedStreams = FALSE
    Faults = {"info", "invalidate"}
    None = none
SYMMETRY Symmetry
SPECIFICATION Spec
INVARIANTS DanglesOnlyIfBroken NoPoisonedStream EndedIsFinished RecordsIntoItsGraph NoGraphLeaks
CHECK_DEADLOCK FALSE
