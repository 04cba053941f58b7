SPECIFICATION Spec
CONSTANTS
    s1 = s1
    s2 = s2
    Streams = {s1}
    ExistsAtStart = TRUE
    InitialLines = 1
    MaxLines = 2
    ChunkSize = 3
    MaxEvents = 3
    MaxRequests = 1
    MayCancel = FALSE
    MayFail = FALSE
INVARIANTS
    ReadToTheEnd
CHECK_DEADLOCK FALSE
