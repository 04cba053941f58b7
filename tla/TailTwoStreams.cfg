SPECIFICATION FairSpec
CONSTANTS
    s1 = s1
    s2 = s2
    Streams = {s1, s2}
    ExistsAtStart = FALSE
    InitialLines = 1
    MaxLines = 1
    ChunkSize = 3
    MaxEvents = 1
    MaxRequests = 1
    MayCancel = FALSE
    MayFail = FALSE
PROPERTIES
    CloseEndsStream
CHECK_DEADLOCK FALSE
