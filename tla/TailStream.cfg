SPECIFICATION FairSpec
CONSTANTS
    s1 = s1
    s2 = s2
    Streams = {s1}
    ExistsAtStart = FALSE
    InitialLines = 0
    MaxLines = 2
    ChunkSize = 3
    MaxEvents = 5
    MaxRequests = 2
    MayCancel = TRUE
    MayFail = TRUE
INVARIANTS
    TypeOK
    StreamIsPrefix
    EofOnlyAfterClose
    AtMostLastLineLost
PROPERTIES
    EarlyLinesArrive
CHECK_DEADLOCK FALSE
