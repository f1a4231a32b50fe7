SPECIFICATION StreamsSpec
CONSTANTS
    Start = {s1, s2, s3}
    Stops = {p1}
    NoStream = NoStream
    MayFail = FALSE
    MayOverlap = FALSE
INVARIANT OneLive
CHECK_DEADLOCK FALSE
