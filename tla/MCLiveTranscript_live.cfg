SPECIFICATION FairSpec
CONSTANTS
    a1 = a1
    a2 = a2
    hello = hello
    bye = bye
    None = None
    Attempt <- TwoAttempts
    Segment <- OneSegment
    MaxRevision = 1
    MaxLoads = 2
PROPERTIES
    CatchesUp
CHECK_DEADLOCK FALSE
