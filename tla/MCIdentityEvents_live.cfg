SPECIFICATION FairSpec
CONSTANTS
    old = old
    new = new
    h1 = h1
    h2 = h2
    catchup = catchup
    Proc <- OneProcess
    Handler <- OneHandler
    Replay = catchup
    MaxEventId = 3
    PageSize = 2
    PoolSize = 1
    MaxFaults = 1
PROPERTIES
    DeliveredEventually
    StartReplaysMissedEvents
CHECK_DEADLOCK FALSE
