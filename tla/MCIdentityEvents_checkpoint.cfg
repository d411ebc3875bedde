SPECIFICATION Spec
CONSTANTS
    old = old
    new = new
    h1 = h1
    h2 = h2
    catchup = catchup
    Proc <- TwoProcesses
    Handler <- OneHandler
    Replay = catchup
    MaxEventId = 2
    PageSize = 1
    PoolSize = 1
    MaxFaults = 2
INVARIANT CheckpointAdvances
CHECK_DEADLOCK FALSE
