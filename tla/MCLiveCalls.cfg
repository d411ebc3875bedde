SPECIFICATION FairSpec
CONSTANTS
    a = a
    b = b
    acme = acme
    other = other
    p1 = p1
    p2 = p2
    phone = phone
    why = why
    None = None
    Call <- TwoCalls
    Tenant <- TwoTenants
    Owner <- Owners
    Device <- OneDevice
    Event <- Events
    MaxEvents = 3
    Happening <- Happenings
    Beginning <- Situations
    PollSlot <- TwoPolls
    MaxKeys = 2
    TakeoverOffered = TRUE
    MaxTurns = 2
INVARIANTS
    LiveIsCurrent
    ViewsAreTrue
    OneTakeover
PROPERTIES
    ScreensLetGo
    DetailConverges
CHECK_DEADLOCK FALSE
