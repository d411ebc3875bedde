SPECIFICATION Spec
CONSTANTS
    a = a
    b = b
    acme = acme
    other = other
    p1 = p1
    p2 = p2
    phone = phone
    why = why
    None = None
    Call <- TwoCalls
    Tenant <- TwoTenants
    Owner <- Owners
    Device <- OneDevice
    Event <- Events
    MaxEvents = 3
    Happening <- Happenings
    Beginning <- TakingOver
    PollSlot <- TwoPolls
    MaxKeys = 2
    TakeoverOffered = TRUE
    MaxTurns = 2
INVARIANTS
    OneTakeoverUnlessLost
CHECK_DEADLOCK FALSE
