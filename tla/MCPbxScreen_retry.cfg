SPECIFICATION Spec
CONSTANTS
    sales = sales
    support = support
    x100 = x100
    None = None
    Context <- OneContext
    Extension <- OneNumber
    Assignments <- OnlyOne
    MaxRequests = 1
    MaxOps = 2
    MaxOthers = 0
INVARIANT
    RetryMeetsNoOwnAttempt
