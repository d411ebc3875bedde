SPECIFICATION Spec
CONSTANTS
    sales = sales
    support = support
    x100 = x100
    None = None
    Context <- TwoContexts
    Extension <- OneNumber
    Assignments <- PrimaryMoves
    MaxRequests = 2
    MaxOps = 1
    MaxOthers = 0
INVARIANT
    DeletesRowClicked
