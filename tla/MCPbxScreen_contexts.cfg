SPECIFICATION Spec
CONSTANTS
    sales = sales
    support = support
    x100 = x100
    None = None
    Context <- TwoContexts
    Extension <- OneNumber
    Assignments <- PrimaryComesAndGoes
    MaxRequests = 2
    MaxOps = 1
    MaxOthers = 0
CONSTRAINT FormClosed
INVARIANTS
    RightContext
