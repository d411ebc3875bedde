SPECIFICATION Spec
CONSTANTS
    sales = sales
    x100 = x100
    x101 = x101
    low = low
    high = high
    None = None
    Out = Out
    Context <- OneContext
    Assignments <- OnlyOne
    Extension <- TwoExtensions
    Setting <- OneSetting
    MaxRequests = 1
    MaxLate = 1
    MaxOthers = 1
SYMMETRY SymmetricExtensions
INVARIANT
    EveryExtensionHasDraft
