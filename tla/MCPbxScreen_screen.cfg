SPECIFICATION FairSpec
CONSTANTS
    sales = sales
    support = support
    x100 = x100
    None = None
    Context <- OneContext
    Extension <- OneNumber
    Assignments <- OnlyOne
    MaxRequests = 1
    MaxOps = 2
    MaxOthers = 1
CONSTRAINT StartsEmpty
INVARIANTS
    InventoryIsFresh
    SecretKept
PROPERTIES
    SecretGoneForGood
    ScreenReleased
