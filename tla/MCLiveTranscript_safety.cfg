SPECIFICATION Spec
CONSTANTS
    a1 = a1
    a2 = a2
    hello = hello
    bye = bye
    None = None
    Attempt <- TwoAttempts
    Segment <- OneSegment
    MaxRevision = 2
    MaxLoads = 2
SYMMETRY SymmetricAttempts
INVARIANTS
    OneConnection
    TextIsTrue
PROPERTIES
    NeverRegresses
CHECK_DEADLOCK FALSE
