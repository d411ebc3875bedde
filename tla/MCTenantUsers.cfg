SPECIFICATION Spec
CONSTANTS
    b1 = b1
    b2 = b2
    ann = ann
    bob = bob
    None = None
    Browser <- TwoBrowsers
    User <- TwoUsers
    Beginnings <- Situations
SYMMETRY Browsers
INVARIANTS
    OneAdmission
    OnlyRivalsSpoil
    NoStraySession
    ScreenAtRest
PROPERTIES
    FormsAreFaithful
CHECK_DEADLOCK FALSE
