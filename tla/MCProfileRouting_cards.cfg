SPECIFICATION Spec
CONSTANTS
    acme = acme
    other = other
    sales = sales
    support = support
    d1 = d1
    s = s
    t1 = t1
    t2 = t2
    None = None
    Tenant <- Tenants
    Context <- Contexts
    Did <- OneDid
    Holder <- HeldByAcme
    Setting <- OneSetting
    Tab <- TwoTabs
    MaxCalls = 2
    MaxTurns = 1
    Beginning <- Situations
    Assigned <- Moved
PROPERTIES
    NoLostRouteEdit
    NoLostAssignment
CHECK_DEADLOCK FALSE
