SPECIFICATION FairSpec
CONSTANTS
    t1 = t1
    t2 = t2
    tab1 = tab1
    tab2 = tab2
    NoTenant = NoTenant
    Tenant <- TwoTenants
    FirstUsers <- AnyUser
    Tab <- TwoTabs
    MaxCalls = 2
    MaxActs = 1
    MaxChanges = 1
CONSTRAINT OneTabFirst
INVARIANTS
    AccessIsCurrent
PROPERTIES
    NothingWaits
CHECK_DEADLOCK FALSE
