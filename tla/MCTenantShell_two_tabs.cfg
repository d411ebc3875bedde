SPECIFICATION FairSpec
CONSTANTS
    t1 = t1
    t2 = t2
    tab1 = tab1
    tab2 = tab2
    NoTenant = NoTenant
    Tenant <- TwoTenants
    FirstUsers <- SuperAdmins
    Tab <- TwoTabs
    MaxCalls = 1
    MaxActs = 1
    MaxChanges = 0
PROPERTIES
    EveryTabSettles
CHECK_DEADLOCK FALSE
