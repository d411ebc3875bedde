SPECIFICATION Spec
CONSTANTS
    t1 = t1
    t2 = t2
    tab1 = tab1
    tab2 = tab2
    NoTenant = NoTenant
    Tenant <- TwoTenants
    FirstUsers <- SuperAdmins
    Tab <- OneTab
    MaxCalls = 2
    MaxActs = 1
    MaxChanges = 0
INVARIANTS
    LiveMatchesBanner
CHECK_DEADLOCK FALSE
