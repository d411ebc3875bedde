SPECIFICATION Spec
CONSTANTS
    t1 = t1
    t2 = t2
    tab1 = tab1
    tab2 = tab2
    NoTenant = NoTenant
    Tenant <- TwoTenants
    FirstUsers <- TenantAdmins
    Tab <- OneTab
    MaxCalls = 1
    MaxActs = 0
    MaxChanges = 1
INVARIANTS
    TenantAdminNeverOutside
CHECK_DEADLOCK FALSE
