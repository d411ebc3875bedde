SPECIFICATION Spec
CONSTANTS
    t1 = t1
    t2 = t2
    sales = sales
    support = support
    n1 = n1
    n2 = n2
    e1 = e1
    e2 = e2
    None = None
    Tenant <- TwoTenants
    Context <- TwoContexts
    Name <- OneName
    Active <- Enabled
    Editor <- OneEditor
    SingleWriter = TRUE
    MaxRevision = 2
INVARIANT
    FailuresAreRetryable
    ConfiguredByNormalEdit
