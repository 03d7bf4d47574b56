\* Three workers, two tenants and the empty one, two global slots, one a tenant.
SPECIFICATION ExecutorFairSpec
CONSTANTS
    w1 = w1  w2 = w2  w3 = w3  tA = tA  tB = tB  NoTenant = NoTenant  NoOne = NoOne
    Tenants <- TwoTenants
    Workers <- ThreeWorkers
    Languages <- All
    GlobalCap = 2
    PerTenant = 1
    MaxAbandoned = 1
INVARIANTS
    SlotsAccounted
PROPERTIES
    ImplementsLimit
    ExecuteReturns
