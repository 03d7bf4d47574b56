\* Three entries of two tenants in a window of two; two requests at a time, a restart.
SPECIFICATION MemorySpec
CONSTANTS
    r1 = r1  r2 = r2  t1 = t1  t2 = t2  s1 = s1  s2 = s2
    None = None
    Requests <- TwoRequests
    Entries <- ThreeEntries
    Tenants <- TwoTenants
    Sessions <- TwoSessions
    TenantOf <- Tenant
    SessionOf <- Session
    WindowSize = 2
    MaxStarts = 1
CHECK_DEADLOCK FALSE
INVARIANTS
    KeptUntilPushedOut
PROPERTIES
    OwnEntriesOnly
    RequestsAnswered
