\* Two servers, restarts and health checks, list calls across a disconnect, and
\* a cache of one entry.
SPECIFICATION ManagerFairSpec
CONSTANTS
    s1 = s1  s2 = s2  c1 = c1  c2 = c2  c3 = c3  l1 = l1  Absent = Absent
    Servers <- TwoServers
    Clients <- ThreeClients
    Listers <- OneLister
    MaxSize = 1
    TTL = 1
    Wired = TRUE
    Faults = TRUE
    RestartBound = 1
CHECK_DEADLOCK FALSE
INVARIANTS
    CacheBounded
    ServedIsPersisted
PROPERTIES
    ForgetsDisconnected
