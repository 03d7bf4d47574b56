\* Two requests of one user in two tenants, statements that fail, memberships
\* that change under way.
SPECIFICATION Spec
CONSTANTS
    t0 = t0  t1 = t1  k1 = k1  k2 = k2  k3 = k3  b1 = b1  r1 = r1  r2 = r2
    None = None  DefaultTenant = t0
    Browsers <- OneBrowser
    Tenants <- TwoTenants
    Tokens <- ThreeTokens
    Requests <- TwoRequests
    InitialRoles <- NewUser
    AutoJoinRole = "member"
    Faults = TRUE
SYMMETRY TokenSymmetry
INVARIANTS
    SessionNeverForks
    BlacklistedIsRevoked
    IssuedRoleWasHeld
