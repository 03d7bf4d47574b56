\* An owner and two users who join, are promoted, demoted and removed.
SPECIFICATION Spec
CONSTANTS
    u1 = u1  u2 = u2  u3 = u3  r1 = r1  r2 = r2  None = None
    Users <- ThreeUsers
    Owner = u1
    Requests <- TwoRequests
INVARIANTS
    TenantKeepsOwner
