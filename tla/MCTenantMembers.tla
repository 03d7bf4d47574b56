-------------------------- MODULE MCTenantMembers --------------------------
(* Instances of TenantMembers for TLC. *)
EXTENDS TenantMembers

CONSTANTS u1, u2, u3, r1, r2

ThreeUsers  == {u1, u2, u3}
TwoRequests == {r1, r2}
=============================================================================
