-------------------------- MODULE MCTenantSettings --------------------------
(* An instance of TenantSettings for TLC. *)
EXTENDS TenantSettings

CONSTANTS p1, p2, a, n1, w1, w2, r1

TwoProviders == {p1, p2}
OneKey       == {a}
OneName      == {n1}
TwoWriters   == {w1, w2}
OneReader    == {r1}
=============================================================================
