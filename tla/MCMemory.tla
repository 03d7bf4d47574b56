------------------------------ MODULE MCMemory ------------------------------
(* An instance of Memory for TLC. *)
EXTENDS Memory

CONSTANTS r1, r2, t1, t2, s1, s2

TwoRequests  == {r1, r2}
ThreeEntries == 1 .. 3
TwoTenants   == {t1, t2}
TwoSessions  == {s1, s2}

\* Two tenants use the same session; one of them has another.
Tenant  == <<t1, t2, t1>>
Session == <<s1, s1, s2>>
=============================================================================
