----------------------------- MODULE MCCatalog -----------------------------
(* An instance of Catalog for TLC.  Two tenants ask the registry of skills; the *)
(* agent and the workspaces are the first one's.                                *)
EXTENDS Catalog, TLC

CONSTANTS t1, t2, k1, k2, n1, n2, r1, r2, a1, m1, w1, w2, v1, e1, x1, x2

TwoTenants  == {t1, t2}
TwoSkills   == {k1, k2}
TwoNames    == {n1, n2}
TwoRequests == {r1, r2}
OneAgent    == {a1}
AgentName   == {m1}
TwoWs       == {w1, w2}
WsName      == {v1}
TwoModels   == {x1, x2}
OneEditor   == {e1}
FirstTenant == [x \in {a1, w1, w2} |-> t1]

\* Identifiers, names, models and requests are interchangeable.
Symmetry == UNION {Permutations(TwoSkills), Permutations(TwoNames), Permutations(TwoRequests),
                   Permutations(TwoWs), Permutations(TwoModels)}
=============================================================================
