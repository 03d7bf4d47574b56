--------------------------- MODULE MCAuthSession ---------------------------
(* An instance of AuthSession for TLC. *)
EXTENDS AuthSession, TLC

CONSTANTS t0, t1, k1, k2, k3, b1, r1, r2

TwoTenants  == {t0, t1}
ThreeTokens == {k1, k2, k3}
OneBrowser  == {b1}
TwoRequests == {r1, r2}

\* A user who has not signed in yet.
NewUser == {[t \in Tenants |-> None]}

\* Tokens are random and requests anonymous.
TokenSymmetry == Permutations(Tokens) \cup Permutations(Requests)
=============================================================================
