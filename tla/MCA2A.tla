------------------------------- MODULE MCA2A -------------------------------
(* An instance of A2A for TLC. *)
EXTENDS A2A

CONSTANTS c1, c2, a1, k1, k2, s1, n1

TwoCallers      == {c1, c2}
OneAgent        == {a1}
TwoCapabilities == {k1, k2}
OneOrBoth       == {{k1}, {k1, k2}}
OneSubscriber   == {s1}
OneOffer        == {n1}
=============================================================================
