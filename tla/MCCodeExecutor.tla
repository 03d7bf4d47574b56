--------------------------- MODULE MCCodeExecutor ---------------------------
(* An instance of CodeExecutor for TLC. *)
EXTENDS CodeExecutor, TLC

CONSTANTS w1, w2, w3, tA, tB

ThreeWorkers == {w1, w2, w3}
TwoTenants   == {tA, tB}

All          == {"python", "javascript", "other"}
=============================================================================
