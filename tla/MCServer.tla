------------------------------ MODULE MCServer ------------------------------
(* An instance of Server for TLC: three of main's components. *)
EXTENDS Server, TLC

CONSTANTS http, chat, nats

MainComponents == {http, chat, nats}
TwoFallible    == {http, nats}
=============================================================================
