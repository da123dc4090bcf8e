----------------------------- MODULE MCFrontEnd -----------------------------
(* A small instance of FrontEnd for TLC: two /mcp clients that both number  *)
(* their request 7, one of them a handshake, and a local route.             *)
EXTENDS FrontEnd, TLC

CONSTANTS a, b, l

MCCalls      == {a, b, l}
MCLocalCalls == {l}
MCUngated    == {a}
MCClientIdOf == (a :> 7) @@ (b :> 7) @@ (l :> 9)
=============================================================================
