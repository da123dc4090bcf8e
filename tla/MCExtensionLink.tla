-------------------------- MODULE MCExtensionLink --------------------------
(***************************************************************************)
(* An instance of ExtensionLink for TLC: two requests, and three hosts, so *)
(* that one can leave and one crash while a third starts.                  *)
(***************************************************************************)
EXTENDS ExtensionLink

CONSTANTS h1, h2, h3, r1, r2
ThreeHosts  == {h1, h2, h3}
TwoRequests == {r1, r2}
=============================================================================
