------------------------------ MODULE MCBridge ------------------------------
(***************************************************************************)
(* Instances of Bridge for TLC: one call of each kind.                     *)
(***************************************************************************)
EXTENDS Bridge

CONSTANTS c1, j1, s1
OneCommand == {c1}
OneJob     == {j1}
OneSession == {s1}

=============================================================================
