-------------------------- MODULE MCChromeWorkspace --------------------------
(***************************************************************************)
(* Instances of ChromeWorkspace for TLC: two sessions that compete for a   *)
(* pool of one tab that may grow to two, and a target to three.            *)
(***************************************************************************)
EXTENDS ChromeWorkspace, TLC

CONSTANTS a, b
TwoSessions == {a, b}
Symmetric   == Permutations(TwoSessions)
TwoTabs     == {2}
MaxOnly     == {Max}

=============================================================================
