---------------------------- MODULE MCToolNames ----------------------------
(***************************************************************************)
(* An instance of ToolNames for TLC: an HTTP provider before a child       *)
(* process in the registry, two names a provider can drop, keep or gain,   *)
(* and one of the bridge's own.                                            *)
(***************************************************************************)
EXTENDS ToolNames

CONSTANTS n1, n2, own
AllNames == {n1, n2, own}
OwnNames == {own}
First    == {1}
=============================================================================
