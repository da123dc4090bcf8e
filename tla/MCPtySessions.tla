--------------------------- MODULE MCPtySessions ---------------------------
(***************************************************************************)
(* Instances of PtySessions for TLC: two pty_start calls that compete for  *)
(* one slot, so that a call is turned away, evicts an ended session, or    *)
(* overlaps with another that holds the slot.                              *)
(***************************************************************************)
EXTENDS PtySessions

CONSTANTS s1, s2
TwoSessions == {s1, s2}
OneSession == {s1}

=============================================================================
