-------------------------- MODULE MCHttpProvider --------------------------
(***************************************************************************)
(* Instances of HttpProvider for TLC.  Two calls, so that one can find the *)
(* session another is replacing, fail into a start another awaits, or join *)
(* it.                                                                     *)
(***************************************************************************)
EXTENDS HttpProvider

CONSTANTS c1, c2
TwoCalls == {c1, c2}
=============================================================================
