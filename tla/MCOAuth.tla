------------------------------ MODULE MCOAuth ------------------------------
(***************************************************************************)
(* Instances of OAuth for TLC: a store that holds two tokens of each kind, *)
(* tokens that outlive a tick or two, and a file that may refuse a write.  *)
(***************************************************************************)
EXTENDS OAuth

SaveMayFail == {"save"}
=============================================================================
