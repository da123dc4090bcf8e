----------------------------- MODULE MCProvider -----------------------------
(***************************************************************************)
(* Instances of Provider for TLC.  Four starts: the first and three        *)
(* restarts, one more than RestartMax lets happen within the window.       *)
(***************************************************************************)
EXTENDS Provider

AllModes      == {"isolated", "personal"}
PersonalOnly  == {"personal"}

=============================================================================
