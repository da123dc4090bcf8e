---------------------------- MODULE MCPtyTerminal ----------------------------
(***************************************************************************)
(* An instance of PtyTerminal for TLC.  A behaviour takes one of three     *)
(* scenarios: resizes and signals that overlap; writes that overlap while  *)
(* the program changes its mode; a reader of a program that prints more    *)
(* than the ring holds.                                                    *)
(***************************************************************************)
EXTENDS PtyTerminal

CONSTANTS r1, r2, g1, g2, w1, w2, w3, w4

Resize(n) == [kind |-> "resize", arg |-> n]
Signal    == [kind |-> "signal", arg |-> 0]
Write(p)  == [kind |-> "termios", arg |-> p]

AllCalls ==
    [c \in {r1, r2, g1, g2, w1, w2, w3, w4} |->
        CASE c = r1 -> Resize(1)          [] c = r2 -> Resize(2)
          [] c \in {w1, w2} -> Write(<<"b">>)
          [] c = w3 -> Write(<<"b", "b", "b">>)
          [] c = w4 -> Write(<<"b", "nl", "b">>)
          [] OTHER -> Signal]

AllScenarios ==
    {[calls |-> {r1, r2, g1, g2}, prints |-> 0, switches |-> 0, reads |-> FALSE],
     [calls |-> {w1, w2, w3, w4}, prints |-> 0, switches |-> 2, reads |-> FALSE],
     [calls |-> {}, prints |-> 7, switches |-> 0, reads |-> TRUE]}
=============================================================================
