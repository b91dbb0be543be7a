------------------------- MODULE MCClientConnection -------------------------
(* The instance of ClientConnection for TLC: pings every three ticks, a    *)
(* timeout of one, two pongs missed, as in the code (30 s, 10 s, 2).       *)
EXTENDS ClientConnection
=============================================================================
