--------------------------- MODULE MCSeenMessages ---------------------------
(* An instance of SeenMessages, and with it of UnreadCounts, for TLC.      *)
EXTENDS SeenMessages, TLC

CONSTANTS x, y, q1, f1

Symmetry == Permutations(Rooms)
=============================================================================
