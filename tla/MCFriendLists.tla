--------------------------- MODULE MCFriendLists ---------------------------
(* An instance of FriendLists for TLC.                                     *)
EXTENDS FriendLists, TLC

CONSTANTS A, B, q1, q2, q3, f1, f2

(* Nothing between A and B, a request of A, or a friendship A asked for. *)
OneWayTables ==
    {[r \in Rows |-> IF r = <<A, B>> THEN s ELSE "none"] : s \in Status}

Alike == Permutations(Requests) \cup Permutations(Fetches)
=============================================================================
