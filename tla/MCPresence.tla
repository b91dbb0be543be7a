----------------------------- MODULE MCPresence -----------------------------
(* Instances of Presence for TLC.                                          *)
EXTENDS Presence

CONSTANTS A, B, a1, a2, b1, b2, s1, s2, t1, t2, t3

(* Two tabs of A, on two servers, and one of B. *)
PairSockets == {a1, a2, b1}
PairOwner == [w \in PairSockets |-> IF w = b1 THEN B ELSE A]
PairHost == [w \in PairSockets |-> IF w = a2 THEN s2 ELSE s1]
PairTab == [w \in PairSockets |->
               CASE w = a1 -> t1 [] w = a2 -> t2 [] w = b1 -> t3]

(* One socket of A; a tab of B that connects a second time. *)
BackSockets == {a1, b1, b2}
BackOwner == [w \in BackSockets |-> IF w = a1 THEN A ELSE B]
BackHost == [w \in BackSockets |-> s1]
BackTab == [w \in BackSockets |-> IF w = a1 THEN t1 ELSE t2]
=============================================================================
