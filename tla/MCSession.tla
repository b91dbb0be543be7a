----------------------------- MODULE MCSession ------------------------------
(* An instance of Session for TLC: one token for each of two users.        *)
EXTENDS Session, TLC

CONSTANTS p, q, A, B, a1, b1, c1, c2

MCOwner == [k \in Tokens |-> IF k = b1 THEN B ELSE A]

(* The users change places together with their tokens. *)
Swapped == (A :> B) @@ (B :> A) @@ (a1 :> b1) @@ (b1 :> a1)
Symmetry == Permutations(Tabs) \cup Permutations(Calls) \cup {Swapped}
=============================================================================
