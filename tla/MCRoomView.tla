----------------------------- MODULE MCRoomView -----------------------------
(* An instance of RoomView for TLC.                                        *)
EXTENDS RoomView, TLC

CONSTANTS A, t1, t2, g1

(* Two tabs of one user toggle. *)
OneBy == [t \in Toggles |-> A]

AnyToggle == Permutations(Toggles)
=============================================================================
