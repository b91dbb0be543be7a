----------------------------- MODULE MCRoomList -----------------------------
(* An instance of RoomList for TLC.                                        *)
EXTENDS RoomList, TLC

CONSTANTS g1, d, j1, j2, q1, q2

Symmetry == Permutations(Rooms \ Dms) \cup Permutations(Jobs) \cup Permutations(Gets)
=============================================================================
