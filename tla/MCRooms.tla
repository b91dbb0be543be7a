------------------------------ MODULE MCRooms ------------------------------
(* An instance of Rooms for TLC.                                           *)
EXTENDS Rooms, TLC

CONSTANTS A, B, C, g, d, q1, q2, q3

Dm(u, v) == [op |-> "dm", by |-> u, to |-> v]
Invite(u, v, r) == [op |-> "invite", by |-> u, to |-> v, room |-> r]
LeaveOf(u, r) == [op |-> "leave", by |-> u, room |-> r]

(* A and C are in the group; B is, was or never was.  A and B may have had *)
(* a DM, which each may have left. *)
Left(b, dm) ==
    [r \in Rows |->
        CASE r = <<g, B>> -> b
          [] r \in {<<g, A>>, <<g, C>>} -> "in"
          [] r[1] = d /\ r[2] \in DOMAIN dm -> dm[r[2]]
          [] OTHER -> "none"]
LeftTables ==
    {Left(b, dm) : b \in {"none", "in", "out"},
                   dm \in [{A, B} -> {"in", "out"}] \cup {[u \in {} |-> "in"]}}

(* A and B want a DM, both of them and twice over, and leave it; A and C   *)
(* invite B to a group B may be in, out of, or new to, and all may leave.  *)
CrossedJobs ==
    {[op |-> "create", by |-> A],
     Dm(A, B), Dm(B, A), LeaveOf(A, d), LeaveOf(B, d), Invite(A, C, d),
     Invite(A, B, g), Invite(C, B, g), LeaveOf(A, g), LeaveOf(B, g)}

AnyRequest == Permutations(Requests)
=============================================================================
