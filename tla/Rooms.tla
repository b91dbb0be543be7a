------------------------------- MODULE Rooms -------------------------------
(* Rooms and their members: creating a group, opening a DM, inviting and   *)
(* leaving (services/room.py, crud/room.py), as requests that run          *)
(* concurrently in transactions of their own (see ReadCommitted).          *)
(*                                                                         *)
(* A request is one action per SQL statement that can see or be stopped by *)
(* another request, one for the payload it publishes, and its commit,      *)
(* which comes last (db/session.py).  UPDATE and DELETE wait for a row     *)
(* they match and another transaction wrote, then look at it again; INSERT *)
(* waits for any row with its key.                                         *)
EXTENDS Naturals, FiniteSets, ReadCommitted

CONSTANTS
    Users,
    Groups,         \* group rooms made by earlier requests
    Dms,            \* DM rooms made by earlier requests
    Requests,       \* a request that makes a room names it
    Tables,         \* what earlier requests left in room_members
    Jobs            \* what a request may be asked to do

RoomIds == Groups \cup Dms \cup Requests
Rows == RoomIds \X Users

Job == [op : {"create"}, by : Users]
       \cup [op : {"dm"}, by : Users, to : Users]
       \cup [op : {"invite"}, by : Users, to : Users, room : RoomIds]
       \cup [op : {"leave"}, by : Users, room : RoomIds]

Exists(tbl, r) == \E u \in Users : tbl[<<r, u>>] # "none"

(* A group has had a creator, a DM has the rows of its two users; the      *)
(* sidebar offers a DM with the other users only. *)
ASSUME RoomsAssumption ==
    /\ Groups \cap Dms = {} /\ Requests \cap (Groups \cup Dms) = {}
    /\ IsFiniteSet(Users)
    /\ Tables \subseteq [Rows -> {"none", "in", "out"}]
    /\ \A tbl \in Tables :
        /\ \A r \in Groups : Exists(tbl, r)
        /\ \A r \in Dms : Exists(tbl, r) =>
              Cardinality({u \in Users : tbl[<<r, u>>] # "none"}) = 2
        /\ \A r \in Requests : ~Exists(tbl, r)
    /\ Jobs \subseteq Job
    /\ \A j \in Jobs : j.op = "dm" => j.by # j.to

VARIABLES
    member,         \* room_members: "in" has left_at NULL, "out" has a date
    writes,         \* writes[q]: rows request q wrote and did not commit
    pc,             \* pc[q]: the next statement of q, or how it ended
    job,            \* job[q]: what q was asked
    found,          \* found[q]: the DM room q read
    matched,        \* matched[q]: rows the UPDATE of several rows matched
    notices,        \* <<request, user, room>> of the room.invite published
    before          \* history: requests that had ended when q began

vars == <<member, writes, pc, job, found, matched, notices, before>>

Ended == {"ok", "refused", "error", "aborted"}
Steps == {"new", "make", "find", "match", "revive", "insert_dm", "permit", "target",
          "rejoin", "insert", "leave", "publish", "commit"}

NoRoom == "no room"
NoJob == [op |-> "none"]

IsDm(r) == r \in Dms \/ (r \in Requests /\ job[r].op = "dm")
TypeOK ==
    /\ member \in [Rows -> {"none", "in", "out"}]
    /\ DOMAIN writes = Requests
    /\ \A q \in Requests :
        /\ DOMAIN writes[q] \subseteq Rows
        /\ writes[q] \in [DOMAIN writes[q] -> {"in", "out"}]
        /\ pc[q] \notin {"publish", "commit"} => writes[q] = NoWrites
    /\ pc \in [Requests -> Steps \cup Ended]
    /\ job \in [Requests -> Jobs \cup {NoJob}]
    /\ found \in [Requests -> RoomIds \cup {NoRoom}]
    /\ matched \in [Requests -> SUBSET Rows]
    /\ notices \in SUBSET (Requests \X Users \X RoomIds)
    /\ before \in [Requests -> SUBSET Requests]

Init ==
    /\ member \in Tables
    /\ writes = [q \in Requests |-> NoWrites]
    /\ pc = [q \in Requests |-> "new"]
    /\ job = [q \in Requests |-> NoJob]
    /\ found = [q \in Requests |-> NoRoom]
    /\ matched = [q \in Requests |-> {}]
    /\ notices = {}
    /\ before = [q \in Requests |-> {}]
-----------------------------------------------------------------------------
Read(q) == Seen(member, writes[q])
Goto(q, l) == pc' = [pc EXCEPT ![q] = l]
Write(q, rs, v) == writes' = [writes EXCEPT ![q] = Wrote(@, rs, v)]
Held(q, rs) == HeldByOther(writes, q, rs)

(* The request arrives; the endpoint's first statement is next. *)
Begin(q) ==
    /\ pc[q] = "new"
    /\ \E j \in Jobs :
        /\ job' = [job EXCEPT ![q] = j]
        /\ Goto(q, CASE j.op = "create" -> "make" [] j.op = "dm" -> "find"
                     [] j.op = "invite" -> "permit" [] j.op = "leave" -> "leave")
    /\ before' = [before EXCEPT ![q] = {x \in Requests : pc[x] \in Ended}]
    /\ UNCHANGED <<member, writes, found, notices, matched>>

(* create_room: the room and its creator's row *)
MakeRoom(q) ==
    /\ pc[q] = "make"
    /\ Write(q, {<<q, job[q].by>>}, "in")
    /\ Goto(q, "commit")
    /\ UNCHANGED <<member, job, found, notices, before, matched>>
-----------------------------------------------------------------------------
(* create_dm *)

(* The DM rooms both users have a row in, whether or not they left. *)
Common(q) == {r \in RoomIds : /\ IsDm(r)
                              /\ Read(q)[<<r, job[q].by>>] # "none"
                              /\ Read(q)[<<r, job[q].to>>] # "none"}

(* Mutant of FindDm: a user who left the room is not found in it. *)
FindDmPresent(q) ==
    LET rooms == {r \in Common(q) : member[<<r, job[q].by>>] = "in"} IN
    /\ pc[q] = "find"
    /\ \/ rooms = {} /\ Goto(q, "insert_dm") /\ UNCHANGED found
       \/ \E r \in rooms : /\ found' = [found EXCEPT ![q] = r]
                           /\ Goto(q, "match")
    /\ UNCHANGED <<member, writes, job, notices, before, matched>>

(* scalar_one_or_none raises MultipleResultsFound on two. *)
FindDm(q) ==
    LET rooms == Common(q) IN
    /\ pc[q] = "find"
    /\ \/ rooms = {} /\ Goto(q, "insert_dm") /\ UNCHANGED found
       \/ \E r \in rooms : /\ rooms = {r}
                           /\ found' = [found EXCEPT ![q] = r]
                           /\ Goto(q, "match")
       \/ Cardinality(rooms) > 1 /\ Goto(q, "error") /\ UNCHANGED found
    /\ UNCHANGED <<member, writes, job, notices, before, matched>>

(* The UPDATE that puts everyone who left the room back in: the rows its   *)
(* snapshot matches, and of these the ones that still match. *)
MatchDm(q) ==
    /\ pc[q] = "match"
    /\ matched' = [matched EXCEPT ![q] =
                      {r \in {found[q]} \X Users : Read(q)[r] = "out"}]
    /\ Goto(q, "revive")
    /\ UNCHANGED <<member, writes, job, found, notices, before>>

ReviveDm(q) ==
    /\ pc[q] = "revive"
    /\ ~Held(q, matched[q])
    /\ Write(q, {r \in matched[q] : member[r] = "out"}, "in")
    /\ matched' = [matched EXCEPT ![q] = {}]
    /\ Goto(q, "commit")
    /\ UNCHANGED <<member, job, found, notices, before>>

(* Mutant of InsertDm: the partner's row is forgotten. *)
InsertDmHalf(q) ==
    /\ pc[q] = "insert_dm"
    /\ Write(q, {<<q, job[q].by>>}, "in")
    /\ found' = [found EXCEPT ![q] = q]
    /\ Goto(q, "publish")
    /\ UNCHANGED <<member, job, notices, before, matched>>

InsertDm(q) ==
    /\ pc[q] = "insert_dm"
    /\ Write(q, {<<q, job[q].by>>, <<q, job[q].to>>}, "in")
    /\ found' = [found EXCEPT ![q] = q]
    /\ Goto(q, "publish")
    /\ UNCHANGED <<member, job, notices, before, matched>>
-----------------------------------------------------------------------------
(* invite_members *)
Target(q) == <<job[q].room, job[q].to>>

(* The room exists, is no DM and the inviter is in it. *)
Permit(q) ==
    LET r == job[q].room IN
    /\ pc[q] = "permit"
    /\ Goto(q, IF Exists(Read(q), r) /\ ~IsDm(r) /\ Read(q)[<<r, job[q].by>>] = "in"
               THEN "target" ELSE "refused")
    /\ UNCHANGED <<member, writes, job, found, notices, before, matched>>

(* Somebody who is in the room already is not invited. *)
CheckTarget(q) ==
    /\ pc[q] = "target"
    /\ Goto(q, IF Read(q)[Target(q)] = "in" THEN "commit" ELSE "rejoin")
    /\ UNCHANGED <<member, writes, job, found, notices, before, matched>>

(* Mutant of Rejoin: there is no UPDATE. *)
RejoinSkipped(q) ==
    /\ pc[q] = "rejoin"
    /\ Goto(q, "insert")
    /\ UNCHANGED <<member, writes, job, found, notices, before, matched>>

(* add_room_member: UPDATE of the row of somebody who left... *)
Rejoin(q) ==
    /\ pc[q] = "rejoin"
    /\ IF Read(q)[Target(q)] = "out"
       THEN ~Held(q, {Target(q)}) /\ Write(q, {Target(q)}, "in") /\ Goto(q, "publish")
       ELSE Goto(q, "insert") /\ UNCHANGED writes
    /\ UNCHANGED <<member, job, found, notices, before, matched>>

(* ... or INSERT of a new one, which fails when there is one by now. *)
Insert(q) ==
    /\ pc[q] = "insert"
    /\ ~Held(q, {Target(q)})
    /\ IF member[Target(q)] = "none"
       THEN Write(q, {Target(q)}, "in") /\ Goto(q, "publish")
       ELSE Goto(q, "error") /\ UNCHANGED writes
    /\ UNCHANGED <<member, job, found, notices, before, matched>>
-----------------------------------------------------------------------------
Place(q) == <<job[q].room, job[q].by>>

(* Mutant of Leave: the UPDATE is made of a row read before. *)
LeaveUnchecked(q) ==
    /\ pc[q] = "leave"
    /\ IF Read(q)[Place(q)] # "none"
       THEN ~Held(q, {Place(q)}) /\ Write(q, {Place(q)}, "out") /\ Goto(q, "commit")
       ELSE Goto(q, "refused") /\ UNCHANGED writes
    /\ UNCHANGED <<member, job, found, notices, before, matched>>

(* leave_room: UPDATE of a row with left_at NULL *)
Leave(q) ==
    /\ pc[q] = "leave"
    /\ IF Read(q)[Place(q)] = "in"
       THEN ~Held(q, {Place(q)}) /\ Write(q, {Place(q)}, "out") /\ Goto(q, "commit")
       ELSE Goto(q, "refused") /\ UNCHANGED writes
    /\ UNCHANGED <<member, job, found, notices, before, matched>>

(* Mutant of Publish: whoever asked is told. *)
PublishToSelf(q) ==
    /\ pc[q] = "publish"
    /\ notices' = notices \cup
          {<<q, job[q].by, IF job[q].op = "dm" THEN found[q] ELSE job[q].room>>}
    /\ Goto(q, "commit")
    /\ UNCHANGED <<member, writes, job, found, before, matched>>

(* room.invite goes out to the target. *)
Publish(q) ==
    /\ pc[q] = "publish"
    /\ notices' = notices \cup
          {<<q, job[q].to, IF job[q].op = "dm" THEN found[q] ELSE job[q].room>>}
    /\ Goto(q, "commit")
    /\ UNCHANGED <<member, writes, job, found, before, matched>>

(* Mutant of Commit: only rows that were there are written. *)
CommitUpdates(q) ==
    /\ pc[q] = "commit"
    /\ member' = [r \in Rows |-> IF r \in DOMAIN writes[q] /\ member[r] # "none"
                                 THEN writes[q][r] ELSE member[r]]
    /\ writes' = [writes EXCEPT ![q] = NoWrites]
    /\ Goto(q, "ok")
    /\ UNCHANGED <<job, found, notices, before, matched>>

Commit(q) ==
    /\ pc[q] = "commit"
    /\ member' = Seen(member, writes[q])
    /\ writes' = [writes EXCEPT ![q] = NoWrites]
    /\ Goto(q, "ok")
    /\ UNCHANGED <<job, found, notices, before, matched>>

(* Mutant of Abort: the transaction is left open. *)
AbortUnreleased(q) ==
    /\ pc[q] \notin Ended \cup {"new"}
    /\ Goto(q, "aborted")
    /\ UNCHANGED <<member, writes, job, found, notices, before, matched>>

(* The database or Redis fails the request: get_session rolls back. *)
Abort(q) ==
    /\ pc[q] \notin Ended \cup {"new"}
    /\ writes' = [writes EXCEPT ![q] = NoWrites]
    /\ matched' = [matched EXCEPT ![q] = {}]
    /\ Goto(q, "aborted")
    /\ UNCHANGED <<member, job, found, notices, before>>
-----------------------------------------------------------------------------
Statement(q) ==
    \/ MakeRoom(q)
    \/ FindDm(q) \/ MatchDm(q) \/ ReviveDm(q) \/ InsertDm(q)
    \/ Permit(q) \/ CheckTarget(q) \/ Rejoin(q) \/ Insert(q)
    \/ Leave(q)
    \/ Publish(q) \/ Commit(q)

Next == \E q \in Requests : Begin(q) \/ Statement(q) \/ Abort(q)

Spec == Init /\ [][Next]_vars
-----------------------------------------------------------------------------
Active(q) == pc[q] \notin Ended \cup {"new"}
Overlap(q, x) == q # x /\ x \notin before[q] /\ q \notin before[x]
SamePair(q, x) == /\ job[q].op = "dm" /\ job[x].op = "dm"
                  /\ {job[q].by, job[q].to} = {job[x].by, job[x].to}

(* A DM room is never seen with one user: create_dm's three inserts become *)
(* visible together, and whatever is invited or leaves, its rows stay two. *)
WholeDm ==
    \A r \in RoomIds : IsDm(r) /\ Exists(member, r) =>
        Cardinality({u \in Users : member[<<r, u>>] # "none"}) = 2

(* A leave is acknowledged only by the request that did it: of two at once *)
(* (two tabs) the second waits for the row, looks again and is refused.    *)
LeaveAckedOnce ==
    [][\A q \in Requests :
          pc[q] # "ok" /\ pc'[q] = "ok" /\ job[q].op = "leave" =>
              member[Place(q)] = "in" /\ member'[Place(q)] = "out"]_vars

(* An acknowledged invitation put the target in the room and an            *)
(* acknowledged leave took the user out, unless a request that was not     *)
(* over by then undid it. *)
AckedHolds ==
    \A q \in Requests : pc[q] = "ok" =>
        /\ job[q].op = "invite" =>
              \/ member[Target(q)] = "in"
              \/ \E x \in Requests \ before[q] :
                    pc[x] = "ok" /\ job[x].op = "leave" /\ Place(x) = Target(q)
        /\ job[q].op = "leave" =>
              \/ member[Place(q)] = "out"
              \/ \E x \in Requests \ before[q] : pc[x] = "ok" /\
                    \/ job[x].op = "invite" /\ Target(x) = Place(q)
                    \/ job[x].op = "dm" /\ found[x] = job[q].room

(* A request fails with an error of the database only when two requests    *)
(* crossed: two invitations of one user to one room, or two requests for   *)
(* one DM (which made it two rooms, and every later one fails). *)
ErrorOnlyWhenCrossed ==
    \A q \in Requests : pc[q] = "error" =>
        \/ \E x \in Requests : /\ Overlap(q, x) /\ job[q].op = "invite"
                               /\ job[x].op = "invite" /\ Target(x) = Target(q)
        \/ \E x, y \in Requests : SamePair(q, x) /\ SamePair(q, y) /\ Overlap(x, y)

(* Asking for a DM when there is one gives that one, also to a user who    *)
(* left it: two rooms for a pair were made by two requests that crossed    *)
(* (test_rooms.py, test_create_dm_idempotent, asks one after the other;    *)
(* docs/superpowers/plans/2026-06-30-websocket-chat.md:2612 has no such    *)
(* exception). *)
SecondDmOnlyWhenCrossed ==
    \A r, x \in RoomIds :
        /\ r # x /\ IsDm(r) /\ IsDm(x) /\ Exists(member, r)
        /\ \A u \in Users : member[<<r, u>>] = "none" <=> member[<<x, u>>] = "none"
        => {r, x} \subseteq Requests /\ Overlap(r, x)

(* Whoever comes to be in a room, for the first time or back in it, asked  *)
(* for it or was told: the very request that puts them there published     *)
(* room.invite for them before its commit.  The one exception is a DM they *)
(* left, which the other user opens again: create_dm puts them back in and *)
(* publishes nothing.                                                      *)
JoinerTold ==
    [][\A r \in RoomIds, u \in Users :
          member[<<r, u>>] # "in" /\ member'[<<r, u>>] = "in" =>
              \E q \in Requests :
                  /\ pc[q] = "commit" /\ pc'[q] = "ok"
                  /\ \/ job[q].by = u
                     \/ <<q, u, r>> \in notices
                     \/ job[q].op = "dm" /\ found[q] = r /\ member[<<r, u>>] = "out"
      ]_vars

(* Requests that wait for rows of each other never stop each other: some   *)
(* request in progress can always go on, also after another one failed. *)
NotStuck == (\E q \in Requests : Active(q)) => \E q \in Requests : ENABLED Statement(q)
=============================================================================
