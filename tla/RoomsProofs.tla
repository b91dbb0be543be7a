----------------------------- MODULE RoomsProofs -----------------------------
(* Proofs about Rooms, for any users, rooms, requests and tables: that the *)
(* row locks of concurrent transactions keep apart what they do, and what  *)
(* follows for acknowledged requests, announcements and DM rooms, also for *)
(* requests that cross.                                                    *)
EXTENDS Rooms, FiniteSetTheorems, TLAPS

(* What a request may be asked has the fields its kind needs. *)
LEMMA JobFields ==
    ASSUME NEW j \in Jobs
    PROVE  /\ j.op \in {"create", "dm", "invite", "leave"}
           /\ j.by \in Users
           /\ j.op \in {"dm", "invite"} => j.to \in Users
           /\ j.op \in {"invite", "leave"} => j.room \in RoomIds
           /\ j.op = "dm" => j.by # j.to
           /\ j # NoJob
<1>1. j \in Job
    BY RoomsAssumption
<1>2. /\ j.op \in {"create", "dm", "invite", "leave"}
      /\ j.by \in Users
      /\ j.op \in {"dm", "invite"} => j.to \in Users
      /\ j.op \in {"invite", "leave"} => j.room \in RoomIds
    BY <1>1 DEF Job
<1>3. NoJob.op = "none"
    BY DEF NoJob
<1>4. QED
    BY <1>2, <1>3, RoomsAssumption

(* Each kind of request takes its own statements. *)
Kind(q) ==
    /\ pc[q] = "new" => job[q] = NoJob
    /\ pc[q] # "new" => job[q] \in Jobs
    /\ pc[q] = "make" => job[q].op = "create"
    /\ pc[q] \in {"find", "match", "revive", "insert_dm"} => job[q].op = "dm"
    /\ pc[q] \in {"permit", "target", "rejoin", "insert"} => job[q].op = "invite"
    /\ pc[q] = "leave" => job[q].op = "leave"
    /\ pc[q] = "publish" => job[q].op \in {"dm", "invite"}

(* What a step of one request leaves alone: everything of the others.      *)
LEMMA Alone ==
    ASSUME TypeOK, NEW q \in Requests, Begin(q) \/ Statement(q) \/ Abort(q),
           NEW x \in Requests \ {q}
    PROVE  /\ pc'[x] = pc[x] /\ job'[x] = job[x] /\ writes'[x] = writes[x]
           /\ found'[x] = found[x] /\ matched'[x] = matched[x]
           /\ before'[x] = before[x]
<1>1. CASE Begin(q)
    BY <1>1 DEF Begin, Goto, TypeOK
<1>2. CASE MakeRoom(q) \/ FindDm(q) \/ MatchDm(q) \/ ReviveDm(q) \/ InsertDm(q)
    BY <1>2 DEF MakeRoom, FindDm, MatchDm, ReviveDm, InsertDm, Goto, Write, TypeOK
<1>3. CASE Permit(q) \/ CheckTarget(q) \/ Rejoin(q) \/ Insert(q)
    BY <1>3 DEF Permit, CheckTarget, Rejoin, Insert, Goto, Write, TypeOK
<1>4. CASE Leave(q) \/ Publish(q) \/ Commit(q) \/ Abort(q)
    BY <1>4 DEF Leave, Publish, Commit, Abort, Goto, Write, TypeOK
<1>5. QED
    BY <1>1, <1>2, <1>3, <1>4 DEF Statement

(* A step that sets the label of its request, and writes what it may.      *)
LEMMA TypeKept ==
    ASSUME TypeOK, NEW q \in Requests, NEW l \in Steps \cup Ended, Goto(q, l),
           UNCHANGED <<member, before>>,
           job' \in [Requests -> Jobs \cup {NoJob}],
           found' \in [Requests -> RoomIds \cup {NoRoom}],
           matched' \in [Requests -> SUBSET Rows],
           notices' \in SUBSET (Requests \X Users \X RoomIds),
           \/ UNCHANGED writes /\ writes[q] = NoWrites
           \/ writes' = [writes EXCEPT ![q] = NoWrites]
           \/ UNCHANGED writes /\ l \in {"publish", "commit"}
           \/ /\ l \in {"publish", "commit"}
              /\ \E rs \in SUBSET Rows, v \in {"in", "out"} : Write(q, rs, v)
    PROVE  TypeOK'
<1>1. pc' \in [Requests -> Steps \cup Ended] /\ pc'[q] = l
      /\ \A x \in Requests \ {q} : pc'[x] = pc[x]
    BY DEF Goto, TypeOK
<1>2. DOMAIN writes' = Requests /\ \A x \in Requests \ {q} : writes'[x] = writes[x]
    BY DEF Write, TypeOK
<1>3. /\ DOMAIN writes'[q] \subseteq Rows
      /\ writes'[q] \in [DOMAIN writes'[q] -> {"in", "out"}]
      /\ pc'[q] \notin {"publish", "commit"} => writes'[q] = NoWrites
    <2>1. CASE UNCHANGED writes
        BY <1>1, <2>1 DEF TypeOK, Write
    <2>2. CASE writes' = [writes EXCEPT ![q] = NoWrites]
        BY <2>2 DEF TypeOK, NoWrites
    <2>3. ASSUME NEW rs \in SUBSET Rows, NEW v \in {"in", "out"}, Write(q, rs, v),
                 l \in {"publish", "commit"}
          PROVE  /\ DOMAIN writes'[q] \subseteq Rows
                 /\ writes'[q] \in [DOMAIN writes'[q] -> {"in", "out"}]
                 /\ pc'[q] \in {"publish", "commit"}
        <3>1. writes'[q] = Wrote(writes[q], rs, v)
            BY <2>3 DEF Write, TypeOK
        <3>2. DOMAIN writes'[q] = DOMAIN writes[q] \cup rs
            BY <3>1 DEF Wrote
        <3>3. writes'[q] \in [DOMAIN writes[q] \cup rs -> {"in", "out"}]
            BY <2>3, <3>1 DEF Wrote, TypeOK
        <3>4. DOMAIN writes[q] \subseteq Rows
            BY DEF TypeOK
        <3>5. QED
            BY <1>1, <2>3, <3>2, <3>3, <3>4
    <2>4. QED
        BY <2>1, <2>2, <2>3
<1>4. QED
    BY <1>1, <1>2, <1>3 DEF TypeOK
-----------------------------------------------------------------------------
(* The inductive invariant *)

(* A room a request makes is seen when that request is over. *)
Unmade == \A q \in Requests : pc[q] # "ok" => ~Exists(member, q)

(* The room of an invitation that was permitted is a group people had rows *)
(* in, a DM that was found is one, and so are the rows matched in it.      *)
Standing(q) ==
    /\ /\ job[q].op = "invite"
       /\ pc[q] \in {"target", "rejoin", "insert", "publish", "commit"}
       => Exists(member, job[q].room) /\ ~IsDm(job[q].room)
    /\ pc[q] \in {"match", "revive"} =>
          found[q] # q /\ found[q] \in RoomIds /\ Exists(member, found[q])
    /\ pc[q] = "revive" =>
          \A r \in matched[q] : r[1] = found[q] /\ member[r] # "none"

(* The rows a request wrote, by what it was asked. *)
Writing(q) ==
    pc[q] \in {"publish", "commit"} =>
        /\ job[q].op = "create" =>
              pc[q] = "commit" /\ DOMAIN writes[q] = {<<q, job[q].by>>}
        /\ job[q].op = "dm" /\ found[q] = q =>
              DOMAIN writes[q] = {<<q, job[q].by>>, <<q, job[q].to>>}
        /\ job[q].op = "dm" /\ found[q] # q =>
              /\ pc[q] = "commit"
              /\ found[q] \in RoomIds /\ Exists(member, found[q])
              /\ \A r \in DOMAIN writes[q] : r[1] = found[q] /\ member[r] # "none"
        /\ job[q].op = "invite" =>
              /\ DOMAIN writes[q] \subseteq {Target(q)}
              /\ pc[q] = "publish" => DOMAIN writes[q] # {}
        /\ job[q].op = "leave" =>
              /\ pc[q] = "commit"
              /\ DOMAIN writes[q] = {Place(q)} /\ member[Place(q)] = "in"
        /\ \A r \in DOMAIN writes[q] :
              writes[q][r] = IF job[q].op = "leave" THEN "out" ELSE "in"

(* The locks: no row was written by two requests that are not over. *)
Apart == \A q, x \in Requests : q # x => DOMAIN writes[q] \cap DOMAIN writes[x] = {}

(* Who is put in a room by somebody else is told before the commit. *)
Told(q) ==
    pc[q] = "commit" =>
        /\ job[q].op = "invite" /\ DOMAIN writes[q] # {} =>
              <<q, job[q].to, job[q].room>> \in notices
        /\ job[q].op = "dm" /\ found[q] = q => <<q, job[q].to, q>> \in notices

(* What was acknowledged, and the invitation that finds the target in the  *)
(* room and is about to be, holds or was undone.                           *)
LeftSince(q) ==
    \E x \in Requests \ before[q] :
        pc[x] = "ok" /\ job[x].op = "leave" /\ Place(x) = Target(q)
BackSince(q) ==
    \E x \in Requests \ before[q] :
        /\ pc[x] = "ok"
        /\ \/ job[x].op = "invite" /\ Target(x) = Place(q)
           \/ job[x].op = "dm" /\ found[x] = job[q].room
Acked(q) ==
    /\ /\ job[q].op = "invite"
       /\ pc[q] = "ok" \/ (pc[q] = "commit" /\ DOMAIN writes[q] = {})
       => member[Target(q)] = "in" \/ LeftSince(q)
    /\ pc[q] = "ok" /\ job[q].op = "leave" => member[Place(q)] = "out" \/ BackSince(q)

Past(q) == \A x \in before[q] : pc[x] \in Ended

Local(q) == Kind(q) /\ Standing(q) /\ Writing(q) /\ Told(q) /\ Acked(q) /\ Past(q)

IInv == TypeOK /\ Unmade /\ Apart /\ WholeDm /\ \A q \in Requests : Local(q)
-----------------------------------------------------------------------------
(* A transaction that wrote nothing reads the table. *)
LEMMA ReadsTable ==
    ASSUME TypeOK, NEW q \in Requests, pc[q] \notin {"publish", "commit"}
    PROVE  Read(q) = member /\ writes[q] = NoWrites
<1>1. writes[q] = NoWrites /\ member \in [Rows -> {"none", "in", "out"}]
    BY DEF TypeOK
<1>2. QED
    BY <1>1 DEF Read, Seen, NoWrites

(* Nobody else wrote a row of a room whose request is not over. *)
LEMMA Elsewhere ==
    ASSUME IInv, NEW q \in Requests, pc[q] # "ok", NEW x \in Requests \ {q},
           NEW u
    PROVE  <<q, u>> \notin DOMAIN writes[x]
<1>1. CASE pc[x] \notin {"publish", "commit"}
    BY <1>1 DEF IInv, TypeOK, NoWrites
<1>2. CASE pc[x] \in {"publish", "commit"}
    <2>1. ~Exists(member, q)
        BY DEF IInv, Unmade
    <2>2. Writing(x) /\ Standing(x) /\ Kind(x)
        BY DEF IInv, Local
    <2>3. job[x].op \in {"create", "dm", "invite", "leave"}
        BY <1>2, <2>2, JobFields DEF Kind
    <2>4. CASE job[x].op \in {"create", "dm"}
        BY <1>2, <2>1, <2>2, <2>4 DEF Writing
    <2>5. CASE job[x].op = "invite"
        BY <1>2, <2>1, <2>2, <2>5 DEF Writing, Standing, Target
    <2>6. CASE job[x].op = "leave"
        <3>1. /\ DOMAIN writes[x] = {Place(x)} /\ member[Place(x)] = "in"
              /\ job[x].by \in Users
            BY <1>2, <2>2, <2>6, JobFields DEF Writing, Kind
        <3>2. QED
            BY <2>1, <3>1 DEF Place, Exists
    <2>7. QED
        BY <2>3, <2>4, <2>5, <2>6
<1>3. QED
    BY <1>1, <1>2

(* A step that changes neither the table nor a task, and acknowledges      *)
(* nothing, is about its request alone.                                    *)
LEMMA Quiet ==
    ASSUME IInv, TypeOK', NEW q \in Requests, Statement(q) \/ Abort(q),
           UNCHANGED <<member, job, before>>, notices \subseteq notices',
           pc[q] \notin Ended, pc'[q] # "ok",
           Kind(q)', Standing(q)', Writing(q)', Told(q)', Acked(q)',
           \A x \in Requests \ {q} : DOMAIN writes'[q] \cap DOMAIN writes[x] = {}
    PROVE  IInv'
<1>1. TypeOK /\ Unmade /\ Apart /\ WholeDm
    BY DEF IInv
<1> DEFINE Same(x) == /\ pc'[x] = pc[x] /\ job'[x] = job[x] /\ writes'[x] = writes[x]
                      /\ found'[x] = found[x] /\ matched'[x] = matched[x]
                      /\ before'[x] = before[x]
<1>2. \A x \in Requests \ {q} : Same(x)
    BY <1>1, Alone
<1>3. Unmade'
    BY <1>1, <1>2 DEF Unmade, Exists, Ended
<1>4. Apart'
    BY <1>1, <1>2 DEF Apart
<1>5. WholeDm'
    BY <1>1 DEF WholeDm, IsDm, Exists
<1>6. Past(q)'
    <2>1. Past(q)
        BY DEF IInv, Local
    <2>2. \A x \in before[q] : x \in Requests
        BY <1>1 DEF TypeOK
    <2>3. QED
        BY <1>2, <2>1, <2>2 DEF Past
<1>7. ASSUME NEW x \in Requests \ {q}
      PROVE  Local(x)'
    <2>1. Local(x) /\ Same(x)
        BY <1>2 DEF IInv
    <2>2. Kind(x)'
        BY <2>1 DEF Local, Kind
    <2>3. Standing(x)'
        BY <2>1 DEF Local, Standing, IsDm, Exists
    <2>4. Writing(x)'
        BY <2>1 DEF Local, Writing, IsDm, Exists, Place, Target
    <2>5. Told(x)'
        BY <2>1 DEF Local, Told
    <2>6. Acked(x)'
        <3>1. LeftSince(x) => LeftSince(x)'
            BY <1>2, <2>1 DEF LeftSince, Place, Target, Ended
        <3>2. BackSince(x) => BackSince(x)'
            BY <1>2, <2>1 DEF BackSince, Place, Target, Ended
        <3>3. QED
            BY <2>1, <3>1, <3>2 DEF Local, Acked, Place, Target
    <2>7. Past(x)'
        <3>1. \A y \in before[x] : y \in Requests
            BY <1>1 DEF TypeOK
        <3>2. QED
            BY <1>2, <2>1, <3>1 DEF Local, Past
    <2>8. QED
        BY <2>2, <2>3, <2>4, <2>5, <2>6, <2>7 DEF Local
<1>8. QED
    BY <1>3, <1>4, <1>5, <1>6, <1>7 DEF IInv, Local
-----------------------------------------------------------------------------
(* A request that is not over was asked something, and writes rows.        *)
LEMMA Asked ==
    ASSUME IInv, NEW q \in Requests, pc[q] # "new"
    PROVE  /\ job[q] \in Jobs
           /\ job[q].op \in {"create", "dm", "invite", "leave"}
           /\ job[q].by \in Users
           /\ job[q].op \in {"dm", "invite"} => job[q].to \in Users
           /\ job[q].op \in {"invite", "leave"} => job[q].room \in RoomIds
           /\ job[q].op = "invite" => Target(q) \in Rows
           /\ job[q].op = "leave" => Place(q) \in Rows
           /\ job[q].op = "dm" => job[q].by # job[q].to
<1>1. job[q] \in Jobs
    BY DEF IInv, Local, Kind
<1>2. QED
    BY <1>1, JobFields DEF Target, Place, Rows

LEMMA MakeRoomKeeps ==
    ASSUME IInv, NEW q \in Requests, MakeRoom(q)
    PROVE  IInv'
<1>1. TypeOK /\ Local(q)
    BY DEF IInv
<1>2. job[q].op = "create" /\ job[q].by \in Users
    BY <1>1, Asked DEF MakeRoom, Local, Kind
<1> DEFINE row == <<q, job[q].by>>
<1>3. {row} \in SUBSET Rows
    BY <1>2 DEF Rows, RoomIds
<1>4. writes[q] = NoWrites
    BY <1>1, ReadsTable DEF MakeRoom
<1>5. Write(q, {row}, "in")
    BY DEF MakeRoom
<1>6. DOMAIN writes'[q] = {row} /\ writes'[q][row] = "in"
    BY <1>1, <1>4, <1>5 DEF Write, Wrote, NoWrites, TypeOK
<1>7. TypeOK'
    <2>1. \E rs \in SUBSET Rows, v \in {"in", "out"} : Write(q, rs, v)
        BY <1>3, <1>5
    <2>2. Goto(q, "commit") /\ "commit" \in Steps \cup Ended
        BY DEF MakeRoom, Steps
    <2>3. /\ UNCHANGED <<member, before>>
          /\ job' \in [Requests -> Jobs \cup {NoJob}]
          /\ found' \in [Requests -> RoomIds \cup {NoRoom}]
          /\ matched' \in [Requests -> SUBSET Rows]
          /\ notices' \in SUBSET (Requests \X Users \X RoomIds)
        BY <1>1 DEF MakeRoom, TypeOK
    <2>4. QED
        BY <1>1, <2>1, <2>2, <2>3, TypeKept
<1>8. pc[q] = "make" /\ pc'[q] = "commit" /\ job' = job
    BY <1>1 DEF MakeRoom, Goto, TypeOK
<1>9. Kind(q)' /\ Standing(q)' /\ Told(q)' /\ Acked(q)'
    BY <1>1, <1>2, <1>8, Asked DEF Local, Kind, Standing, Told, Acked
<1>10. Writing(q)'
    BY <1>2, <1>6, <1>8 DEF Writing
<1>11. \A x \in Requests \ {q} : DOMAIN writes'[q] \cap DOMAIN writes[x] = {}
    BY <1>6, <1>8, Elsewhere
<1>12. QED
    BY <1>7, <1>8, <1>9, <1>10, <1>11, Quiet DEF Statement, MakeRoom, Ended

(* The rooms of both are seen, so none of them is being made. *)
LEMMA FindDmKeeps ==
    ASSUME IInv, NEW q \in Requests, FindDm(q)
    PROVE  IInv'
<1>1. TypeOK /\ Local(q) /\ pc[q] = "find" /\ writes[q] = NoWrites
    BY ReadsTable DEF IInv, FindDm
<1>2. job[q].op = "dm" /\ job[q].by \in Users /\ job[q].to \in Users
    BY <1>1, Asked DEF Local, Kind
<1>3. \A r \in Common(q) : r \in RoomIds /\ Exists(member, r) /\ r # q
    <2>1. Read(q) = member /\ ~Exists(member, q)
        BY <1>1, ReadsTable DEF IInv, Unmade
    <2>2. QED
        BY <1>2, <2>1 DEF Common, Exists
<1>4. PICK l \in {"insert_dm", "match", "error"} :
         /\ Goto(q, l)
         /\ l = "match" => /\ found' = [found EXCEPT ![q] = found'[q]]
                           /\ found'[q] \in Common(q)
         /\ l # "match" => UNCHANGED found
    BY <1>1 DEF FindDm, TypeOK
<1>5. TypeOK'
    <2>1. UNCHANGED writes /\ l \in Steps \cup Ended
        BY DEF FindDm, Steps, Ended
    <2>2. /\ UNCHANGED <<member, before>>
          /\ job' \in [Requests -> Jobs \cup {NoJob}]
          /\ found' \in [Requests -> RoomIds \cup {NoRoom}]
          /\ matched' \in [Requests -> SUBSET Rows]
          /\ notices' \in SUBSET (Requests \X Users \X RoomIds)
        BY <1>1, <1>3, <1>4 DEF FindDm, TypeOK
    <2>3. QED
        BY <1>1, <1>4, <2>1, <2>2, TypeKept
<1>6. pc'[q] = l /\ UNCHANGED <<member, writes, job, matched, before, notices>>
    BY <1>1, <1>4 DEF FindDm, Goto, TypeOK
<1>7. Kind(q)'
    BY <1>1, <1>2, <1>4, <1>6 DEF Local, Kind
<1>8. Standing(q)'
    BY <1>2, <1>3, <1>4, <1>6 DEF Standing, Exists
<1>9. Writing(q)' /\ Told(q)' /\ Acked(q)'
    BY <1>2, <1>4, <1>6 DEF Writing, Told, Acked
<1>10. \A x \in Requests \ {q} : DOMAIN writes'[q] \cap DOMAIN writes[x] = {}
    BY <1>1, <1>6 DEF NoWrites
<1>11. QED
    BY <1>1, <1>4, <1>5, <1>6, <1>7, <1>8, <1>9, <1>10, Quiet DEF Statement, Ended

LEMMA MatchDmKeeps ==
    ASSUME IInv, NEW q \in Requests, MatchDm(q)
    PROVE  IInv'
<1>1. TypeOK /\ Local(q) /\ pc[q] = "match" /\ writes[q] = NoWrites
    BY ReadsTable DEF IInv, MatchDm
<1>2. job[q].op = "dm"
    BY <1>1 DEF Local, Kind
<1>3. found[q] \in RoomIds /\ found[q] # q /\ Exists(member, found[q])
    BY <1>1 DEF Local, Standing
<1>4. matched'[q] = {r \in {found[q]} \X Users : member[r] = "out"}
    BY <1>1, ReadsTable DEF MatchDm, TypeOK
<1>5. /\ pc'[q] = "revive"
      /\ UNCHANGED <<member, writes, job, found, before, notices>>
    BY <1>1 DEF MatchDm, Goto, TypeOK
<1>6. TypeOK'
    <2>1. Goto(q, "revive") /\ "revive" \in Steps \cup Ended
        BY DEF MatchDm, Steps
    <2>2. matched' \in [Requests -> SUBSET Rows]
        BY <1>1, <1>3 DEF MatchDm, TypeOK, Rows
    <2>3. /\ job' \in [Requests -> Jobs \cup {NoJob}]
          /\ found' \in [Requests -> RoomIds \cup {NoRoom}]
          /\ notices' \in SUBSET (Requests \X Users \X RoomIds)
        BY <1>1, <1>5 DEF TypeOK
    <2>4. QED
        BY <1>1, <1>5, <2>1, <2>2, <2>3, TypeKept
<1>7. Kind(q)'
    BY <1>1, <1>5 DEF Local, Kind
<1>8. Standing(q)'
    BY <1>2, <1>3, <1>4, <1>5 DEF Standing, Exists
<1>9. Writing(q)' /\ Told(q)' /\ Acked(q)'
    BY <1>2, <1>5 DEF Writing, Told, Acked
<1>10. \A x \in Requests \ {q} : DOMAIN writes'[q] \cap DOMAIN writes[x] = {}
    BY <1>1, <1>5 DEF NoWrites
<1>11. QED
    BY <1>1, <1>5, <1>6, <1>7, <1>8, <1>9, <1>10, Quiet DEF Statement, Ended

(* The rows matched are those of a room that is seen; the lock was free.   *)
LEMMA ReviveDmKeeps ==
    ASSUME IInv, NEW q \in Requests, ReviveDm(q)
    PROVE  IInv'
<1>1. TypeOK /\ Local(q) /\ pc[q] = "revive" /\ writes[q] = NoWrites
    BY ReadsTable DEF IInv, ReviveDm
<1>2. job[q].op = "dm"
    BY <1>1 DEF Local, Kind
<1>3. /\ found[q] \in RoomIds /\ found[q] # q /\ Exists(member, found[q])
      /\ \A r \in matched[q] : r[1] = found[q] /\ member[r] # "none"
    BY <1>1 DEF Local, Standing
<1>4. PICK rs \in SUBSET Rows : rs = {r \in matched[q] : member[r] = "out"}
    BY <1>1 DEF TypeOK
<1>5. Write(q, rs, "in")
    BY <1>4 DEF ReviveDm
<1>6. DOMAIN writes'[q] = rs /\ \A r \in rs : writes'[q][r] = "in"
    BY <1>1, <1>5 DEF Write, Wrote, NoWrites, TypeOK
<1>7. /\ pc'[q] = "commit"
      /\ UNCHANGED <<member, job, found, before, notices>>
    BY <1>1 DEF ReviveDm, Goto, TypeOK
<1>8. TypeOK'
    <2>1. Goto(q, "commit") /\ "commit" \in Steps \cup Ended
        BY DEF ReviveDm, Steps
    <2>2. matched' \in [Requests -> SUBSET Rows]
        BY <1>1 DEF ReviveDm, TypeOK
    <2>3. /\ job' \in [Requests -> Jobs \cup {NoJob}]
          /\ found' \in [Requests -> RoomIds \cup {NoRoom}]
          /\ notices' \in SUBSET (Requests \X Users \X RoomIds)
        BY <1>1, <1>7 DEF TypeOK
    <2>4. QED
        BY <1>1, <1>5, <1>7, <2>1, <2>2, <2>3, TypeKept
<1>9. Kind(q)' /\ Standing(q)' /\ Told(q)' /\ Acked(q)'
    BY <1>1, <1>2, <1>3, <1>7 DEF Local, Kind, Standing, Told, Acked
<1>10. Writing(q)'
    BY <1>2, <1>3, <1>4, <1>6, <1>7 DEF Writing, Exists
<1>11. \A x \in Requests \ {q} : DOMAIN writes'[q] \cap DOMAIN writes[x] = {}
    BY <1>1, <1>4, <1>6 DEF ReviveDm, Held, HeldByOther, TypeOK
<1>12. QED
    BY <1>1, <1>7, <1>8, <1>9, <1>10, <1>11, Quiet DEF Statement, Ended

LEMMA InsertDmKeeps ==
    ASSUME IInv, NEW q \in Requests, InsertDm(q)
    PROVE  IInv'
<1>1. TypeOK /\ Local(q) /\ pc[q] = "insert_dm" /\ writes[q] = NoWrites
    BY ReadsTable DEF IInv, InsertDm
<1>2. job[q].op = "dm" /\ job[q].by \in Users /\ job[q].to \in Users
    BY <1>1, Asked DEF Local, Kind
<1>3. PICK rs \in SUBSET Rows : rs = {<<q, job[q].by>>, <<q, job[q].to>>}
    <2>1. {<<q, job[q].by>>, <<q, job[q].to>>} \in SUBSET Rows
        BY <1>2 DEF Rows, RoomIds
    <2>2. QED
        BY ONLY <2>1
<1>4. Write(q, rs, "in")
    BY <1>3 DEF InsertDm
<1>5. DOMAIN writes'[q] = rs /\ \A r \in rs : writes'[q][r] = "in"
    BY <1>1, <1>4 DEF Write, Wrote, NoWrites, TypeOK
<1>6. /\ pc'[q] = "publish" /\ found'[q] = q
      /\ UNCHANGED <<member, job, matched, before, notices>>
    BY <1>1 DEF InsertDm, Goto, TypeOK
<1>7. TypeOK'
    <2>1. Goto(q, "publish") /\ "publish" \in Steps \cup Ended
        BY DEF InsertDm, Steps
    <2>2. found' \in [Requests -> RoomIds \cup {NoRoom}]
        BY <1>1 DEF InsertDm, TypeOK, RoomIds
    <2>3. /\ job' \in [Requests -> Jobs \cup {NoJob}]
          /\ matched' \in [Requests -> SUBSET Rows]
          /\ notices' \in SUBSET (Requests \X Users \X RoomIds)
        BY <1>1, <1>6 DEF TypeOK
    <2>4. QED
        BY <1>1, <1>4, <1>6, <2>1, <2>2, <2>3, TypeKept
<1>8. Kind(q)' /\ Standing(q)' /\ Told(q)' /\ Acked(q)'
    BY <1>1, <1>2, <1>6 DEF Local, Kind, Standing, Told, Acked
<1>9. Writing(q)'
    BY <1>2, <1>3, <1>5, <1>6 DEF Writing
<1>10. \A x \in Requests \ {q} : DOMAIN writes'[q] \cap DOMAIN writes[x] = {}
    <2>1. pc[q] # "ok"
        BY <1>1
    <2>2. QED
        BY <1>3, <1>5, <2>1, Elsewhere
<1>11. QED
    BY <1>1, <1>6, <1>7, <1>8, <1>9, <1>10, Quiet DEF Statement, Ended
-----------------------------------------------------------------------------
LEMMA PermitKeeps ==
    ASSUME IInv, NEW q \in Requests, Permit(q)
    PROVE  IInv'
<1>1. TypeOK /\ Local(q) /\ pc[q] = "permit" /\ Read(q) = member
    BY ReadsTable DEF IInv, Permit
<1>2. job[q].op = "invite" /\ writes[q] = NoWrites
    BY <1>1, ReadsTable DEF Local, Kind
<1>3. PICK l \in {"target", "refused"} :
         Goto(q, l) /\ (l = "target" => Exists(member, job[q].room) /\ ~IsDm(job[q].room))
    BY <1>1 DEF Permit
<1>4. /\ pc'[q] = l
      /\ UNCHANGED <<member, writes, job, found, matched, before, notices>>
    BY <1>1, <1>3 DEF Permit, Goto, TypeOK
<1>5. TypeOK'
    <2>1. l \in Steps \cup Ended
        BY DEF Steps, Ended
    <2>2. /\ job' \in [Requests -> Jobs \cup {NoJob}]
          /\ found' \in [Requests -> RoomIds \cup {NoRoom}]
          /\ matched' \in [Requests -> SUBSET Rows]
          /\ notices' \in SUBSET (Requests \X Users \X RoomIds)
        BY <1>1, <1>4 DEF TypeOK
    <2>3. QED
        BY <1>1, <1>2, <1>3, <1>4, <2>1, <2>2, TypeKept
<1>6. Kind(q)'
    BY <1>1, <1>2, <1>4 DEF Local, Kind
<1>7. Standing(q)'
    BY <1>2, <1>3, <1>4 DEF Standing, Exists, IsDm
<1>8. Writing(q)' /\ Told(q)' /\ Acked(q)'
    BY <1>2, <1>4 DEF Writing, Told, Acked
<1>9. \A x \in Requests \ {q} : DOMAIN writes'[q] \cap DOMAIN writes[x] = {}
    BY <1>2, <1>4 DEF NoWrites
<1>10. QED
    BY <1>1, <1>4, <1>5, <1>6, <1>7, <1>8, <1>9, Quiet DEF Statement, Ended

(* The invitation that has nothing to do rests on what it read. *)
LEMMA CheckTargetKeeps ==
    ASSUME IInv, NEW q \in Requests, CheckTarget(q)
    PROVE  IInv'
<1>1. TypeOK /\ Local(q) /\ pc[q] = "target" /\ Read(q) = member
    BY ReadsTable DEF IInv, CheckTarget
<1>2. job[q].op = "invite" /\ writes[q] = NoWrites
    BY <1>1, ReadsTable DEF Local, Kind
<1>3. PICK l \in {"commit", "rejoin"} :
         Goto(q, l) /\ (l = "commit" => member[Target(q)] = "in")
    BY <1>1 DEF CheckTarget
<1>4. /\ pc'[q] = l
      /\ UNCHANGED <<member, writes, job, found, matched, before, notices>>
    BY <1>1, <1>3 DEF CheckTarget, Goto, TypeOK
<1>5. TypeOK'
    <2>1. l \in Steps \cup Ended
        BY DEF Steps
    <2>2. /\ job' \in [Requests -> Jobs \cup {NoJob}]
          /\ found' \in [Requests -> RoomIds \cup {NoRoom}]
          /\ matched' \in [Requests -> SUBSET Rows]
          /\ notices' \in SUBSET (Requests \X Users \X RoomIds)
        BY <1>1, <1>4 DEF TypeOK
    <2>3. QED
        BY <1>1, <1>2, <1>3, <1>4, <2>1, <2>2, TypeKept
<1>6. Kind(q)' /\ Told(q)'
    BY <1>1, <1>2, <1>4 DEF Local, Kind, Told, NoWrites
<1>7. Standing(q)'
    BY <1>1, <1>2, <1>3, <1>4 DEF Local, Standing, Exists, IsDm
<1>8. Writing(q)'
    BY <1>2, <1>4 DEF Writing, NoWrites
<1>9. Acked(q)'
    BY <1>2, <1>3, <1>4 DEF Acked, Target
<1>10. \A x \in Requests \ {q} : DOMAIN writes'[q] \cap DOMAIN writes[x] = {}
    BY <1>2, <1>4 DEF NoWrites
<1>11. QED
    BY <1>1, <1>4, <1>5, <1>6, <1>7, <1>8, <1>9, <1>10, Quiet DEF Statement, Ended

(* Both ways to put the target in the room: the row is free, and written.  *)
LEMMA TargetWritten ==
    ASSUME IInv, NEW q \in Requests, Rejoin(q) \/ Insert(q), Write(q, {Target(q)}, "in"),
           Goto(q, "publish"), ~Held(q, {Target(q)}),
           UNCHANGED <<member, job, found, matched, before, notices>>
    PROVE  IInv'
<1>1. TypeOK /\ Local(q) /\ pc[q] \in {"rejoin", "insert"}
    BY DEF IInv, Rejoin, Insert
<1>2. job[q].op = "invite" /\ writes[q] = NoWrites /\ Target(q) \in Rows
    BY <1>1, ReadsTable, Asked DEF Local, Kind
<1>3. DOMAIN writes'[q] = {Target(q)} /\ writes'[q][Target(q)] = "in"
    BY <1>1, <1>2 DEF Write, Wrote, NoWrites, TypeOK
<1>4. pc'[q] = "publish"
    BY <1>1 DEF Goto, TypeOK
<1>5. TypeOK'
    <2>1. \E rs \in SUBSET Rows, v \in {"in", "out"} : Write(q, rs, v)
        BY <1>2
    <2>2. /\ job' \in [Requests -> Jobs \cup {NoJob}]
          /\ found' \in [Requests -> RoomIds \cup {NoRoom}]
          /\ matched' \in [Requests -> SUBSET Rows]
          /\ notices' \in SUBSET (Requests \X Users \X RoomIds)
          /\ "publish" \in Steps \cup Ended
        BY <1>1 DEF TypeOK, Steps
    <2>3. QED
        BY <1>1, <2>1, <2>2, TypeKept
<1>6. Kind(q)' /\ Told(q)' /\ Acked(q)'
    BY <1>1, <1>2, <1>4 DEF Local, Kind, Told, Acked
<1>7. Standing(q)'
    BY <1>1, <1>2, <1>4 DEF Local, Standing, Exists, IsDm
<1>8. Writing(q)'
    BY <1>2, <1>3, <1>4 DEF Writing, Target
<1>9. \A x \in Requests \ {q} : DOMAIN writes'[q] \cap DOMAIN writes[x] = {}
    BY <1>1, <1>3 DEF Held, HeldByOther, TypeOK
<1>10. QED
    BY <1>1, <1>4, <1>5, <1>6, <1>7, <1>8, <1>9, Quiet DEF Statement, Ended

(* ... and to write nothing. *)
LEMMA TargetNotWritten ==
    ASSUME IInv, NEW q \in Requests, Rejoin(q) \/ Insert(q),
           NEW l \in {"insert", "error"}, Goto(q, l),
           UNCHANGED <<member, writes, job, found, matched, before, notices>>
    PROVE  IInv'
<1>1. TypeOK /\ Local(q) /\ pc[q] \in {"rejoin", "insert"}
    BY DEF IInv, Rejoin, Insert
<1>2. job[q].op = "invite" /\ writes[q] = NoWrites
    BY <1>1, ReadsTable DEF Local, Kind
<1>3. pc'[q] = l
    BY <1>1 DEF Goto, TypeOK
<1>4. TypeOK'
    <2>1. /\ job' \in [Requests -> Jobs \cup {NoJob}]
          /\ found' \in [Requests -> RoomIds \cup {NoRoom}]
          /\ matched' \in [Requests -> SUBSET Rows]
          /\ notices' \in SUBSET (Requests \X Users \X RoomIds)
          /\ l \in Steps \cup Ended
        BY <1>1 DEF TypeOK, Steps, Ended
    <2>2. QED
        BY <1>1, <1>2, <2>1, TypeKept
<1>5. Kind(q)' /\ Told(q)' /\ Acked(q)' /\ Writing(q)'
    BY <1>1, <1>2, <1>3 DEF Local, Kind, Told, Acked, Writing
<1>6. Standing(q)'
    BY <1>1, <1>2, <1>3 DEF Local, Standing, Exists, IsDm
<1>7. \A x \in Requests \ {q} : DOMAIN writes'[q] \cap DOMAIN writes[x] = {}
    BY <1>2 DEF NoWrites
<1>8. QED
    BY <1>1, <1>3, <1>4, <1>5, <1>6, <1>7, Quiet DEF Statement, Ended

LEMMA RejoinKeeps ==
    ASSUME IInv, NEW q \in Requests, Rejoin(q)
    PROVE  IInv'
<1>1. CASE Read(q)[Target(q)] = "out"
    BY <1>1, TargetWritten DEF Rejoin
<1>2. CASE Read(q)[Target(q)] # "out"
    BY <1>2, TargetNotWritten DEF Rejoin
<1>3. QED
    BY <1>1, <1>2

LEMMA InsertKeeps ==
    ASSUME IInv, NEW q \in Requests, Insert(q)
    PROVE  IInv'
<1>1. CASE member[Target(q)] = "none"
    BY <1>1, TargetWritten DEF Insert
<1>2. CASE member[Target(q)] # "none"
    BY <1>2, TargetNotWritten DEF Insert
<1>3. QED
    BY <1>1, <1>2

(* The row is still "in" when it is written, and no other writes it.       *)
LEMMA LeaveKeeps ==
    ASSUME IInv, NEW q \in Requests, Leave(q)
    PROVE  IInv'
<1>1. TypeOK /\ Local(q) /\ pc[q] = "leave" /\ Read(q) = member
    BY ReadsTable DEF IInv, Leave
<1>2. job[q].op = "leave" /\ writes[q] = NoWrites /\ Place(q) \in Rows
    BY <1>1, ReadsTable, Asked DEF Local, Kind
<1>3. UNCHANGED <<member, job, found, matched, before, notices>>
    BY DEF Leave
<1>4. /\ job' \in [Requests -> Jobs \cup {NoJob}]
      /\ found' \in [Requests -> RoomIds \cup {NoRoom}]
      /\ matched' \in [Requests -> SUBSET Rows]
      /\ notices' \in SUBSET (Requests \X Users \X RoomIds)
      /\ "commit" \in Steps \cup Ended /\ "refused" \in Steps \cup Ended
    BY <1>1, <1>3 DEF TypeOK, Steps, Ended
<1>5. CASE member[Place(q)] = "in"
    <2>1. ~Held(q, {Place(q)}) /\ Write(q, {Place(q)}, "out") /\ Goto(q, "commit")
        BY <1>1, <1>5 DEF Leave
    <2>2. DOMAIN writes'[q] = {Place(q)} /\ writes'[q][Place(q)] = "out"
        BY <1>1, <1>2, <2>1 DEF Write, Wrote, NoWrites, TypeOK
    <2>3. pc'[q] = "commit"
        BY <1>1, <2>1 DEF Goto, TypeOK
    <2>4. TypeOK'
        <3>1. \E rs \in SUBSET Rows, v \in {"in", "out"} : Write(q, rs, v)
            BY <1>2, <2>1
        <3>2. QED
            BY <1>1, <1>3, <1>4, <2>1, <3>1, TypeKept
    <2>5. Kind(q)' /\ Told(q)' /\ Acked(q)' /\ Standing(q)'
        BY <1>1, <1>2, <1>3, <2>3 DEF Local, Kind, Told, Acked, Standing
    <2>6. Writing(q)'
        BY <1>2, <1>3, <1>5, <2>2, <2>3 DEF Writing, Place
    <2>7. \A x \in Requests \ {q} : DOMAIN writes'[q] \cap DOMAIN writes[x] = {}
        BY <1>1, <2>1, <2>2 DEF Held, HeldByOther, TypeOK
    <2>8. QED
        BY <1>1, <1>3, <2>3, <2>4, <2>5, <2>6, <2>7, Quiet DEF Statement, Ended
<1>6. CASE member[Place(q)] # "in"
    <2>1. UNCHANGED writes /\ Goto(q, "refused")
        BY <1>1, <1>6 DEF Leave
    <2>2. pc'[q] = "refused"
        BY <1>1, <2>1 DEF Goto, TypeOK
    <2>3. TypeOK'
        BY <1>1, <1>2, <1>3, <1>4, <2>1, TypeKept
    <2>4. Kind(q)' /\ Told(q)' /\ Acked(q)' /\ Standing(q)' /\ Writing(q)'
        BY <1>1, <1>2, <1>3, <2>2 DEF Local, Kind, Told, Acked, Standing, Writing
    <2>5. \A x \in Requests \ {q} : DOMAIN writes'[q] \cap DOMAIN writes[x] = {}
        BY <1>2, <2>1 DEF NoWrites
    <2>6. QED
        BY <1>1, <1>3, <2>2, <2>3, <2>4, <2>5, Quiet DEF Statement, Ended
<1>7. QED
    BY <1>5, <1>6
-----------------------------------------------------------------------------
LEMMA PublishKeeps ==
    ASSUME IInv, NEW q \in Requests, Publish(q)
    PROVE  IInv'
<1>1. TypeOK /\ Local(q) /\ pc[q] = "publish"
    BY DEF IInv, Publish
<1>2. job[q].op \in {"dm", "invite"} /\ job[q].to \in Users
    BY <1>1, Asked DEF Local, Kind
<1>3. PICK r \in RoomIds : r = IF job[q].op = "dm" THEN found[q] ELSE job[q].room
    <2>1. CASE job[q].op = "dm"
        BY <1>1, <2>1 DEF Local, Writing, RoomIds
    <2>2. CASE job[q].op = "invite"
        BY <1>1, <2>2, Asked
    <2>3. QED
        BY <1>2, <2>1, <2>2
<1>4. /\ notices' = notices \cup {<<q, job[q].to, r>>}
      /\ pc'[q] = "commit" /\ Goto(q, "commit")
      /\ UNCHANGED <<member, writes, job, found, matched, before>>
    BY <1>1, <1>3 DEF Publish, Goto, TypeOK
<1>5. TypeOK'
    <2>1. /\ job' \in [Requests -> Jobs \cup {NoJob}]
          /\ found' \in [Requests -> RoomIds \cup {NoRoom}]
          /\ matched' \in [Requests -> SUBSET Rows]
          /\ notices' \in SUBSET (Requests \X Users \X RoomIds)
          /\ "commit" \in Steps \cup Ended
        BY <1>1, <1>2, <1>3, <1>4 DEF TypeOK, Steps
    <2>2. QED
        BY <1>1, <1>4, <2>1, TypeKept
<1>6. Kind(q)'
    BY <1>1, <1>4 DEF Local, Kind
<1>7. Standing(q)'
    BY <1>1, <1>4 DEF Local, Standing, Exists, IsDm
<1>8. Writing(q)' /\ Told(q)'
    BY <1>1, <1>2, <1>3, <1>4 DEF Local, Writing, Told, Target, Place, Exists
<1>9. Acked(q)'
    BY <1>1, <1>2, <1>4 DEF Local, Writing, Acked
<1>10. \A x \in Requests \ {q} : DOMAIN writes'[q] \cap DOMAIN writes[x] = {}
    BY <1>4 DEF IInv, Apart
<1>11. QED
    BY <1>1, <1>4, <1>5, <1>6, <1>7, <1>8, <1>9, <1>10, Quiet DEF Statement, Ended

LEMMA AbortKeeps ==
    ASSUME IInv, NEW q \in Requests, Abort(q)
    PROVE  IInv'
<1>1. TypeOK /\ Local(q) /\ pc[q] \notin Ended \cup {"new"}
    BY DEF IInv, Abort
<1>2. /\ pc'[q] = "aborted" /\ Goto(q, "aborted") /\ writes'[q] = NoWrites
      /\ UNCHANGED <<member, job, found, notices, before>>
    BY <1>1 DEF Abort, Goto, TypeOK
<1>3. TypeOK'
    <2>1. /\ job' \in [Requests -> Jobs \cup {NoJob}]
          /\ found' \in [Requests -> RoomIds \cup {NoRoom}]
          /\ matched' \in [Requests -> SUBSET Rows]
          /\ notices' \in SUBSET (Requests \X Users \X RoomIds)
          /\ "aborted" \in Steps \cup Ended
        BY <1>1, <1>2 DEF Abort, TypeOK, Ended
    <2>2. writes' = [writes EXCEPT ![q] = NoWrites]
        BY DEF Abort
    <2>3. QED
        BY <1>1, <1>2, <2>1, <2>2, TypeKept
<1>4. Kind(q)' /\ Told(q)' /\ Acked(q)' /\ Writing(q)' /\ Standing(q)'
    BY <1>1, <1>2 DEF Local, Kind, Told, Acked, Writing, Standing
<1>5. \A x \in Requests \ {q} : DOMAIN writes'[q] \cap DOMAIN writes[x] = {}
    BY <1>2 DEF NoWrites
<1>6. QED
    BY <1>1, <1>2, <1>3, <1>4, <1>5, Quiet

(* A request that begins makes none of the rooms that are seen a DM. *)
LEMMA BeginKeeps ==
    ASSUME IInv, NEW q \in Requests, Begin(q)
    PROVE  IInv'
<1>1. TypeOK /\ pc[q] = "new" /\ ~Exists(member, q)
    BY DEF IInv, Begin, Unmade
<1>2. PICK j \in Jobs : job' = [job EXCEPT ![q] = j]
    BY DEF Begin
<1>3. j.op \in {"create", "dm", "invite", "leave"} /\ job'[q] = j /\ j # NoJob
    BY <1>1, <1>2, JobFields DEF TypeOK
<1>4. /\ pc' \in [Requests -> Steps \cup Ended]
      /\ pc'[q] = CASE j.op = "create" -> "make" [] j.op = "dm" -> "find"
                    [] j.op = "invite" -> "permit" [] j.op = "leave" -> "leave"
    <2>1. PICK k \in Jobs :
             /\ job' = [job EXCEPT ![q] = k]
             /\ Goto(q, CASE k.op = "create" -> "make" [] k.op = "dm" -> "find"
                          [] k.op = "invite" -> "permit" [] k.op = "leave" -> "leave")
        BY DEF Begin
    <2>2. k = j
        BY <1>1, <1>3, <2>1 DEF TypeOK
    <2>3. QED
        BY <1>1, <1>3, <2>1, <2>2 DEF Goto, TypeOK, Steps
<1>5. /\ UNCHANGED <<member, writes, found, notices, matched>>
      /\ before' = [before EXCEPT ![q] = {x \in Requests : pc[x] \in Ended}]
    BY DEF Begin
<1> DEFINE Same(x) == /\ pc'[x] = pc[x] /\ job'[x] = job[x] /\ writes'[x] = writes[x]
                      /\ found'[x] = found[x] /\ matched'[x] = matched[x]
                      /\ before'[x] = before[x]
<1>6. \A x \in Requests \ {q} : Same(x)
    BY <1>1, Alone
<1>7. writes[q] = NoWrites
    BY <1>1, ReadsTable
<1>8. TypeOK'
    <2>1. job' \in [Requests -> Jobs \cup {NoJob}]
        BY <1>1, <1>2 DEF TypeOK
    <2>2. before' \in [Requests -> SUBSET Requests]
        BY <1>1, <1>5 DEF TypeOK
    <2>3. \A x \in Requests : pc'[x] \notin {"publish", "commit"} => writes[x] = NoWrites
        BY <1>1, <1>6, <1>7 DEF TypeOK
    <2>4. QED
        BY <1>1, <1>4, <1>5, <2>1, <2>2, <2>3 DEF TypeOK
<1>9. \A r : r # q => (IsDm(r) <=> IsDm(r)')
    BY <1>6 DEF IsDm
<1>10. Unmade'
    BY <1>1, <1>5, <1>6 DEF IInv, Unmade, Exists
<1>11. Apart'
    BY <1>5 DEF IInv, Apart
<1>12. WholeDm'
    BY <1>1, <1>5, <1>9 DEF IInv, WholeDm, Exists
<1>13. Local(q)'
    <2>1. Kind(q)'
        BY <1>3, <1>4 DEF Kind
    <2>2. Standing(q)' /\ Writing(q)' /\ Told(q)' /\ Acked(q)'
        BY <1>3, <1>4 DEF Standing, Writing, Told, Acked
    <2>3. Past(q)'
        BY <1>1, <1>5, <1>6 DEF Past, TypeOK, Ended
    <2>4. QED
        BY <2>1, <2>2, <2>3 DEF Local
<1>14. ASSUME NEW x \in Requests \ {q}
       PROVE  Local(x)'
    <2>1. Local(x) /\ Same(x)
        BY <1>6 DEF IInv
    <2>2. Kind(x)' /\ Told(x)'
        BY <1>5, <2>1 DEF Local, Kind, Told
    <2>3. Standing(x)'
        BY <1>1, <1>5, <1>9, <2>1 DEF Local, Standing, Exists
    <2>4. Writing(x)'
        BY <1>1, <1>5, <1>9, <2>1 DEF Local, Writing, Exists, Place, Target
    <2>5. Acked(x)'
        <3>1. LeftSince(x) => LeftSince(x)'
            BY <1>1, <1>6, <2>1 DEF LeftSince, Place, Target
        <3>2. BackSince(x) => BackSince(x)'
            BY <1>1, <1>6, <2>1 DEF BackSince, Place, Target
        <3>3. QED
            BY <1>5, <2>1, <3>1, <3>2 DEF Local, Acked, Place, Target
    <2>6. Past(x)'
        <3>1. \A y \in before[x] : y \in Requests
            BY <1>1 DEF TypeOK
        <3>2. QED
            BY <1>1, <1>6, <2>1, <3>1 DEF Local, Past, Ended
    <2>7. QED
        BY <2>2, <2>3, <2>4, <2>5, <2>6 DEF Local
<1>15. QED
    BY <1>8, <1>10, <1>11, <1>12, <1>13, <1>14 DEF IInv
-----------------------------------------------------------------------------
(* What a commit does to the table: the rows written, and no others.       *)
LEMMA Committed ==
    ASSUME IInv, NEW q \in Requests, Commit(q)
    PROVE  /\ pc[q] = "commit" /\ pc'[q] = "ok"
           /\ \A r \in Rows : member'[r] = IF r \in DOMAIN writes[q]
                                           THEN writes[q][r] ELSE member[r]
           /\ DOMAIN writes[q] \subseteq Rows
           /\ \A r \in DOMAIN writes[q] :
                 writes[q][r] = IF job[q].op = "leave" THEN "out" ELSE "in"
           /\ \A r \in Rows : member[r] # "none" => member'[r] # "none"
           /\ UNCHANGED <<job, found, matched, notices, before>>
<1>1. TypeOK /\ Local(q) /\ pc[q] = "commit"
    BY DEF IInv, Commit
<1>2. \A r \in Rows : member'[r] = IF r \in DOMAIN writes[q]
                                   THEN writes[q][r] ELSE member[r]
    BY <1>1 DEF Commit, Seen, TypeOK
<1>3. \A r \in DOMAIN writes[q] :
         writes[q][r] = IF job[q].op = "leave" THEN "out" ELSE "in"
    BY <1>1 DEF Local, Writing
<1>4. DOMAIN writes[q] \subseteq Rows
    BY <1>1 DEF TypeOK
<1>5. \A r \in Rows : member[r] # "none" => member'[r] # "none"
    BY <1>2, <1>3
<1>6. QED
    BY <1>1, <1>2, <1>3, <1>4, <1>5 DEF Commit, Goto, TypeOK

(* The rows a commit makes visible are of its own room or one that is seen. *)
LEMMA OwnOrSeen ==
    ASSUME IInv, NEW q \in Requests, pc[q] = "commit",
           NEW r \in RoomIds, NEW u \in Users, <<r, u>> \in DOMAIN writes[q]
    PROVE  \/ r = q /\ job[q].op \in {"create", "dm"}
           \/ Exists(member, r) /\ job[q].op \in {"dm", "invite", "leave"}
<1>1. Writing(q) /\ Standing(q)
    BY DEF IInv, Local
<1>2. job[q].op \in {"create", "dm", "invite", "leave"}
    BY Asked
<1>3. CASE job[q].op = "create"
    BY <1>1, <1>3 DEF Writing
<1>4. CASE job[q].op = "dm" /\ found[q] = q
    BY <1>1, <1>4 DEF Writing
<1>5. CASE job[q].op = "dm" /\ found[q] # q
    BY <1>1, <1>5 DEF Writing
<1>6. CASE job[q].op = "invite"
    BY <1>1, <1>6 DEF Writing, Standing, Target
<1>7. CASE job[q].op = "leave"
    BY <1>1, <1>7 DEF Writing, Place, Exists
<1>8. QED
    BY <1>2, <1>3, <1>4, <1>5, <1>6, <1>7

(* Only the request that makes a DM adds rows to it, and adds both at once. *)
LEMMA DmRows ==
    ASSUME IInv, NEW q \in Requests, Commit(q), NEW r \in RoomIds, IsDm(r),
           NEW u \in Users, member[<<r, u>>] = "none", member'[<<r, u>>] # "none"
    PROVE  /\ r = q /\ job[q].op = "dm" /\ found[q] = q
           /\ \A v \in Users : /\ member[<<r, v>>] = "none"
                               /\ member'[<<r, v>>] # "none" <=>
                                     v \in {job[q].by, job[q].to}
<1>1. /\ Unmade /\ Writing(q) /\ Standing(q)
      /\ pc[q] = "commit"
      /\ \A y \in Rows : member'[y] = IF y \in DOMAIN writes[q]
                                      THEN writes[q][y] ELSE member[y]
      /\ \A y \in DOMAIN writes[q] :
            writes[q][y] = IF job[q].op = "leave" THEN "out" ELSE "in"
    BY Committed DEF IInv, Local
<1>2. <<r, u>> \in DOMAIN writes[q]
    BY <1>1 DEF Rows
<1>3. job[q].op \in {"create", "dm", "invite", "leave"}
    BY <1>1, Asked
<1>4. r = q /\ job[q].op = "dm" /\ found[q] = q
    <2>1. CASE job[q].op = "create"
        <3>1. r = q
            BY <1>1, <1>2, <2>1 DEF Writing
        <3>2. QED
            BY <2>1, <3>1, RoomsAssumption DEF IsDm
    <2>2. CASE job[q].op = "dm" /\ found[q] = q
        BY <1>1, <1>2, <2>2 DEF Writing
    <2>3. CASE job[q].op = "dm" /\ found[q] # q
        BY <1>1, <1>2, <2>3 DEF Writing
    <2>4. CASE job[q].op = "invite"
        BY <1>1, <1>2, <2>4 DEF Writing, Standing, Target
    <2>5. CASE job[q].op = "leave"
        BY <1>1, <1>2, <2>5 DEF Writing, Place
    <2>6. QED
        BY <1>3, <2>1, <2>2, <2>3, <2>4, <2>5
<1>5. DOMAIN writes[q] = {<<q, job[q].by>>, <<q, job[q].to>>}
    BY <1>1, <1>4 DEF Writing
<1>6. ~Exists(member, q)
    BY <1>1 DEF Unmade
<1>7. ASSUME NEW v \in Users
      PROVE  /\ member[<<r, v>>] = "none"
             /\ member'[<<r, v>>] # "none" <=> v \in {job[q].by, job[q].to}
    <2>1. <<r, v>> \in Rows /\ member[<<r, v>>] = "none"
        BY <1>4, <1>6 DEF Exists, Rows
    <2>2. <<r, v>> \in DOMAIN writes[q] <=> v \in {job[q].by, job[q].to}
        BY <1>4, <1>5
    <2>3. QED
        BY <1>1, <1>4, <2>1, <2>2
<1>8. QED
    BY <1>4, <1>7

(* A DM room keeps its two rows; a new one gets both at once. *)
LEMMA CommitWhole ==
    ASSUME IInv, NEW q \in Requests, Commit(q)
    PROVE  WholeDm'
<1>1. /\ WholeDm /\ pc[q] = "commit" /\ UNCHANGED job
      /\ \A r \in Rows : member[r] # "none" => member'[r] # "none"
    BY Committed DEF IInv
<1>2. SUFFICES ASSUME NEW r \in RoomIds, IsDm(r)', Exists(member', r)
               PROVE  Cardinality({u \in Users : member'[<<r, u>>] # "none"}) = 2
    BY DEF WholeDm
<1>3. IsDm(r)
    BY <1>1, <1>2 DEF IsDm
<1>4. CASE \A u \in Users : member[<<r, u>>] = "none" <=> member'[<<r, u>>] = "none"
    <2>1. Exists(member, r)
        BY <1>2, <1>4 DEF Exists
    <2>2. {u \in Users : member'[<<r, u>>] # "none"} =
          {u \in Users : member[<<r, u>>] # "none"}
        BY <1>4
    <2>3. QED
        BY <1>1, <1>3, <2>1, <2>2 DEF WholeDm
<1>5. ASSUME NEW u \in Users, member[<<r, u>>] = "none", member'[<<r, u>>] # "none"
      PROVE  Cardinality({v \in Users : member'[<<r, v>>] # "none"}) = 2
    <2>1. /\ job[q].op = "dm"
          /\ \A v \in Users :
                member'[<<r, v>>] # "none" <=> v \in {job[q].by, job[q].to}
        BY <1>3, <1>5, DmRows
    <2>2. job[q].by \in Users /\ job[q].to \in Users /\ job[q].by # job[q].to
        BY <1>1, <2>1, Asked
    <2>3. {v \in Users : member'[<<r, v>>] # "none"} =
          {job[q].by} \cup {job[q].to}
        BY <2>1, <2>2
    <2>4. /\ IsFiniteSet({job[q].by}) /\ Cardinality({job[q].by}) = 1
        BY FS_Singleton
    <2>5. Cardinality({job[q].by} \cup {job[q].to}) = 2
        <3>1. job[q].to \notin {job[q].by}
            BY <2>2
        <3>2. Cardinality({job[q].by} \cup {job[q].to}) = Cardinality({job[q].by}) + 1
            BY <2>4, <3>1, FS_AddElement, Zenon
        <3>3. QED
            BY <2>4, <3>2
    <2>6. QED
        BY <2>3, <2>5, Zenon
<1>6. \A u \in Users : member[<<r, u>>] # "none" => member'[<<r, u>>] # "none"
    BY <1>1 DEF Rows
<1>7. QED
    BY <1>4, <1>5, <1>6

(* An acknowledgement is taken back only by a request that is over after,  *)
(* and so was not when the acknowledged one began.                         *)
LEMMA CommitAcked ==
    ASSUME IInv, NEW q \in Requests, Commit(q), NEW x \in Requests
    PROVE  Acked(x)'
<1>1. /\ TypeOK /\ Unmade /\ Local(q) /\ Local(x)
      /\ pc[q] = "commit" /\ pc'[q] = "ok"
      /\ \A r \in Rows : member'[r] = IF r \in DOMAIN writes[q]
                                      THEN writes[q][r] ELSE member[r]
      /\ \A r \in DOMAIN writes[q] :
            writes[q][r] = IF job[q].op = "leave" THEN "out" ELSE "in"
      /\ UNCHANGED <<job, found, before>>
    BY Committed DEF IInv
<1>2. \A y \in Requests \ {q} : pc'[y] = pc[y] /\ writes'[y] = writes[y]
    BY <1>1, Alone DEF Statement
<1>3. q \notin before[x]
    BY <1>1 DEF Local, Past, Ended
<1>4. LeftSince(x) => LeftSince(x)'
    BY <1>1, <1>2 DEF LeftSince, Place, Target
<1>5. BackSince(x) => BackSince(x)'
    BY <1>1, <1>2 DEF BackSince, Place, Target
<1>6. Writing(q) /\ Standing(q) /\ job[q].op \in {"create", "dm", "invite", "leave"}
    BY <1>1, Asked DEF Local
<1>7. ASSUME pc'[x] \in {"ok", "commit"}, job[x].op = "invite",
             pc'[x] = "ok" \/ DOMAIN writes'[x] = {}
      PROVE  member'[Target(x)] = "in" \/ LeftSince(x)'
    <2>1. pc[x] # "new" /\ Target(x) \in Rows
        BY <1>1, <1>2, <1>7, Asked
    <2>2. CASE Target(x) \in DOMAIN writes[q]
        <3>1. CASE job[q].op = "leave"
            <4>1. Place(q) = Target(x)
                BY <1>1, <1>6, <2>2, <3>1 DEF Writing
            <4>2. QED
                BY <1>1, <1>3, <3>1, <4>1 DEF LeftSince, Place, Target
        <3>2. CASE job[q].op # "leave"
            BY <1>1, <2>1, <2>2, <3>2
        <3>3. QED
            BY <3>1, <3>2
    <2>3. CASE Target(x) \notin DOMAIN writes[q]
        <3>1. member'[Target(x)] = member[Target(x)]
            BY <1>1, <2>1, <2>3
        <3>2. pc[x] = "ok" \/ (pc[x] = "commit" /\ DOMAIN writes[x] = {})
            <4>1. CASE x = q
                BY <1>1, <1>6, <1>7, <2>3, <4>1 DEF Writing
            <4>2. CASE x # q
                BY <1>2, <1>7, <4>2
            <4>3. QED
                BY <4>1, <4>2
        <3>3. QED
            BY <1>1, <1>4, <1>7, <3>1, <3>2 DEF Local, Acked
    <2>4. QED
        BY <2>2, <2>3
<1>8. ASSUME pc'[x] = "ok", job[x].op = "leave"
      PROVE  member'[Place(x)] = "out" \/ BackSince(x)'
    <2>1. pc[x] # "new" /\ Place(x) \in Rows /\ job[x].room \in RoomIds
        BY <1>1, <1>2, <1>8, Asked
    <2>2. CASE x = q
        BY <1>1, <1>6, <1>8, <2>1, <2>2 DEF Writing
    <2>3. CASE x # q
        <3>1. member[Place(x)] = "out" \/ BackSince(x)
            BY <1>1, <1>2, <1>8, <2>3 DEF Local, Acked
        <3>2. CASE Place(x) \notin DOMAIN writes[q]
            BY <1>1, <1>5, <2>1, <3>1, <3>2
        <3>3. CASE Place(x) \in DOMAIN writes[q] /\ member[Place(x)] = "out"
            <4>1. job[x].by \in Users /\ Exists(member, job[x].room)
                BY <2>1, <3>3, Asked DEF Exists, Place
            <4>2. CASE job[q].op = "leave"
                BY <1>1, <2>1, <3>3, <4>2
            <4>3. CASE job[q].op = "invite"
                <5>1. Target(q) = Place(x)
                    BY <1>1, <1>6, <3>3, <4>3 DEF Writing
                <5>2. QED
                    BY <1>1, <1>3, <4>3, <5>1 DEF BackSince, Place, Target
            <4>4. CASE job[q].op = "dm" /\ found[q] # q
                <5>1. found[q] = job[x].room
                    BY <1>1, <1>6, <3>3, <4>4 DEF Writing, Place
                <5>2. QED
                    BY <1>1, <1>3, <4>4, <5>1 DEF BackSince
            <4>5. CASE job[q].op = "create" \/ (job[q].op = "dm" /\ found[q] = q)
                <5>1. job[x].room = q
                    BY <1>1, <1>6, <3>3, <4>5 DEF Writing, Place
                <5>2. ~Exists(member, q)
                    BY <1>1 DEF Unmade
                <5>3. QED
                    BY <4>1, <5>1, <5>2
            <4>6. QED
                BY <1>6, <4>2, <4>3, <4>4, <4>5
        <3>4. QED
            BY <1>5, <3>1, <3>2, <3>3
    <2>4. QED
        BY <2>2, <2>3
<1>9. QED
    BY <1>1, <1>7, <1>8 DEF Acked, Target, Place

LEMMA CommitKeeps ==
    ASSUME IInv, NEW q \in Requests, Commit(q)
    PROVE  IInv'
<1>1. /\ TypeOK /\ Unmade /\ Apart /\ Local(q)
      /\ pc[q] = "commit" /\ pc'[q] = "ok"
      /\ \A r \in Rows : member'[r] = IF r \in DOMAIN writes[q]
                                      THEN writes[q][r] ELSE member[r]
      /\ \A r \in Rows : member[r] # "none" => member'[r] # "none"
      /\ UNCHANGED <<job, found, matched, notices, before>>
    BY Committed DEF IInv
<1> DEFINE Same(x) == /\ pc'[x] = pc[x] /\ job'[x] = job[x] /\ writes'[x] = writes[x]
                      /\ found'[x] = found[x] /\ matched'[x] = matched[x]
                      /\ before'[x] = before[x]
<1>2. \A x \in Requests \ {q} : Same(x)
    BY <1>1, Alone DEF Statement
<1>3. DOMAIN writes' = Requests /\ writes'[q] = NoWrites
    BY <1>1 DEF Commit, TypeOK
<1>4. TypeOK'
    <2>1. member' \in [Rows -> {"none", "in", "out"}]
        BY <1>1 DEF Commit, Seen, TypeOK
    <2>2. pc' \in [Requests -> Steps \cup Ended]
        BY <1>1 DEF Commit, Goto, TypeOK, Ended
    <2>3. ASSUME NEW x \in Requests
          PROVE  /\ DOMAIN writes'[x] \subseteq Rows
                 /\ writes'[x] \in [DOMAIN writes'[x] -> {"in", "out"}]
                 /\ pc'[x] \notin {"publish", "commit"} => writes'[x] = NoWrites
        <3>1. CASE x = q
            BY <1>3, <3>1 DEF NoWrites
        <3>2. CASE x # q
            BY <1>1, <1>2, <3>2 DEF TypeOK
        <3>3. QED
            BY <3>1, <3>2
    <2>4. QED
        BY <1>1, <1>3, <2>1, <2>2, <2>3 DEF TypeOK
<1>5. \A r \in RoomIds : Exists(member, r) => Exists(member', r)
    BY <1>1 DEF Exists, Rows
<1>6. Unmade'
    <2>1. SUFFICES ASSUME NEW x \in Requests, pc'[x] # "ok", NEW u \in Users,
                          member'[<<x, u>>] # "none"
                   PROVE  FALSE
        BY DEF Unmade, Exists
    <2>2. x # q /\ pc[x] # "ok" /\ x \in RoomIds
        BY <1>1, <1>2, <2>1 DEF RoomIds
    <2>3. ~Exists(member, x) /\ member[<<x, u>>] = "none"
        BY <1>1, <2>1, <2>2 DEF Unmade, Exists
    <2>4. <<x, u>> \in DOMAIN writes[q]
        BY <1>1, <2>1, <2>2, <2>3 DEF Rows
    <2>5. QED
        BY <1>1, <2>1, <2>2, <2>3, <2>4, OwnOrSeen
<1>7. Apart'
    BY <1>1, <1>2, <1>3 DEF Apart, NoWrites
<1>8. Local(q)'
    <2>1. Kind(q)' /\ Standing(q)' /\ Writing(q)' /\ Told(q)'
        BY <1>1 DEF Local, Kind, Standing, Writing, Told
    <2>2. Past(q)'
        BY <1>1, <1>2 DEF Local, Past, TypeOK, Ended
    <2>3. QED
        BY <2>1, <2>2, CommitAcked DEF Local
<1>9. ASSUME NEW x \in Requests \ {q}
      PROVE  Local(x)'
    <2>1. Local(x) /\ Same(x)
        BY <1>2 DEF IInv
    <2>2. Kind(x)' /\ Told(x)'
        BY <1>1, <2>1 DEF Local, Kind, Told
    <2>3. Standing(x)'
        <3>1. \A r \in matched[x] : r \in Rows
            BY <1>1 DEF TypeOK
        <3>2. job[x].op = "invite" /\ pc[x] # "new" => job[x].room \in RoomIds
            BY Asked
        <3>3. IsDm(job[x].room)' <=> IsDm(job[x].room)
            BY <1>1 DEF IsDm
        <3>4. QED
            BY <1>1, <1>5, <2>1, <3>1, <3>2, <3>3 DEF Local, Standing
    <2>4. Writing(x)'
        <3>1. \A r \in DOMAIN writes[x] : r \in Rows /\ r \notin DOMAIN writes[q]
            BY <1>1 DEF TypeOK, Apart
        <3>2. \A r \in DOMAIN writes[x] : member'[r] = member[r]
            BY <1>1, <3>1
        <3>3. QED
            BY <1>1, <1>5, <2>1, <3>2 DEF Local, Writing, Place, Target
    <2>5. Past(x)'
        <3>1. \A y \in before[x] : y \in Requests
            BY <1>1 DEF TypeOK
        <3>2. QED
            BY <1>1, <1>2, <2>1, <3>1 DEF Local, Past, Ended
    <2>6. QED
        BY <2>2, <2>3, <2>4, <2>5, CommitAcked DEF Local
<1>10. QED
    BY <1>4, <1>6, <1>7, <1>8, <1>9, CommitWhole DEF IInv
-----------------------------------------------------------------------------
(* The invariant holds of the tables earlier requests left. *)
LEMMA InitInv == Init => IInv
<1> SUFFICES ASSUME Init
             PROVE  IInv
    OBVIOUS
<1>1. member \in [Rows -> {"none", "in", "out"}]
    BY RoomsAssumption DEF Init
<1>2. TypeOK
    BY <1>1 DEF Init, TypeOK, NoWrites, Steps
<1>3. Unmade
    BY RoomsAssumption DEF Init, Unmade
<1>4. Apart
    BY DEF Init, Apart, NoWrites
<1>5. WholeDm
    <2>1. ASSUME NEW r \in RoomIds, IsDm(r)
          PROVE  r \in Dms
        BY <2>1 DEF Init, IsDm, NoJob
    <2>2. QED
        BY <2>1, RoomsAssumption DEF Init, WholeDm
<1>6. ASSUME NEW q \in Requests
      PROVE  Local(q)
    BY DEF Init, Local, Kind, Standing, Writing, Told, Acked, Past, NoJob
<1>7. QED
    BY <1>2, <1>3, <1>4, <1>5, <1>6 DEF IInv

LEMMA StepInv == IInv /\ [Next]_vars => IInv'
<1> SUFFICES ASSUME IInv, [Next]_vars
             PROVE  IInv'
    OBVIOUS
<1>1. ASSUME NEW q \in Requests, Begin(q)
      PROVE  IInv'
    BY <1>1, BeginKeeps
<1>2. ASSUME NEW q \in Requests, Statement(q)
      PROVE  IInv'
    <2>1. CASE MakeRoom(q)
        BY <2>1, MakeRoomKeeps
    <2>2. CASE FindDm(q)
        BY <2>2, FindDmKeeps
    <2>3. CASE MatchDm(q)
        BY <2>3, MatchDmKeeps
    <2>4. CASE ReviveDm(q)
        BY <2>4, ReviveDmKeeps
    <2>5. CASE InsertDm(q)
        BY <2>5, InsertDmKeeps
    <2>6. CASE Permit(q)
        BY <2>6, PermitKeeps
    <2>7. CASE CheckTarget(q)
        BY <2>7, CheckTargetKeeps
    <2>8. CASE Rejoin(q)
        BY <2>8, RejoinKeeps
    <2>9. CASE Insert(q)
        BY <2>9, InsertKeeps
    <2>10. CASE Leave(q)
        BY <2>10, LeaveKeeps
    <2>11. CASE Publish(q)
        BY <2>11, PublishKeeps
    <2>12. CASE Commit(q)
        BY <2>12, CommitKeeps
    <2>13. QED
        BY <1>2, <2>1, <2>2, <2>3, <2>4, <2>5, <2>6, <2>7, <2>8, <2>9, <2>10,
           <2>11, <2>12 DEF Statement
<1>3. ASSUME NEW q \in Requests, Abort(q)
      PROVE  IInv'
    BY <1>3, AbortKeeps
<1>4. CASE UNCHANGED vars
    <2>1. UNCHANGED <<member, writes, pc, job, found, matched, notices, before>>
        BY <1>4 DEF vars
    <2>2. TypeOK' /\ Unmade' /\ Apart'
        BY <2>1 DEF IInv, TypeOK, Unmade, Exists, Apart
    <2>3. WholeDm'
        BY <2>1 DEF IInv, WholeDm, IsDm, Exists
    <2>4. ASSUME NEW q \in Requests
          PROVE  Local(q)'
        <3>1. Local(q)
            BY DEF IInv
        <3>2. Kind(q)' /\ Told(q)' /\ Past(q)'
            BY <2>1, <3>1 DEF Local, Kind, Told, Past
        <3>3. Standing(q)'
            BY <2>1, <3>1 DEF Local, Standing, Exists, IsDm
        <3>4. Writing(q)'
            BY <2>1, <3>1 DEF Local, Writing, Exists, Place, Target
        <3>5. Acked(q)'
            BY <2>1, <3>1 DEF Local, Acked, LeftSince, BackSince, Place, Target
        <3>6. QED
            BY <3>2, <3>3, <3>4, <3>5 DEF Local
    <2>5. QED
        BY <2>2, <2>3, <2>4 DEF IInv
<1>5. QED
    BY <1>1, <1>2, <1>3, <1>4 DEF Next

LEMMA AlwaysIInv == Spec => []IInv
BY InitInv, StepInv, PTL DEF Spec

(* Only a commit ends a request well, and only a commit changes the table. *)
LEMMA OnlyCommit ==
    ASSUME IInv, [Next]_vars, NEW q \in Requests, pc[q] # "ok", pc'[q] = "ok"
    PROVE  Commit(q)
<1>1. TypeOK
    BY DEF IInv
<1>2. Next
    BY DEF vars
<1>3. PICK x \in Requests : Begin(x) \/ Statement(x) \/ Abort(x)
    BY <1>2 DEF Next
<1>4. x = q
    BY <1>1, <1>3, Alone
<1>5. CASE Begin(q)
    BY <1>1, <1>5, JobFields DEF Begin, Goto, TypeOK
<1>6. ~Abort(q)
    BY <1>1 DEF Abort, Goto, TypeOK
<1>7. CASE Statement(q)
    <2>1. ~MakeRoom(q) /\ ~FindDm(q) /\ ~MatchDm(q) /\ ~ReviveDm(q) /\ ~InsertDm(q)
        BY <1>1 DEF MakeRoom, FindDm, MatchDm, ReviveDm, InsertDm, Goto, TypeOK
    <2>2. ~Permit(q) /\ ~CheckTarget(q) /\ ~Rejoin(q) /\ ~Insert(q)
        BY <1>1 DEF Permit, CheckTarget, Rejoin, Insert, Goto, TypeOK
    <2>3. ~Leave(q) /\ ~Publish(q)
        BY <1>1 DEF Leave, Publish, Goto, TypeOK
    <2>4. QED
        BY <1>7, <2>1, <2>2, <2>3 DEF Statement
<1>8. QED
    BY <1>3, <1>4, <1>5, <1>6, <1>7

LEMMA OnlyCommitWrites ==
    ASSUME [Next]_vars, member' # member
    PROVE  \E q \in Requests : Commit(q)
<1>1. Next
    BY DEF vars
<1>2. PICK q \in Requests : Begin(q) \/ Statement(q) \/ Abort(q)
    BY <1>1 DEF Next
<1>3. Commit(q)
    BY <1>2 DEF Begin, Statement, Abort, MakeRoom, FindDm, MatchDm, ReviveDm, InsertDm,
                Permit, CheckTarget, Rejoin, Insert, Leave, Publish
<1>4. QED
    BY <1>3
-----------------------------------------------------------------------------
(* Every variable of Rooms keeps its type, and a request that is not about *)
(* to commit has written nothing.                                          *)
THEOREM TypeInvariant == Spec => []TypeOK
<1>1. IInv => TypeOK
    BY DEF IInv
<1>2. QED
    BY <1>1, AlwaysIInv, PTL

(* However many requests for a DM cross, its rows are none or two,         *)
(* whoever is invited and whoever leaves.                                  *)
THEOREM DmWhole == Spec => []WholeDm
<1>1. IInv => WholeDm
    BY DEF IInv
<1>2. QED
    BY <1>1, AlwaysIInv, PTL

(* The rows a request's next statement writes, and so must wait for while  *)
(* another transaction holds one of them; the rows of a room just made     *)
(* nobody else can name.                                                   *)
Wanted(q) ==
    CASE pc[q] = "revive" -> matched[q]
      [] pc[q] = "rejoin" /\ Read(q)[Target(q)] = "out" -> {Target(q)}
      [] pc[q] = "insert" -> {Target(q)}
      [] pc[q] = "leave" /\ Read(q)[Place(q)] = "in" -> {Place(q)}
      [] OTHER -> {}

WaitsFor(q, x) == x # q /\ Wanted(q) \cap DOMAIN writes[x] # {}

(* No statement is executed before the rows it wants are free.             *)
LEMMA WaitsForWanted ==
    ASSUME NEW q \in Requests, Statement(q)
    PROVE  ~Held(q, Wanted(q))
<1>1. CASE Wanted(q) = {}
    BY <1>1 DEF Held, HeldByOther
<1>2. CASE ReviveDm(q)
    BY <1>2 DEF ReviveDm, Wanted
<1>3. CASE Rejoin(q)
    BY <1>1, <1>3 DEF Rejoin, Wanted
<1>4. CASE Insert(q)
    BY <1>4 DEF Insert, Wanted
<1>5. CASE Leave(q)
    BY <1>1, <1>5 DEF Leave, Wanted
<1>6. CASE pc[q] \notin {"revive", "rejoin", "insert", "leave"}
    BY <1>1, <1>6 DEF Wanted
<1>7. QED
    BY <1>2, <1>3, <1>4, <1>5, <1>6
       DEF Statement, MakeRoom, FindDm, MatchDm, InsertDm, Permit, CheckTarget,
           Publish, Commit

(* Whoever is waited for has written, so that only publishing and the      *)
(* commit are left to it, and these wait for nobody. *)
NoChain ==
    \A q, x \in Requests :
        WaitsFor(q, x) => Active(x) /\ \A y \in Requests : ~WaitsFor(x, y)

(* While a request is in progress there is one whose next statement waits  *)
(* for no row. *)
SomeGoesOn ==
    (\E q \in Requests : Active(q)) =>
        \E q \in Requests : Active(q) /\ ~Held(q, Wanted(q))

LEMMA ChainsAreShort ==
    ASSUME TypeOK
    PROVE  NoChain
<1> SUFFICES ASSUME NEW q \in Requests, NEW x \in Requests, WaitsFor(q, x)
             PROVE  Active(x) /\ \A y \in Requests : ~WaitsFor(x, y)
    BY DEF NoChain
<1>1. DOMAIN writes[x] # {}
    BY DEF WaitsFor
<1>2. pc[x] \in {"publish", "commit"}
    BY <1>1 DEF TypeOK, NoWrites
<1>3. Wanted(x) = {}
    BY <1>2 DEF Wanted
<1>4. QED
    BY <1>2, <1>3 DEF Active, Ended, WaitsFor

(* What NotStuck says with ENABLED, said with the guards: the requests in  *)
(* progress are never all waiting for row locks, also after one was rolled *)
(* back: each statement that may wait is the first of its transaction that *)
(* writes. *)
THEOREM NeverAllWaiting == Spec => []SomeGoesOn
<1>1. ASSUME TypeOK PROVE SomeGoesOn
    <2> SUFFICES ASSUME NEW q \in Requests, Active(q)
                 PROVE  \E x \in Requests : Active(x) /\ ~Held(x, Wanted(x))
        BY DEF SomeGoesOn
    <2>1. \A z \in Requests : Held(z, Wanted(z)) <=> \E o \in Requests : WaitsFor(z, o)
        BY <1>1 DEF TypeOK, Held, HeldByOther, WaitsFor
    <2>2. CASE ~Held(q, Wanted(q))
        BY <2>2
    <2>3. CASE Held(q, Wanted(q))
        <3>1. PICK x \in Requests : WaitsFor(q, x)
            BY <2>1, <2>3
        <3>2. Active(x) /\ \A y \in Requests : ~WaitsFor(x, y)
            BY <1>1, <3>1, ChainsAreShort DEF NoChain
        <3>3. QED
            BY <2>1, <3>2
    <2>4. QED
        BY <2>2, <2>3
<1>2. IInv => SomeGoesOn
    BY <1>1 DEF IInv
<1>3. QED
    BY <1>2, AlwaysIInv, PTL

(* What an acknowledged invite or leave did holds, or was undone by a      *)
(* request that was not over when it began.                                *)
THEOREM AcknowledgedHolds == Spec => []AckedHolds
<1>1. IInv => AckedHolds
    BY DEF IInv, Local, Acked, AckedHolds, LeftSince, BackSince
<1>2. QED
    BY <1>1, AlwaysIInv, PTL

(* A leave is acknowledged only by the request that took the user out: the *)
(* row is locked from the check to the commit.                             *)
THEOREM LeaveOnce == Spec => LeaveAckedOnce
<1> DEFINE Once == \A q \in Requests :
                      pc[q] # "ok" /\ pc'[q] = "ok" /\ job[q].op = "leave" =>
                          member[Place(q)] = "in" /\ member'[Place(q)] = "out"
<1>1. IInv /\ [Next]_vars => Once
    <2> SUFFICES ASSUME IInv, [Next]_vars, NEW q \in Requests,
                        pc[q] # "ok", pc'[q] = "ok", job[q].op = "leave"
                 PROVE  member[Place(q)] = "in" /\ member'[Place(q)] = "out"
        OBVIOUS
    <2>1. Commit(q)
        BY OnlyCommit
    <2>2. Writing(q) /\ pc[q] = "commit" /\ Place(q) \in Rows
        BY <2>1, Asked DEF IInv, Local, Commit
    <2>3. DOMAIN writes[q] = {Place(q)} /\ member[Place(q)] = "in"
        BY <2>2 DEF Writing
    <2>4. QED
        BY <2>1, <2>2, <2>3, Committed
<1>2. QED
    BY <1>1, AlwaysIInv, PTL DEF Spec, LeaveAckedOnce

(* Who is in a room, new or back, asked for it or was told of it by the    *)
(* request that put them there, but for a DM they left and that the other  *)
(* user opened again.                                                      *)
THEOREM JoinedTold == Spec => JoinerTold
<1> DEFINE Heard(q, r, u) ==
              /\ pc[q] = "commit" /\ pc'[q] = "ok"
              /\ \/ job[q].by = u
                 \/ <<q, u, r>> \in notices
                 \/ job[q].op = "dm" /\ found[q] = r /\ member[<<r, u>>] = "out"
           AllHeard == \A r \in RoomIds, u \in Users :
              member[<<r, u>>] # "in" /\ member'[<<r, u>>] = "in" =>
                  \E q \in Requests : Heard(q, r, u)
<1>1. IInv /\ [Next]_vars => AllHeard
    <2> SUFFICES ASSUME IInv, [Next]_vars, NEW r \in RoomIds, NEW u \in Users,
                        member[<<r, u>>] # "in", member'[<<r, u>>] = "in"
                 PROVE  \E q \in Requests : Heard(q, r, u)
        OBVIOUS
    <2>1. PICK q \in Requests : Commit(q)
        BY OnlyCommitWrites
    <2>2. /\ pc[q] = "commit" /\ pc'[q] = "ok"
          /\ <<r, u>> \in DOMAIN writes[q] /\ writes[q][<<r, u>>] = "in"
        BY <2>1, Committed DEF Rows
    <2>3. Writing(q) /\ Told(q) /\ job[q].op \in {"create", "dm", "invite", "leave"}
        BY <2>2, Asked DEF IInv, Local
    <2>4. CASE job[q].op = "create"
        BY <2>2, <2>3, <2>4 DEF Writing
    <2>5. CASE job[q].op = "dm" /\ found[q] = q
        BY <2>2, <2>3, <2>5 DEF Writing, Told
    <2>6. CASE job[q].op = "dm" /\ found[q] # q
        <3>1. found[q] = r /\ member[<<r, u>>] # "none"
            BY <2>2, <2>3, <2>6 DEF Writing
        <3>2. member[<<r, u>>] \in {"none", "in", "out"}
            BY DEF IInv, TypeOK, Rows
        <3>3. QED
            BY <2>2, <2>6, <3>1, <3>2
    <2>7. CASE job[q].op = "invite"
        BY <2>2, <2>3, <2>7 DEF Writing, Told, Target
    <2>8. CASE job[q].op = "leave"
        BY <2>2, <2>3, <2>8 DEF Writing
    <2>9. QED
        BY <2>3, <2>4, <2>5, <2>6, <2>7, <2>8
<1>2. QED
    BY <1>1, AlwaysIInv, PTL DEF Spec, JoinerTold
-----------------------------------------------------------------------------
(* Requests that cross: when there are two DM rooms for a pair, and when   *)
(* the database fails a request.                                           *)

(* Assumed below: earlier requests for one DM did not cross. *)
OneDmEach ==
    \A tbl \in Tables : \A r, x \in Dms :
        r # x /\ Exists(tbl, r) =>
            \E u \in Users : ~(tbl[<<r, u>>] = "none" <=> tbl[<<x, u>>] = "none")

(* The rows of a DM are those of the pair that asked for it. *)
PairOf(q) ==
    job[q].op = "dm" /\ Exists(member, q) =>
        \A u \in Users : member[<<q, u>>] # "none" <=> u \in {job[q].by, job[q].to}

FoundDm(q) ==
    job[q].op = "dm" /\ pc[q] \in {"match", "revive", "publish", "commit"} =>
        IsDm(found[q])

(* A request that saw no DM of the two meets one only if that crossed it.  *)
Unseen(q) ==
    /\ job[q].op = "dm"
    /\ pc[q] = "insert_dm" \/ (pc[q] \in {"publish", "commit"} /\ found[q] = q)
    => \A r \in RoomIds :
          /\ IsDm(r)
          /\ member[<<r, job[q].by>>] # "none" /\ member[<<r, job[q].to>>] # "none"
          => r \in Requests /\ Overlap(q, r)

(* An invitation meets the target in the room, or a row of it, only if     *)
(* another invitation crossed it.                                          *)
CrossedInvite(q) ==
    \E x \in Requests : /\ Overlap(q, x) /\ job[x].op = "invite"
                        /\ Target(x) = Target(q)
Met(q) ==
    /\ pc[q] = "rejoin" => member[Target(q)] # "in" \/ CrossedInvite(q)
    /\ pc[q] = "insert" => member[Target(q)] = "none" \/ CrossedInvite(q)

CrossedPair(q) ==
    \E x, y \in Requests : SamePair(q, x) /\ SamePair(q, y) /\ Overlap(x, y)
Explained(q) ==
    pc[q] = "error" => (job[q].op = "invite" /\ CrossedInvite(q)) \/ CrossedPair(q)

Traced(q) == PairOf(q) /\ FoundDm(q) /\ Unseen(q) /\ Met(q) /\ Explained(q)

CInv == SecondDmOnlyWhenCrossed /\ \A q \in Requests : Traced(q)
-----------------------------------------------------------------------------
(* A step that leaves the table and the tasks alone is about its request.  *)
LEMMA QuietTrace ==
    ASSUME IInv, CInv, NEW q \in Requests, Statement(q) \/ Abort(q),
           UNCHANGED <<member, job, before>>,
           FoundDm(q)', Unseen(q)', Met(q)', Explained(q)'
    PROVE  CInv'
<1>1. TypeOK
    BY DEF IInv
<1>2. \A x \in Requests \ {q} : pc'[x] = pc[x] /\ found'[x] = found[x]
    BY <1>1, Alone
<1>3. \A r : IsDm(r)' <=> IsDm(r)
    BY DEF IsDm
<1>4. SecondDmOnlyWhenCrossed'
    BY <1>3 DEF CInv, SecondDmOnlyWhenCrossed, Exists, Overlap
<1>5. ASSUME NEW x \in Requests
      PROVE  PairOf(x)'
    BY DEF CInv, Traced, PairOf, Exists
<1>6. ASSUME NEW x \in Requests \ {q}
      PROVE  Traced(x)'
    <2>1. Traced(x)
        BY DEF CInv
    <2>2. FoundDm(x)'
        BY <1>2, <1>3, <2>1 DEF Traced, FoundDm
    <2>3. Unseen(x)'
        BY <1>2, <1>3, <2>1 DEF Traced, Unseen, Overlap
    <2>4. CrossedInvite(x) => CrossedInvite(x)'
        BY DEF CrossedInvite, Overlap, Target
    <2>5. CrossedPair(x) => CrossedPair(x)'
        BY DEF CrossedPair, SamePair, Overlap
    <2>6. Met(x)'
        BY <1>2, <2>1, <2>4 DEF Traced, Met, Target
    <2>7. Explained(x)'
        BY <1>2, <2>1, <2>4, <2>5 DEF Traced, Explained
    <2>8. QED
        BY <1>5, <2>2, <2>3, <2>6, <2>7 DEF Traced
<1>7. QED
    BY <1>4, <1>5, <1>6 DEF CInv, Traced

(* Two rooms both users have rows in are DMs of the same pair. *)
LEMMA SameRows ==
    ASSUME IInv, NEW q \in Requests, pc[q] = "find", NEW r \in Common(q)
    PROVE  /\ r \in RoomIds /\ IsDm(r) /\ Exists(member, r)
           /\ \A u \in Users : member[<<r, u>>] # "none" <=>
                                  u \in {job[q].by, job[q].to}
<1>1. job[q].by \in Users /\ job[q].to \in Users /\ job[q].by # job[q].to
    BY Asked DEF IInv, Local, Kind
<1>2. Read(q) = member
    BY ReadsTable DEF IInv
<1>3. /\ r \in RoomIds /\ IsDm(r)
      /\ member[<<r, job[q].by>>] # "none" /\ member[<<r, job[q].to>>] # "none"
    BY <1>2 DEF Common
<1>4. Exists(member, r)
    BY <1>1, <1>3 DEF Exists
<1>5. PICK S \in SUBSET Users : S = {u \in Users : member[<<r, u>>] # "none"}
    OBVIOUS
<1>6. Cardinality(S) = 2
    <2>1. Cardinality({u \in Users : member[<<r, u>>] # "none"}) = 2
        BY <1>3, <1>4 DEF IInv, WholeDm
    <2>2. QED
        BY <1>5, <2>1, Zenon
<1>7. IsFiniteSet(S)
    BY FS_Subset, RoomsAssumption
<1>8. PICK P \in SUBSET S : P = {job[q].by} \cup {job[q].to}
    BY <1>1, <1>3, <1>5
<1>9. Cardinality({job[q].by} \cup {job[q].to}) = 2
    <2>1. IsFiniteSet({job[q].by}) /\ Cardinality({job[q].by}) = 1
        BY FS_Singleton
    <2>2. QED
        BY <1>1, <2>1, FS_AddElement
<1>10. S = P
    <2>1. Cardinality(P) = 2
        BY <1>8, <1>9
    <2>2. QED
        BY <1>6, <1>7, <2>1, FS_Subset
<1>11. QED
    BY <1>3, <1>4, <1>5, <1>8, <1>10

LEMMA FindDmTrace ==
    ASSUME IInv, CInv, NEW q \in Requests, FindDm(q)
    PROVE  CInv'
<1>1. /\ TypeOK /\ pc[q] = "find" /\ job[q].op = "dm" /\ Read(q) = member
      /\ UNCHANGED <<member, job, before>>
    BY ReadsTable DEF IInv, FindDm, Local, Kind
<1>2. job[q].by \in Users /\ job[q].to \in Users
    BY <1>1, Asked
<1>3. CASE Common(q) = {} /\ Goto(q, "insert_dm")
    <2>1. pc'[q] = "insert_dm"
        BY <1>1, <1>3 DEF Goto, TypeOK
    <2>2. \A r \in RoomIds : IsDm(r) => \/ member[<<r, job[q].by>>] = "none"
                                        \/ member[<<r, job[q].to>>] = "none"
        BY <1>1, <1>3 DEF Common
    <2>3. FoundDm(q)' /\ Met(q)' /\ Explained(q)'
        BY <2>1 DEF FoundDm, Met, Explained
    <2>4. Unseen(q)'
        BY <1>1, <2>2 DEF Unseen, IsDm
    <2>5. QED
        BY <1>1, <2>3, <2>4, QuietTrace DEF Statement
<1>4. ASSUME NEW r \in Common(q), found' = [found EXCEPT ![q] = r], Goto(q, "match")
      PROVE  CInv'
    <2>1. pc'[q] = "match" /\ found'[q] = r
        BY <1>1, <1>4 DEF Goto, TypeOK
    <2>2. FoundDm(q)'
        BY <1>1, <1>4, <2>1 DEF FoundDm, Common, IsDm
    <2>3. Unseen(q)' /\ Met(q)' /\ Explained(q)'
        BY <2>1 DEF Unseen, Met, Explained
    <2>4. QED
        BY <1>1, <2>2, <2>3, QuietTrace DEF Statement
<1>5. CASE Cardinality(Common(q)) > 1 /\ Goto(q, "error")
    <2>1. pc'[q] = "error"
        BY <1>1, <1>5 DEF Goto, TypeOK
    <2>2. PICK r, x \in Common(q) : r # x
        <3>1. PICK c : c = Common(q)
            OBVIOUS
        <3>2. Cardinality(c) > 1
            BY <1>5, <3>1
        <3>3. c # {}
            BY <3>2, FS_EmptySet
        <3>4. \A r : c # {r}
            BY <3>2, FS_Singleton
        <3>5. QED
            BY <3>1, <3>3, <3>4
    <2>3. /\ r \in RoomIds /\ IsDm(r) /\ Exists(member, r)
          /\ \A u \in Users : member[<<r, u>>] # "none" <=>
                                 u \in {job[q].by, job[q].to}
        BY <1>1, SameRows
    <2>4. /\ x \in RoomIds /\ IsDm(x) /\ Exists(member, x)
          /\ \A u \in Users : member[<<x, u>>] # "none" <=>
                                 u \in {job[q].by, job[q].to}
        BY <1>1, SameRows
    <2>5. r \in Requests /\ x \in Requests /\ Overlap(r, x)
        BY <2>2, <2>3, <2>4 DEF CInv, SecondDmOnlyWhenCrossed
    <2>6. SamePair(q, r)
        <3>1. job[r].op = "dm"
            BY <2>3, <2>5, RoomsAssumption DEF IsDm
        <3>2. job[r].by \in Users /\ job[r].to \in Users
            BY <2>5, <3>1, Asked DEF IInv, Local, Kind, NoJob
        <3>3. \A u \in Users : u \in {job[r].by, job[r].to} <=>
                               u \in {job[q].by, job[q].to}
            BY <2>3, <2>5, <3>1 DEF CInv, Traced, PairOf
        <3>4. QED
            BY <1>1, <1>2, <3>1, <3>2, <3>3 DEF SamePair
    <2>7. SamePair(q, x)
        <3>1. job[x].op = "dm"
            BY <2>4, <2>5, RoomsAssumption DEF IsDm
        <3>2. job[x].by \in Users /\ job[x].to \in Users
            BY <2>5, <3>1, Asked DEF IInv, Local, Kind, NoJob
        <3>3. \A u \in Users : u \in {job[x].by, job[x].to} <=>
                               u \in {job[q].by, job[q].to}
            BY <2>4, <2>5, <3>1 DEF CInv, Traced, PairOf
        <3>4. QED
            BY <1>1, <1>2, <3>1, <3>2, <3>3 DEF SamePair
    <2>8. Explained(q)'
        BY <1>1, <2>5, <2>6, <2>7 DEF Explained, CrossedPair, SamePair, Overlap
    <2>9. FoundDm(q)' /\ Unseen(q)' /\ Met(q)'
        BY <2>1 DEF FoundDm, Unseen, Met
    <2>10. QED
        BY <1>1, <2>8, <2>9, QuietTrace DEF Statement
<1>6. QED
    BY <1>3, <1>4, <1>5 DEF FindDm

(* Nothing is asked of a request that opens no DM, or has one, unless it   *)
(* is about to put the target in the room, or fails.                       *)
LEMMA PlainTrace ==
    ASSUME IInv, CInv, NEW q \in Requests,
           MakeRoom(q) \/ MatchDm(q) \/ ReviveDm(q) \/ Permit(q) \/ Leave(q) \/ Abort(q)
    PROVE  CInv'
<1>1. TypeOK /\ Local(q) /\ UNCHANGED <<member, job, before, found>>
    BY DEF IInv, MakeRoom, MatchDm, ReviveDm, Permit, Leave, Abort
<1>2. pc'[q] \notin {"rejoin", "insert", "error", "insert_dm", "publish"}
    BY <1>1 DEF MakeRoom, MatchDm, ReviveDm, Permit, Leave, Abort, Goto, TypeOK
<1>3. CASE MakeRoom(q) \/ Permit(q) \/ Leave(q)
    <2>1. job[q].op # "dm"
        BY <1>1, <1>3 DEF MakeRoom, Permit, Leave, Local, Kind
    <2>2. FoundDm(q)' /\ Unseen(q)' /\ Met(q)' /\ Explained(q)'
        BY <1>1, <1>2, <2>1 DEF FoundDm, Unseen, Met, Explained
    <2>3. QED
        BY <1>1, <1>3, <2>2, QuietTrace DEF Statement
<1>4. CASE MatchDm(q) \/ ReviveDm(q)
    <2>1. pc[q] \in {"match", "revive"} /\ job[q].op = "dm"
        BY <1>1, <1>4 DEF MatchDm, ReviveDm, Local, Kind
    <2>2. found[q] # q /\ IsDm(found[q])
        BY <1>1, <2>1 DEF Local, Standing, CInv, Traced, FoundDm
    <2>3. FoundDm(q)' /\ Unseen(q)' /\ Met(q)' /\ Explained(q)'
        BY <1>1, <1>2, <2>2 DEF FoundDm, Unseen, Met, Explained, IsDm
    <2>4. QED
        BY <1>1, <1>4, <2>3, QuietTrace DEF Statement
<1>5. CASE Abort(q)
    <2>1. pc'[q] = "aborted"
        BY <1>1, <1>5 DEF Abort, Goto, TypeOK
    <2>2. FoundDm(q)' /\ Unseen(q)' /\ Met(q)' /\ Explained(q)'
        BY <2>1 DEF FoundDm, Unseen, Met, Explained
    <2>3. QED
        BY <1>1, <1>5, <2>2, QuietTrace
<1>6. QED
    BY <1>3, <1>4, <1>5

(* What the request saw of the DMs stays with it until its commit. *)
LEMMA NewDmTrace ==
    ASSUME IInv, CInv, NEW q \in Requests, InsertDm(q) \/ Publish(q)
    PROVE  CInv'
<1>1. /\ TypeOK /\ Local(q) /\ Traced(q) /\ pc[q] \in {"insert_dm", "publish"}
      /\ UNCHANGED <<member, job, before>>
    BY DEF IInv, CInv, InsertDm, Publish
<1>2. pc'[q] \in {"publish", "commit"}
    BY <1>1 DEF InsertDm, Publish, Goto, TypeOK
<1>3. CASE job[q].op = "dm"
    <2>1. found'[q] = q
        BY <1>1, <1>3 DEF InsertDm, Publish, Local, Writing, TypeOK
    <2>2. FoundDm(q)'
        BY <1>1, <1>3, <2>1 DEF FoundDm, IsDm
    <2>3. pc[q] = "insert_dm" \/ (pc[q] = "publish" /\ found[q] = q)
        BY <1>1, <1>3 DEF Local, Writing
    <2>4. Unseen(q)'
        BY <1>1, <1>3, <2>3 DEF Traced, Unseen, IsDm, Overlap
    <2>5. Met(q)' /\ Explained(q)'
        BY <1>2 DEF Met, Explained
    <2>6. QED
        BY <1>1, <2>2, <2>4, <2>5, QuietTrace DEF Statement
<1>4. CASE job[q].op # "dm"
    <2>1. FoundDm(q)' /\ Unseen(q)' /\ Met(q)' /\ Explained(q)'
        BY <1>1, <1>2, <1>4 DEF FoundDm, Unseen, Met, Explained
    <2>2. QED
        BY <1>1, <2>1, QuietTrace DEF Statement
<1>5. QED
    BY <1>3, <1>4

(* An invitation goes by the row of the target it reads. *)
LEMMA InviteTrace ==
    ASSUME IInv, CInv, NEW q \in Requests, CheckTarget(q) \/ Rejoin(q) \/ Insert(q)
    PROVE  CInv'
<1>1. /\ TypeOK /\ Local(q) /\ Traced(q) /\ pc[q] \in {"target", "rejoin", "insert"}
      /\ Read(q) = member /\ UNCHANGED <<member, job, found, before>>
    BY ReadsTable DEF IInv, CInv, CheckTarget, Rejoin, Insert
<1>2. job[q].op = "invite" /\ Target(q) \in Rows
    BY <1>1, Asked DEF Local, Kind
<1>3. CrossedInvite(q) => CrossedInvite(q)'
    BY <1>1 DEF CrossedInvite, Overlap, Target
<1>4. Met(q)'
    <2>1. CASE CheckTarget(q)
        <3>1. pc'[q] = "rejoin" => member[Target(q)] # "in"
            BY <1>1, <2>1 DEF CheckTarget, Goto, TypeOK
        <3>2. pc'[q] # "insert"
            BY <1>1, <2>1 DEF CheckTarget, Goto, TypeOK
        <3>3. QED
            BY <1>1, <3>1, <3>2 DEF Met, Target
    <2>2. CASE Rejoin(q)
        <3>1. /\ pc[q] = "rejoin" /\ pc'[q] # "rejoin"
              /\ pc'[q] = "insert" => member[Target(q)] # "out"
            BY <1>1, <2>2 DEF Rejoin, Goto, TypeOK
        <3>2. pc'[q] = "insert" => member[Target(q)] = "none" \/ CrossedInvite(q)
            BY <1>1, <1>2, <3>1 DEF Traced, Met, TypeOK
        <3>3. QED
            BY <1>1, <1>3, <3>1, <3>2 DEF Met, Target
    <2>3. CASE Insert(q)
        <3>1. pc'[q] \notin {"rejoin", "insert"}
            BY <1>1, <2>3 DEF Insert, Goto, TypeOK
        <3>2. QED
            BY <3>1 DEF Met
    <2>4. QED
        BY <2>1, <2>2, <2>3
<1>5. Explained(q)'
    <2>1. CASE CheckTarget(q) \/ Rejoin(q)
        <3>1. pc'[q] # "error"
            BY <1>1, <2>1 DEF CheckTarget, Rejoin, Goto, TypeOK
        <3>2. QED
            BY <3>1 DEF Explained
    <2>2. CASE Insert(q)
        <3>1. pc[q] = "insert" /\ (pc'[q] = "error" => member[Target(q)] # "none")
            BY <1>1, <2>2 DEF Insert, Goto, TypeOK
        <3>2. pc'[q] = "error" => CrossedInvite(q)
            BY <1>1, <3>1 DEF Traced, Met
        <3>3. QED
            BY <1>1, <1>2, <1>3, <3>2 DEF Explained
    <2>3. QED
        BY <2>1, <2>2
<1>6. FoundDm(q)' /\ Unseen(q)'
    BY <1>1, <1>2 DEF FoundDm, Unseen
<1>7. QED
    BY <1>1, <1>4, <1>5, <1>6, QuietTrace DEF Statement

(* A request that begins was asked nothing, and its room is not seen. *)
LEMMA BeginTrace ==
    ASSUME IInv, CInv, NEW q \in Requests, Begin(q)
    PROVE  CInv'
<1>1. /\ TypeOK /\ pc[q] = "new" /\ job[q].op = "none" /\ ~Exists(member, q)
      /\ UNCHANGED <<member, found>>
    BY DEF IInv, Local, Kind, NoJob, Begin, Unmade
<1>2. pc'[q] \in {"make", "find", "permit", "leave"}
    BY <1>1, JobFields DEF Begin, Goto, TypeOK
<1>3. \A x \in Requests \ {q} : /\ pc'[x] = pc[x] /\ job'[x] = job[x]
                                /\ before'[x] = before[x]
    BY <1>1, Alone
<1>4. /\ \A r : r # q => (IsDm(r)' <=> IsDm(r))
      /\ \A r : IsDm(r) => IsDm(r)'
    BY <1>1, <1>3 DEF IsDm
<1>5. \A x, y \in Requests \ {q} : Overlap(x, y) => Overlap(x, y)'
    BY <1>3 DEF Overlap
<1>6. SecondDmOnlyWhenCrossed'
    <2>1. SUFFICES ASSUME NEW r \in RoomIds, NEW x \in RoomIds,
                          r # x, IsDm(r)', IsDm(x)', Exists(member, r),
                          \A u \in Users : member[<<r, u>>] = "none" <=>
                                           member[<<x, u>>] = "none"
                   PROVE  {r, x} \subseteq Requests /\ Overlap(r, x)'
        BY <1>1 DEF SecondDmOnlyWhenCrossed, Exists
    <2>2. r # q /\ x # q
        BY <1>1, <2>1 DEF Exists
    <2>3. {r, x} \subseteq Requests /\ Overlap(r, x)
        BY <1>4, <2>1, <2>2 DEF CInv, SecondDmOnlyWhenCrossed
    <2>4. QED
        BY <1>5, <2>2, <2>3
<1>7. Traced(q)'
    BY <1>1, <1>2 DEF Traced, PairOf, FoundDm, Unseen, Met, Explained, Exists
<1>8. ASSUME NEW x \in Requests \ {q}
      PROVE  Traced(x)'
    <2>1. Traced(x) /\ pc'[x] = pc[x] /\ job'[x] = job[x] /\ found'[x] = found[x]
        BY <1>1, <1>3 DEF CInv
    <2>2. PairOf(x)' /\ FoundDm(x)'
        BY <1>1, <1>4, <2>1 DEF Traced, PairOf, FoundDm, Exists
    <2>3. Unseen(x)'
        <3>1. SUFFICES ASSUME job[x].op = "dm",
                              \/ pc[x] = "insert_dm"
                              \/ pc[x] \in {"publish", "commit"} /\ found[x] = x,
                              NEW r \in RoomIds, IsDm(r)',
                              member[<<r, job[x].by>>] # "none",
                              member[<<r, job[x].to>>] # "none"
                       PROVE  r \in Requests /\ Overlap(x, r)'
            BY <1>1, <2>1 DEF Unseen
        <3>2. job[x].by \in Users
            BY <3>1, Asked
        <3>3. r # q
            BY <1>1, <3>1, <3>2 DEF Exists
        <3>4. r \in Requests /\ Overlap(x, r)
            BY <1>4, <2>1, <3>1, <3>3 DEF Traced, Unseen
        <3>5. QED
            BY <1>5, <3>3, <3>4
    <2>4. CrossedInvite(x) => CrossedInvite(x)'
        BY <1>1, <1>3, <1>5, <2>1 DEF CrossedInvite, Target
    <2>5. CrossedPair(x) => CrossedPair(x)'
        BY <1>1, <1>3, <1>5, <2>1 DEF CrossedPair, SamePair
    <2>6. Met(x)' /\ Explained(x)'
        BY <1>1, <2>1, <2>4, <2>5 DEF Traced, Met, Explained, Target
    <2>7. QED
        BY <2>2, <2>3, <2>6 DEF Traced
<1>9. QED
    BY <1>6, <1>7, <1>8 DEF CInv

(* A commit and a request that is not over cross. *)
LEMMA CommitCrosses ==
    ASSUME IInv, NEW q \in Requests, pc[q] = "commit",
           NEW x \in Requests \ {q}, pc[x] \notin Ended
    PROVE  Overlap(x, q)
BY DEF IInv, Local, Past, Overlap, Ended

(* A new DM is a second one only for a request that crossed it. *)
LEMMA CommitSecond ==
    ASSUME IInv, CInv, NEW q \in Requests, Commit(q)
    PROVE  SecondDmOnlyWhenCrossed'
<1>1. /\ pc[q] = "commit" /\ UNCHANGED <<job, before>>
      /\ \A r \in Rows : member[r] # "none" => member'[r] # "none"
    BY Committed
<1>2. SUFFICES ASSUME NEW r \in RoomIds, NEW x \in RoomIds,
                      r # x, IsDm(r), IsDm(x), Exists(member', r),
                      \A u \in Users : member'[<<r, u>>] = "none" <=>
                                       member'[<<x, u>>] = "none"
               PROVE  {r, x} \subseteq Requests /\ Overlap(r, x)
    BY <1>1 DEF SecondDmOnlyWhenCrossed, IsDm, Overlap, Exists
<1> DEFINE Grew(y) == \E u \in Users : /\ member[<<y, u>>] = "none"
                                      /\ member'[<<y, u>>] # "none"
<1>3. ASSUME NEW y \in RoomIds, ~Grew(y)
      PROVE  \A u \in Users : member[<<y, u>>] = "none" <=> member'[<<y, u>>] = "none"
    BY <1>1, <1>3 DEF Rows
<1>4. ASSUME NEW y \in RoomIds, NEW z \in RoomIds, y # z, IsDm(y), IsDm(z), Grew(y),
             \A u \in Users : member'[<<y, u>>] = "none" <=> member'[<<z, u>>] = "none"
      PROVE  y = q /\ z \in Requests /\ Overlap(q, z)
    <2>1. /\ y = q /\ job[q].op = "dm" /\ found[q] = q
          /\ \A u \in Users : member'[<<y, u>>] # "none" <=>
                               u \in {job[q].by, job[q].to}
        BY <1>4, DmRows
    <2>2. ASSUME NEW u \in Users,
                 member[<<z, u>>] = "none", member'[<<z, u>>] # "none"
          PROVE  FALSE
        <3>1. z = q
            BY <1>4, <2>2, DmRows
        <3>2. QED
            BY <1>4, <2>1, <3>1
    <2>3. job[q].by \in Users /\ job[q].to \in Users
        BY <1>1, <2>1, Asked
    <2>4. member[<<z, job[q].by>>] # "none" /\ member[<<z, job[q].to>>] # "none"
        <3>1. \A u \in Users : member[<<z, u>>] = "none" <=> member'[<<z, u>>] = "none"
            BY <1>3, <2>2
        <3>2. QED
            BY <1>4, <2>1, <2>3, <3>1
    <2>5. QED
        BY <1>1, <1>4, <2>1, <2>4 DEF CInv, Traced, Unseen
<1>5. CASE Grew(r)
    BY <1>2, <1>4, <1>5
<1>6. CASE Grew(x)
    <2>1. x = q /\ r \in Requests /\ Overlap(q, r)
        BY <1>2, <1>4, <1>6
    <2>2. QED
        BY <2>1 DEF Overlap
<1>7. CASE ~Grew(r) /\ ~Grew(x)
    <2>1. /\ \A u \in Users : member[<<r, u>>] = "none" <=> member'[<<r, u>>] = "none"
          /\ \A u \in Users : member[<<x, u>>] = "none" <=> member'[<<x, u>>] = "none"
        BY <1>3, <1>7
    <2>2. Exists(member, r)
        BY <1>2, <2>1 DEF Exists
    <2>3. \A u \in Users : member[<<r, u>>] = "none" <=> member[<<x, u>>] = "none"
        BY <1>2, <2>1, Zenon
    <2>4. QED
        BY <1>2, <2>2, <2>3 DEF CInv, SecondDmOnlyWhenCrossed
<1>8. QED
    BY <1>5, <1>6, <1>7

LEMMA CommitTrace ==
    ASSUME IInv, CInv, NEW q \in Requests, Commit(q)
    PROVE  CInv'
<1>1. /\ TypeOK /\ pc[q] = "commit" /\ pc'[q] = "ok"
      /\ UNCHANGED <<job, found, before>>
      /\ \A r \in Rows : member'[r] = IF r \in DOMAIN writes[q]
                                      THEN writes[q][r] ELSE member[r]
      /\ \A r \in DOMAIN writes[q] :
            writes[q][r] = IF job[q].op = "leave" THEN "out" ELSE "in"
    BY Committed DEF IInv
<1>2. \A x \in Requests \ {q} : pc'[x] = pc[x]
    BY <1>1, Alone DEF Statement
<1>3. \A r : IsDm(r)' <=> IsDm(r)
    BY <1>1 DEF IsDm
<1>4. ASSUME NEW x \in Requests
      PROVE  PairOf(x)'
    <2>1. SUFFICES ASSUME job[x].op = "dm", Exists(member', x)
                   PROVE  \A u \in Users : member'[<<x, u>>] # "none" <=>
                                            u \in {job[x].by, job[x].to}
        BY <1>1 DEF PairOf, Exists
    <2>2. IsDm(x) /\ x \in RoomIds
        BY <2>1 DEF IsDm, RoomIds
    <2>3. CASE Exists(member, x)
        <3>1. \A u \in Users : member[<<x, u>>] = "none" => member'[<<x, u>>] = "none"
            BY <2>2, <2>3, DmRows DEF Exists
        <3>2. \A u \in Users : member[<<x, u>>] # "none" => member'[<<x, u>>] # "none"
            BY <2>2, Committed DEF Rows
        <3>3. PairOf(x)
            BY DEF CInv, Traced
        <3>4. QED
            BY <2>1, <2>3, <3>1, <3>2, <3>3 DEF PairOf
    <2>4. CASE ~Exists(member, x)
        <3>1. PICK u \in Users : member[<<x, u>>] = "none" /\ member'[<<x, u>>] # "none"
            BY <2>1, <2>4 DEF Exists
        <3>2. QED
            BY <2>2, <3>1, DmRows
    <2>5. QED
        BY <2>3, <2>4
<1>5. ASSUME NEW x \in Requests \ {q}
      PROVE  Unseen(x)'
    <2>1. SUFFICES ASSUME job[x].op = "dm",
                          \/ pc[x] = "insert_dm"
                          \/ pc[x] \in {"publish", "commit"} /\ found[x] = x,
                          NEW r \in RoomIds, IsDm(r),
                          member'[<<r, job[x].by>>] # "none",
                          member'[<<r, job[x].to>>] # "none"
                   PROVE  r \in Requests /\ Overlap(x, r)
        BY <1>1, <1>2, <1>3 DEF Unseen, Overlap
    <2>2. job[x].by \in Users /\ job[x].to \in Users
        BY <2>1, Asked
    <2>3. CASE member[<<r, job[x].by>>] # "none" /\ member[<<r, job[x].to>>] # "none"
        BY <2>1, <2>3 DEF CInv, Traced, Unseen
    <2>4. CASE member[<<r, job[x].by>>] = "none" \/ member[<<r, job[x].to>>] = "none"
        <3>1. r = q
            BY <2>1, <2>2, <2>4, DmRows
        <3>2. pc[x] \notin Ended
            BY <2>1 DEF Ended
        <3>3. QED
            BY <1>1, <3>1, <3>2, CommitCrosses
    <2>5. QED
        BY <2>3, <2>4
<1>6. ASSUME NEW x \in Requests \ {q}, pc[x] \in {"rejoin", "insert"}
      PROVE  Met(x)'
    <2>1. /\ Local(x) /\ Local(q) /\ Traced(x) /\ Traced(q) /\ Unmade
          /\ job[x].op = "invite" /\ Target(x) \in Rows
        BY <1>6, Asked DEF IInv, CInv, Local, Kind
    <2>2. CrossedInvite(x) => CrossedInvite(x)'
        BY <1>1 DEF CrossedInvite, Overlap, Target
    <2>3. Exists(member, job[x].room) /\ ~IsDm(job[x].room)
        BY <1>6, <2>1 DEF Local, Standing
    <2>4. job[q].op \in {"create", "dm", "invite", "leave"}
        BY <1>1, Asked
    <2>5. CASE Target(x) \notin DOMAIN writes[q]
        BY <1>1, <1>2, <2>1, <2>2, <2>5 DEF Traced, Met, Target
    <2>6. CASE Target(x) \in DOMAIN writes[q] /\ job[q].op = "leave"
        <3>1. member[Target(x)] = "in" /\ member'[Target(x)] = "out"
            BY <1>1, <2>1, <2>6 DEF Local, Writing
        <3>2. QED
            BY <1>1, <1>2, <2>1, <2>2, <3>1 DEF Traced, Met, Target
    <2>7. CASE Target(x) \in DOMAIN writes[q] /\ job[q].op = "invite"
        <3>1. Target(x) = Target(q)
            BY <1>1, <2>1, <2>7 DEF Local, Writing
        <3>2. Overlap(x, q)
            BY <1>1, <1>6, CommitCrosses DEF Ended
        <3>3. CrossedInvite(x)
            BY <2>7, <3>1, <3>2 DEF CrossedInvite
        <3>4. QED
            BY <2>2, <3>3 DEF Met
    <2>8. CASE Target(x) \in DOMAIN writes[q] /\ job[q].op = "create"
        BY <1>1, <2>1, <2>3, <2>8 DEF Local, Writing, Target, Unmade
    <2>9. CASE Target(x) \in DOMAIN writes[q] /\ job[q].op = "dm"
        <3>1. CASE found[q] = q
            BY <1>1, <2>1, <2>3, <2>9, <3>1 DEF Local, Writing, Target, Unmade
        <3>2. CASE found[q] # q
            <4>1. job[x].room = found[q]
                BY <1>1, <2>1, <2>9, <3>2 DEF Local, Writing, Target
            <4>2. QED
                BY <1>1, <2>1, <2>3, <2>9, <4>1 DEF Traced, FoundDm
        <3>3. QED
            BY <3>1, <3>2
    <2>10. QED
        BY <2>4, <2>5, <2>6, <2>7, <2>8, <2>9
<1>7. Traced(q)'
    BY <1>1, <1>4 DEF Traced, FoundDm, Unseen, Met, Explained
<1>8. ASSUME NEW x \in Requests \ {q}
      PROVE  Traced(x)'
    <2>1. Traced(x)
        BY DEF CInv
    <2>2. FoundDm(x)'
        BY <1>1, <1>2, <1>3, <2>1 DEF Traced, FoundDm
    <2>3. Met(x)'
        BY <1>2, <1>6 DEF Met
    <2>4. Explained(x)'
        <3>1. CrossedInvite(x) => CrossedInvite(x)'
            BY <1>1 DEF CrossedInvite, Overlap, Target
        <3>2. CrossedPair(x) => CrossedPair(x)'
            BY <1>1 DEF CrossedPair, SamePair, Overlap
        <3>3. QED
            BY <1>1, <1>2, <2>1, <3>1, <3>2 DEF Traced, Explained
    <2>5. QED
        BY <1>4, <1>5, <2>2, <2>3, <2>4 DEF Traced
<1>9. QED
    BY <1>7, <1>8, CommitSecond DEF CInv
-----------------------------------------------------------------------------
LEMMA InitCInv == OneDmEach /\ Init => CInv
<1> SUFFICES ASSUME OneDmEach, Init
             PROVE  CInv
    OBVIOUS
<1>1. /\ member \in Tables /\ \A q \in Requests : pc[q] = "new" /\ job[q].op = "none"
    BY DEF Init, NoJob
<1>2. \A r \in RoomIds : IsDm(r) => r \in Dms
    BY <1>1 DEF IsDm
<1>3. SecondDmOnlyWhenCrossed
    BY <1>1, <1>2 DEF OneDmEach, SecondDmOnlyWhenCrossed
<1>4. \A q \in Requests : Traced(q)
    BY <1>1 DEF Traced, PairOf, FoundDm, Unseen, Met, Explained
<1>5. QED
    BY <1>3, <1>4 DEF CInv

LEMMA StepCInv == IInv /\ CInv /\ [Next]_vars => CInv'
<1> SUFFICES ASSUME IInv, CInv, [Next]_vars
             PROVE  CInv'
    OBVIOUS
<1>1. ASSUME NEW q \in Requests, Begin(q) \/ Statement(q) \/ Abort(q)
      PROVE  CInv'
    <2>1. CASE Begin(q)
        BY <2>1, BeginTrace
    <2>2. CASE FindDm(q)
        BY <2>2, FindDmTrace
    <2>3. CASE \/ MakeRoom(q) \/ MatchDm(q) \/ ReviveDm(q)
               \/ Permit(q) \/ Leave(q) \/ Abort(q)
        BY <2>3, PlainTrace
    <2>4. CASE InsertDm(q) \/ Publish(q)
        BY <2>4, NewDmTrace
    <2>5. CASE CheckTarget(q) \/ Rejoin(q) \/ Insert(q)
        BY <2>5, InviteTrace
    <2>6. CASE Commit(q)
        BY <2>6, CommitTrace
    <2>7. QED
        BY <1>1, <2>1, <2>2, <2>3, <2>4, <2>5, <2>6 DEF Statement
<1>2. CASE UNCHANGED vars
    <2>1. UNCHANGED <<member, pc, job, found, before>>
        BY <1>2 DEF vars
    <2>2. SecondDmOnlyWhenCrossed'
        BY <2>1 DEF CInv, SecondDmOnlyWhenCrossed, IsDm, Exists, Overlap
    <2>3. ASSUME NEW q \in Requests
          PROVE  Traced(q)'
        <3>1. Traced(q)
            BY DEF CInv
        <3>2. PairOf(q)' /\ FoundDm(q)' /\ Unseen(q)'
            BY <2>1, <3>1 DEF Traced, PairOf, FoundDm, Unseen, IsDm, Exists, Overlap
        <3>3. CrossedInvite(q) => CrossedInvite(q)'
            BY <2>1 DEF CrossedInvite, Overlap, Target
        <3>4. CrossedPair(q) => CrossedPair(q)'
            BY <2>1 DEF CrossedPair, SamePair, Overlap
        <3>5. QED
            BY <2>1, <3>1, <3>2, <3>3, <3>4 DEF Traced, Met, Explained, Target
    <2>4. QED
        BY <2>2, <2>3 DEF CInv
<1>3. QED
    BY <1>1, <1>2 DEF Next

LEMMA AlwaysCInv == OneDmEach => (Spec => []CInv)
<1> SUFFICES ASSUME OneDmEach
             PROVE  Spec => []CInv
    OBVIOUS
<1>1. Init => CInv
    BY InitCInv
<1>2. QED
    BY <1>1, StepCInv, AlwaysIInv, PTL DEF Spec

(* If no two earlier requests for one DM crossed, a pair gets a second DM  *)
(* room only from two requests that were both under way at once, however   *)
(* many users leave, are put back in, or ask again.                        *)
THEOREM SecondDmCrossed == OneDmEach => (Spec => []SecondDmOnlyWhenCrossed)
<1> SUFFICES ASSUME OneDmEach
             PROVE  Spec => []SecondDmOnlyWhenCrossed
    OBVIOUS
<1>1. CInv => SecondDmOnlyWhenCrossed
    BY DEF CInv
<1>2. QED
    BY <1>1, AlwaysCInv, PTL

(* Under the same assumption the database fails a request only when two    *)
(* invitations of one user to one room crossed, or two requests for the    *)
(* DM that is asked for.                                                   *)
THEOREM ErrorCrossed == OneDmEach => (Spec => []ErrorOnlyWhenCrossed)
<1> SUFFICES ASSUME OneDmEach
             PROVE  Spec => []ErrorOnlyWhenCrossed
    OBVIOUS
<1>1. CInv => ErrorOnlyWhenCrossed
    BY DEF CInv, Traced, Explained, CrossedInvite, CrossedPair, ErrorOnlyWhenCrossed
<1>2. QED
    BY <1>1, AlwaysCInv, PTL
=============================================================================
