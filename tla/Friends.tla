------------------------------ MODULE Friends ------------------------------
(* Friend requests (services/friend.py, crud/friend.py): sending, accepting *)
(* and deleting, as requests that run concurrently in transactions of their *)
(* own, statement by statement as in Rooms (see ReadCommitted).  A row      *)
(* <<a, b>> is a's request to b.                                            *)
EXTENDS Naturals, Sequences, FiniteSets, ReadCommitted

CONSTANTS
    Users,
    Requests,
    Tables,         \* what earlier requests left in friends
    Jobs            \* what a request may be asked to do

Rows == {r \in Users \X Users : r[1] # r[2]}
Status == {"none", "pending", "accepted"}
Reverse(r) == <<r[2], r[1]>>

(* A request for oneself is refused before the database is used. *)
Job == {j \in [op : {"send", "accept", "delete"}, by : Users, to : Users] :
            j.by # j.to}

ASSUME FriendsAssumption ==
    /\ Tables \subseteq {tbl \in [Rows -> Status] :
                            \A r \in Rows : tbl[r] = "none" \/ tbl[Reverse(r)] = "none"}
    /\ Jobs \subseteq Job

VARIABLES
    friend,         \* the status of each row of friends
    writes,         \* writes[q]: rows request q wrote and did not commit
    pc,             \* pc[q]: the next statement of q, or how it ended
    job,            \* job[q]: what q was asked
    matched,        \* matched[q]: rows the DELETE of q matched
    notices,        \* notices[u]: payloads published for u, oldest first
    before          \* history: requests that had ended when q began

dbVars == <<friend, writes, pc, job, matched, before>>
vars == <<dbVars, notices>>

Ended == {"ok", "refused", "error", "aborted"}
Steps == {"new", "own", "reverse", "insert", "accept", "match", "delete",
          "publish", "commit"}
Notice == [type : {"request", "accept", "delete"}, from : Users]
NoJob == [op |-> "none"]

TypeOK ==
    /\ friend \in [Rows -> Status]
    /\ \A q \in Requests :
        /\ DOMAIN writes[q] \subseteq Rows
        /\ \A r \in DOMAIN writes[q] : writes[q][r] \in Status
    /\ pc \in [Requests -> Steps \cup Ended]
    /\ job \in [Requests -> Jobs \cup {NoJob}]
    /\ matched \in [Requests -> SUBSET Rows]
    /\ notices \in [Users -> Seq(Notice)]
    /\ before \in [Requests -> SUBSET Requests]

Init ==
    /\ friend \in Tables
    /\ writes = [q \in Requests |-> NoWrites]
    /\ pc = [q \in Requests |-> "new"]
    /\ job = [q \in Requests |-> NoJob]
    /\ matched = [q \in Requests |-> {}]
    /\ notices = [u \in Users |-> <<>>]
    /\ before = [q \in Requests |-> {}]
-----------------------------------------------------------------------------
Goto(q, l) == pc' = [pc EXCEPT ![q] = l]
Write(q, rs, v) == writes' = [writes EXCEPT ![q] = Wrote(@, rs, v)]
Held(q, rs) == HeldByOther(writes, q, rs)
Sent(q) == <<job[q].by, job[q].to>>
Received(q) == Reverse(Sent(q))

Begin(q) ==
    /\ pc[q] = "new"
    /\ \E j \in Jobs :
        /\ job' = [job EXCEPT ![q] = j]
        /\ Goto(q, CASE j.op = "send" -> "own" [] j.op = "accept" -> "accept"
                     [] j.op = "delete" -> "match")
    /\ before' = [before EXCEPT ![q] = {x \in Requests : pc[x] \in Ended}]
    /\ UNCHANGED <<friend, writes, matched, notices>>

(* send_friend_request: the two reads... *)
CheckOwn(q) ==
    /\ pc[q] = "own"
    /\ Goto(q, IF friend[Sent(q)] = "none" THEN "reverse" ELSE "refused")
    /\ UNCHANGED <<friend, writes, job, matched, notices, before>>

(* Mutant of CheckReverse: only an accepted request of the other is seen. *)
CheckReverseAccepted(q) ==
    /\ pc[q] = "reverse"
    /\ Goto(q, IF friend[Received(q)] # "accepted" THEN "insert" ELSE "refused")
    /\ UNCHANGED <<friend, writes, job, matched, notices, before>>

CheckReverse(q) ==
    /\ pc[q] = "reverse"
    /\ Goto(q, IF friend[Received(q)] = "none" THEN "insert" ELSE "refused")
    /\ UNCHANGED <<friend, writes, job, matched, notices, before>>

(* ... and the INSERT, which fails when the row is there by now. *)
Insert(q) ==
    /\ pc[q] = "insert"
    /\ ~Held(q, {Sent(q)})
    /\ IF friend[Sent(q)] = "none"
       THEN Write(q, {Sent(q)}, "pending") /\ Goto(q, "publish")
       ELSE Goto(q, "error") /\ UNCHANGED writes
    /\ UNCHANGED <<friend, job, matched, notices, before>>

(* Mutant of Accept: the status is not in the WHERE. *)
AcceptAny(q) ==
    /\ pc[q] = "accept"
    /\ IF friend[Received(q)] # "none"
       THEN /\ ~Held(q, {Received(q)})
            /\ Write(q, {Received(q)}, "accepted") /\ Goto(q, "publish")
       ELSE Goto(q, "refused") /\ UNCHANGED writes
    /\ UNCHANGED <<friend, job, matched, notices, before>>

(* accept_request: UPDATE of a pending row *)
Accept(q) ==
    /\ pc[q] = "accept"
    /\ IF friend[Received(q)] = "pending"
       THEN /\ ~Held(q, {Received(q)})
            /\ Write(q, {Received(q)}, "accepted") /\ Goto(q, "publish")
       ELSE Goto(q, "refused") /\ UNCHANGED writes
    /\ UNCHANGED <<friend, job, matched, notices, before>>

(* Mutant of MatchBoth: the friend's own request is left. *)
MatchOwn(q) ==
    /\ pc[q] = "match"
    /\ matched' = [matched EXCEPT ![q] = {r \in {Sent(q)} : friend[r] # "none"}]
    /\ Goto(q, "delete")
    /\ UNCHANGED <<friend, writes, job, notices, before>>

(* delete_friend: DELETE of the rows in both directions, those its snapshot *)
(* matches and of these the ones that are still there. *)
MatchBoth(q) ==
    /\ pc[q] = "match"
    /\ matched' = [matched EXCEPT ![q] =
                      {r \in {Sent(q), Received(q)} : friend[r] # "none"}]
    /\ Goto(q, "delete")
    /\ UNCHANGED <<friend, writes, job, notices, before>>

Delete(q) ==
    LET rows == {r \in matched[q] : friend[r] # "none"} IN
    /\ pc[q] = "delete"
    /\ ~Held(q, matched[q])
    /\ IF rows # {}
       THEN Write(q, rows, "none") /\ Goto(q, "publish")
       ELSE Goto(q, "refused") /\ UNCHANGED writes
    /\ matched' = [matched EXCEPT ![q] = {}]
    /\ UNCHANGED <<friend, job, notices, before>>

(* friend.request, friend.accept or friend.delete goes out to the other. *)
Publish(q) ==
    LET type == IF job[q].op = "send" THEN "request" ELSE job[q].op IN
    /\ pc[q] = "publish"
    /\ notices' = [notices EXCEPT ![job[q].to] =
                      Append(@, [type |-> type, from |-> job[q].by])]
    /\ Goto(q, "commit")
    /\ UNCHANGED <<friend, writes, job, matched, before>>

(* A row deleted and inserted again is not the one a DELETE matched. *)
Commit(q) ==
    LET gone == {r \in DOMAIN writes[q] : writes[q][r] = "none"} IN
    /\ pc[q] = "commit"
    /\ friend' = Seen(friend, writes[q])
    /\ writes' = [writes EXCEPT ![q] = NoWrites]
    /\ matched' = [x \in Requests |-> matched[x] \ gone]
    /\ Goto(q, "ok")
    /\ UNCHANGED <<job, notices, before>>

(* Mutant of Abort: what was flushed stays. *)
AbortKeeps(q) ==
    /\ pc[q] \notin Ended \cup {"new"}
    /\ friend' = Seen(friend, writes[q])
    /\ writes' = [writes EXCEPT ![q] = NoWrites]
    /\ matched' = [matched EXCEPT ![q] = {}]
    /\ Goto(q, "aborted")
    /\ UNCHANGED <<job, notices, before>>

(* The database or Redis fails the request: get_session rolls back. *)
Abort(q) ==
    /\ pc[q] \notin Ended \cup {"new"}
    /\ writes' = [writes EXCEPT ![q] = NoWrites]
    /\ matched' = [matched EXCEPT ![q] = {}]
    /\ Goto(q, "aborted")
    /\ UNCHANGED <<friend, job, notices, before>>
-----------------------------------------------------------------------------
Statement(q) ==
    \/ CheckOwn(q) \/ CheckReverse(q) \/ Insert(q)
    \/ Accept(q)
    \/ MatchBoth(q) \/ Delete(q)
    \/ Publish(q) \/ Commit(q)

Next == \E q \in Requests : Begin(q) \/ Statement(q) \/ Abort(q)

Spec == Init /\ [][Next]_vars
-----------------------------------------------------------------------------
Overlap(q, x) == q # x /\ x \notin before[q] /\ q \notin before[x]

(* What an acknowledged request did it did itself: of two accepts, or of   *)
(* an accept and a delete that cross, the second waits for the row, looks  *)
(* again, and is refused if there is nothing left for it to do. *)
AckedChange ==
    [][\A q \in Requests : pc[q] # "ok" /\ pc'[q] = "ok" =>
          CASE job[q].op = "send" ->
                  friend[Sent(q)] = "none" /\ friend'[Sent(q)] = "pending"
            [] job[q].op = "accept" ->
                  friend[Received(q)] = "pending" /\ friend'[Received(q)] = "accepted"
            [] job[q].op = "delete" ->
                  \E r \in {Sent(q), Received(q)} :
                      friend[r] # "none" /\ friend'[r] = "none"]_vars

(* A friendship starts with a request, becomes one when the addressee      *)
(* accepts, and ends; no other request, failed ones included, moves it.    *)
Lifecycle ==
    [][\A r \in Rows : friend[r] # friend'[r] =>
          \E q \in Requests : /\ pc[q] # "ok" /\ pc'[q] = "ok"
              /\ \/ friend'[r] = "pending" /\ job[q].op = "send" /\ Sent(q) = r
                 \/ friend'[r] = "accepted" /\ job[q].op = "accept" /\ Received(q) = r
                 \/ friend'[r] = "none" /\ job[q].op = "delete"
                       /\ r \in {Sent(q), Received(q)}]_vars

(* A pair has a request in each direction only when the two were sent at   *)
(* once (the plan of the feature, docs/superpowers/plans/                  *)
(* 2026-07-11-advanced-features.md:161, asks that there be none). *)
BothWaysOnlyWhenCrossed ==
    \A r \in Rows : friend[r] # "none" /\ friend[Reverse(r)] # "none" =>
        \E q, x \in Requests : /\ Overlap(q, x)
                               /\ job[q].op = "send" /\ job[x].op = "send"
                               /\ Sent(q) = r /\ Sent(x) = Reverse(r)

(* After an acknowledged deletion there is nothing between the two, in     *)
(* either direction, unless a request that was not over before it sent     *)
(* one. *)
DeletedBothWays ==
    \A q \in Requests : pc[q] = "ok" /\ job[q].op = "delete" =>
        \/ friend[Sent(q)] = "none" /\ friend[Received(q)] = "none"
        \/ \E x \in Requests \ before[q] : /\ pc[x] = "ok" /\ job[x].op = "send"
                                           /\ Sent(x) \in {Sent(q), Received(q)}
=============================================================================
