---------------------------- MODULE FriendsProofs ----------------------------
(* Proofs about Friends, for any users, requests, jobs and tables: that the *)
(* row locks of concurrent transactions keep apart what they do, and what   *)
(* follows for acknowledged requests and pairs of requests.  The invariant  *)
(* is about the database and not the notices, so it also holds when the     *)
(* lists of FriendLists take these away.                                    *)
EXTENDS FriendLists, TLAPS

(* What a request was asked, by its next statement. *)
Kind(q) ==
    /\ pc[q] = "new" => job[q] = NoJob
    /\ pc[q] # "new" => job[q] \in Jobs
    /\ pc[q] \in {"own", "reverse", "insert"} => job[q].op = "send"
    /\ pc[q] = "accept" => job[q].op = "accept"
    /\ pc[q] \in {"match", "delete"} => job[q].op = "delete"

(* TypeOK but for the notices; what has not been written is not held. *)
Typed ==
    /\ friend \in [Rows -> Status]
    /\ DOMAIN writes = Requests
    /\ \A q \in Requests :
        /\ DOMAIN writes[q] \subseteq Rows
        /\ writes[q] \in [DOMAIN writes[q] -> Status]
        /\ pc[q] \notin {"publish", "commit"} => writes[q] = NoWrites
    /\ pc \in [Requests -> Steps \cup Ended]
    /\ job \in [Requests -> Jobs \cup {NoJob}]
    /\ matched \in [Requests -> SUBSET Rows]
    /\ before \in [Requests -> SUBSET Requests]

(* The rows a request wrote are still as it found them. *)
Writing(q) ==
    pc[q] \in {"publish", "commit"} =>
        /\ job[q].op = "send" =>
              /\ DOMAIN writes[q] = {Sent(q)}
              /\ writes[q][Sent(q)] = "pending" /\ friend[Sent(q)] = "none"
        /\ job[q].op = "accept" =>
              /\ DOMAIN writes[q] = {Received(q)}
              /\ writes[q][Received(q)] = "accepted" /\ friend[Received(q)] = "pending"
        /\ job[q].op = "delete" =>
              /\ DOMAIN writes[q] # {}
              /\ DOMAIN writes[q] \subseteq {Sent(q), Received(q)}
              /\ \A r \in DOMAIN writes[q] : writes[q][r] = "none" /\ friend[r] # "none"

Matching(q) == pc[q] = "delete" => matched[q] \subseteq {Sent(q), Received(q)}

(* The locks: no row was written by two requests that are not over. *)
Apart == \A q, x \in Requests : q # x => DOMAIN writes[q] \cap DOMAIN writes[x] = {}

(* A deletion that looked leaves no row between the two: each is empty, or *)
(* it will delete it, or it was sent since.                                *)
SentSince(q) ==
    \E x \in Requests \ before[q] :
        pc[x] = "ok" /\ job[x].op = "send" /\ Sent(x) \in {Sent(q), Received(q)}
Doomed(q) == IF pc[q] = "delete" THEN matched[q] ELSE DOMAIN writes[q]
Cleared(q) ==
    job[q].op = "delete" /\ pc[q] \in {"delete", "publish", "commit", "ok"} =>
        \A r \in {Sent(q), Received(q)} :
            friend[r] = "none" \/ r \in Doomed(q) \/ SentSince(q)

(* A request that saw none of the other meets one only if that crossed it. *)
CrossedBy(q) ==
    \E x \in Requests : /\ Overlap(q, x) /\ pc[x] = "ok" /\ job[x].op = "send"
                        /\ Sent(x) = Received(q)
Crossing(q) ==
    job[q].op = "send" /\ pc[q] \in {"insert", "publish", "commit"} =>
        friend[Received(q)] = "none" \/ CrossedBy(q)

Past(q) == \A x \in before[q] : pc[x] \in Ended

Local(q) == Kind(q) /\ Writing(q) /\ Matching(q) /\ Cleared(q) /\ Crossing(q) /\ Past(q)

IInv == Typed /\ Apart /\ BothWaysOnlyWhenCrossed /\ \A q \in Requests : Local(q)
-----------------------------------------------------------------------------
LEMMA JobFields ==
    ASSUME NEW j \in Jobs
    PROVE  /\ j.op \in {"send", "accept", "delete"}
           /\ j.by \in Users /\ j.to \in Users /\ j.by # j.to
           /\ j # NoJob
<1>1. j \in Job
    BY FriendsAssumption
<1>2. /\ j.op \in {"send", "accept", "delete"}
      /\ j.by \in Users /\ j.to \in Users /\ j.by # j.to
    BY <1>1 DEF Job
<1>3. NoJob.op = "none"
    BY DEF NoJob
<1>4. QED
    BY <1>2, <1>3

LEMMA Asked ==
    ASSUME NEW q \in Requests, job[q] \in Jobs
    PROVE  /\ job[q].op \in {"send", "accept", "delete"}
           /\ job[q].to \in Users
           /\ Sent(q) \in Rows /\ Received(q) \in Rows
           /\ Reverse(Sent(q)) = Received(q) /\ Reverse(Received(q)) = Sent(q)
BY JobFields DEF Sent, Received, Reverse, Rows

(* What a step of one request leaves alone of the others. *)
LEMMA Alone ==
    ASSUME Typed, NEW q \in Requests, Begin(q) \/ Statement(q) \/ Abort(q),
           NEW x \in Requests \ {q}
    PROVE  /\ pc'[x] = pc[x] /\ job'[x] = job[x] /\ writes'[x] = writes[x]
           /\ before'[x] = before[x]
<1>1. CASE Begin(q)
    BY <1>1 DEF Begin, Goto, Typed
<1>2. CASE CheckOwn(q) \/ CheckReverse(q) \/ Insert(q) \/ Accept(q)
    BY <1>2 DEF CheckOwn, CheckReverse, Insert, Accept, Goto, Write, Typed
<1>3. CASE MatchBoth(q) \/ Delete(q)
    BY <1>3 DEF MatchBoth, Delete, Goto, Write, Typed
<1>4. CASE Publish(q) \/ Commit(q) \/ Abort(q)
    BY <1>4 DEF Publish, Commit, Abort, Goto, Typed
<1>5. QED
    BY <1>1, <1>2, <1>3, <1>4 DEF Statement

(* A step that sets the label of its request, and writes what it may. *)
LEMMA TypeKept ==
    ASSUME Typed, NEW q \in Requests, NEW l \in Steps \cup Ended, Goto(q, l),
           UNCHANGED <<friend, job, before>>,
           matched' \in [Requests -> SUBSET Rows],
           \/ UNCHANGED writes /\ writes[q] = NoWrites
           \/ writes' = [writes EXCEPT ![q] = NoWrites]
           \/ UNCHANGED writes /\ l \in {"publish", "commit"}
           \/ /\ l \in {"publish", "commit"}
              /\ \E rs \in SUBSET Rows, v \in Status : Write(q, rs, v)
    PROVE  Typed'
<1>1. pc' \in [Requests -> Steps \cup Ended] /\ pc'[q] = l
      /\ \A x \in Requests \ {q} : pc'[x] = pc[x]
    BY DEF Goto, Typed
<1>2. DOMAIN writes' = Requests /\ \A x \in Requests \ {q} : writes'[x] = writes[x]
    BY DEF Write, Typed
<1>3. /\ DOMAIN writes'[q] \subseteq Rows
      /\ writes'[q] \in [DOMAIN writes'[q] -> Status]
      /\ pc'[q] \notin {"publish", "commit"} => writes'[q] = NoWrites
    <2>1. CASE UNCHANGED writes
        BY <1>1, <2>1 DEF Typed, Write
    <2>2. CASE writes' = [writes EXCEPT ![q] = NoWrites]
        BY <2>2 DEF Typed, NoWrites
    <2>3. ASSUME NEW rs \in SUBSET Rows, NEW v \in Status, Write(q, rs, v),
                 l \in {"publish", "commit"}
          PROVE  /\ DOMAIN writes'[q] \subseteq Rows
                 /\ writes'[q] \in [DOMAIN writes'[q] -> Status]
                 /\ pc'[q] \in {"publish", "commit"}
        <3>1. writes'[q] = Wrote(writes[q], rs, v)
            BY <2>3 DEF Write, Typed
        <3>2. DOMAIN writes'[q] = DOMAIN writes[q] \cup rs
            BY <3>1 DEF Wrote
        <3>3. writes'[q] \in [DOMAIN writes[q] \cup rs -> Status]
            BY <2>3, <3>1 DEF Wrote, Typed
        <3>4. DOMAIN writes[q] \subseteq Rows
            BY DEF Typed
        <3>5. QED
            BY <1>1, <2>3, <3>2, <3>3, <3>4
    <2>4. QED
        BY <2>1, <2>2, <2>3
<1>4. QED
    BY <1>1, <1>2, <1>3 DEF Typed

(* A step that changes neither the table nor a task, and acknowledges      *)
(* nothing, is about its request alone.                                    *)
LEMMA Quiet ==
    ASSUME IInv, Typed', NEW q \in Requests, Statement(q) \/ Abort(q),
           UNCHANGED <<friend, job, before>>,
           \A x \in Requests \ {q} : matched'[x] = matched[x],
           pc[q] \notin Ended, pc'[q] # "ok",
           Kind(q)', Writing(q)', Matching(q)', Cleared(q)', Crossing(q)',
           \A x \in Requests \ {q} : DOMAIN writes'[q] \cap DOMAIN writes[x] = {}
    PROVE  IInv'
<1>1. Typed /\ Apart /\ BothWaysOnlyWhenCrossed
    BY DEF IInv
<1> DEFINE Same(x) == /\ pc'[x] = pc[x] /\ job'[x] = job[x] /\ writes'[x] = writes[x]
                      /\ matched'[x] = matched[x] /\ before'[x] = before[x]
<1>2. \A x \in Requests \ {q} : Same(x)
    BY <1>1, Alone
<1>3. Apart'
    BY <1>1, <1>2 DEF Apart
<1>4. BothWaysOnlyWhenCrossed'
    BY <1>1 DEF BothWaysOnlyWhenCrossed, Overlap, Sent
<1>5. Past(q)'
    BY <1>1, <1>2 DEF IInv, Local, Past, Typed
<1>6. ASSUME NEW x \in Requests \ {q}
      PROVE  Local(x)'
    <2>1. Local(x) /\ Same(x)
        BY <1>2 DEF IInv
    <2>2. Kind(x)'
        BY <2>1 DEF Local, Kind
    <2>3. Writing(x)'
        BY <2>1 DEF Local, Writing, Sent, Received
    <2>4. Matching(x)'
        BY <2>1 DEF Local, Matching, Sent, Received
    <2>5. SentSince(x) => SentSince(x)'
        BY <1>2, <2>1 DEF SentSince, Sent, Received, Ended
    <2>6. CrossedBy(x) => CrossedBy(x)'
        BY <1>2, <2>1 DEF CrossedBy, Overlap, Sent, Received, Ended
    <2>7. Cleared(x)'
        BY <2>1, <2>5 DEF Local, Cleared, Doomed, Sent, Received
    <2>8. Crossing(x)'
        BY <2>1, <2>6 DEF Local, Crossing, Received, Sent
    <2>9. Past(x)'
        <3>1. \A y \in before[x] : y \in Requests
            BY <1>1 DEF Typed
        <3>2. QED
            BY <1>2, <2>1, <3>1 DEF Local, Past
    <2>10. QED
        BY <2>2, <2>3, <2>4, <2>7, <2>8, <2>9 DEF Local
<1>7. QED
    BY <1>3, <1>4, <1>5, <1>6 DEF IInv, Local
-----------------------------------------------------------------------------
(* What each statement needs of the state it is taken in. *)
LEMMA Setting ==
    ASSUME IInv, NEW q \in Requests, pc[q] # "new"
    PROVE  /\ Typed /\ Local(q)
           /\ job[q].op \in {"send", "accept", "delete"}
           /\ Sent(q) \in Rows /\ Received(q) \in Rows
           /\ Reverse(Sent(q)) = Received(q) /\ Reverse(Received(q)) = Sent(q)
           /\ pc[q] \notin {"publish", "commit"} => writes[q] = NoWrites
<1>1. Typed /\ Local(q)
    BY DEF IInv
<1>2. job[q] \in Jobs
    BY <1>1 DEF Local, Kind
<1>3. QED
    BY <1>1, <1>2, Asked DEF Typed

(* A statement that writes nothing, before the decision to write. *)
LEMMA MovedOn ==
    ASSUME IInv, NEW q \in Requests, Statement(q), pc[q] \notin Ended \cup {"new"},
           writes[q] = NoWrites, NEW l \in Steps \cup Ended, Goto(q, l),
           l \notin {"new", "publish", "commit", "delete", "ok"},
           UNCHANGED <<friend, writes, job, before>>,
           matched' \in [Requests -> SUBSET Rows],
           \A x \in Requests \ {q} : matched'[x] = matched[x],
           Kind(q)', Crossing(q)'
    PROVE  IInv'
<1>1. Typed
    BY DEF IInv
<1>2. pc'[q] = l
    BY <1>1 DEF Goto, Typed
<1>3. Typed'
    BY <1>1, TypeKept
<1>4. Writing(q)' /\ Matching(q)' /\ Cleared(q)'
    BY <1>2 DEF Writing, Matching, Cleared
<1>5. \A x \in Requests \ {q} : DOMAIN writes'[q] \cap DOMAIN writes[x] = {}
    BY DEF NoWrites
<1>6. QED
    BY <1>2, <1>3, <1>4, <1>5, Quiet

LEMMA CheckOwnKeeps ==
    ASSUME IInv, NEW q \in Requests, CheckOwn(q)
    PROVE  IInv'
<1>1. /\ Typed /\ Local(q) /\ pc[q] = "own" /\ writes[q] = NoWrites
      /\ UNCHANGED <<friend, writes, job, matched, before>>
    BY Setting DEF CheckOwn
<1>2. PICK l \in {"reverse", "refused"} : Goto(q, l)
    BY DEF CheckOwn
<1>3. pc'[q] = l
    BY <1>1, <1>2 DEF Goto, Typed
<1>4. Kind(q)' /\ Crossing(q)'
    BY <1>1, <1>3 DEF Local, Kind, Crossing
<1>5. matched' \in [Requests -> SUBSET Rows] /\ l \in Steps \cup Ended
    BY <1>1 DEF Typed, Steps, Ended
<1>6. QED
    BY <1>1, <1>2, <1>4, <1>5, MovedOn DEF Statement, Ended

LEMMA CheckReverseKeeps ==
    ASSUME IInv, NEW q \in Requests, CheckReverse(q)
    PROVE  IInv'
<1>1. /\ Typed /\ Local(q) /\ pc[q] = "reverse" /\ writes[q] = NoWrites
      /\ UNCHANGED <<friend, writes, job, matched, before>>
    BY Setting DEF CheckReverse
<1>2. PICK l \in {"insert", "refused"} :
         Goto(q, l) /\ (l = "insert" => friend[Received(q)] = "none")
    BY DEF CheckReverse
<1>3. pc'[q] = l
    BY <1>1, <1>2 DEF Goto, Typed
<1>4. Kind(q)'
    BY <1>1, <1>3 DEF Local, Kind
<1>5. Crossing(q)'
    BY <1>1, <1>2, <1>3 DEF Crossing, Received, Sent
<1>6. matched' \in [Requests -> SUBSET Rows] /\ l \in Steps \cup Ended
    BY <1>1 DEF Typed, Steps, Ended
<1>7. QED
    BY <1>1, <1>2, <1>4, <1>5, <1>6, MovedOn DEF Statement, Ended

(* The locked row is as it was found until the request is over. *)
LEMMA InsertKeeps ==
    ASSUME IInv, NEW q \in Requests, Insert(q)
    PROVE  IInv'
<1>1. /\ Typed /\ Local(q) /\ pc[q] = "insert" /\ writes[q] = NoWrites
      /\ Sent(q) \in Rows
      /\ UNCHANGED <<friend, job, matched, before>>
    BY Setting DEF Insert
<1>2. job[q].op = "send"
    BY <1>1 DEF Local, Kind
<1>3. matched' \in [Requests -> SUBSET Rows]
    BY <1>1 DEF Typed
<1>4. CASE friend[Sent(q)] = "none"
    <2>1. Write(q, {Sent(q)}, "pending") /\ Goto(q, "publish")
        BY <1>4 DEF Insert
    <2>2. DOMAIN writes'[q] = {Sent(q)} /\ writes'[q][Sent(q)] = "pending"
        BY <1>1, <2>1 DEF Write, Wrote, NoWrites, Typed
    <2>3. pc'[q] = "publish"
        BY <1>1, <2>1 DEF Goto, Typed
    <2>4. Typed'
        <3>1. \E rs \in SUBSET Rows, v \in Status : Write(q, rs, v)
            BY <1>1, <2>1 DEF Status
        <3>2. "publish" \in Steps \cup Ended
            BY DEF Steps
        <3>3. QED
            BY <1>1, <1>3, <2>1, <3>1, <3>2, TypeKept
    <2>5. Kind(q)' /\ Matching(q)' /\ Cleared(q)'
        BY <1>1, <1>2, <2>3 DEF Local, Kind, Matching, Cleared
    <2>6. Writing(q)'
        BY <1>1, <1>2, <1>4, <2>2, <2>3 DEF Writing, Sent
    <2>7. Crossing(q)'
        <3>1. friend[Received(q)] = "none" \/ CrossedBy(q)
            BY <1>1, <1>2 DEF Local, Crossing
        <3>2. CrossedBy(q) => CrossedBy(q)'
            <4>1. \A x \in Requests : pc[x] = "ok" => pc'[x] = "ok"
                BY <1>1, <2>1 DEF Goto, Typed
            <4>2. QED
                BY <1>1, <4>1 DEF CrossedBy, Overlap, Sent, Received
        <3>3. QED
            BY <1>1, <3>1, <3>2 DEF Crossing, Received, Sent
    <2>8. \A x \in Requests \ {q} : DOMAIN writes'[q] \cap DOMAIN writes[x] = {}
        BY <1>1, <2>2 DEF Insert, Held, HeldByOther, Typed
    <2>9. QED
        BY <1>1, <2>3, <2>4, <2>5, <2>6, <2>7, <2>8, Quiet DEF Statement, Ended
<1>5. CASE friend[Sent(q)] # "none"
    <2>1. UNCHANGED writes /\ Goto(q, "error")
        BY <1>5 DEF Insert
    <2>2. pc'[q] = "error"
        BY <1>1, <2>1 DEF Goto, Typed
    <2>3. Kind(q)' /\ Crossing(q)'
        BY <1>1, <2>2 DEF Local, Kind, Crossing
    <2>4. "error" \in Steps \cup Ended
        BY DEF Ended
    <2>5. QED
        BY <1>1, <1>3, <2>1, <2>3, <2>4, MovedOn DEF Statement, Ended
<1>6. QED
    BY <1>4, <1>5

LEMMA AcceptKeeps ==
    ASSUME IInv, NEW q \in Requests, Accept(q)
    PROVE  IInv'
<1>1. /\ Typed /\ Local(q) /\ pc[q] = "accept" /\ writes[q] = NoWrites
      /\ Received(q) \in Rows
      /\ UNCHANGED <<friend, job, matched, before>>
    BY Setting DEF Accept
<1>2. job[q].op = "accept"
    BY <1>1 DEF Local, Kind
<1>3. matched' \in [Requests -> SUBSET Rows]
    BY <1>1 DEF Typed
<1>4. CASE friend[Received(q)] = "pending"
    <2>1. Write(q, {Received(q)}, "accepted") /\ Goto(q, "publish")
        BY <1>4 DEF Accept
    <2>2. DOMAIN writes'[q] = {Received(q)} /\ writes'[q][Received(q)] = "accepted"
        BY <1>1, <2>1 DEF Write, Wrote, NoWrites, Typed
    <2>3. pc'[q] = "publish"
        BY <1>1, <2>1 DEF Goto, Typed
    <2>4. Typed'
        <3>1. \E rs \in SUBSET Rows, v \in Status : Write(q, rs, v)
            BY <1>1, <2>1 DEF Status
        <3>2. "publish" \in Steps \cup Ended
            BY DEF Steps
        <3>3. QED
            BY <1>1, <1>3, <2>1, <3>1, <3>2, TypeKept
    <2>5. Kind(q)' /\ Matching(q)' /\ Cleared(q)' /\ Crossing(q)'
        BY <1>1, <1>2, <2>3 DEF Local, Kind, Matching, Cleared, Crossing
    <2>6. Writing(q)'
        BY <1>1, <1>2, <1>4, <2>2, <2>3 DEF Writing, Received, Sent
    <2>7. \A x \in Requests \ {q} : DOMAIN writes'[q] \cap DOMAIN writes[x] = {}
        BY <1>1, <1>4, <2>2 DEF Accept, Held, HeldByOther, Typed
    <2>8. QED
        BY <1>1, <2>3, <2>4, <2>5, <2>6, <2>7, Quiet DEF Statement, Ended
<1>5. CASE friend[Received(q)] # "pending"
    <2>1. UNCHANGED writes /\ Goto(q, "refused")
        BY <1>5 DEF Accept
    <2>2. pc'[q] = "refused"
        BY <1>1, <2>1 DEF Goto, Typed
    <2>3. Kind(q)' /\ Crossing(q)'
        BY <1>1, <2>2 DEF Local, Kind, Crossing
    <2>4. "refused" \in Steps \cup Ended
        BY DEF Ended
    <2>5. QED
        BY <1>1, <1>3, <2>1, <2>3, <2>4, MovedOn DEF Statement, Ended
<1>6. QED
    BY <1>4, <1>5

(* A row that is not matched is empty. *)
LEMMA MatchBothKeeps ==
    ASSUME IInv, NEW q \in Requests, MatchBoth(q)
    PROVE  IInv'
<1>1. /\ Typed /\ Local(q) /\ pc[q] = "match" /\ writes[q] = NoWrites
      /\ Sent(q) \in Rows /\ Received(q) \in Rows
      /\ UNCHANGED <<friend, writes, job, before>>
    BY Setting DEF MatchBoth
<1>2. PICK rs \in SUBSET Rows : rs = {r \in {Sent(q), Received(q)} : friend[r] # "none"}
    BY <1>1
<1>3. matched' = [matched EXCEPT ![q] = rs] /\ Goto(q, "delete")
    BY <1>2 DEF MatchBoth
<1>4. pc'[q] = "delete" /\ matched'[q] = rs
    BY <1>1, <1>3 DEF Goto, Typed
<1>5. Typed'
    <2>1. matched' \in [Requests -> SUBSET Rows] /\ "delete" \in Steps \cup Ended
        BY <1>1, <1>3 DEF Typed, Steps
    <2>2. QED
        BY <1>1, <1>3, <2>1, TypeKept
<1>6. Kind(q)' /\ Writing(q)' /\ Crossing(q)'
    BY <1>1, <1>4 DEF Local, Kind, Writing, Crossing
<1>7. Matching(q)' /\ Cleared(q)'
    BY <1>1, <1>2, <1>4 DEF Matching, Cleared, Doomed, Sent, Received
<1>8. \A x \in Requests \ {q} : DOMAIN writes'[q] \cap DOMAIN writes[x] = {}
    BY <1>1 DEF NoWrites
<1>9. \A x \in Requests \ {q} : matched'[x] = matched[x]
    BY <1>1, <1>3 DEF Typed
<1>10. QED
    BY <1>1, <1>4, <1>5, <1>6, <1>7, <1>8, <1>9, Quiet DEF Statement, Ended

LEMMA DeleteKeeps ==
    ASSUME IInv, NEW q \in Requests, Delete(q)
    PROVE  IInv'
<1>1. /\ Typed /\ Local(q) /\ pc[q] = "delete" /\ writes[q] = NoWrites
      /\ UNCHANGED <<friend, job, before>>
      /\ matched' = [matched EXCEPT ![q] = {}]
    BY Setting DEF Delete
<1>2. job[q].op = "delete" /\ matched[q] \subseteq {Sent(q), Received(q)}
    BY <1>1 DEF Local, Kind, Matching
<1>3. PICK rs \in SUBSET Rows : rs = {r \in matched[q] : friend[r] # "none"}
    BY <1>1 DEF Typed
<1>4. /\ matched' \in [Requests -> SUBSET Rows]
      /\ \A x \in Requests \ {q} : matched'[x] = matched[x]
    BY <1>1 DEF Typed
<1>5. CASE rs # {}
    <2>1. Write(q, rs, "none") /\ Goto(q, "publish") /\ ~Held(q, matched[q])
        BY <1>3, <1>5 DEF Delete
    <2>2. DOMAIN writes'[q] = rs /\ \A r \in rs : writes'[q][r] = "none"
        BY <1>1, <2>1 DEF Write, Wrote, NoWrites, Typed
    <2>3. pc'[q] = "publish"
        BY <1>1, <2>1 DEF Goto, Typed
    <2>4. Typed'
        <3>1. \E r \in SUBSET Rows, v \in Status : Write(q, r, v)
            BY <2>1 DEF Status
        <3>2. "publish" \in Steps \cup Ended
            BY DEF Steps
        <3>3. QED
            BY <1>1, <1>4, <2>1, <3>1, <3>2, TypeKept
    <2>5. Kind(q)' /\ Matching(q)' /\ Crossing(q)'
        BY <1>1, <1>2, <2>3 DEF Local, Kind, Matching, Crossing
    <2>6. Writing(q)'
        BY <1>1, <1>2, <1>3, <1>5, <2>2, <2>3 DEF Writing, Sent, Received
    <2>7. Cleared(q)'
        <3>1. \A r \in {Sent(q), Received(q)} :
                 friend[r] = "none" \/ r \in matched[q] \/ SentSince(q)
            BY <1>1, <1>2 DEF Local, Cleared, Doomed
        <3>2. \A r \in matched[q] : friend[r] = "none" \/ r \in DOMAIN writes'[q]
            BY <1>3, <2>2
        <3>3. SentSince(q) => SentSince(q)'
            <4>1. \A x \in Requests : pc[x] = "ok" => pc'[x] = "ok"
                BY <1>1, <2>1 DEF Goto, Typed
            <4>2. QED
                BY <1>1, <4>1 DEF SentSince, Sent, Received
        <3>4. QED
            BY <1>1, <2>3, <3>1, <3>2, <3>3 DEF Cleared, Doomed, Sent, Received
    <2>8. \A x \in Requests \ {q} : DOMAIN writes'[q] \cap DOMAIN writes[x] = {}
        BY <1>1, <1>3, <2>1, <2>2 DEF Held, HeldByOther, Typed
    <2>9. QED
        BY <1>1, <1>4, <2>3, <2>4, <2>5, <2>6, <2>7, <2>8, Quiet DEF Statement, Ended
<1>6. CASE rs = {}
    <2>1. UNCHANGED writes /\ Goto(q, "refused")
        BY <1>3, <1>6 DEF Delete
    <2>2. pc'[q] = "refused"
        BY <1>1, <2>1 DEF Goto, Typed
    <2>3. Kind(q)' /\ Crossing(q)'
        BY <1>1, <2>2 DEF Local, Kind, Crossing
    <2>4. "refused" \in Steps \cup Ended
        BY DEF Ended
    <2>5. QED
        BY <1>1, <1>4, <2>1, <2>3, <2>4, MovedOn DEF Statement, Ended
<1>7. QED
    BY <1>5, <1>6
-----------------------------------------------------------------------------
LEMMA PublishKeeps ==
    ASSUME IInv, NEW q \in Requests, Publish(q)
    PROVE  IInv'
<1>1. /\ Typed /\ Local(q) /\ pc[q] = "publish" /\ Goto(q, "commit")
      /\ UNCHANGED <<friend, writes, job, matched, before>>
    BY Setting DEF Publish
<1>2. pc'[q] = "commit"
    BY <1>1 DEF Goto, Typed
<1>3. Typed'
    <2>1. matched' \in [Requests -> SUBSET Rows] /\ "commit" \in Steps \cup Ended
        BY <1>1 DEF Typed, Steps
    <2>2. QED
        BY <1>1, <2>1, TypeKept
<1>4. \A x \in Requests : pc[x] = "ok" => pc'[x] = "ok"
    BY <1>1 DEF Goto, Typed
<1>5. Kind(q)' /\ Matching(q)'
    BY <1>1, <1>2 DEF Local, Kind, Matching
<1>6. Writing(q)'
    BY <1>1, <1>2 DEF Local, Writing, Sent, Received
<1>7. Cleared(q)'
    <2>1. SentSince(q) => SentSince(q)'
        BY <1>1, <1>4 DEF SentSince, Sent, Received
    <2>2. QED
        BY <1>1, <1>2, <2>1 DEF Local, Cleared, Doomed, Sent, Received
<1>8. Crossing(q)'
    <2>1. CrossedBy(q) => CrossedBy(q)'
        BY <1>1, <1>4 DEF CrossedBy, Overlap, Sent, Received
    <2>2. QED
        BY <1>1, <1>2, <2>1 DEF Local, Crossing, Sent, Received
<1>9. \A x \in Requests \ {q} : DOMAIN writes'[q] \cap DOMAIN writes[x] = {}
    BY <1>1 DEF IInv, Apart
<1>10. QED
    BY <1>1, <1>2, <1>3, <1>5, <1>6, <1>7, <1>8, <1>9, Quiet DEF Statement, Ended

LEMMA AbortInv ==
    ASSUME IInv, NEW q \in Requests, Abort(q)
    PROVE  IInv'
<1>1. /\ Typed /\ Local(q) /\ pc[q] \notin Ended \cup {"new"}
      /\ Goto(q, "aborted")
      /\ writes' = [writes EXCEPT ![q] = NoWrites]
      /\ matched' = [matched EXCEPT ![q] = {}]
      /\ UNCHANGED <<friend, job, before>>
    BY DEF IInv, Abort
<1>2. pc'[q] = "aborted" /\ writes'[q] = NoWrites
    BY <1>1 DEF Goto, Typed
<1>3. Typed'
    <2>1. matched' \in [Requests -> SUBSET Rows] /\ "aborted" \in Steps \cup Ended
        BY <1>1 DEF Typed, Ended
    <2>2. QED
        BY <1>1, <2>1, TypeKept
<1>4. Kind(q)' /\ Writing(q)' /\ Matching(q)' /\ Cleared(q)' /\ Crossing(q)'
    BY <1>1, <1>2 DEF Local, Kind, Writing, Matching, Cleared, Crossing
<1>5. /\ \A x \in Requests \ {q} : DOMAIN writes'[q] \cap DOMAIN writes[x] = {}
      /\ \A x \in Requests \ {q} : matched'[x] = matched[x]
    BY <1>1, <1>2 DEF NoWrites, Typed
<1>6. QED
    BY <1>1, <1>2, <1>3, <1>4, <1>5, Quiet

LEMMA BeginKeeps ==
    ASSUME IInv, NEW q \in Requests, Begin(q)
    PROVE  IInv'
<1>1. Typed /\ Local(q) /\ pc[q] = "new" /\ job[q] = NoJob
    BY DEF IInv, Begin, Local, Kind
<1>2. PICK j \in Jobs :
         /\ job' = [job EXCEPT ![q] = j]
         /\ Goto(q, CASE j.op = "send" -> "own" [] j.op = "accept" -> "accept"
                      [] j.op = "delete" -> "match")
    BY DEF Begin
<1>3. j.op \in {"send", "accept", "delete"} /\ job'[q] = j
    BY <1>1, <1>2, JobFields DEF Typed
<1>4. /\ pc'[q] \in {"own", "accept", "match"}
      /\ pc'[q] = CASE j.op = "send" -> "own" [] j.op = "accept" -> "accept"
                    [] j.op = "delete" -> "match"
      /\ pc' \in [Requests -> Steps \cup Ended]
    BY <1>1, <1>2, <1>3 DEF Goto, Typed, Steps
<1>5. /\ UNCHANGED <<friend, writes, matched>>
      /\ before' = [before EXCEPT ![q] = {x \in Requests : pc[x] \in Ended}]
    BY DEF Begin
<1> DEFINE Same(x) == /\ pc'[x] = pc[x] /\ job'[x] = job[x] /\ writes'[x] = writes[x]
                      /\ matched'[x] = matched[x] /\ before'[x] = before[x]
<1>6. \A x \in Requests \ {q} : Same(x)
    BY <1>1, <1>5, Alone
<1>7. Typed'
    <2>1. job' \in [Requests -> Jobs \cup {NoJob}]
        BY <1>1, <1>2 DEF Typed
    <2>2. before' \in [Requests -> SUBSET Requests]
        BY <1>1, <1>5 DEF Typed
    <2>3. \A x \in Requests : pc'[x] \notin {"publish", "commit"} => writes[x] = NoWrites
        BY <1>1, <1>6 DEF Typed
    <2>4. QED
        BY <1>1, <1>4, <1>5, <2>1, <2>2, <2>3 DEF Typed
<1>8. Apart'
    BY <1>5 DEF IInv, Apart
<1>9. \A x, y \in Requests \ {q} : Overlap(x, y) => Overlap(x, y)'
    BY <1>6 DEF Overlap
<1>10. \A x \in Requests : job[x].op = "send" => x # q
    BY <1>1 DEF NoJob
<1>11. BothWaysOnlyWhenCrossed'
    <2>1. SUFFICES ASSUME NEW r \in Rows, friend[r] # "none", friend[Reverse(r)] # "none"
                   PROVE  \E x, y \in Requests :
                              /\ Overlap(x, y)'
                              /\ job'[x].op = "send" /\ job'[y].op = "send"
                              /\ Sent(x)' = r /\ Sent(y)' = Reverse(r)
        BY <1>5 DEF BothWaysOnlyWhenCrossed
    <2>2. PICK x, y \in Requests : /\ Overlap(x, y)
                                   /\ job[x].op = "send" /\ job[y].op = "send"
                                   /\ Sent(x) = r /\ Sent(y) = Reverse(r)
        BY <2>1 DEF IInv, BothWaysOnlyWhenCrossed
    <2>3. x # q /\ y # q
        BY <1>10, <2>2
    <2>4. QED
        BY <1>6, <1>9, <2>2, <2>3 DEF Sent
<1>12. Local(q)'
    <2>1. Kind(q)'
        BY <1>3, <1>4 DEF Kind
    <2>2. Writing(q)' /\ Matching(q)' /\ Cleared(q)' /\ Crossing(q)'
        BY <1>4 DEF Writing, Matching, Cleared, Crossing
    <2>3. Past(q)'
        BY <1>1, <1>5, <1>6 DEF Past, Typed, Ended
    <2>4. QED
        BY <2>1, <2>2, <2>3 DEF Local
<1>13. ASSUME NEW x \in Requests \ {q}
       PROVE  Local(x)'
    <2>1. Local(x) /\ Same(x)
        BY <1>6 DEF IInv
    <2>2. Kind(x)' /\ Writing(x)' /\ Matching(x)'
        BY <1>5, <2>1 DEF Local, Kind, Writing, Matching, Sent, Received
    <2>3. SentSince(x) => SentSince(x)'
        BY <1>1, <1>6, <2>1 DEF SentSince, Sent, Received
    <2>4. CrossedBy(x) => CrossedBy(x)'
        BY <1>1, <1>6, <2>1 DEF CrossedBy, Overlap, Sent, Received
    <2>5. Cleared(x)'
        BY <1>5, <2>1, <2>3 DEF Local, Cleared, Doomed, Sent, Received
    <2>6. Crossing(x)'
        BY <1>5, <2>1, <2>4 DEF Local, Crossing, Sent, Received
    <2>7. Past(x)'
        <3>1. \A y \in before[x] : y \in Requests
            BY <1>1 DEF Typed
        <3>2. QED
            BY <1>1, <1>6, <2>1, <3>1 DEF Local, Past, Ended
    <2>8. QED
        BY <2>2, <2>5, <2>6, <2>7 DEF Local
<1>14. QED
    BY <1>7, <1>8, <1>11, <1>12, <1>13 DEF IInv
-----------------------------------------------------------------------------
(* What a commit does to the table: the rows written, and no others. *)
LEMMA Committed ==
    ASSUME IInv, NEW q \in Requests, Commit(q)
    PROVE  /\ pc[q] = "commit" /\ pc'[q] = "ok" /\ writes'[q] = NoWrites
           /\ \A r \in Rows : friend'[r] = IF r \in DOMAIN writes[q]
                                           THEN writes[q][r] ELSE friend[r]
           /\ friend' \in [Rows -> Status]
           /\ DOMAIN writes[q] \subseteq Rows
           /\ \A x \in Requests : matched'[x] =
                 matched[x] \ {r \in DOMAIN writes[q] : writes[q][r] = "none"}
           /\ UNCHANGED <<job, before>>
<1>1. Typed /\ pc[q] = "commit"
    BY DEF IInv, Commit
<1>2. /\ friend' \in [Rows -> Status]
      /\ \A r \in Rows : friend'[r] = IF r \in DOMAIN writes[q]
                                      THEN writes[q][r] ELSE friend[r]
    BY <1>1 DEF Commit, Seen, Typed
<1>3. DOMAIN writes[q] \subseteq Rows /\ writes'[q] = NoWrites /\ pc'[q] = "ok"
    BY <1>1 DEF Commit, Goto, Typed
<1>4. \A x \in Requests : matched'[x] =
         matched[x] \ {r \in DOMAIN writes[q] : writes[q][r] = "none"}
    BY <1>1 DEF Commit, Typed
<1>5. QED
    BY <1>1, <1>2, <1>3, <1>4 DEF Commit

(* Only the commit of a send fills an empty row. *)
LEMMA Filled ==
    ASSUME IInv, NEW q \in Requests, Commit(q), NEW r \in Rows,
           friend[r] = "none", friend'[r] # "none"
    PROVE  job[q].op = "send" /\ r = Sent(q)
<1>1. pc[q] = "commit" /\ r \in DOMAIN writes[q] /\ friend'[r] = writes[q][r]
    BY Committed
<1>2. Writing(q) /\ job[q].op \in {"send", "accept", "delete"}
    BY <1>1, Setting DEF Local
<1>3. CASE job[q].op = "send"
    BY <1>1, <1>2, <1>3 DEF Writing
<1>4. CASE job[q].op = "accept"
    BY <1>1, <1>2, <1>4 DEF Writing
<1>5. CASE job[q].op = "delete"
    BY <1>1, <1>2, <1>5 DEF Writing
<1>6. QED
    BY <1>2, <1>3, <1>4, <1>5

LEMMA CommitCleared ==
    ASSUME IInv, NEW q \in Requests, Commit(q), NEW x \in Requests
    PROVE  Cleared(x)'
<1>1. /\ Typed /\ Local(q) /\ Local(x)
      /\ pc[q] = "commit" /\ pc'[q] = "ok" /\ writes'[q] = NoWrites
      /\ \A r \in Rows : friend'[r] = IF r \in DOMAIN writes[q]
                                      THEN writes[q][r] ELSE friend[r]
      /\ \A y \in Requests : matched'[y] =
            matched[y] \ {r \in DOMAIN writes[q] : writes[q][r] = "none"}
      /\ UNCHANGED <<job, before>>
    BY Committed DEF IInv
<1>2. \A y \in Requests \ {q} : pc'[y] = pc[y] /\ writes'[y] = writes[y]
    BY <1>1, Alone DEF Statement
<1>3. SentSince(x) => SentSince(x)'
    BY <1>1, <1>2 DEF SentSince, Sent, Received
<1>4. SUFFICES ASSUME job[x].op = "delete",
                      pc'[x] \in {"delete", "publish", "commit", "ok"},
                      NEW r \in {Sent(x), Received(x)}
               PROVE  friend'[r] = "none" \/ r \in Doomed(x)' \/ SentSince(x)'
    BY <1>1 DEF Cleared, Sent, Received
<1>5. pc[x] \in {"delete", "publish", "commit", "ok"}
    BY <1>1, <1>2, <1>4
<1>6. r \in Rows
    BY <1>4, <1>5, Setting
<1>7. friend[r] = "none" \/ r \in Doomed(x) \/ SentSince(x)
    BY <1>1, <1>4, <1>5 DEF Local, Cleared
<1>8. CASE x = q
    <2>1. \A y \in DOMAIN writes[q] : writes[q][y] = "none"
        BY <1>1, <1>4, <1>8 DEF Local, Writing
    <2>2. Doomed(x) = DOMAIN writes[q]
        BY <1>1, <1>8 DEF Doomed
    <2>3. QED
        BY <1>1, <1>3, <1>6, <1>7, <2>1, <2>2
<1>9. CASE x # q
    <2>1. CASE friend[r] = "none"
        <3>1. CASE friend'[r] = "none"
            BY <3>1
        <3>2. CASE friend'[r] # "none"
            <4>1. job[q].op = "send" /\ r = Sent(q)
                BY <1>6, <2>1, <3>2, Filled
            <4>2. q \notin before[x]
                BY <1>1 DEF Local, Past, Ended
            <4>3. SentSince(x)'
                BY <1>1, <1>4, <4>1, <4>2 DEF SentSince, Sent, Received
            <4>4. QED
                BY <4>3
        <3>3. QED
            BY <3>1, <3>2
    <2>2. CASE r \in Doomed(x)
        <3>1. CASE pc[x] = "delete"
            BY <1>1, <1>2, <1>6, <1>9, <2>2, <3>1 DEF Doomed
        <3>2. CASE pc[x] # "delete"
            BY <1>2, <1>9, <2>2, <3>2 DEF Doomed
        <3>3. QED
            BY <3>1, <3>2
    <2>3. QED
        BY <1>3, <1>7, <2>1, <2>2
<1>10. QED
    BY <1>8, <1>9

(* Two requests for one pair in both directions crossed: each began before *)
(* the other was over.                                                     *)
LEMMA CommitCrossing ==
    ASSUME IInv, NEW q \in Requests, Commit(q), NEW x \in Requests
    PROVE  Crossing(x)'
<1>1. /\ Typed /\ Local(q) /\ Local(x)
      /\ pc[q] = "commit" /\ pc'[q] = "ok" /\ UNCHANGED <<job, before>>
    BY Committed DEF IInv
<1>2. \A y \in Requests \ {q} : pc'[y] = pc[y]
    BY <1>1, Alone DEF Statement
<1>3. SUFFICES ASSUME job[x].op = "send", pc'[x] \in {"insert", "publish", "commit"}
               PROVE  friend'[Received(x)] = "none" \/ CrossedBy(x)'
    BY <1>1 DEF Crossing, Received, Sent
<1>4. x # q /\ pc[x] \in {"insert", "publish", "commit"}
    BY <1>1, <1>2, <1>3
<1>5. friend[Received(x)] = "none" \/ CrossedBy(x)
    BY <1>1, <1>3, <1>4 DEF Local, Crossing
<1>6. CASE CrossedBy(x)
    BY <1>1, <1>2, <1>6 DEF CrossedBy, Overlap, Sent, Received
<1>7. CASE friend[Received(x)] = "none" /\ friend'[Received(x)] # "none"
    <2>1. Received(x) \in Rows
        BY <1>4, Setting
    <2>2. job[q].op = "send" /\ Received(x) = Sent(q)
        BY <1>7, <2>1, Filled
    <2>3. q \notin before[x] /\ x \notin before[q]
        BY <1>1, <1>4 DEF Local, Past, Ended
    <2>4. CrossedBy(x)'
        BY <1>1, <1>4, <2>2, <2>3 DEF CrossedBy, Overlap, Sent, Received
    <2>5. QED
        BY <2>4
<1>8. QED
    BY <1>5, <1>6, <1>7

LEMMA CommitBothWays ==
    ASSUME IInv, NEW q \in Requests, Commit(q)
    PROVE  BothWaysOnlyWhenCrossed'
<1>1. /\ Typed /\ Local(q) /\ pc[q] = "commit" /\ UNCHANGED <<job, before>>
      /\ \A r \in Rows : friend'[r] = IF r \in DOMAIN writes[q]
                                      THEN writes[q][r] ELSE friend[r]
    BY Committed DEF IInv
<1>2. SUFFICES ASSUME NEW r \in Rows, friend'[r] # "none", friend'[Reverse(r)] # "none"
               PROVE  \E x, y \in Requests : /\ Overlap(x, y)
                                             /\ job[x].op = "send" /\ job[y].op = "send"
                                             /\ Sent(x) = r /\ Sent(y) = Reverse(r)
    BY <1>1 DEF BothWaysOnlyWhenCrossed, Overlap, Sent
<1>3. Reverse(r) \in Rows /\ Reverse(Reverse(r)) = r /\ Reverse(r) # r
    BY DEF Rows, Reverse
<1>4. CASE friend[r] # "none" /\ friend[Reverse(r)] # "none"
    BY <1>4 DEF IInv, BothWaysOnlyWhenCrossed
<1>5. ASSUME job[q].op = "send", Sent(q) \in {r, Reverse(r)}
      PROVE  \E x, y \in Requests : /\ Overlap(x, y)
                                    /\ job[x].op = "send" /\ job[y].op = "send"
                                    /\ Sent(x) = r /\ Sent(y) = Reverse(r)
    <2>1. Received(q) \in {r, Reverse(r)} \ {Sent(q)}
        BY <1>3, <1>5 DEF Received
    <2>2. DOMAIN writes[q] = {Sent(q)}
        BY <1>1, <1>5 DEF Local, Writing
    <2>3. friend'[Received(q)] = friend[Received(q)]
        BY <1>1, <1>3, <2>1, <2>2
    <2>4. CrossedBy(q)
        BY <1>1, <1>2, <1>5, <2>1, <2>3 DEF Local, Crossing
    <2>5. PICK x \in Requests : /\ Overlap(q, x) /\ job[x].op = "send"
                                /\ Sent(x) = Received(q)
        BY <2>4 DEF CrossedBy
    <2>6. Overlap(x, q)
        BY <2>5 DEF Overlap
    <2>7. CASE Sent(q) = r
        BY <1>5, <2>1, <2>5, <2>7
    <2>8. CASE Sent(q) = Reverse(r)
        BY <1>5, <2>1, <2>5, <2>6, <2>8
    <2>9. QED
        BY <1>5, <2>7, <2>8
<1>6. QED
    BY <1>2, <1>3, <1>4, <1>5, Filled

LEMMA CommitKeeps ==
    ASSUME IInv, NEW q \in Requests, Commit(q)
    PROVE  IInv'
<1>1. /\ Typed /\ Apart /\ Local(q)
      /\ pc[q] = "commit" /\ pc'[q] = "ok" /\ writes'[q] = NoWrites
      /\ \A r \in Rows : friend'[r] = IF r \in DOMAIN writes[q]
                                      THEN writes[q][r] ELSE friend[r]
      /\ friend' \in [Rows -> Status]
      /\ \A y \in Requests : matched'[y] =
            matched[y] \ {r \in DOMAIN writes[q] : writes[q][r] = "none"}
      /\ UNCHANGED <<job, before>>
    BY Committed DEF IInv
<1> DEFINE Same(x) == /\ pc'[x] = pc[x] /\ job'[x] = job[x] /\ writes'[x] = writes[x]
                      /\ before'[x] = before[x]
<1>2. \A x \in Requests \ {q} : Same(x)
    BY <1>1, Alone DEF Statement
<1>3. Typed'
    <2>1. pc' \in [Requests -> Steps \cup Ended]
        BY <1>1 DEF Commit, Goto, Typed, Ended
    <2>2. matched' \in [Requests -> SUBSET Rows]
        BY <1>1 DEF Commit, Typed
    <2>3. DOMAIN writes' = Requests
        BY <1>1 DEF Commit, Typed
    <2>4. ASSUME NEW x \in Requests
          PROVE  /\ DOMAIN writes'[x] \subseteq Rows
                 /\ writes'[x] \in [DOMAIN writes'[x] -> Status]
                 /\ pc'[x] \notin {"publish", "commit"} => writes'[x] = NoWrites
        <3>1. CASE x = q
            BY <1>1, <3>1 DEF NoWrites
        <3>2. CASE x # q
            BY <1>1, <1>2, <3>2 DEF Typed
        <3>3. QED
            BY <3>1, <3>2
    <2>5. QED
        BY <1>1, <2>1, <2>2, <2>3, <2>4 DEF Typed
<1>4. Apart'
    BY <1>1, <1>2 DEF Apart, NoWrites
<1>5. ASSUME NEW x \in Requests
      PROVE  Local(x)'
    <2>1. Local(x)
        BY DEF IInv
    <2>2. Kind(x)'
        BY <1>1, <1>2, <2>1 DEF Local, Kind
    <2>3. Writing(x)'
        <3>1. CASE x = q
            BY <1>1, <3>1 DEF Writing
        <3>2. CASE x # q
            <4>1. \A r \in DOMAIN writes[x] : r \in Rows /\ r \notin DOMAIN writes[q]
                BY <1>1, <3>2 DEF Typed, Apart
            <4>2. \A r \in DOMAIN writes[x] : friend'[r] = friend[r]
                BY <1>1, <4>1
            <4>3. QED
                BY <1>2, <2>1, <3>2, <4>2 DEF Local, Writing, Sent, Received
        <3>3. QED
            BY <3>1, <3>2
    <2>4. Matching(x)'
        BY <1>1, <1>2, <2>1 DEF Local, Matching, Sent, Received
    <2>5. Past(x)'
        <3>1. \A y \in before[x] : y \in Requests
            BY <1>1 DEF Typed
        <3>2. QED
            BY <1>1, <1>2, <2>1, <3>1 DEF Local, Past, Ended
    <2>6. QED
        BY <2>2, <2>3, <2>4, <2>5, CommitCleared, CommitCrossing DEF Local
<1>6. QED
    BY <1>3, <1>4, <1>5, CommitBothWays DEF IInv
-----------------------------------------------------------------------------
LEMMA InitInv == Init => IInv
<1> SUFFICES ASSUME Init
             PROVE  IInv
    OBVIOUS
<1>1. friend \in [Rows -> Status]
    BY FriendsAssumption DEF Init
<1>2. Typed
    BY <1>1 DEF Init, Typed, NoWrites, Steps
<1>3. Apart
    BY DEF Init, Apart, NoWrites
<1>4. BothWaysOnlyWhenCrossed
    BY FriendsAssumption DEF Init, BothWaysOnlyWhenCrossed
<1>5. ASSUME NEW q \in Requests
      PROVE  Local(q)
    BY DEF Init, Local, Kind, Writing, Matching, Cleared, Crossing, Past, NoJob
<1>6. QED
    BY <1>2, <1>3, <1>4, <1>5 DEF IInv

LEMMA StepInv == IInv /\ [Next]_dbVars => IInv'
<1> SUFFICES ASSUME IInv, [Next]_dbVars
             PROVE  IInv'
    OBVIOUS
<1>1. ASSUME NEW q \in Requests, Begin(q)
      PROVE  IInv'
    BY <1>1, BeginKeeps
<1>2. ASSUME NEW q \in Requests, Statement(q)
      PROVE  IInv'
    <2>1. CASE CheckOwn(q)
        BY <2>1, CheckOwnKeeps
    <2>2. CASE CheckReverse(q)
        BY <2>2, CheckReverseKeeps
    <2>3. CASE Insert(q)
        BY <2>3, InsertKeeps
    <2>4. CASE Accept(q)
        BY <2>4, AcceptKeeps
    <2>5. CASE MatchBoth(q)
        BY <2>5, MatchBothKeeps
    <2>6. CASE Delete(q)
        BY <2>6, DeleteKeeps
    <2>7. CASE Publish(q)
        BY <2>7, PublishKeeps
    <2>8. CASE Commit(q)
        BY <2>8, CommitKeeps
    <2>9. QED
        BY <1>2, <2>1, <2>2, <2>3, <2>4, <2>5, <2>6, <2>7, <2>8 DEF Statement
<1>3. ASSUME NEW q \in Requests, Abort(q)
      PROVE  IInv'
    BY <1>3, AbortInv
<1>4. CASE UNCHANGED dbVars
    <2>1. UNCHANGED <<friend, writes, pc, job, matched, before>>
        BY <1>4 DEF dbVars
    <2>2. Typed' /\ Apart' /\ BothWaysOnlyWhenCrossed'
        BY <2>1 DEF IInv, Typed, Apart, BothWaysOnlyWhenCrossed, Overlap, Sent
    <2>3. ASSUME NEW q \in Requests
          PROVE  Local(q)'
        <3>1. Local(q)
            BY DEF IInv
        <3>2. Kind(q)' /\ Writing(q)' /\ Matching(q)' /\ Past(q)'
            BY <2>1, <3>1 DEF Local, Kind, Writing, Matching, Past, Sent, Received
        <3>3. Cleared(q)'
            BY <2>1, <3>1 DEF Local, Cleared, Doomed, SentSince, Sent, Received
        <3>4. Crossing(q)'
            BY <2>1, <3>1 DEF Local, Crossing, CrossedBy, Overlap, Sent, Received
        <3>5. QED
            BY <3>2, <3>3, <3>4 DEF Local
    <2>4. QED
        BY <2>2, <2>3 DEF IInv
<1>5. QED
    BY <1>1, <1>2, <1>3, <1>4 DEF Next

(* The lists of the browsers leave the database to Next. *)
LEMMA ListsStep == [ListsNext]_allVars => [Next]_dbVars
<1> SUFFICES ASSUME [ListsNext]_allVars
             PROVE  Next \/ UNCHANGED dbVars
    OBVIOUS
<1>1. CASE ServerStep
    BY <1>1 DEF ServerStep
<1>2. ASSUME NEW u \in Users, Notified(u) \/ NoticesLost(u)
      PROVE  UNCHANGED dbVars
    BY <1>2 DEF Notified, NoticesLost
<1>3. ASSUME NEW q \in Requests, Answered(q) \/ AnswerLost(q)
      PROVE  UNCHANGED dbVars
    BY <1>3 DEF Answered, AnswerLost, vars
<1>4. ASSUME NEW f \in Fetches, Arrive(f) \/ FetchFails(f) \/ \E l \in Lists : Read(f, l)
      PROVE  UNCHANGED dbVars
    BY <1>4 DEF Arrive, FetchFails, Read, vars
<1>5. CASE UNCHANGED allVars
    BY <1>5 DEF allVars, vars
<1>6. QED
    BY <1>1, <1>2, <1>3, <1>4, <1>5 DEF ListsNext

LEMMA AlwaysIInv == (Spec => []IInv) /\ (ListsSpec => []IInv)
<1>1. [Next]_vars => [Next]_dbVars
    BY DEF vars
<1>2. Spec => []IInv
    BY <1>1, InitInv, StepInv, PTL DEF Spec
<1>3. ListsInit => IInv
    BY InitInv DEF ListsInit
<1>4. ListsSpec => []IInv
    BY <1>3, ListsStep, StepInv, PTL DEF ListsSpec
<1>5. QED
    BY <1>2, <1>4
-----------------------------------------------------------------------------
(* A step that ends a request well is its commit, and only a commit        *)
(* changes the table.                                                      *)
LEMMA OnlyCommit ==
    ASSUME IInv, [Next]_dbVars, NEW q \in Requests, pc[q] # "ok", pc'[q] = "ok"
    PROVE  Commit(q)
<1>1. Typed
    BY DEF IInv
<1>2. Next
    BY DEF dbVars
<1>3. PICK x \in Requests : Begin(x) \/ Statement(x) \/ Abort(x)
    BY <1>2 DEF Next
<1>4. x = q
    BY <1>1, <1>3, Alone
<1>5. ~Begin(q)
    BY <1>1, JobFields DEF Begin, Goto, Typed
<1>6. ~Abort(q)
    BY <1>1 DEF Abort, Goto, Typed
<1>7. ~CheckOwn(q) /\ ~CheckReverse(q) /\ ~Insert(q) /\ ~Accept(q)
    BY <1>1 DEF CheckOwn, CheckReverse, Insert, Accept, Goto, Typed
<1>8. ~MatchBoth(q) /\ ~Delete(q) /\ ~Publish(q)
    BY <1>1 DEF MatchBoth, Delete, Publish, Goto, Typed
<1>9. QED
    BY <1>3, <1>4, <1>5, <1>6, <1>7, <1>8 DEF Statement

LEMMA OnlyCommitWrites ==
    ASSUME [Next]_dbVars, friend' # friend
    PROVE  \E q \in Requests : Commit(q)
<1>1. Next
    BY DEF dbVars
<1>2. PICK q \in Requests : Begin(q) \/ Statement(q) \/ Abort(q)
    BY <1>1 DEF Next
<1>3. Commit(q)
    BY <1>2 DEF Begin, Statement, Abort, CheckOwn, CheckReverse, Insert, Accept,
                MatchBoth, Delete, Publish
<1>4. QED
    BY <1>3

(* A commit does to its rows what the request was for. *)
LEMMA CommitChanges ==
    ASSUME IInv, NEW q \in Requests, Commit(q)
    PROVE  /\ pc[q] = "commit" /\ pc'[q] = "ok"
           /\ job[q].op \in {"send", "accept", "delete"}
           /\ job[q].op = "send" =>
                 /\ DOMAIN writes[q] = {Sent(q)}
                 /\ friend[Sent(q)] = "none" /\ friend'[Sent(q)] = "pending"
           /\ job[q].op = "accept" =>
                 /\ DOMAIN writes[q] = {Received(q)}
                 /\ friend[Received(q)] = "pending" /\ friend'[Received(q)] = "accepted"
           /\ job[q].op = "delete" =>
                 /\ DOMAIN writes[q] \subseteq {Sent(q), Received(q)}
                 /\ \A r \in DOMAIN writes[q] : friend[r] # "none" /\ friend'[r] = "none"
                 /\ DOMAIN writes[q] # {}
           /\ \A r \in Rows : r \notin DOMAIN writes[q] => friend'[r] = friend[r]
<1>1. /\ pc[q] = "commit" /\ pc'[q] = "ok"
      /\ \A r \in Rows : friend'[r] = IF r \in DOMAIN writes[q]
                                      THEN writes[q][r] ELSE friend[r]
      /\ DOMAIN writes[q] \subseteq Rows
    BY Committed
<1>2. /\ Writing(q) /\ job[q].op \in {"send", "accept", "delete"}
      /\ Sent(q) \in Rows /\ Received(q) \in Rows
    BY <1>1, Setting DEF Local
<1>3. QED
    BY <1>1, <1>2 DEF Writing
-----------------------------------------------------------------------------
NoticesTyped == notices \in [Users -> Seq(Notice)]

LEMMA NextNotices == IInv /\ NoticesTyped /\ Next => NoticesTyped'
<1> SUFFICES ASSUME IInv, NoticesTyped, Next
             PROVE  NoticesTyped'
    OBVIOUS
<1>1. PICK q \in Requests : Begin(q) \/ Statement(q) \/ Abort(q)
    BY DEF Next
<1>2. CASE Publish(q)
    <2>1. job[q] \in Jobs
        BY <1>2 DEF Publish, IInv, Local, Kind
    <2>2. PICK n \in Notice : notices' = [notices EXCEPT ![job[q].to] = Append(@, n)]
        <3>1. \A type \in {"request", "accept", "delete"} :
                 [type |-> type, from |-> job[q].by] \in Notice
            BY <2>1, JobFields DEF Notice
        <3>2. (IF job[q].op = "send" THEN "request" ELSE job[q].op)
                 \in {"request", "accept", "delete"}
            BY <2>1, JobFields
        <3>3. QED
            BY <1>2, <3>1, <3>2 DEF Publish
    <2>3. Append(notices[job[q].to], n) \in Seq(Notice)
        BY <2>1, JobFields DEF NoticesTyped
    <2>4. QED
        BY <2>2, <2>3 DEF NoticesTyped
<1>3. CASE ~Publish(q)
    BY <1>1, <1>3 DEF Begin, Statement, Abort, CheckOwn, CheckReverse, Insert, Accept,
                      MatchBoth, Delete, Commit, NoticesTyped
<1>4. QED
    BY <1>2, <1>3

LEMMA ListsNotices == IInv /\ NoticesTyped /\ [ListsNext]_allVars => NoticesTyped'
<1> SUFFICES ASSUME IInv, NoticesTyped, [ListsNext]_allVars
             PROVE  NoticesTyped'
    OBVIOUS
<1>1. CASE ServerStep
    BY <1>1, NextNotices DEF ServerStep
<1>2. ASSUME NEW u \in Users, Notified(u)
      PROVE  NoticesTyped'
    <2>1. notices' = [notices EXCEPT ![u] = Tail(notices[u])] /\ notices[u] # <<>>
        BY <1>2 DEF Notified
    <2>2. Tail(notices[u]) \in Seq(Notice)
        BY <2>1 DEF NoticesTyped
    <2>3. QED
        BY <2>1, <2>2 DEF NoticesTyped
<1>3. ASSUME NEW u \in Users, NoticesLost(u)
      PROVE  NoticesTyped'
    BY <1>3 DEF NoticesLost, NoticesTyped
<1>4. ASSUME NEW q \in Requests, Answered(q) \/ AnswerLost(q)
      PROVE  NoticesTyped'
    BY <1>4 DEF Answered, AnswerLost, vars, NoticesTyped
<1>5. ASSUME NEW f \in Fetches, Arrive(f) \/ FetchFails(f) \/ \E l \in Lists : Read(f, l)
      PROVE  NoticesTyped'
    BY <1>5 DEF Arrive, FetchFails, Read, vars, NoticesTyped
<1>6. CASE UNCHANGED allVars
    BY <1>6 DEF allVars, vars, NoticesTyped
<1>7. QED
    BY <1>1, <1>2, <1>3, <1>4, <1>5, <1>6 DEF ListsNext

(* Every variable of Friends keeps its type, also beside the lists. *)
THEOREM TypeInvariant == (Spec => []TypeOK) /\ (ListsSpec => []TypeOK)
<1>1. Init => NoticesTyped
    BY DEF Init, NoticesTyped
<1>2. IInv /\ NoticesTyped => TypeOK
    BY DEF IInv, Typed, NoticesTyped, TypeOK
<1>3. UNCHANGED vars /\ NoticesTyped => NoticesTyped'
    BY DEF vars, NoticesTyped
<1>4. Spec => []NoticesTyped
    BY <1>1, <1>3, NextNotices, AlwaysIInv, PTL DEF Spec
<1>5. ListsInit => Init
    BY DEF ListsInit
<1>6. ListsSpec => []NoticesTyped
    BY <1>1, <1>5, ListsNotices, AlwaysIInv, PTL DEF ListsSpec
<1>7. QED
    BY <1>2, <1>4, <1>6, AlwaysIInv, PTL
-----------------------------------------------------------------------------
(* A pair has rows in both directions only when the two requests crossed.  *)
THEOREM CrossedPairs == /\ Spec => []BothWaysOnlyWhenCrossed
                        /\ ListsSpec => []BothWaysOnlyWhenCrossed
<1>1. IInv => BothWaysOnlyWhenCrossed
    BY DEF IInv
<1>2. QED
    BY <1>1, AlwaysIInv, PTL

(* An acknowledged deletion left nothing between the two, unless a request *)
(* that was not over when it began sent one.                               *)
THEOREM DeletionHolds == /\ Spec => []DeletedBothWays
                         /\ ListsSpec => []DeletedBothWays
<1>1. IInv => DeletedBothWays
    <2>1. SUFFICES ASSUME IInv, NEW q \in Requests, pc[q] = "ok", job[q].op = "delete",
                          NEW r \in {Sent(q), Received(q)}, friend[r] # "none"
                   PROVE  SentSince(q)
        BY DEF DeletedBothWays, SentSince
    <2>2. Cleared(q) /\ writes[q] = NoWrites
        BY <2>1 DEF IInv, Local, Typed
    <2>3. QED
        BY <2>1, <2>2 DEF Cleared, Doomed, NoWrites
<1>2. QED
    BY <1>1, AlwaysIInv, PTL

(* An acknowledged request did itself what it was for: of two that cross,  *)
(* the one that comes second finds the row changed.                        *)
THEOREM AcknowledgedChange == /\ Spec => AckedChange
                              /\ ListsSpec => AckedChange
<1> DEFINE Change == \A q \in Requests : pc[q] # "ok" /\ pc'[q] = "ok" =>
          CASE job[q].op = "send" ->
                  friend[Sent(q)] = "none" /\ friend'[Sent(q)] = "pending"
            [] job[q].op = "accept" ->
                  friend[Received(q)] = "pending" /\ friend'[Received(q)] = "accepted"
            [] job[q].op = "delete" ->
                  \E r \in {Sent(q), Received(q)} :
                      friend[r] # "none" /\ friend'[r] = "none"
<1>1. IInv /\ [Next]_dbVars => Change
    <2>1. SUFFICES ASSUME IInv, [Next]_dbVars, NEW q \in Requests,
                          pc[q] # "ok", pc'[q] = "ok"
                   PROVE  CASE job[q].op = "send" ->
                                 friend[Sent(q)] = "none" /\ friend'[Sent(q)] = "pending"
                            [] job[q].op = "accept" ->
                                 /\ friend[Received(q)] = "pending"
                                 /\ friend'[Received(q)] = "accepted"
                            [] job[q].op = "delete" ->
                                 \E r \in {Sent(q), Received(q)} :
                                     friend[r] # "none" /\ friend'[r] = "none"
        OBVIOUS
    <2>2. Commit(q)
        BY <2>1, OnlyCommit
    <2>3. job[q].op \in {"send", "accept", "delete"}
        BY <2>1, <2>2, CommitChanges
    <2>4. CASE job[q].op = "send"
        BY <2>1, <2>2, <2>4, CommitChanges
    <2>5. CASE job[q].op = "accept"
        BY <2>1, <2>2, <2>5, CommitChanges
    <2>6. CASE job[q].op = "delete"
        BY <2>1, <2>2, <2>6, CommitChanges
    <2>7. QED
        BY <2>3, <2>4, <2>5, <2>6
<1> HIDE DEF Change
<1>2. [Next]_vars => [Next]_dbVars
    BY DEF vars
<1>3. Spec => [][Change]_vars
    BY <1>1, <1>2, AlwaysIInv, PTL DEF Spec
<1>4. ListsSpec => [][Change]_vars
    BY <1>1, ListsStep, AlwaysIInv, PTL DEF ListsSpec
<1>5. QED
    BY <1>3, <1>4 DEF AckedChange, Change

(* A row is made by a send, accepted by its addressee and removed by a     *)
(* deletion that were acknowledged with it, and by nothing else.           *)
THEOREM RowLifecycle == /\ Spec => Lifecycle
                        /\ ListsSpec => Lifecycle
<1> DEFINE Moves == \A r \in Rows : friend[r] # friend'[r] =>
          \E q \in Requests : /\ pc[q] # "ok" /\ pc'[q] = "ok"
              /\ \/ friend'[r] = "pending" /\ job[q].op = "send" /\ Sent(q) = r
                 \/ friend'[r] = "accepted" /\ job[q].op = "accept" /\ Received(q) = r
                 \/ friend'[r] = "none" /\ job[q].op = "delete"
                       /\ r \in {Sent(q), Received(q)}
<1>1. IInv /\ [Next]_dbVars => Moves
    <2>1. SUFFICES ASSUME IInv, [Next]_dbVars, NEW r \in Rows, friend[r] # friend'[r]
                   PROVE  \E q \in Requests : /\ pc[q] # "ok" /\ pc'[q] = "ok"
                             /\ \/ /\ friend'[r] = "pending"
                                   /\ job[q].op = "send" /\ Sent(q) = r
                                \/ /\ friend'[r] = "accepted"
                                   /\ job[q].op = "accept" /\ Received(q) = r
                                \/ /\ friend'[r] = "none" /\ job[q].op = "delete"
                                   /\ r \in {Sent(q), Received(q)}
        OBVIOUS
    <2>2. PICK q \in Requests : Commit(q)
        BY <2>1, OnlyCommitWrites
    <2>3. /\ pc[q] = "commit" /\ pc'[q] = "ok"
          /\ job[q].op \in {"send", "accept", "delete"}
          /\ r \in DOMAIN writes[q]
        BY <2>1, <2>2, CommitChanges
    <2>4. CASE job[q].op = "send"
        BY <2>1, <2>2, <2>3, <2>4, CommitChanges
    <2>5. CASE job[q].op = "accept"
        BY <2>1, <2>2, <2>3, <2>5, CommitChanges
    <2>6. CASE job[q].op = "delete"
        BY <2>1, <2>2, <2>3, <2>6, CommitChanges
    <2>7. QED
        BY <2>3, <2>4, <2>5, <2>6
<1> HIDE DEF Moves
<1>2. [Next]_vars => [Next]_dbVars
    BY DEF vars
<1>3. Spec => [][Moves]_vars
    BY <1>1, <1>2, AlwaysIInv, PTL DEF Spec
<1>4. ListsSpec => [][Moves]_vars
    BY <1>1, ListsStep, AlwaysIInv, PTL DEF ListsSpec
<1>5. QED
    BY <1>3, <1>4 DEF Lifecycle, Moves
-----------------------------------------------------------------------------
(* The notices of a queue, whatever their order.                           *)
Elements(q) == {q[i] : i \in 1..Len(q)}

LEMMA AppendElements ==
    ASSUME NEW S, NEW q \in Seq(S), NEW m \in S
    PROVE  Elements(Append(q, m)) = Elements(q) \cup {m}
<1>1. /\ Len(Append(q, m)) = Len(q) + 1 /\ Len(q) \in Nat
      /\ \A i \in 1..Len(q) : Append(q, m)[i] = q[i]
      /\ Append(q, m)[Len(q) + 1] = m
    OBVIOUS
<1>2. Elements(Append(q, m)) \subseteq Elements(q) \cup {m}
    BY <1>1 DEF Elements
<1>3. Elements(q) \subseteq Elements(Append(q, m))
    BY <1>1 DEF Elements
<1>4. m \in Elements(Append(q, m))
    <2>1. Len(q) + 1 \in 1..Len(Append(q, m))
        BY <1>1
    <2>2. QED
        BY <1>1, <2>1 DEF Elements
<1>5. QED
    BY <1>2, <1>3, <1>4

LEMMA TailElements ==
    ASSUME NEW S, NEW q \in Seq(S), q # <<>>
    PROVE  Elements(q) \subseteq Elements(Tail(q)) \cup {Head(q)} /\ Head(q) \in S
<1>1. /\ Len(Tail(q)) = Len(q) - 1 /\ Len(q) \in Nat /\ Len(q) > 0
      /\ \A i \in 1..Len(Tail(q)) : Tail(q)[i] = q[i + 1]
      /\ Head(q) = q[1] /\ Head(q) \in S
    OBVIOUS
<1>2. ASSUME NEW i \in 1..Len(q), i # 1 PROVE q[i] \in Elements(Tail(q))
    <2>1. i - 1 \in 1..Len(Tail(q)) /\ (i - 1) + 1 = i
        BY <1>1, <1>2
    <2>2. Tail(q)[i - 1] = q[i]
        BY <1>1, <2>1
    <2>3. QED
        BY <2>1, <2>2 DEF Elements
<1>3. QED
    BY <1>1, <1>2 DEF Elements

(* What a fetch in progress is about and has read.                         *)
Fetching == [lists : SUBSET Lists, by : Users,
             got : UNION {[D -> SUBSET Users] : D \in SUBSET Lists}]

LEMMA FetchingIsNotIdle ==
    ASSUME NEW g \in Fetching PROVE g # Idle
BY DEF Fetching, Idle

ListsTyped ==
    /\ friends \in [Users -> SUBSET Users] /\ pending \in [Users -> SUBSET Users]
    /\ fetch \in [Fetches -> Fetching \cup {Idle}]
    /\ answered \subseteq {q \in Requests : pc[q] = "ok"}

LEMMA OkStays ==
    ASSUME IInv, [Next]_dbVars, NEW q \in Requests
    PROVE  /\ pc[q] = "ok" => pc'[q] = "ok"
           /\ pc[q] # "new" => job'[q] = job[q]
           /\ pc'[q] = "commit" => Publish(q) \/ pc[q] = "commit"
<1>1. Typed
    BY DEF IInv
<1>2. CASE UNCHANGED dbVars
    BY <1>2 DEF dbVars
<1>3. ASSUME NEW x \in Requests, Begin(x) \/ Statement(x) \/ Abort(x), x # q
      PROVE  pc'[q] = pc[q] /\ job'[q] = job[q]
    BY <1>1, <1>3, Alone
<1>4. CASE Begin(q)
    BY <1>1, <1>4, JobFields DEF Begin, Goto, Typed
<1>5. CASE CheckOwn(q) \/ CheckReverse(q) \/ Insert(q) \/ Accept(q)
    BY <1>1, <1>5 DEF CheckOwn, CheckReverse, Insert, Accept, Goto, Typed
<1>6. CASE MatchBoth(q) \/ Delete(q) \/ Publish(q) \/ Commit(q) \/ Abort(q)
    BY <1>1, <1>6 DEF MatchBoth, Delete, Publish, Commit, Abort, Goto, Typed, Ended
<1>7. QED
    BY <1>2, <1>3, <1>4, <1>5, <1>6 DEF Next, Statement

(* A new fetch.                                                            *)
LEMMA StartFetchType ==
    ASSUME ListsTyped, NEW u \in Users, NEW lists \in SUBSET Lists,
           StartFetch(u, lists)
    PROVE  /\ fetch' \in [Fetches -> Fetching \cup {Idle}]
           /\ \E f \in Fetches : /\ fetch[f] = Idle /\ fetch'[f] # Idle
                                 /\ fetch'[f].by = u /\ fetch'[f].lists = lists
                                 /\ \A g \in Fetches \ {f} : fetch'[g] = fetch[g]
<1>1. PICK f \in Fetches :
         /\ fetch[f] = Idle
         /\ fetch' = [fetch EXCEPT ![f] =
               [lists |-> lists, by |-> u, got |-> [l \in {} |-> {}]]]
    BY DEF StartFetch
<1>2. [l \in {} |-> {}] \in UNION {[D -> SUBSET Users] : D \in SUBSET Lists}
    <2>1. [l \in {} |-> {}] \in [{} -> SUBSET Users] /\ {} \in SUBSET Lists
        OBVIOUS
    <2>2. QED
        BY <2>1, Zenon
<1>3. PICK g : g = [lists |-> lists, by |-> u, got |-> [l \in {} |-> {}]]
    OBVIOUS
<1>4. g \in Fetching /\ g.by = u /\ g.lists = lists
    BY <1>2, <1>3 DEF Fetching
<1>5. g # Idle
    BY <1>4, FetchingIsNotIdle
<1>6. fetch' = [fetch EXCEPT ![f] = g]
    BY <1>1, <1>3
<1>7. QED
    BY <1>1, <1>4, <1>5, <1>6 DEF ListsTyped

(* One more answer of a fetch.                                             *)
LEMMA ReadType ==
    ASSUME ListsTyped, NEW f \in Fetches, NEW l \in Lists, Read(f, l)
    PROVE  /\ fetch' \in [Fetches -> Fetching \cup {Idle}]
           /\ fetch[f] # Idle /\ fetch'[f] # Idle
           /\ fetch'[f].by = fetch[f].by /\ fetch'[f].lists = fetch[f].lists
           /\ \A g \in Fetches \ {f} : fetch'[g] = fetch[g]
<1>1. l \in fetch[f].lists \ DOMAIN fetch[f].got
    BY DEF Read
<1>2. fetch[f] \in Fetching
    BY <1>1 DEF ListsTyped, Idle
<1> DEFINE new == [x \in DOMAIN fetch[f].got \cup {l} |->
                     IF x = l THEN Listed(l, fetch[f].by) ELSE fetch[f].got[x]]
<1>3. PICK D \in SUBSET Lists : fetch[f].got \in [D -> SUBSET Users]
    BY <1>2 DEF Fetching
<1>4. Listed(l, fetch[f].by) \in SUBSET Users
    BY DEF Listed, FriendsOf, RequestsTo
<1>5. new \in [D \cup {l} -> SUBSET Users] /\ D \cup {l} \in SUBSET Lists
    BY <1>3, <1>4
<1>6. new \in UNION {[E -> SUBSET Users] : E \in SUBSET Lists}
    BY <1>5, Zenon
<1>7. fetch' = [fetch EXCEPT ![f] = [fetch[f] EXCEPT !.got = new]]
    BY <1>2 DEF Read, ListsTyped
<1> HIDE DEF new
<1>8. PICK g : g = [fetch[f] EXCEPT !.got = new]
    OBVIOUS
<1>9. g \in Fetching /\ g.by = fetch[f].by /\ g.lists = fetch[f].lists
    BY <1>2, <1>6, <1>8 DEF Fetching
<1>10. g # Idle /\ fetch[f] # Idle
    BY <1>2, <1>9, FetchingIsNotIdle
<1>11. QED
    BY <1>7, <1>8, <1>9, <1>10 DEF ListsTyped

(* What the answers set.                                                   *)
LEMMA ArriveType ==
    ASSUME ListsTyped, NEW f \in Fetches, Arrive(f)
    PROVE  /\ friends' \in [Users -> SUBSET Users] /\ pending' \in [Users -> SUBSET Users]
           /\ fetch' \in [Fetches -> Fetching \cup {Idle}]
           /\ fetch[f].by \in Users /\ fetch[f].lists \subseteq Lists
<1>1. fetch[f] \in Fetching /\ fetch[f].lists = DOMAIN fetch[f].got
    BY DEF Arrive, ListsTyped
<1>2. PICK D \in SUBSET Lists : fetch[f].got \in [D -> SUBSET Users]
    BY <1>1 DEF Fetching
<1>3. \A l \in fetch[f].lists : fetch[f].got[l] \in SUBSET Users
    BY <1>1, <1>2
<1>4. fetch[f].by \in Users /\ fetch[f].lists \subseteq Lists
    BY <1>1 DEF Fetching
<1>5. QED
    BY <1>3, <1>4 DEF Arrive, ListsTyped

(* A friend who is removed.                                                *)
LEMMA RemoveType ==
    ASSUME ListsTyped, NEW u \in Users, NEW v, Remove(u, v)
    PROVE  /\ friends' \in [Users -> SUBSET Users]
           /\ friends'[u] = friends[u] \ {v}
           /\ \A w \in Users \ {u} : friends'[w] = friends[w]
BY DEF Remove, ListsTyped

(* Every variable of the lists keeps its type.                             *)
LEMMA ListsTypedStep ==
    ASSUME IInv, NoticesTyped, ListsTyped, [ListsNext]_allVars
    PROVE  ListsTyped'
<1>1. \A q \in Requests : pc[q] = "ok" => pc'[q] = "ok"
    BY ListsStep, OkStays
<1>2. CASE ServerStep
    BY <1>1, <1>2 DEF ServerStep, ListsTyped
<1>3. ASSUME NEW u \in Users, Notified(u) PROVE ListsTyped'
    <2>1. UNCHANGED <<pc, pending, answered>>
        BY <1>3 DEF Notified, dbVars
    <2>2. CASE UNCHANGED friends /\ \E l \in Lists : StartFetch(u, {l})
        <3>1. PICK lists \in SUBSET Lists : StartFetch(u, lists)
            <4>1. \A l \in Lists : {l} \in SUBSET Lists
                OBVIOUS
            <4>2. QED
                BY <2>2, <4>1, Zenon
        <3>2. fetch' \in [Fetches -> Fetching \cup {Idle}]
            BY <3>1, StartFetchType
        <3>3. QED
            BY <2>1, <2>2, <3>2 DEF ListsTyped
    <2>3. CASE UNCHANGED fetch /\ Remove(u, Head(notices[u]).from)
        BY <2>1, <2>3, RemoveType DEF ListsTyped
    <2>4. QED
        BY <1>3, <2>2, <2>3 DEF Notified, Lists
<1>4. ASSUME NEW u \in Users, NoticesLost(u) PROVE ListsTyped'
    BY <1>4 DEF NoticesLost, dbVars, ListsTyped
<1>5. ASSUME NEW q \in Requests, Answered(q) \/ AnswerLost(q) PROVE ListsTyped'
    <2>1. /\ UNCHANGED <<pc, pending>> /\ answered' = answered \cup {q} /\ pc[q] = "ok"
        BY <1>5 DEF Answered, AnswerLost, dbVars, vars
    <2>2. job[q].by \in Users
        BY <2>1, JobFields DEF IInv, Local, Kind
    <2>3. CASE UNCHANGED friends /\ StartFetch(job[q].by, {"friends", "pending"})
        <3>1. PICK v \in Users, lists \in SUBSET Lists : StartFetch(v, lists)
            <4>1. {"friends", "pending"} \in SUBSET Lists
                BY DEF Lists
            <4>2. QED
                BY <2>2, <2>3, <4>1, Zenon
        <3>2. fetch' \in [Fetches -> Fetching \cup {Idle}]
            BY <3>1, StartFetchType
        <3>3. QED
            BY <2>1, <2>3, <3>2 DEF ListsTyped
    <2>4. CASE UNCHANGED fetch /\ Remove(job[q].by, job[q].to)
        <3>1. PICK v \in Users : \E w : Remove(v, w)
            BY <2>2, <2>4
        <3>2. friends' \in [Users -> SUBSET Users]
            BY <3>1, RemoveType
        <3>3. QED
            BY <2>1, <2>4, <3>2 DEF ListsTyped
    <2>5. CASE UNCHANGED <<friends, fetch>>
        BY <2>1, <2>5 DEF ListsTyped
    <2>6. QED
        BY <1>5, <2>3, <2>4, <2>5 DEF Answered, AnswerLost
<1>6. ASSUME NEW f \in Fetches, Arrive(f) PROVE ListsTyped'
    BY <1>6, ArriveType DEF Arrive, vars, dbVars, ListsTyped
<1>7. ASSUME NEW f \in Fetches, FetchFails(f) PROVE ListsTyped'
    BY <1>7 DEF FetchFails, vars, dbVars, ListsTyped
<1>8. ASSUME NEW f \in Fetches, NEW l \in Lists, Read(f, l) PROVE ListsTyped'
    BY <1>8, ReadType DEF Read, vars, dbVars, ListsTyped
<1>9. CASE UNCHANGED allVars
    BY <1>9 DEF allVars, listVars, vars, dbVars, ListsTyped
<1>10. QED
    BY <1>2, <1>3, <1>4, <1>5, <1>6, <1>7, <1>8, <1>9 DEF ListsNext
-----------------------------------------------------------------------------
(* The notice of a request about to commit waits, or was had or lost.      *)
Published ==
    \A q \in Requests : pc[q] = "commit" =>
        \/ <<job[q].to, NoticeOf(q)>> \in heard
        \/ NoticeOf(q) \in Elements(notices[job[q].to])

(* A step of the server publishes at most one notice.                      *)
LEMMA NoticesGrow ==
    ASSUME IInv, NoticesTyped, Next, NEW u \in Users
    PROVE  /\ Elements(notices[u]) \subseteq Elements(notices'[u])
           /\ \A q \in Requests : Publish(q) /\ job[q].to = u =>
                 NoticeOf(q) \in Elements(notices'[u])
<1>1. ASSUME NEW q \in Requests, Publish(q)
      PROVE  /\ Elements(notices[u]) \subseteq Elements(notices'[u])
             /\ job[q].to = u => NoticeOf(q) \in Elements(notices'[u])
    <2>1. job[q] \in Jobs
        BY <1>1 DEF Publish, IInv, Local, Kind
    <2>2. PICK n : n = NoticeOf(q)
        OBVIOUS
    <2>3. n \in Notice
        <3>1. \A type \in {"request", "accept", "delete"} :
                 [type |-> type, from |-> job[q].by] \in Notice
            BY <2>1, JobFields DEF Notice
        <3>2. (IF job[q].op = "send" THEN "request" ELSE job[q].op)
                 \in {"request", "accept", "delete"}
            BY <2>1, JobFields
        <3>3. QED
            BY <2>2, <3>1, <3>2 DEF NoticeOf
    <2>4. notices' = [notices EXCEPT ![job[q].to] = Append(notices[job[q].to], n)]
        BY <1>1, <2>2 DEF Publish, NoticeOf
    <2>5. CASE job[q].to = u
        <3>1. notices'[u] = Append(notices[u], n) /\ notices[u] \in Seq(Notice)
            BY <2>4, <2>5 DEF NoticesTyped
        <3>2. QED
            BY <2>2, <2>3, <3>1, AppendElements
    <2>6. CASE job[q].to # u
        <3>1. notices'[u] = notices[u]
            BY <2>4, <2>6 DEF NoticesTyped
        <3>2. QED
            BY <2>6, <3>1
    <2>7. QED
        BY <2>5, <2>6
<1>2. ASSUME \A q \in Requests : ~Publish(q) PROVE notices' = notices
    BY <1>2 DEF Next, Begin, Statement, Abort, CheckOwn, CheckReverse, Insert, Accept,
                MatchBoth, Delete, Commit
<1>3. QED
    BY <1>1, <1>2

(* A notice that waited and does not any more was had or lost.             *)
LEMMA NoticesSpent ==
    ASSUME IInv, NoticesTyped, [ListsNext]_allVars, NEW u \in Users, NEW n \in Elements(notices[u])
    PROVE  /\ heard \subseteq heard'
           /\ n \in Elements(notices'[u]) \/ <<u, n>> \in heard'
<1>1. CASE ServerStep
    BY <1>1, NoticesGrow DEF ServerStep
<1>2. ASSUME NEW x \in Users, Notified(x)
      PROVE  heard \subseteq heard' /\ (n \in Elements(notices'[u]) \/ <<u, n>> \in heard')
    <2>1. /\ notices' = [notices EXCEPT ![x] = Tail(notices[x])] /\ notices[x] # <<>>
          /\ heard' = heard \cup {<<x, Head(notices[x])>>}
        BY <1>2 DEF Notified
    <2>2. CASE x = u
        <3>1. notices'[u] = Tail(notices[u]) /\ notices[u] \in Seq(Notice)
            BY <2>1, <2>2 DEF NoticesTyped
        <3>2. n \in Elements(Tail(notices[u])) \/ n = Head(notices[u])
            BY <2>1, <2>2, <3>1, TailElements
        <3>3. QED
            BY <2>1, <2>2, <3>1, <3>2
    <2>3. CASE x # u
        BY <2>1, <2>3 DEF NoticesTyped
    <2>4. QED
        BY <2>2, <2>3
<1>3. ASSUME NEW x \in Users, NoticesLost(x)
      PROVE  heard \subseteq heard' /\ (n \in Elements(notices'[u]) \/ <<u, n>> \in heard')
    <2>1. /\ notices' = [notices EXCEPT ![x] = <<>>]
          /\ heard' = heard \cup ({x} \X {notices[x][i] : i \in DOMAIN notices[x]})
        BY <1>3 DEF NoticesLost
    <2>2. CASE x = u
        <3>1. DOMAIN notices[u] = 1..Len(notices[u])
            BY DEF NoticesTyped
        <3>2. QED
            BY <2>1, <2>2, <3>1 DEF Elements
    <2>3. CASE x # u
        BY <2>1, <2>3 DEF NoticesTyped
    <2>4. QED
        BY <2>2, <2>3
<1>4. ASSUME NEW q \in Requests, Answered(q) \/ AnswerLost(q)
      PROVE  UNCHANGED <<notices, heard>>
    BY <1>4 DEF Answered, AnswerLost, vars
<1>5. ASSUME NEW f \in Fetches, Arrive(f) \/ FetchFails(f) \/ \E l \in Lists : Read(f, l)
      PROVE  UNCHANGED <<notices, heard>>
    BY <1>5 DEF Arrive, FetchFails, Read, vars
<1>6. CASE UNCHANGED allVars
    BY <1>6 DEF allVars, listVars, vars
<1>7. QED
    BY <1>1, <1>2, <1>3, <1>4, <1>5, <1>6 DEF ListsNext

LEMMA PublishedStep ==
    ASSUME IInv, NoticesTyped, Published, [ListsNext]_allVars
    PROVE  Published'
<1> SUFFICES ASSUME NEW q \in Requests, pc'[q] = "commit"
             PROVE  \/ <<job[q].to, NoticeOf(q)>>' \in heard'
                    \/ NoticeOf(q)' \in Elements(notices'[job'[q].to])
    BY Zenon DEF Published
<1>1. Publish(q) \/ pc[q] = "commit"
    BY ListsStep, OkStays
<1>2. pc[q] # "new"
    BY <1>1 DEF Publish
<1>3. job'[q] = job[q] /\ NoticeOf(q)' = NoticeOf(q)
    BY <1>2, ListsStep, OkStays DEF NoticeOf
<1>4. job[q].to \in Users
    BY <1>2, Asked DEF IInv, Local, Kind
<1>5. CASE pc[q] = "commit"
    <2>1. \/ <<job[q].to, NoticeOf(q)>> \in heard
          \/ NoticeOf(q) \in Elements(notices[job[q].to])
        BY <1>5 DEF Published
    <2>2. heard \subseteq heard'
        BY DEF ListsNext, ServerStep, Notified, NoticesLost, Answered, AnswerLost, Arrive,
               FetchFails, Read, allVars, listVars
    <2>3. QED
        BY <1>3, <1>4, <2>1, <2>2, NoticesSpent
<1>6. CASE Publish(q) /\ pc[q] # "commit"
    <2>1. pc[q] = "publish"
        BY <1>6 DEF Publish
    <2>2. UNCHANGED pc => FALSE
        BY <2>1
    <2>3. ServerStep
        BY <2>2 DEF ListsNext, Notified, NoticesLost, Answered, AnswerLost, Arrive,
                    FetchFails, Read, allVars, vars, dbVars
    <2>4. QED
        BY <1>3, <1>4, <1>6, <2>3, NoticesGrow DEF ServerStep
<1>7. QED
    BY <1>1, <1>5, <1>6
-----------------------------------------------------------------------------
(* What will put a list right again: a notice on its way, ...              *)
Corrects(n, l, v) ==
    \/ n.type = "request" /\ l = "pending"
    \/ n.type = "accept" /\ l = "friends"
    \/ n.type = "delete" /\ l = "friends" /\ n.from = v

(* ... a fetch of it, ...                                                  *)
Refetches(f, u, l) == fetch[f] # Idle /\ fetch[f].by = u /\ l \in fetch[f].lists

(* ... or a request of the user's own whose answer is to come.             *)
ActsOn(q, u, l, v) ==
    /\ q \notin answered /\ pc[q] = "ok" /\ job[q].by = u
    /\ \/ job[q].op = "accept"
       \/ job[q].op = "delete" /\ l = "friends" /\ job[q].to = v

Excused(u, l, v) ==
    \/ <<u, l>> \in stale
    \/ \E n \in Elements(notices[u]) : Corrects(n, l, v)
    \/ \E f \in Fetches : Refetches(f, u, l)
    \/ \E q \in Requests : ActsOn(q, u, l, v)

Differs(u, l, v) == ~(v \in Shown(l, u) <=> v \in Listed(l, u))

AllExcused ==
    \A u \in Users, l \in Lists, v \in Users : Differs(u, l, v) => Excused(u, l, v)

(* A mark stays on a list that is wrong.                                   *)
LEMMA MarkStays ==
    ASSUME NEW ps, Mark(ps), NEW u, NEW l, NEW v, Differs(u, l, v)',
           <<u, l>> \in stale \cup ps
    PROVE  <<u, l>> \in stale'
BY DEF Mark, Differs

LEMMA ListedSame ==
    ASSUME UNCHANGED friend, NEW l, NEW u
    PROVE  Listed(l, u)' = Listed(l, u)
BY DEF Listed, FriendsOf, RequestsTo

(* Who is on other lists than before a commit.                             *)
LEMMA CommitLists ==
    ASSUME IInv, NEW q \in Requests, Commit(q),
           NEW u \in Users, NEW l \in Lists, NEW v \in Users,
           ~(v \in Listed(l, u) <=> v \in Listed(l, u)')
    PROVE  \/ /\ u = job[q].to
              /\ \/ job[q].op = "send" /\ l = "pending"
                 \/ job[q].op = "accept" /\ l = "friends"
                 \/ job[q].op = "delete" /\ l = "friends" /\ v = job[q].by
           \/ /\ u = job[q].by
              /\ \/ job[q].op = "accept"
                 \/ job[q].op = "delete" /\ l = "friends" /\ v = job[q].to
           \/ job[q].op = "delete" /\ l = "pending"
<1>1. u # v /\ <<u, v>> \in Rows /\ <<v, u>> \in Rows
    BY DEF Listed, FriendsOf, RequestsTo, Rows
<1>2. /\ l = "friends" => \/ ~(friend[<<u, v>>] = "accepted" <=> friend'[<<u, v>>] = "accepted")
                          \/ ~(friend[<<v, u>>] = "accepted" <=> friend'[<<v, u>>] = "accepted")
      /\ l = "pending" => ~(friend[<<v, u>>] = "pending" <=> friend'[<<v, u>>] = "pending")
    BY <1>1 DEF Listed, FriendsOf, RequestsTo
<1>3. l = "friends" \/ l = "pending"
    BY DEF Lists
<1>4. Sent(q) = <<job[q].by, job[q].to>> /\ Received(q) = <<job[q].to, job[q].by>>
    BY DEF Sent, Received, Reverse
<1>5. CASE job[q].op = "send"
    BY <1>1, <1>2, <1>3, <1>4, <1>5, CommitChanges
<1>6. CASE job[q].op = "accept"
    BY <1>1, <1>2, <1>3, <1>4, <1>6, CommitChanges
<1>7. CASE job[q].op = "delete"
    BY <1>1, <1>2, <1>3, <1>4, <1>7, CommitChanges
<1>8. QED
    BY <1>5, <1>6, <1>7, CommitChanges

(* The server takes no excuse away, ...                                    *)
LEMMA ServerKeepsExcuses ==
    ASSUME IInv, NoticesTyped, ServerStep,
           NEW u \in Users, NEW l \in Lists, NEW v \in Users,
           Excused(u, l, v), Differs(u, l, v)'
    PROVE  Excused(u, l, v)'
<1>1. /\ Next /\ UNCHANGED <<fetch, answered>>
      /\ \E ps : Mark(ps)
    BY DEF ServerStep
<1>2. CASE <<u, l>> \in stale
    BY <1>1, <1>2, MarkStays DEF Excused
<1>3. ASSUME NEW n \in Elements(notices[u]), Corrects(n, l, v)
      PROVE  Excused(u, l, v)'
    <2>1. n \in Elements(notices'[u])
        BY <1>1, <1>3, NoticesGrow
    <2>2. QED
        BY <1>3, <2>1 DEF Excused, Elements, Corrects
<1>4. ASSUME NEW f \in Fetches, Refetches(f, u, l)
      PROVE  Excused(u, l, v)'
    BY <1>1, <1>4 DEF Excused, Refetches
<1>5. ASSUME NEW q \in Requests, ActsOn(q, u, l, v)
      PROVE  Excused(u, l, v)'
    <2>1. pc'[q] = "ok" /\ job'[q] = job[q]
        BY <1>1, <1>5, OkStays DEF ActsOn
    <2>2. QED
        BY <1>1, <1>5, <2>1 DEF Excused, ActsOn
<1>6. QED
    BY <1>2, <1>3, <1>4, <1>5 DEF Excused

(* ... and a commit that makes a list wrong gives one.                     *)
LEMMA CommitExcuses ==
    ASSUME IInv, NoticesTyped, ListsTyped, Published, ServerStep,
           NEW q \in Requests, Commit(q),
           NEW u \in Users, NEW l \in Lists, NEW v \in Users,
           ~(v \in Listed(l, u) <=> v \in Listed(l, u)'), Differs(u, l, v)'
    PROVE  Excused(u, l, v)'
<1>1. /\ pc[q] = "commit" /\ pc'[q] = "ok" /\ job' = job /\ notices' = notices
      /\ q \notin answered' /\ job[q].op \in {"send", "accept", "delete"}
    BY CommitChanges DEF Commit, ServerStep, ListsTyped
<1>2. ASSUME <<u, l>> \in Untold(q)
      PROVE  Excused(u, l, v)'
    <2>1. PICK ps : Mark(ps) /\ Untold(q) \subseteq ps
        BY Zenon DEF ServerStep
    <2>2. QED
        BY <1>2, <2>1, MarkStays DEF Excused
<1>3. <<u, l>> \in Users \X Lists
    OBVIOUS
<1>4. CASE /\ u = job[q].to
           /\ \/ job[q].op = "send" /\ l = "pending"
              \/ job[q].op = "accept" /\ l = "friends"
              \/ job[q].op = "delete" /\ l = "friends" /\ v = job[q].by
    <2>1. CASE <<u, NoticeOf(q)>> \in heard
        <3>1. <<u, l>> \in Untold(q)
            BY <1>1, <1>3, <1>4, <2>1 DEF Untold
        <3>2. QED
            BY <1>2, <3>1
    <2>2. CASE NoticeOf(q) \in Elements(notices[u])
        <3>1. PICK n \in Elements(notices[u]) : n = NoticeOf(q)
            BY <2>2
        <3>2. Corrects(n, l, v)
            BY <1>4, <3>1 DEF Corrects, NoticeOf
        <3>3. Elements(notices[u])' = Elements(notices[u])
            BY <1>1 DEF Elements
        <3>4. QED
            BY <3>2, <3>3 DEF Excused
    <2>3. QED
        BY <1>1, <1>4, <2>1, <2>2 DEF Published
<1>5. CASE /\ u = job[q].by
           /\ \/ job[q].op = "accept"
              \/ job[q].op = "delete" /\ l = "friends" /\ v = job[q].to
    BY <1>1, <1>5 DEF Excused, ActsOn
<1>6. CASE job[q].op = "delete" /\ l = "pending"
    <2>1. <<u, l>> \in Untold(q)
        BY <1>1, <1>3, <1>6 DEF Untold
    <2>2. QED
        BY <1>2, <2>1
<1>7. QED
    BY <1>4, <1>5, <1>6, CommitLists

LEMMA ServerExcuses ==
    ASSUME IInv, NoticesTyped, ListsTyped, Published, AllExcused, ServerStep
    PROVE  AllExcused'
<1> SUFFICES ASSUME NEW u \in Users, NEW l \in Lists, NEW v \in Users, Differs(u, l, v)'
             PROVE  Excused(u, l, v)'
    BY Zenon DEF AllExcused
<1>1. Shown(l, u)' = Shown(l, u) /\ Next
    BY DEF ServerStep, Shown
<1>2. CASE Differs(u, l, v)
    BY <1>2, ServerKeepsExcuses DEF AllExcused
<1>3. CASE ~Differs(u, l, v)
    <2>1. ~(v \in Listed(l, u) <=> v \in Listed(l, u)')
        BY <1>1, <1>3 DEF Differs
    <2>2. friend' # friend
        BY <2>1, ListedSame
    <2>3. PICK q \in Requests : Commit(q)
        BY <1>1, <2>2, OnlyCommitWrites
    <2>4. QED
        BY <2>1, <2>3, CommitExcuses
<1>4. QED
    BY <1>2, <1>3
-----------------------------------------------------------------------------
(* An excuse that is neither used up nor about a list just set is kept.    *)
LEMMA ExcuseKept ==
    ASSUME NEW u \in Users, NEW l \in Lists, NEW v \in Users,
           UNCHANGED <<pc, job>>, NEW ps, Mark(ps), Differs(u, l, v)',
           Excused(u, l, v),
           \A n \in Elements(notices[u]) : Corrects(n, l, v) =>
              n \in Elements(notices'[u]) \/ Excused(u, l, v)',
           \A f \in Fetches : Refetches(f, u, l) =>
              fetch'[f] = fetch[f] \/ Excused(u, l, v)',
           \A q \in Requests : ActsOn(q, u, l, v) =>
              q \notin answered' \/ Excused(u, l, v)'
    PROVE  Excused(u, l, v)'
<1>1. CASE <<u, l>> \in stale
    BY <1>1, MarkStays DEF Excused
<1>2. ASSUME NEW n \in Elements(notices[u]), Corrects(n, l, v)
      PROVE  Excused(u, l, v)'
    BY <1>2 DEF Excused, Elements, Corrects
<1>3. ASSUME NEW f \in Fetches, Refetches(f, u, l)
      PROVE  Excused(u, l, v)'
    BY <1>3 DEF Excused, Refetches
<1>4. ASSUME NEW q \in Requests, ActsOn(q, u, l, v)
      PROVE  Excused(u, l, v)'
    BY <1>4 DEF Excused, ActsOn
<1>5. QED
    BY <1>1, <1>2, <1>3, <1>4 DEF Excused

(* The new fetch is an excuse, and the others in progress stay.            *)
LEMMA StartFetchExcuses ==
    ASSUME ListsTyped, NEW x \in Users, NEW lists \in SUBSET Lists,
           StartFetch(x, lists)
    PROVE  /\ \A l \in lists : \A v : Excused(x, l, v)'
           /\ \A u, l : \A f \in Fetches : Refetches(f, u, l) => fetch'[f] = fetch[f]
<1>1. PICK f \in Fetches : /\ fetch[f] = Idle /\ fetch'[f] # Idle
                           /\ fetch'[f].by = x /\ fetch'[f].lists = lists
                           /\ \A g \in Fetches \ {f} : fetch'[g] = fetch[g]
    BY StartFetchType
<1>2. QED
    BY <1>1 DEF Excused, Refetches

(* Taking a friend off corrects that one name, or is marked.               *)
LEMMA RemoveExcuses ==
    ASSUME ListsTyped, NEW x \in Users, NEW y, Remove(x, y),
           UNCHANGED <<friend, pending>>,
           NEW u \in Users, NEW l \in Lists, NEW v \in Users, Differs(u, l, v)'
    PROVE  \/ Excused(u, l, v)'
           \/ Differs(u, l, v) /\ ~(u = x /\ l = "friends" /\ v = y)
<1>1. Listed(l, u)' = Listed(l, u)
    BY ListedSame
<1>2. CASE u = x /\ l = "friends" /\ v = y
    <2>1. v \notin Shown(l, u)'
        <3>1. friends'[x] = friends[x] \ {y}
            BY RemoveType
        <3>2. QED
            BY <1>2, <3>1 DEF Shown
    <2>2. v \in FriendsOf(u)
        BY <1>1, <1>2, <2>1 DEF Differs, Listed
    <2>3. PICK ps : Mark(ps) /\ <<u, l>> \in ps
        BY <1>2, <2>2 DEF Remove
    <2>4. QED
        BY <2>3, MarkStays DEF Excused
<1>3. CASE ~(u = x /\ l = "friends" /\ v = y)
    <2>1. v \in Shown(l, u)' <=> v \in Shown(l, u)
        <3>1. friends'[x] = friends[x] \ {y} /\ \A w \in Users \ {x} : friends'[w] = friends[w]
            BY RemoveType
        <3>2. QED
            BY <1>3, <3>1 DEF Shown, Lists
    <2>2. QED
        BY <1>1, <1>3, <2>1 DEF Differs
<1>4. QED
    BY <1>2, <1>3

LEMMA NotifiedExcuses ==
    ASSUME NoticesTyped, ListsTyped, AllExcused, NEW x \in Users, Notified(x)
    PROVE  AllExcused'
<1> SUFFICES ASSUME NEW u \in Users, NEW l \in Lists, NEW v \in Users, Differs(u, l, v)'
             PROVE  Excused(u, l, v)'
    BY Zenon DEF AllExcused
<1>1. UNCHANGED <<friend, pc, job, pending, answered>>
    BY DEF Notified, dbVars
<1>2. PICK n : n = Head(notices[x])
    OBVIOUS
<1>3. \A m \in Elements(notices[u]) : m \in Elements(notices'[u]) \/ (u = x /\ m = n)
    <2>1. notices[x] # <<>> /\ notices' = [notices EXCEPT ![x] = Tail(notices[x])]
        BY DEF Notified
    <2>2. notices[x] \in Seq(Notice)
        BY DEF NoticesTyped
    <2>3. CASE u = x
        <3>1. notices'[u] = Tail(notices[x])
            BY <2>1, <2>3 DEF NoticesTyped
        <3>2. QED
            BY <1>2, <2>1, <2>2, <2>3, <3>1, TailElements
    <2>4. CASE u # x
        BY <2>1, <2>4 DEF NoticesTyped
    <2>5. QED
        BY <2>3, <2>4
<1>4. ASSUME UNCHANGED friends, NEW lists \in SUBSET Lists, StartFetch(x, lists),
             \A k, w : Corrects(n, k, w) => k \in lists, \E ps : Mark(ps)
      PROVE  Excused(u, l, v)'
    <2>1. Differs(u, l, v)
        BY <1>1, <1>4, ListedSame DEF Differs, Shown
    <2>2. Excused(u, l, v)
        BY <2>1 DEF AllExcused
    <2>3. /\ \A k \in lists : \A w : Excused(x, k, w)'
          /\ \A f \in Fetches : Refetches(f, u, l) => fetch'[f] = fetch[f]
        BY <1>4, StartFetchExcuses
    <2>4. \A m \in Elements(notices[u]) : Corrects(m, l, v) =>
              m \in Elements(notices'[u]) \/ Excused(u, l, v)'
        BY <1>3, <1>4, <2>3
    <2>5. \A q \in Requests : ActsOn(q, u, l, v) => q \notin answered'
        BY <1>1 DEF ActsOn
    <2>6. QED
        BY <1>1, <1>4, <2>2, <2>3, <2>4, <2>5, ExcuseKept
<1>5. CASE n.type = "delete" /\ Remove(x, n.from) /\ UNCHANGED fetch
    <2>1. PICK y : y = n.from
        OBVIOUS
    <2>2. CASE Differs(u, l, v) /\ ~(u = x /\ l = "friends" /\ v = y)
        <3>1. Excused(u, l, v) /\ \E ps : Mark(ps)
            BY <1>5, <2>2 DEF AllExcused, Remove
        <3>2. \A m \in Elements(notices[u]) : Corrects(m, l, v) =>
                  m \in Elements(notices'[u])
            BY <1>3, <1>5, <2>1, <2>2 DEF Corrects
        <3>3. \A q \in Requests : ActsOn(q, u, l, v) => q \notin answered'
            BY <1>1 DEF ActsOn
        <3>4. QED
            BY <1>1, <1>5, <3>1, <3>2, <3>3, ExcuseKept
    <2>3. Remove(x, y)
        BY <1>5, <2>1
    <2>4. QED
        BY <1>1, <2>2, <2>3, RemoveExcuses
<1>6. CASE n.type = "request" /\ UNCHANGED friends /\ StartFetch(x, {"pending"}) /\ Mark({})
    <2>1. {"pending"} \in SUBSET Lists /\ \A k, w : Corrects(n, k, w) => k \in {"pending"}
        BY <1>6 DEF Corrects, Lists
    <2>2. PICK lists \in SUBSET Lists : lists = {"pending"}
        BY <2>1
    <2>3. StartFetch(x, lists) /\ \A k, w : Corrects(n, k, w) => k \in lists
        BY <1>6, <2>1, <2>2
    <2>4. QED
        BY <1>4, <1>6, <2>3
<1>7. CASE n.type = "accept" /\ UNCHANGED friends /\ StartFetch(x, {"friends"}) /\ Mark({})
    <2>1. {"friends"} \in SUBSET Lists /\ \A k, w : Corrects(n, k, w) => k \in {"friends"}
        BY <1>7 DEF Corrects, Lists
    <2>2. PICK lists \in SUBSET Lists : lists = {"friends"}
        BY <2>1
    <2>3. StartFetch(x, lists) /\ \A k, w : Corrects(n, k, w) => k \in lists
        BY <1>7, <2>1, <2>2
    <2>4. QED
        BY <1>4, <1>7, <2>3
<1>8. QED
    BY <1>2, <1>5, <1>6, <1>7 DEF Notified

LEMMA AnsweredExcuses ==
    ASSUME IInv, ListsTyped, AllExcused, NEW q \in Requests, Answered(q)
    PROVE  AllExcused'
<1> SUFFICES ASSUME NEW u \in Users, NEW l \in Lists, NEW v \in Users, Differs(u, l, v)'
             PROVE  Excused(u, l, v)'
    BY Zenon DEF AllExcused
<1>1. /\ UNCHANGED <<friend, pc, job, pending, notices>> /\ pc[q] = "ok"
      /\ answered' = answered \cup {q}
    BY DEF Answered, dbVars
<1>2. PICK x \in Users : x = job[q].by
    BY <1>1, JobFields DEF IInv, Local, Kind
<1>3. Elements(notices'[u]) = Elements(notices[u])
    BY <1>1
<1>4. \A y \in Requests : y # q /\ ActsOn(y, u, l, v) => y \notin answered'
    BY <1>1 DEF ActsOn
<1>5. CASE job[q].op = "accept" /\ UNCHANGED friends
           /\ StartFetch(job[q].by, {"friends", "pending"}) /\ Mark({})
    <2>1. PICK lists \in SUBSET Lists : lists = Lists
        OBVIOUS
    <2>2. StartFetch(x, lists)
        BY <1>2, <1>5, <2>1 DEF Lists
    <2>3. /\ \A k \in lists : \A w : Excused(x, k, w)'
          /\ \A f \in Fetches : Refetches(f, u, l) => fetch'[f] = fetch[f]
        BY <2>2, StartFetchExcuses
    <2>4. Differs(u, l, v)
        BY <1>1, <1>5, ListedSame DEF Differs, Shown
    <2>5. Excused(u, l, v) /\ \E ps : Mark(ps)
        BY <1>5, <2>4 DEF AllExcused
    <2>6. ActsOn(q, u, l, v) => Excused(u, l, v)'
        BY <1>2, <2>1, <2>3 DEF ActsOn
    <2>7. QED
        BY <1>1, <1>3, <1>4, <2>3, <2>5, <2>6, ExcuseKept
<1>6. CASE job[q].op = "delete" /\ Remove(job[q].by, job[q].to) /\ UNCHANGED fetch
    <2>1. PICK y : y = job[q].to
        OBVIOUS
    <2>2. Remove(x, y)
        BY <1>2, <1>6, <2>1
    <2>3. CASE Differs(u, l, v) /\ ~(u = x /\ l = "friends" /\ v = y)
        <3>1. Excused(u, l, v) /\ \E ps : Mark(ps)
            BY <1>6, <2>3 DEF AllExcused, Remove
        <3>2. ~ActsOn(q, u, l, v)
            BY <1>2, <1>6, <2>1, <2>3 DEF ActsOn
        <3>3. QED
            BY <1>1, <1>3, <1>4, <1>6, <3>1, <3>2, ExcuseKept
    <2>4. QED
        BY <1>1, <2>2, <2>3, RemoveExcuses
<1>7. QED
    BY <1>5, <1>6 DEF Answered

(* What is lost on the way marks the lists it was about.                   *)
LEMMA LossExcuses ==
    ASSUME IInv, NoticesTyped, ListsTyped, AllExcused, NEW x \in Users,
           \/ NoticesLost(x)
           \/ \E q \in Requests : AnswerLost(q) /\ x = job[q].by
           \/ \E f \in Fetches : FetchFails(f) /\ x = fetch[f].by
    PROVE  AllExcused'
<1> SUFFICES ASSUME NEW u \in Users, NEW l \in Lists, NEW v \in Users, Differs(u, l, v)'
             PROVE  Excused(u, l, v)'
    BY Zenon DEF AllExcused
<1>1. UNCHANGED <<friend, pc, job, friends, pending>>
    BY DEF NoticesLost, AnswerLost, FetchFails, vars, dbVars
<1>2. PICK ps : Mark(ps) /\ ps = {x} \X Lists
    BY DEF NoticesLost, AnswerLost, FetchFails
<1>3. CASE u = x
    <2>1. <<u, l>> \in ps
        BY <1>2, <1>3
    <2>2. QED
        BY <1>2, <2>1, MarkStays DEF Excused
<1>4. CASE u # x
    <2>1. Excused(u, l, v)
        BY <1>1, ListedSame DEF AllExcused, Differs, Shown
    <2>2. Elements(notices'[u]) = Elements(notices[u])
        BY <1>4 DEF NoticesLost, AnswerLost, FetchFails, vars, NoticesTyped
    <2>3. \A f \in Fetches : Refetches(f, u, l) => fetch'[f] = fetch[f]
        BY <1>4 DEF NoticesLost, AnswerLost, FetchFails, Refetches, ListsTyped
    <2>4. \A q \in Requests : ActsOn(q, u, l, v) => q \notin answered'
        BY <1>4 DEF NoticesLost, AnswerLost, FetchFails, ActsOn
    <2>5. QED
        BY <1>1, <1>2, <2>1, <2>2, <2>3, <2>4, ExcuseKept
<1>5. QED
    BY <1>3, <1>4

LEMMA ReadExcuses ==
    ASSUME ListsTyped, AllExcused, NEW g \in Fetches, NEW k \in Lists, Read(g, k)
    PROVE  AllExcused'
<1>1. /\ UNCHANGED <<friend, pc, job, notices, friends, pending, answered, stale>>
      /\ fetch[g] # Idle /\ fetch'[g] # Idle
      /\ fetch'[g].by = fetch[g].by /\ fetch'[g].lists = fetch[g].lists
      /\ \A f \in Fetches \ {g} : fetch'[f] = fetch[f]
    BY ReadType DEF Read, vars, dbVars
<1> SUFFICES ASSUME NEW u \in Users, NEW l \in Lists, NEW v \in Users, Differs(u, l, v)'
             PROVE  Excused(u, l, v)'
    BY Zenon DEF AllExcused
<1>2. Excused(u, l, v)
    BY <1>1, ListedSame DEF AllExcused, Differs, Shown
<1>3. \A f \in Fetches : Refetches(f, u, l) => Refetches(f, u, l)'
    BY <1>1 DEF Refetches
<1>4. Elements(notices[u])' = Elements(notices[u])
    BY <1>1 DEF Elements
<1>5. \A q \in Requests : ActsOn(q, u, l, v) => ActsOn(q, u, l, v)'
    BY <1>1 DEF ActsOn
<1>6. QED
    BY <1>1, <1>2, <1>3, <1>4, <1>5 DEF Excused

LEMMA ArriveExcuses ==
    ASSUME ListsTyped, AllExcused, NEW g \in Fetches, Arrive(g)
    PROVE  AllExcused'
<1> SUFFICES ASSUME NEW u \in Users, NEW l \in Lists, NEW v \in Users, Differs(u, l, v)'
             PROVE  Excused(u, l, v)'
    BY Zenon DEF AllExcused
<1>1. UNCHANGED <<friend, pc, job, notices, answered>> /\ fetch' = [fetch EXCEPT ![g] = Idle]
    BY DEF Arrive, vars, dbVars
<1>2. fetch[g].by \in Users /\ fetch[g].lists \subseteq Lists
    BY ArriveType
<1>3. PICK ps : Mark(ps) /\ ps = {fetch[g].by} \X fetch[g].lists
    BY DEF Arrive
<1>4. CASE u = fetch[g].by /\ l \in fetch[g].lists
    <2>1. <<u, l>> \in ps
        BY <1>3, <1>4
    <2>2. QED
        BY <1>3, <2>1, MarkStays DEF Excused
<1>5. CASE ~(u = fetch[g].by /\ l \in fetch[g].lists)
    <2>1. /\ l = "friends" => friends'[u] = friends[u]
          /\ l = "pending" => pending'[u] = pending[u]
        BY <1>5 DEF Arrive, ListsTyped
    <2>2. Shown(l, u)' = Shown(l, u)
        BY <2>1 DEF Shown, Lists
    <2>3. Excused(u, l, v)
        BY <1>1, <2>2, ListedSame DEF AllExcused, Differs
    <2>4. Elements(notices'[u]) = Elements(notices[u])
        BY <1>1
    <2>5. \A f \in Fetches : Refetches(f, u, l) => fetch'[f] = fetch[f]
        BY <1>1, <1>5 DEF Refetches, ListsTyped
    <2>6. \A q \in Requests : ActsOn(q, u, l, v) => q \notin answered'
        BY <1>1 DEF ActsOn
    <2>7. QED
        BY <1>1, <1>3, <2>3, <2>4, <2>5, <2>6, ExcuseKept
<1>6. QED
    BY <1>4, <1>5

LEMMA ExcusesStep ==
    ASSUME IInv, NoticesTyped, ListsTyped, Published, AllExcused, [ListsNext]_allVars
    PROVE  AllExcused'
<1>1. ASSUME NEW q \in Requests, AnswerLost(q) PROVE AllExcused'
    <2>1. PICK x \in Users : x = job[q].by
        BY <1>1, JobFields DEF AnswerLost, IInv, Local, Kind
    <2>2. QED
        BY <1>1, <2>1, LossExcuses
<1>2. ASSUME NEW f \in Fetches, FetchFails(f) PROVE AllExcused'
    <2>1. PICK x \in Users : x = fetch[f].by
        BY <1>2 DEF FetchFails, ListsTyped, Fetching
    <2>2. QED
        BY <1>2, <2>1, LossExcuses
<1>3. CASE UNCHANGED allVars
    <2>1. UNCHANGED <<friend, pc, job, notices, friends, pending, fetch, answered, stale>>
        BY <1>3 DEF allVars, listVars, vars, dbVars
    <2>2. QED
        BY <2>1 DEF AllExcused, Differs, Shown, Listed, FriendsOf, RequestsTo, Excused,
                    Elements, Refetches, ActsOn
<1>4. QED
    BY <1>1, <1>2, <1>3, ServerExcuses, NotifiedExcuses, LossExcuses, AnsweredExcuses,
       ReadExcuses, ArriveExcuses DEF ListsNext

(* With nothing in progress each list a user is shown is the one of the    *)
(* database, or is wrong for a reason that has a name.                     *)
THEOREM ListsCorrect == ListsSpec => []ListsRight
<1> DEFINE LInv == NoticesTyped /\ ListsTyped /\ Published /\ AllExcused
<1>1. ListsInit => LInv
    <2> SUFFICES ASSUME ListsInit PROVE LInv
        OBVIOUS
    <2>1. NoticesTyped /\ Published
        BY DEF ListsInit, Init, NoticesTyped, Published
    <2>2. ListsTyped
        <3>1. \A u \in Users : FriendsOf(u) \in SUBSET Users /\ RequestsTo(u) \in SUBSET Users
            BY DEF FriendsOf, RequestsTo
        <3>2. QED
            BY <3>1 DEF ListsInit, ListsTyped
    <2>3. AllExcused
        BY DEF ListsInit, AllExcused, Differs, Shown, Listed
    <2>4. QED
        BY <2>1, <2>2, <2>3
<1>2. IInv /\ LInv /\ [ListsNext]_allVars => LInv'
    BY ListsNotices, ListsTypedStep, PublishedStep, ExcusesStep
<1>3. IInv /\ LInv => ListsRight
    <2> SUFFICES ASSUME IInv, LInv, AllQuiet, NEW p \in Wrong
                 PROVE  p \in stale
        BY DEF ListsRight
    <2>1. PICK u \in Users, l \in Lists : p = <<u, l>> /\ Shown(l, u) # Listed(l, u)
        BY DEF Wrong
    <2>2. Shown(l, u) \subseteq Users /\ Listed(l, u) \subseteq Users
        BY DEF Shown, Listed, FriendsOf, RequestsTo, ListsTyped
    <2>3. PICK v \in Users : Differs(u, l, v)
        BY <2>1, <2>2 DEF Differs
    <2>4. Excused(u, l, v)
        BY <2>3 DEF AllExcused
    <2>5. Elements(notices[u]) = {}
        BY DEF AllQuiet, Elements
    <2>6. \A f \in Fetches : ~Refetches(f, u, l)
        BY DEF AllQuiet, Refetches
    <2>7. \A q \in Requests : ~ActsOn(q, u, l, v)
        BY DEF AllQuiet, ActsOn
    <2>8. QED
        BY <2>1, <2>4, <2>5, <2>6, <2>7 DEF Excused
<1> HIDE DEF LInv
<1>4. QED
    BY <1>1, <1>2, <1>3, AlwaysIInv, PTL DEF ListsSpec
=============================================================================
