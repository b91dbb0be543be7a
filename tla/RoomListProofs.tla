---------------------------- MODULE RoomListProofs ----------------------------
(* Proofs about RoomList, for any rooms and bounds: its types, that the     *)
(* lists come right, what the screen shows, and who is marked as invited.   *)
EXTENDS RoomList, TLAPS

LEMMA JobIsNotIdle ==
    ASSUME NEW j \in Job PROVE j # Idle
<1>1. j.kind \in {"create", "dm", "leave", "invite"}
    BY DEF Job
<1>2. Idle.kind = "idle"
    BY DEF Idle
<1>3. QED
    BY <1>1, <1>2

LEMMA GetIsNotIdle ==
    ASSUME NEW g \in Get PROVE g # Idle
<1>1. DOMAIN g = {"list", "for", "page", "dirty", "at"}
    BY DEF Get
<1>2. DOMAIN Idle = {"kind"}
    BY DEF Idle
<1>3. QED
    BY <1>1, <1>2

LEMMA ListOfType ==
    ASSUME NEW r \in Rooms
    PROVE  /\ ListOf(r) \in List
           /\ \A list \in List : r \in Of(list) <=> list = ListOf(r)
           /\ \A list \in List : Of(list) \subseteq Rooms
BY RoomListAssumption DEF ListOf, List, Of

(* A GET of a list that was just sent.                                     *)
LEMMA FetchType ==
    ASSUME NEW list \in List, NEW for \in Jobs \cup {None}
    PROVE  /\ Fetch(list, for) \in Get /\ Fetch(list, for) # Idle
           /\ Fetch(list, for).list = list /\ Fetch(list, for).for = for
           /\ Fetch(list, for).at = "sent" /\ Fetch(list, for).page = {}
<1>1. Fetch(list, for) \in Get
    BY DEF Fetch, Get
<1>2. QED
    BY <1>1, GetIsNotIdle DEF Fetch

GetsTyped == get \in [Gets -> Get \cup {Idle}]
JobsTyped == job \in [Jobs -> Job \cup {Idle}]

LEMMA AskType ==
    ASSUME GetsTyped, NEW list \in List, NEW for \in Jobs \cup {None}, Ask(list, for)
    PROVE  /\ GetsTyped'
           /\ \E g \in Gets : /\ get[g] = Idle /\ get'[g] = Fetch(list, for)
                              /\ \A h \in Gets \ {g} : get'[h] = get[h]
<1>1. PICK g \in Gets : get[g] = Idle /\ get' = [get EXCEPT ![g] = Fetch(list, for)]
    BY DEF Ask, Free
<1>2. QED
    BY <1>1, FetchType DEF GetsTyped

LEMMA AskBothType ==
    ASSUME GetsTyped, AskBoth
    PROVE  /\ GetsTyped'
           /\ \E g, h \in Gets : /\ get[g] = Idle /\ get'[g] = Fetch("rooms", None)
                                 /\ get[h] = Idle /\ get'[h] = Fetch("dmRooms", None)
                                 /\ \A k \in Gets \ {g, h} : get'[k] = get[k]
<1>1. PICK g, h \in Gets :
         /\ get[g] = Idle /\ get[h] = Idle /\ g # h
         /\ get' = [get EXCEPT ![g] = Fetch("rooms", None), ![h] = Fetch("dmRooms", None)]
    BY DEF AskBoth, Free
<1>2. {"rooms", "dmRooms"} \subseteq List /\ None \in Jobs \cup {None}
    BY DEF List
<1>3. Fetch("rooms", None) \in Get /\ Fetch("dmRooms", None) \in Get
    BY <1>2, FetchType
<1>4. QED
    BY <1>1, <1>3 DEF GetsTyped

(* What a change of the membership of r does to the GETs.                  *)
LEMMA ChangesType ==
    ASSUME GetsTyped, NEW r \in Rooms, Changes(r)
    PROVE  /\ GetsTyped'
           /\ \A g \in Gets :
                 /\ get[g] = Idle => get'[g] = Idle
                 /\ get[g] # Idle =>
                       /\ get'[g] # Idle /\ get'[g].list = get[g].list
                       /\ get'[g].page = get[g].page /\ get'[g].at = get[g].at
                       /\ get'[g].for = get[g].for
                       /\ get[g].dirty \subseteq get'[g].dirty
                       /\ get[g].at = "read" /\ get[g].list = ListOf(r) =>
                             r \in get'[g].dirty
<1>1. /\ DOMAIN get' = Gets
      /\ \A g \in Gets : get'[g] =
            IF get[g] # Idle /\ get[g].at = "read" /\ get[g].list = ListOf(r)
            THEN [get[g] EXCEPT !.dirty = @ \cup {r}] ELSE get[g]
    BY DEF Changes
<1>2. ASSUME NEW g \in Gets
      PROVE  /\ get'[g] \in Get \cup {Idle}
             /\ get[g] = Idle => get'[g] = Idle
             /\ get[g] # Idle =>
                   /\ get'[g] # Idle /\ get'[g].list = get[g].list
                   /\ get'[g].page = get[g].page /\ get'[g].at = get[g].at
                   /\ get'[g].for = get[g].for
                   /\ get[g].dirty \subseteq get'[g].dirty
                   /\ get[g].at = "read" /\ get[g].list = ListOf(r) =>
                         r \in get'[g].dirty
    <2>1. CASE get[g] # Idle /\ get[g].at = "read" /\ get[g].list = ListOf(r)
        <3>1. PICK h : h = [get[g] EXCEPT !.dirty = @ \cup {r}]
            OBVIOUS
        <3>2. get[g] \in Get
            BY <2>1 DEF GetsTyped
        <3>3. /\ h \in Get /\ h.list = get[g].list /\ h.page = get[g].page
              /\ h.at = get[g].at /\ h.for = get[g].for
              /\ h.dirty = get[g].dirty \cup {r}
            BY <3>1, <3>2 DEF Get
        <3>4. get'[g] = h /\ h # Idle
            BY <1>1, <2>1, <3>1, <3>3, GetIsNotIdle
        <3>5. QED
            BY <2>1, <3>3, <3>4
    <2>2. CASE ~(get[g] # Idle /\ get[g].at = "read" /\ get[g].list = ListOf(r))
        <3>1. get'[g] = get[g]
            BY <1>1, <2>2
        <3>2. QED
            BY <2>2, <3>1 DEF GetsTyped
    <2>3. QED
        BY <2>1, <2>2
<1>3. get' = [g \in Gets |-> get'[g]]
    BY DEF Changes
<1>4. QED
    BY <1>2, <1>3 DEF GetsTyped

(* A new request.                                                          *)
LEMMA NewJobType ==
    ASSUME JobsTyped, NEW kind \in {"create", "dm", "leave", "invite"},
           NEW r \in Rooms \cup {None}, NewJob(kind, r)
    PROVE  /\ JobsTyped' /\ acts < MaxActs /\ acts' = acts + 1
           /\ \E j \in Jobs :
                 /\ job[j] = Idle /\ job'[j] # Idle
                 /\ job'[j].kind = kind /\ job'[j].room = r
                 /\ job'[j].at = "sent" /\ job'[j].mine
                 /\ \A i \in Jobs \ {j} : job'[i] = job[i]
<1>1. PICK j \in Jobs :
         /\ job[j] = Idle
         /\ job' = [job EXCEPT ![j] = [kind |-> kind, room |-> r, at |-> "sent",
                                       mine |-> TRUE]]
    BY DEF NewJob
<1>2. PICK n : n = [kind |-> kind, room |-> r, at |-> "sent", mine |-> TRUE]
    OBVIOUS
<1>3. n \in Job /\ n.kind = kind /\ n.room = r /\ n.at = "sent" /\ n.mine
    BY <1>2 DEF Job
<1>4. n # Idle
    BY <1>3, JobIsNotIdle
<1>5. QED
    BY <1>1, <1>2, <1>3, <1>4 DEF JobsTyped, NewJob

LEMMA UnmountType ==
    ASSUME JobsTyped, NEW kinds
    PROVE  /\ Unmount(kinds) \in [Jobs -> Job \cup {Idle}]
           /\ \A j \in Jobs :
                 /\ job[j] = Idle => Unmount(kinds)[j] = Idle
                 /\ job[j] # Idle =>
                       /\ Unmount(kinds)[j] # Idle
                       /\ Unmount(kinds)[j].kind = job[j].kind
                       /\ Unmount(kinds)[j].room = job[j].room
                       /\ Unmount(kinds)[j].at = job[j].at
                       /\ Unmount(kinds)[j].mine => job[j].mine /\ job[j].kind \notin kinds
<1>1. ASSUME NEW j \in Jobs
      PROVE  /\ Unmount(kinds)[j] \in Job \cup {Idle}
             /\ job[j] = Idle => Unmount(kinds)[j] = Idle
             /\ job[j] # Idle =>
                   /\ Unmount(kinds)[j] # Idle
                   /\ Unmount(kinds)[j].kind = job[j].kind
                   /\ Unmount(kinds)[j].room = job[j].room
                   /\ Unmount(kinds)[j].at = job[j].at
                   /\ Unmount(kinds)[j].mine => job[j].mine /\ job[j].kind \notin kinds
    <2>1. CASE job[j] # Idle /\ job[j].kind \in kinds
        <3>1. PICK n : n = [job[j] EXCEPT !.mine = FALSE]
            OBVIOUS
        <3>2. job[j] \in Job
            BY <2>1 DEF JobsTyped
        <3>3. /\ n \in Job /\ n.kind = job[j].kind /\ n.room = job[j].room
              /\ n.at = job[j].at /\ n.mine = FALSE
            BY <3>1, <3>2 DEF Job
        <3>4. Unmount(kinds)[j] = n /\ n # Idle
            BY <2>1, <3>1, <3>3, JobIsNotIdle DEF Unmount
        <3>5. QED
            BY <2>1, <3>3, <3>4
    <2>2. CASE ~(job[j] # Idle /\ job[j].kind \in kinds)
        <3>1. Unmount(kinds)[j] = job[j]
            BY <2>2 DEF Unmount
        <3>2. QED
            BY <2>2, <3>1 DEF JobsTyped
    <2>3. QED
        BY <2>1, <2>2
<1>2. Unmount(kinds) = [j \in Jobs |-> Unmount(kinds)[j]]
    BY DEF Unmount
<1>3. QED
    BY <1>1, <1>2

(* A request that was served.                                              *)
LEMMA DoneType ==
    ASSUME JobsTyped, NEW j \in Jobs, job[j] # Idle, NEW r \in Rooms, Done(j, r)
    PROVE  /\ JobsTyped'
           /\ job'[j] # Idle /\ job'[j].kind = job[j].kind /\ job'[j].room = r
           /\ job'[j].at = "done" /\ job'[j].mine = job[j].mine
           /\ \A i \in Jobs \ {j} : job'[i] = job[i]
<1>1. job[j] \in Job
    BY DEF JobsTyped
<1>2. PICK n : n = [job[j] EXCEPT !.room = r, !.at = "done"]
    OBVIOUS
<1>3. /\ n \in Job /\ n.kind = job[j].kind /\ n.room = r
      /\ n.at = "done" /\ n.mine = job[j].mine
    BY <1>1, <1>2 DEF Job
<1>4. job' = [job EXCEPT ![j] = n]
    BY <1>2 DEF Done, JobsTyped
<1>5. QED
    BY <1>3, <1>4, JobIsNotIdle DEF JobsTyped
-----------------------------------------------------------------------------
(* A request knows its room once it was served, and a GET that belongs to  *)
(* one is the only one it waits for.                                       *)
Placed ==
    \A j \in Jobs : job[j] # Idle =>
        /\ job[j].room \in Rooms \/ (job[j].kind = "create" /\ job[j].at = "sent")
        /\ job[j].at = "fetch" => job[j].kind \in {"create", "dm"}

Waited ==
    \A g \in Gets : get[g] # Idle /\ get[g].for # None =>
        /\ job[get[g].for] # Idle /\ job[get[g].for].at = "fetch"
        /\ \A h \in Gets \ {g} : get[h] # Idle => get[h].for # get[g].for

(* The invite modal is one of the room on the screen.                      *)
Framed == (inviting => active # None) /\ (invited => inviting)

Unborn == \A r \in Rooms \ exists : in[r] = {}

Base == TypeOK /\ Placed /\ Waited /\ Framed /\ Unborn

LEMMA ShowType ==
    ASSUME TypeOK, NEW r \in Rooms \cup {None}, Show(r)
    PROVE  /\ active' \in Rooms \cup {None}
           /\ inviting' \in BOOLEAN /\ invited' \in BOOLEAN /\ moved' \in BOOLEAN
           /\ gone' \subseteq Rooms \cup {Other}
<1>1. active' = r /\ gone' = gone \cup ({r} \ (Mine \cup {None}))
    BY DEF Show
<1>2. inviting' \in BOOLEAN /\ invited' \in BOOLEAN /\ moved' \in BOOLEAN
    BY Zenon DEF Show
<1>3. QED
    BY <1>1, <1>2 DEF TypeOK

(* The parts of TypeOK no action but a few can disturb.                    *)
Others ==
    /\ exists \subseteq Rooms /\ in \in [Rooms -> SUBSET {Me, Other}]
    /\ coming \subseteq Rooms /\ mobile \in BOOLEAN
    /\ link \in {"down", "accepted", "up"} /\ notices \in Seq(Rooms)
    /\ acts \in 0..MaxActs /\ others \in 0..MaxOthers /\ drops \in 0..MaxDrops
Seen ==
    /\ listed \subseteq Rooms /\ active \in Rooms \cup {None}
    /\ modal \in BOOLEAN /\ loading \in BOOLEAN
    /\ inviting \in BOOLEAN /\ invited \in BOOLEAN /\ moved \in BOOLEAN
    /\ crossed \subseteq Rooms /\ gone \subseteq Rooms \cup {Other}

LEMMA TypeParts ==
    /\ TypeOK <=> Others /\ Seen /\ JobsTyped /\ GetsTyped
    /\ TypeOK' <=> Others' /\ Seen' /\ JobsTyped' /\ GetsTyped'
BY DEF TypeOK, Others, Seen, JobsTyped, GetsTyped

(* What a user does.                                                       *)
LEMMA UserType ==
    ASSUME Base,
           \/ \E r \in Rooms : SelectRoom(r) \/ LeaveRoom(r)
           \/ Back \/ OpenModal \/ CloseModal \/ HandleCreateRoom \/ HandleCreateDM
           \/ OpenInvite \/ CloseInvite \/ HandleInvite
    PROVE  TypeOK'
<1>1. TypeOK /\ Others /\ Seen /\ JobsTyped /\ GetsTyped
    BY TypeParts DEF Base
<1>2. acts < MaxActs => acts + 1 \in 0..MaxActs
    BY <1>1, RoomListAssumption DEF Others
<1>3. ASSUME NEW r \in Rooms, SelectRoom(r) PROVE TypeOK'
    <2>1. Seen'
        BY <1>1, <1>3, ShowType DEF SelectRoom, Seen
    <2>2. Others' /\ JobsTyped' /\ GetsTyped'
        BY <1>1, <1>2, <1>3 DEF SelectRoom, Others, JobsTyped, GetsTyped, serverVars, linkVars
    <2>3. QED
        BY <2>1, <2>2, TypeParts
<1>4. ASSUME Back PROVE TypeOK'
    <2>1. Seen'
        BY <1>1, <1>4, ShowType DEF Back, Seen
    <2>2. Others' /\ JobsTyped'
        BY <1>1, <1>4 DEF Back, Others, JobsTyped, serverVars, linkVars, counters
    <2>3. GetsTyped'
        BY <1>1, <1>4, AskBothType DEF Back
    <2>4. QED
        BY <2>1, <2>2, <2>3, TypeParts
<1>5. ASSUME OpenModal \/ OpenInvite PROVE TypeOK'
    <2>1. Seen'
        BY <1>1, <1>5 DEF OpenModal, OpenInvite, Seen
    <2>2. Others' /\ JobsTyped' /\ GetsTyped'
        BY <1>1, <1>5 DEF OpenModal, OpenInvite, Others, JobsTyped, GetsTyped, serverVars,
                          linkVars, counters
    <2>3. QED
        BY <2>1, <2>2, TypeParts
<1>6. ASSUME CloseModal \/ CloseInvite PROVE TypeOK'
    <2>1. Seen'
        BY <1>1, <1>6 DEF CloseModal, CloseInvite, Seen
    <2>2. Others' /\ GetsTyped'
        BY <1>1, <1>6 DEF CloseModal, CloseInvite, Others, GetsTyped, serverVars, linkVars,
                          counters
    <2>3. JobsTyped'
        BY <1>1, <1>6, UnmountType DEF CloseModal, CloseInvite, JobsTyped
    <2>4. QED
        BY <2>1, <2>2, <2>3, TypeParts
<1>7. ASSUME NEW kind \in {"create", "dm", "leave", "invite"}, NEW r \in Rooms \cup {None},
             NewJob(kind, r), loading' \in BOOLEAN,
             UNCHANGED <<serverVars, mobile, listed, active, modal, inviting, invited,
                         linkVars, get, others, drops, crossed, moved, gone>>
      PROVE  TypeOK'
    <2>1. Seen' /\ GetsTyped'
        BY <1>1, <1>7 DEF Seen, GetsTyped
    <2>2. JobsTyped' /\ acts < MaxActs /\ acts' = acts + 1
        BY <1>1, <1>7, NewJobType
    <2>3. Others'
        BY <1>1, <1>2, <1>7, <2>2 DEF Others, serverVars, linkVars
    <2>4. QED
        BY <2>1, <2>2, <2>3, TypeParts
<1>8. HandleCreateRoom => TypeOK'
    BY <1>1, <1>7 DEF HandleCreateRoom
<1>9. HandleCreateDM => TypeOK'
    BY <1>1, <1>7, RoomListAssumption DEF HandleCreateDM
<1>10. ASSUME NEW r \in Rooms, LeaveRoom(r) PROVE TypeOK'
    BY <1>1, <1>7, <1>10 DEF LeaveRoom, viewVars, Seen
<1>11. HandleInvite => TypeOK'
    BY <1>1, <1>7 DEF HandleInvite, viewVars, Seen
<1>12. QED
    BY <1>3, <1>4, <1>5, <1>6, <1>8, <1>9, <1>10, <1>11

(* What the server does for a request.                                     *)
LEMMA ServeType ==
    ASSUME Base, NEW j \in Jobs,
           ServeCreate(j) \/ ServeDm(j) \/ ServeLeave(j) \/ ServeInvite(j)
    PROVE  TypeOK'
<1>1. TypeOK /\ Others /\ Seen /\ JobsTyped /\ GetsTyped /\ Placed
    BY TypeParts DEF Base
<1>2. /\ job[j] # Idle
      /\ ServeDm(j) \/ ServeLeave(j) \/ ServeInvite(j) => job[j].room \in Rooms
    BY <1>1 DEF ServeCreate, ServeDm, ServeLeave, ServeInvite, Sent, Placed
<1>3. UNCHANGED <<coming, mobile, listed, viewVars, linkVars, counters, moved, gone, crossed>>
    BY DEF ServeCreate, ServeDm, ServeLeave, ServeInvite, Served
<1>4. Seen'
    BY <1>1, <1>3 DEF Seen, viewVars
<1>5. /\ exists' \subseteq Rooms /\ in' \in [Rooms -> SUBSET {Me, Other}]
      /\ \E r \in Rooms : Done(j, r)
      /\ UNCHANGED get \/ \E r \in Rooms : Changes(r)
    <2>1. CASE ServeCreate(j)
        BY <1>1, <2>1 DEF ServeCreate, Others
    <2>2. CASE ServeDm(j) \/ ServeLeave(j) \/ ServeInvite(j)
        <3>1. PICK r \in Rooms : r = job[j].room
            BY <1>2, <2>2
        <3>2. Done(j, r) /\ (UNCHANGED get \/ Changes(r))
            BY <2>2, <3>1 DEF ServeDm, ServeLeave, ServeInvite
        <3>3. exists' \subseteq Rooms /\ in' \in [Rooms -> SUBSET {Me, Other}]
            BY <1>1, <2>2, <3>1 DEF ServeDm, ServeLeave, ServeInvite, Others
        <3>4. QED
            BY <3>2, <3>3
    <2>3. QED
        BY <2>1, <2>2
<1>6. JobsTyped'
    BY <1>1, <1>2, <1>5, DoneType
<1>7. GetsTyped'
    BY <1>1, <1>5, ChangesType DEF GetsTyped
<1>8. Others'
    BY <1>1, <1>3, <1>5 DEF Others, linkVars, counters
<1>9. QED
    BY <1>4, <1>6, <1>7, <1>8, TypeParts

(* What is done with an answer.                                            *)
LEMMA AnswerType ==
    ASSUME Base, NEW j \in Jobs,
           JobFails(j) \/ CreateAnswered(j) \/ LeaveAnswered(j) \/ InviteAnswered(j)
    PROVE  TypeOK'
<1>1. TypeOK /\ Others /\ Seen /\ JobsTyped /\ GetsTyped /\ Placed
    BY TypeParts DEF Base
<1>2. Others'
    BY <1>1 DEF JobFails, CreateAnswered, LeaveAnswered, InviteAnswered, Others, serverVars,
                linkVars, counters
<1>3. job[j] # Idle /\ job[j] \in Job
    BY <1>1 DEF JobFails, CreateAnswered, LeaveAnswered, InviteAnswered, Answered, JobsTyped
<1>4. CASE JobFails(j)
    <2>1. Seen'
        <3>1. loading' \in BOOLEAN
            BY Zenon, <1>4 DEF JobFails
        <3>2. job[j].room \in Rooms \cup {None}
            BY <1>3 DEF Job
        <3>3. gone' \subseteq Rooms \cup {Other}
            <4>1. gone' \subseteq gone \cup ({job[j].room} \ Mine)
                BY <1>4 DEF JobFails
            <4>2. job[j].kind = "leave" => job[j].room \in Rooms
                BY <1>1, <1>3 DEF Placed
            <4>3. job[j].kind # "leave" => gone' = gone
                BY <1>4 DEF JobFails
            <4>4. QED
                BY <1>1, <4>1, <4>2, <4>3 DEF Seen
        <3>4. crossed' \subseteq Rooms
            BY <1>1, <1>4 DEF JobFails, Wrong, Seen
        <3>5. QED
            BY <1>1, <1>4, <3>1, <3>3, <3>4 DEF JobFails, Seen
    <2>2. JobsTyped' /\ GetsTyped'
        BY <1>1, <1>4 DEF JobFails, JobsTyped, GetsTyped
    <2>3. QED
        BY <1>2, <2>1, <2>2, TypeParts
<1>5. CASE CreateAnswered(j)
    <2>1. Seen'
        BY <1>1, <1>5 DEF CreateAnswered, Seen, viewVars
    <2>2. JobsTyped'
        <3>1. PICK n : n = [job[j] EXCEPT !.at = "fetch"]
            OBVIOUS
        <3>2. n \in Job
            BY <1>3, <3>1 DEF Job
        <3>3. job' = [job EXCEPT ![j] = n]
            BY <1>1, <1>5, <3>1 DEF CreateAnswered, JobsTyped
        <3>4. QED
            BY <1>1, <3>2, <3>3 DEF JobsTyped
    <2>3. GetsTyped'
        <3>1. job[j].room \in Rooms
            BY <1>1, <1>3, <1>5 DEF CreateAnswered, Answered, Placed
        <3>2. PICK list \in List : list = ListOf(job[j].room)
            BY <3>1, ListOfType
        <3>3. Ask(list, j)
            BY <1>5, <3>2 DEF CreateAnswered
        <3>4. QED
            BY <1>1, <3>3, AskType
    <2>4. QED
        BY <1>2, <2>1, <2>2, <2>3, TypeParts
<1>6. CASE LeaveAnswered(j)
    <2>1. Seen'
        <3>1. listed' \subseteq Rooms /\ crossed' \subseteq Rooms
            BY <1>1, <1>6 DEF LeaveAnswered, Seen, Mine, Others
        <3>2. Show(None) \/ UNCHANGED <<active, inviting, invited, moved, gone>>
            BY <1>6 DEF LeaveAnswered
        <3>3. QED
            BY <1>1, <1>6, <3>1, <3>2, ShowType DEF LeaveAnswered, Seen
    <2>2. JobsTyped' /\ GetsTyped'
        <3>1. \/ job' = [Unmount({"invite"}) EXCEPT ![j] = Idle]
              \/ job' = [job EXCEPT ![j] = Idle]
            BY <1>6 DEF LeaveAnswered
        <3>2. Unmount({"invite"}) \in [Jobs -> Job \cup {Idle}]
            BY <1>1, UnmountType
        <3>3. AskBoth \/ UNCHANGED get
            BY <1>6 DEF LeaveAnswered
        <3>4. GetsTyped'
            BY <1>1, <3>3, AskBothType DEF GetsTyped
        <3>5. QED
            BY <1>1, <3>1, <3>2, <3>4 DEF JobsTyped
    <2>3. QED
        BY <1>2, <2>1, <2>2, TypeParts
<1>7. CASE InviteAnswered(j)
    <2>1. invited' \in BOOLEAN
        BY <1>7, Zenon DEF InviteAnswered
    <2>2. Seen' /\ JobsTyped' /\ GetsTyped'
        BY <1>1, <1>7, <2>1 DEF InviteAnswered, Seen, JobsTyped, GetsTyped
    <2>3. QED
        BY <1>2, <2>2, TypeParts
<1>8. QED
    BY <1>4, <1>5, <1>6, <1>7

(* What a read sets of a GET.                                              *)
LEMMA ReadKeeps ==
    ASSUME GetsTyped, NEW g \in Gets, Read(g)
    PROVE  /\ GetsTyped' /\ get[g] # Idle /\ get'[g] # Idle
           /\ get'[g].list = get[g].list /\ get'[g].for = get[g].for
           /\ get'[g].page = Mine \cap Of(get[g].list)
           /\ \A h \in Gets \ {g} : get'[h] = get[h]
<1>1. get[g] # Idle /\ get[g] \in Get
    BY DEF Read, GetsTyped
<1>2. PICK mine \in SUBSET Rooms : mine = Mine \cap Of(get[g].list)
    <2>1. Of(get[g].list) \subseteq Rooms
        BY <1>1, ListOfType, RoomListAssumption DEF Get, Of
    <2>2. QED
        BY <2>1
<1>3. PICK dirty \in SUBSET Rooms : dirty = coming \cap Of(get[g].list)
    BY RoomListAssumption DEF Of
<1>4. PICK n : n = [get[g] EXCEPT !.at = "read", !.page = mine, !.dirty = dirty]
    OBVIOUS
<1>5. n \in Get /\ n.list = get[g].list /\ n.for = get[g].for /\ n.page = mine
    BY <1>1, <1>4 DEF Get
<1>6. get' = [get EXCEPT ![g] = n]
    BY <1>2, <1>3, <1>4 DEF Read, GetsTyped
<1>7. n # Idle
    BY <1>5, GetIsNotIdle
<1>8. QED
    BY <1>1, <1>2, <1>5, <1>6, <1>7 DEF GetsTyped

LEMMA GetType ==
    ASSUME Base, NEW g \in Gets, Read(g) \/ Arrive(g) \/ GetFails(g)
    PROVE  TypeOK'
<1>1. TypeOK /\ Others /\ Seen /\ JobsTyped /\ GetsTyped /\ Placed /\ Waited
    BY TypeParts DEF Base
<1>2. Others'
    BY <1>1 DEF Read, Arrive, GetFails, Others, serverVars, linkVars, counters
<1>3. get[g] # Idle /\ get[g] \in Get
    BY <1>1 DEF Read, Arrive, GetFails, GetsTyped
<1>4. CASE Read(g)
    BY <1>1, <1>2, <1>4, ReadKeeps, TypeParts DEF Read, Seen, JobsTyped, viewVars
<1>5. ASSUME get[g].for # None
      PROVE  get[g].for \in Jobs /\ job[get[g].for].room \in Rooms
    <2>1. get[g].for \in Jobs
        BY <1>3, <1>5 DEF Get
    <2>2. job[get[g].for] # Idle /\ job[get[g].for].at = "fetch"
        BY <1>1, <1>3, <1>5 DEF Waited
    <2>3. QED
        BY <1>1, <2>1, <2>2 DEF Placed
<1>6. CASE Arrive(g)
    <2>1. GetsTyped'
        BY <1>1, <1>6 DEF Arrive, GetsTyped
    <2>2. listed' \subseteq Rooms /\ crossed' \subseteq Rooms
        <3>1. get[g].page \subseteq Rooms /\ get[g].dirty \subseteq Rooms
            BY <1>3 DEF Get
        <3>2. QED
            BY <1>1, <1>6, <3>1 DEF Arrive, Seen
    <2>3. CASE get[g].for = None
        BY <1>1, <1>2, <1>6, <2>1, <2>2, <2>3, TypeParts DEF Arrive, Seen, JobsTyped, viewVars
    <2>4. CASE get[g].for # None
        <3>1. PICK r \in Rooms : r = job[get[g].for].room
            BY <1>5, <2>4
        <3>2. Show(r) /\ modal' = FALSE /\ loading' = FALSE
            BY <1>6, <2>4, <3>1 DEF Arrive
        <3>3. Seen'
            BY <1>1, <2>2, <3>2, ShowType DEF Seen
        <3>4. Unmount({"create", "dm"}) \in [Jobs -> Job \cup {Idle}]
            BY <1>1, UnmountType
        <3>5. JobsTyped'
            BY <1>6, <2>4, <3>4 DEF Arrive, JobsTyped
        <3>6. QED
            BY <1>2, <2>1, <3>3, <3>5, TypeParts
    <2>5. QED
        BY <2>3, <2>4
<1>7. CASE GetFails(g)
    <2>1. GetsTyped' /\ JobsTyped'
        BY <1>1, <1>7 DEF GetFails, GetsTyped, JobsTyped
    <2>2. loading' \in BOOLEAN
        BY <1>1, <1>7, Zenon DEF GetFails, Seen
    <2>3. crossed' \subseteq Rooms
        BY <1>1, <1>7, RoomListAssumption DEF GetFails, Seen, Wrong, Of
    <2>4. QED
        BY <1>1, <1>2, <1>7, <2>1, <2>2, <2>3, TypeParts DEF GetFails, Seen
<1>8. QED
    BY <1>4, <1>6, <1>7

(* What the other user, the other tab and the connection do.               *)
LEMMA OthersType ==
    ASSUME Base,
           \/ \E r \in Rooms : \/ OtherPublishes(r) \/ OtherCommits(r) \/ OtherReopens(r)
                               \/ OtherLeaves(r) \/ LeftElsewhere(r)
           \/ OnInvite \/ Drop \/ Reopen \/ Register
    PROVE  TypeOK'
<1>1. TypeOK /\ Others /\ Seen /\ JobsTyped /\ GetsTyped
    BY TypeParts DEF Base
<1>2. others < MaxOthers => others + 1 \in 0..MaxOthers
    BY <1>1, RoomListAssumption DEF Others
<1>3. ASSUME NEW r \in Rooms, OtherPublishes(r) PROVE TypeOK'
    <2>1. notices' \in Seq(Rooms)
        BY <1>1, <1>3 DEF OtherPublishes, Others
    <2>2. Others'
        BY <1>1, <1>2, <1>3, <2>1 DEF OtherPublishes, Others, OthersAct
    <2>3. Seen' /\ JobsTyped' /\ GetsTyped'
        BY <1>1, <1>3 DEF OtherPublishes, Seen, JobsTyped, GetsTyped, viewVars
    <2>4. QED
        BY <2>2, <2>3, TypeParts
<1>4. ASSUME NEW r \in Rooms,
             OtherCommits(r) \/ OtherReopens(r) \/ OtherLeaves(r) \/ LeftElsewhere(r)
      PROVE  TypeOK'
    <2>1. Others'
        BY <1>1, <1>2, <1>4 DEF OtherCommits, OtherReopens, OtherLeaves, LeftElsewhere, Others,
                                OthersAct, linkVars, counters
    <2>2. Seen'
        BY <1>1, <1>4 DEF OtherCommits, OtherReopens, OtherLeaves, LeftElsewhere, Seen, viewVars
    <2>3. JobsTyped' /\ (UNCHANGED get \/ Changes(r))
        BY <1>1, <1>4 DEF OtherCommits, OtherReopens, OtherLeaves, LeftElsewhere, JobsTyped
    <2>4. GetsTyped'
        BY <1>1, <2>3, ChangesType DEF GetsTyped
    <2>5. QED
        BY <2>1, <2>2, <2>3, <2>4, TypeParts
<1>5. CASE OnInvite
    <2>1. Head(notices) \in Rooms /\ Tail(notices) \in Seq(Rooms)
        BY <1>1, <1>5 DEF OnInvite, Others
    <2>2. Others'
        BY <1>1, <1>5, <2>1 DEF OnInvite, Others, serverVars, counters
    <2>3. PICK list \in List, for \in Jobs \cup {None} : Ask(list, for)
        BY <1>5, <2>1, ListOfType DEF OnInvite
    <2>4. GetsTyped'
        BY <1>1, <2>3, AskType
    <2>5. Seen' /\ JobsTyped'
        BY <1>1, <1>5 DEF OnInvite, Seen, JobsTyped, viewVars
    <2>6. QED
        BY <2>2, <2>4, <2>5, TypeParts
<1>6. CASE Drop
    <2>1. drops + 1 \in 0..MaxDrops /\ <<>> \in Seq(Rooms)
        BY <1>1, <1>6, RoomListAssumption DEF Drop, Others
    <2>2. Others'
        BY <1>1, <1>6, <2>1 DEF Drop, Others, serverVars
    <2>3. Range(notices) \subseteq Rooms
        BY <1>1 DEF Range, Others
    <2>4. Seen' /\ JobsTyped' /\ GetsTyped'
        BY <1>1, <1>6, <2>3 DEF Drop, Seen, JobsTyped, GetsTyped, viewVars
    <2>5. QED
        BY <2>2, <2>4, TypeParts
<1>7. CASE Reopen
    BY <1>1, <1>7, AskBothType, TypeParts DEF Reopen, Others, Seen, JobsTyped, serverVars,
                                              viewVars, counters
<1>8. CASE Register
    BY <1>1, <1>8, TypeParts DEF Register, Others, Seen, JobsTyped, GetsTyped, serverVars,
                                 viewVars, counters
<1>9. QED
    BY <1>3, <1>4, <1>5, <1>6, <1>7, <1>8
-----------------------------------------------------------------------------
(* The ways of a request: it stays, but for who asked, ...                 *)
Stays(j) ==
    /\ job[j] # Idle /\ job'[j] # Idle
    /\ job'[j].kind = job[j].kind /\ job'[j].room = job[j].room
    /\ job'[j].at = job[j].at /\ (job'[j].mine => job[j].mine)

(* ... is made, ...                                                        *)
Begins(j) ==
    /\ job[j] = Idle /\ job'[j] # Idle /\ job'[j].at = "sent"
    /\ job'[j].kind = "create" \/ job'[j].room \in Rooms
    /\ job'[j].kind = "invite" => HandleInvite /\ job'[j].room = active

(* ... served, ...                                                         *)
Succeeds(j) ==
    /\ job[j] # Idle /\ job'[j] # Idle
    /\ job[j].at = "sent" /\ job'[j].at = "done"
    /\ job'[j].kind = job[j].kind /\ job'[j].mine = job[j].mine
    /\ job'[j].room \in Rooms
    /\ job[j].kind = "invite" => ServeInvite(j)

(* ... goes on with a GET, ...                                             *)
GoesOn(j) ==
    /\ job[j] # Idle /\ job'[j] # Idle
    /\ job[j].at = "done" /\ job'[j].at = "fetch"
    /\ job[j].kind \in {"create", "dm"} /\ CreateAnswered(j)
    /\ job'[j].kind = job[j].kind /\ job'[j].room = job[j].room

(* ... and ends, with its GET if there is one.                             *)
IsOver(j) ==
    /\ job'[j] = Idle
    /\ \/ job[j] = Idle \/ JobFails(j) \/ LeaveAnswered(j) \/ InviteAnswered(j)
       \/ \E g \in Gets : get[g] # Idle /\ get[g].for = j /\ get'[g] = Idle

LEMMA JobsMove ==
    ASSUME Base, Next, NEW j \in Jobs
    PROVE  IsOver(j) \/ Stays(j) \/ Begins(j) \/ Succeeds(j) \/ GoesOn(j)
<1>1. JobsTyped /\ GetsTyped /\ Placed /\ Framed /\ active \in Rooms \cup {None}
    BY TypeParts DEF Base, Seen
<1>2. ASSUME job'[j] = job[j] PROVE IsOver(j) \/ Stays(j)
    BY <1>2 DEF IsOver, Stays
<1>3. CASE \/ \E r \in Rooms : \/ SelectRoom(r) \/ OtherPublishes(r) \/ OtherCommits(r)
                               \/ OtherReopens(r) \/ OtherLeaves(r) \/ LeftElsewhere(r)
           \/ Back \/ OpenModal \/ OpenInvite \/ OnInvite \/ Drop \/ Reopen \/ Register
           \/ \E g \in Gets : Read(g)
    <2>1. job' = job
        BY <1>3 DEF SelectRoom, OtherPublishes, OtherCommits, OtherReopens, OtherLeaves,
                    LeftElsewhere, Back, OpenModal, OpenInvite, OnInvite, Drop, Reopen,
                    Register, Read
    <2>2. QED
        BY <1>2, <2>1
<1>4. ASSUME NEW kinds, job'[j] = Unmount(kinds)[j] PROVE IsOver(j) \/ Stays(j)
    BY <1>1, <1>4, UnmountType DEF IsOver, Stays
<1>5. CloseModal \/ CloseInvite => IsOver(j) \/ Stays(j)
    <2>1. CloseModal \/ CloseInvite => \E kinds : job'[j] = Unmount(kinds)[j]
        BY DEF CloseModal, CloseInvite
    <2>2. QED
        BY <1>4, <2>1
<1>6. ASSUME NEW kind \in {"create", "dm", "leave", "invite"}, NEW r \in Rooms \cup {None},
             NewJob(kind, r), r = None => kind = "create",
             kind = "invite" => HandleInvite /\ r = active
      PROVE  IsOver(j) \/ Stays(j) \/ Begins(j)
    <2>1. PICK i \in Jobs :
            /\ job[i] = Idle /\ job'[i] # Idle
            /\ job'[i].kind = kind /\ job'[i].room = r /\ job'[i].at = "sent"
            /\ \A h \in Jobs \ {i} : job'[h] = job[h]
        BY <1>1, <1>6, NewJobType
    <2>2. QED
        BY <1>2, <1>6, <2>1 DEF Begins
<1>7. CASE HandleCreateRoom \/ HandleCreateDM \/ HandleInvite \/ \E r \in Rooms : LeaveRoom(r)
    <2>1. None \notin Rooms /\ Dms \subseteq Rooms
        BY RoomListAssumption
    <2>2. PICK kind \in {"create", "dm", "leave", "invite"}, r \in Rooms \cup {None} :
            /\ NewJob(kind, r) /\ (r = None => kind = "create")
            /\ kind = "invite" => HandleInvite /\ r = active
        <3>1. CASE HandleCreateRoom
            BY <3>1 DEF HandleCreateRoom
        <3>2. CASE HandleCreateDM
            BY <2>1, <3>2 DEF HandleCreateDM
        <3>3. CASE HandleInvite
            <4>1. PICK r \in Rooms : r = active
                BY <1>1, <3>3 DEF HandleInvite, Framed
            <4>2. NewJob("invite", r)
                BY <3>3, <4>1 DEF HandleInvite
            <4>3. QED
                BY <2>1, <3>3, <4>1, <4>2
        <3>4. CASE \E r \in Rooms : LeaveRoom(r)
            BY <2>1, <3>4 DEF LeaveRoom
        <3>5. QED
            BY <1>7, <3>1, <3>2, <3>3, <3>4
    <2>3. QED
        BY <1>6, <2>2
<1>8. ASSUME NEW i \in Jobs,
             ServeCreate(i) \/ ServeDm(i) \/ ServeLeave(i) \/ ServeInvite(i)
      PROVE  IsOver(j) \/ Stays(j) \/ Succeeds(j)
    <2>1. job[i] # Idle /\ job[i].at = "sent"
        BY <1>8 DEF ServeCreate, ServeDm, ServeLeave, ServeInvite, Sent
    <2>2. PICK r \in Rooms : Done(i, r)
        <3>1. CASE ServeCreate(i)
            BY <3>1 DEF ServeCreate
        <3>2. CASE ServeDm(i) \/ ServeLeave(i) \/ ServeInvite(i)
            <4>1. PICK r \in Rooms : r = job[i].room
                BY <1>1, <3>2 DEF ServeDm, ServeLeave, ServeInvite, Sent, Placed
            <4>2. Done(i, r)
                BY <3>2, <4>1 DEF ServeDm, ServeLeave, ServeInvite
            <4>3. QED
                BY <4>2
        <3>3. QED
            BY <1>8, <3>1, <3>2
    <2>3. /\ job'[i] # Idle /\ job'[i].kind = job[i].kind /\ job'[i].room = r
          /\ job'[i].at = "done" /\ job'[i].mine = job[i].mine
          /\ \A h \in Jobs \ {i} : job'[h] = job[h]
        BY <1>1, <2>1, <2>2, DoneType
    <2>4. job[i].kind = "invite" => ServeInvite(i)
        BY <1>8 DEF ServeCreate, ServeDm, ServeLeave, Sent
    <2>5. QED
        BY <1>2, <2>1, <2>3, <2>4 DEF Succeeds
<1>9. ASSUME NEW i \in Jobs, JobFails(i) \/ InviteAnswered(i)
      PROVE  IsOver(j) \/ Stays(j)
    <2>1. job' = [job EXCEPT ![i] = Idle]
        BY <1>9 DEF JobFails, InviteAnswered
    <2>2. QED
        BY <1>1, <1>2, <1>9, <2>1 DEF IsOver, JobsTyped
<1>10. ASSUME NEW i \in Jobs, LeaveAnswered(i)
       PROVE  IsOver(j) \/ Stays(j)
    <2>1. \/ job' = [Unmount({"invite"}) EXCEPT ![i] = Idle]
          \/ job' = [job EXCEPT ![i] = Idle]
        BY <1>10 DEF LeaveAnswered
    <2>2. DOMAIN Unmount({"invite"}) = Jobs
        BY DEF Unmount
    <2>3. i = j => job'[j] = Idle
        BY <1>1, <2>1, <2>2 DEF JobsTyped
    <2>4. i # j => job'[j] = job[j] \/ job'[j] = Unmount({"invite"})[j]
        BY <1>1, <2>1, <2>2 DEF JobsTyped
    <2>5. CASE i = j
        BY <1>10, <2>3, <2>5 DEF IsOver
    <2>6. QED
        BY <1>2, <1>4, <2>4, <2>5
<1>11. ASSUME NEW i \in Jobs, CreateAnswered(i)
       PROVE  IsOver(j) \/ Stays(j) \/ GoesOn(j)
    <2>1. job[i] # Idle /\ job[i].at = "done" /\ job[i].kind \in {"create", "dm"}
        BY <1>11 DEF CreateAnswered, Answered
    <2>2. PICK n : n = [job[i] EXCEPT !.at = "fetch"]
        OBVIOUS
    <2>3. n \in Job /\ n.kind = job[i].kind /\ n.room = job[i].room /\ n.at = "fetch"
        BY <1>1, <2>1, <2>2 DEF JobsTyped, Job
    <2>4. job' = [job EXCEPT ![i] = n] /\ n # Idle
        BY <1>1, <1>11, <2>2, <2>3, JobIsNotIdle DEF CreateAnswered, JobsTyped
    <2>5. QED
        BY <1>1, <1>2, <1>11, <2>1, <2>3, <2>4 DEF GoesOn, JobsTyped
<1>12. ASSUME NEW g \in Gets, Arrive(g) \/ GetFails(g)
       PROVE  IsOver(j) \/ Stays(j)
    <2>1. get[g] # Idle /\ get'[g] = Idle
        BY <1>1, <1>12 DEF Arrive, GetFails, GetsTyped
    <2>2. CASE get[g].for = None
        <3>1. job' = job
            BY <1>12, <2>2 DEF Arrive, GetFails
        <3>2. QED
            BY <1>2, <3>1
    <2>3. CASE get[g].for # None
        <3>1. \/ job' = [Unmount({"create", "dm"}) EXCEPT ![get[g].for] = Idle]
              \/ job' = [job EXCEPT ![get[g].for] = Idle]
            BY <1>12, <2>3 DEF Arrive, GetFails
        <3>2. DOMAIN Unmount({"create", "dm"}) = Jobs
            BY DEF Unmount
        <3>3. get[g].for = j => job'[j] = Idle
            BY <1>1, <3>1, <3>2 DEF JobsTyped
        <3>4. get[g].for # j => job'[j] = job[j] \/ job'[j] = Unmount({"create", "dm"})[j]
            BY <1>1, <3>1, <3>2 DEF JobsTyped
        <3>5. CASE get[g].for = j
            BY <2>1, <3>3, <3>5 DEF IsOver
        <3>6. QED
            BY <1>2, <1>4, <3>4, <3>5
    <2>4. QED
        BY <2>2, <2>3
<1>13. QED
    BY <1>3, <1>5, <1>7, <1>8, <1>9, <1>10, <1>11, <1>12 DEF Next

(* The ways of a GET: it stays, but for what it reads, ...                 *)
Keeps(g) ==
    /\ get[g] # Idle /\ get'[g] # Idle
    /\ get'[g].list = get[g].list /\ get'[g].for = get[g].for
    /\ \/ Read(g)
       \/ /\ get'[g].at = get[g].at /\ get'[g].page = get[g].page
          /\ get[g].dirty \subseteq get'[g].dirty

Ends(g) == get'[g] = Idle /\ (get[g] = Idle \/ Arrive(g) \/ GetFails(g))

(* ... or is sent.                                                         *)
Starts(g) ==
    /\ get[g] = Idle /\ get'[g] # Idle
    /\ get'[g].at = "sent" /\ get'[g].page = {}
    /\ \/ get'[g].for = None
       \/ /\ get'[g].for \in Jobs /\ CreateAnswered(get'[g].for)
          /\ \A h \in Gets \ {g} : get'[h] = get[h]

LEMMA GetsMove ==
    ASSUME Base, Next, NEW g \in Gets
    PROVE  Ends(g) \/ Keeps(g) \/ Starts(g)
<1>1. JobsTyped /\ GetsTyped /\ Placed /\ notices \in Seq(Rooms)
    BY TypeParts DEF Base, Others
<1>2. ASSUME get'[g] = get[g] PROVE Ends(g) \/ Keeps(g)
    BY <1>2 DEF Ends, Keeps
<1>3. CASE UNCHANGED get \/ \E r \in Rooms : Changes(r)
    BY <1>1, <1>2, <1>3, ChangesType DEF Ends, Keeps
<1>4. CASE AskBoth
    <2>1. PICK h, k \in Gets : /\ get[h] = Idle /\ get'[h] = Fetch("rooms", None)
                               /\ get[k] = Idle /\ get'[k] = Fetch("dmRooms", None)
                               /\ \A i \in Gets \ {h, k} : get'[i] = get[i]
        BY <1>1, <1>4, AskBothType
    <2>2. {"rooms", "dmRooms"} \subseteq List /\ None \in Jobs \cup {None}
        BY DEF List
    <2>3. get[g] = Idle /\ get'[g] \in {Fetch("rooms", None), Fetch("dmRooms", None)} =>
             Starts(g)
        BY <2>2, FetchType DEF Starts
    <2>4. QED
        BY <1>2, <2>1, <2>3
<1>5. ASSUME NEW list \in List, NEW for \in Jobs \cup {None}, Ask(list, for),
             for = None \/ CreateAnswered(for)
      PROVE  Ends(g) \/ Keeps(g) \/ Starts(g)
    <2>1. PICK h \in Gets : /\ get[h] = Idle /\ get'[h] = Fetch(list, for)
                            /\ \A i \in Gets \ {h} : get'[i] = get[i]
        BY <1>1, <1>5, AskType
    <2>2. CASE g = h
        <3>1. /\ get'[g] # Idle /\ get'[g].at = "sent" /\ get'[g].page = {}
              /\ get'[g].for = for
            BY <2>1, <2>2, FetchType
        <3>2. QED
            BY <1>5, <2>1, <2>2, <3>1 DEF Starts
    <2>3. QED
        BY <1>2, <2>1, <2>2
<1>6. ASSUME NEW j \in Jobs, CreateAnswered(j)
      PROVE  Ends(g) \/ Keeps(g) \/ Starts(g)
    <2>1. job[j].room \in Rooms
        BY <1>1, <1>6 DEF CreateAnswered, Answered, Placed
    <2>2. PICK list \in List : list = ListOf(job[j].room)
        BY <2>1, ListOfType
    <2>3. Ask(list, j)
        BY <1>6, <2>2 DEF CreateAnswered
    <2>4. QED
        BY <1>5, <1>6, <2>3
<1>7. CASE OnInvite
    <2>1. PICK list \in List : list = ListOf(Head(notices))
        <3>1. Head(notices) \in Rooms
            BY <1>1, <1>7 DEF OnInvite
        <3>2. QED
            BY <3>1, ListOfType
    <2>2. Ask(list, None)
        BY <1>7, <2>1 DEF OnInvite
    <2>3. QED
        BY <1>5, <2>2
<1>8. ASSUME NEW h \in Gets, Arrive(h) \/ GetFails(h)
      PROVE  Ends(g) \/ Keeps(g)
    <2>1. get' = [get EXCEPT ![h] = Idle]
        BY <1>8 DEF Arrive, GetFails
    <2>2. QED
        BY <1>1, <1>2, <1>8, <2>1 DEF Ends, GetsTyped
<1>9. ASSUME NEW h \in Gets, Read(h)
      PROVE  Ends(g) \/ Keeps(g)
    BY <1>1, <1>2, <1>9, ReadKeeps DEF Keeps
<1>10. CASE \/ \E r \in Rooms : \/ SelectRoom(r) \/ LeaveRoom(r) \/ OtherPublishes(r)
                                \/ OtherLeaves(r)
            \/ OpenModal \/ CloseModal \/ HandleCreateRoom \/ HandleCreateDM
            \/ OpenInvite \/ CloseInvite \/ HandleInvite \/ Drop \/ Register
            \/ \E j \in Jobs : ServeInvite(j) \/ JobFails(j) \/ InviteAnswered(j)
    <2>1. UNCHANGED get
        BY <1>10 DEF SelectRoom, LeaveRoom, OtherPublishes, OtherLeaves, OpenModal, CloseModal,
                     HandleCreateRoom, HandleCreateDM, OpenInvite, CloseInvite, HandleInvite,
                     Drop, Register, ServeInvite, JobFails, InviteAnswered
    <2>2. QED
        BY <1>3, <2>1
<1>11. ASSUME NEW r \in Rooms, OtherCommits(r) \/ OtherReopens(r) \/ LeftElsewhere(r)
       PROVE  UNCHANGED get \/ Changes(r)
    BY <1>11 DEF OtherCommits, OtherReopens, LeftElsewhere
<1>12. ASSUME NEW j \in Jobs, ServeCreate(j) \/ ServeDm(j) \/ ServeLeave(j)
       PROVE  UNCHANGED get \/ \E r \in Rooms : Changes(r)
    <2>1. CASE ServeCreate(j)
        BY <2>1 DEF ServeCreate
    <2>2. CASE ServeDm(j) \/ ServeLeave(j)
        <3>1. PICK r \in Rooms : r = job[j].room
            BY <1>1, <2>2 DEF ServeDm, ServeLeave, Sent, Placed
        <3>2. UNCHANGED get \/ Changes(r)
            BY <2>2, <3>1 DEF ServeDm, ServeLeave
        <3>3. QED
            BY <3>2
    <2>3. QED
        BY <1>12, <2>1, <2>2
<1>13. Back \/ Reopen => AskBoth
    BY DEF Back, Reopen
<1>14. ASSUME NEW j \in Jobs, LeaveAnswered(j) PROVE AskBoth \/ UNCHANGED get
    BY <1>14 DEF LeaveAnswered
<1>15. QED
    BY <1>3, <1>4, <1>6, <1>7, <1>8, <1>9, <1>10, <1>11, <1>12, <1>13, <1>14 DEF Next

LEMMA PlacedStep ==
    ASSUME Base, Next
    PROVE  Placed'
<1>1. ASSUME NEW j \in Jobs, job'[j] # Idle
      PROVE  /\ job'[j].room \in Rooms \/ (job'[j].kind = "create" /\ job'[j].at = "sent")
             /\ job'[j].at = "fetch" => job'[j].kind \in {"create", "dm"}
    <2>1. Stays(j) \/ Begins(j) \/ Succeeds(j) \/ GoesOn(j)
        BY <1>1, JobsMove DEF IsOver
    <2>2. QED
        BY <2>1 DEF Stays, Begins, Succeeds, GoesOn, Base, Placed
<1>2. QED
    BY <1>1 DEF Placed

LEMMA WaitedStep ==
    ASSUME Base, Next
    PROVE  Waited'
<1>1. JobsTyped /\ GetsTyped /\ Placed /\ Waited
    BY TypeParts DEF Base
<1>2. ASSUME NEW j \in Jobs, CreateAnswered(j)
      PROVE  /\ job[j] # Idle /\ job[j].at = "done"
             /\ job'[j] # Idle /\ job'[j].at = "fetch"
    <2>1. job[j] # Idle /\ job[j].at = "done" /\ job[j] \in Job
        BY <1>1, <1>2 DEF CreateAnswered, Answered, JobsTyped
    <2>2. PICK n : n = [job[j] EXCEPT !.at = "fetch"]
        OBVIOUS
    <2>3. n \in Job /\ n.at = "fetch" /\ job' = [job EXCEPT ![j] = n]
        BY <1>1, <1>2, <2>1, <2>2 DEF CreateAnswered, JobsTyped, Job
    <2>4. QED
        BY <1>1, <2>1, <2>3, JobIsNotIdle DEF JobsTyped
<1> SUFFICES ASSUME NEW g \in Gets, get'[g] # Idle, get'[g].for # None
             PROVE  /\ job'[get'[g].for] # Idle /\ job'[get'[g].for].at = "fetch"
                    /\ \A h \in Gets \ {g} : get'[h] # Idle => get'[h].for # get'[g].for
    BY Zenon DEF Waited
<1>3. CASE Keeps(g)
    <2>1. PICK j : j = get[g].for /\ j = get'[g].for
        BY <1>3 DEF Keeps
    <2>2. j \in Jobs /\ job[j] # Idle /\ job[j].at = "fetch"
        BY <1>1, <1>3, <2>1 DEF Keeps, GetsTyped, Get, Waited
    <2>3. \A h \in Gets \ {g} : get[h] # Idle => get[h].for # j
        BY <1>1, <1>3, <2>1 DEF Keeps, Waited
    <2>4. ~IsOver(j)
        <3>1. ~JobFails(j) /\ ~LeaveAnswered(j) /\ ~InviteAnswered(j)
            BY <2>2 DEF JobFails, LeaveAnswered, InviteAnswered, Answered
        <3>2. QED
            BY <1>3, <2>2, <2>3, <3>1 DEF IsOver, Keeps
    <2>5. Stays(j)
        BY <2>2, <2>4, JobsMove DEF Begins, Succeeds, GoesOn
    <2>6. ASSUME NEW h \in Gets \ {g}, get'[h] # Idle
          PROVE  get'[h].for # j
        <3>1. Keeps(h) \/ Starts(h)
            BY <2>6, GetsMove DEF Ends
        <3>2. QED
            BY <1>2, <2>1, <2>2, <2>3, <3>1 DEF Keeps, Starts
    <2>7. QED
        BY <2>1, <2>2, <2>5, <2>6 DEF Stays
<1>4. CASE Starts(g)
    <2>1. PICK j \in Jobs : /\ j = get'[g].for /\ CreateAnswered(j)
                            /\ \A h \in Gets \ {g} : get'[h] = get[h]
        BY <1>4 DEF Starts
    <2>2. \A h \in Gets : get[h] # Idle => get[h].for # j
        BY <1>1, <1>2, <2>1 DEF Waited
    <2>3. QED
        BY <1>2, <2>1, <2>2
<1>5. QED
    BY <1>3, <1>4, GetsMove DEF Ends

(* How the view changes.                                                   *)
Shows == \E r \in Rooms \cup {None} :
    /\ Show(r) /\ UNCHANGED serverVars
    /\ r = None /\ inviting => \E j \in Jobs : LeaveAnswered(j) /\ job[j].room = active
Rests == UNCHANGED <<active, inviting, invited, moved>> /\ gone \subseteq gone'

LEMMA ViewMoves ==
    ASSUME Base, Next
    PROVE  Rests \/ Shows \/ OpenInvite \/ CloseInvite \/ \E j \in Jobs : InviteAnswered(j)
<1>1. Seen /\ JobsTyped /\ GetsTyped /\ Placed /\ Waited
    BY TypeParts DEF Base
<1>2. CASE \/ \E r \in Rooms : \/ LeaveRoom(r) \/ OtherPublishes(r) \/ OtherCommits(r)
                               \/ OtherReopens(r) \/ OtherLeaves(r) \/ LeftElsewhere(r)
           \/ OpenModal \/ CloseModal \/ HandleCreateRoom \/ HandleCreateDM
           \/ HandleInvite \/ OnInvite \/ Drop \/ Reopen \/ Register
           \/ \E g \in Gets : Read(g) \/ GetFails(g)
    BY <1>2 DEF Rests, LeaveRoom, OtherPublishes, OtherCommits, OtherReopens, OtherLeaves,
                LeftElsewhere, OpenModal, CloseModal, HandleCreateRoom, HandleCreateDM,
                HandleInvite, OnInvite, Drop, Reopen, Register, Read, GetFails, viewVars
<1>3. CASE \E j \in Jobs : \/ ServeCreate(j) \/ ServeDm(j) \/ ServeLeave(j) \/ ServeInvite(j)
                           \/ JobFails(j) \/ CreateAnswered(j)
    BY <1>3 DEF Rests, ServeCreate, ServeDm, ServeLeave, ServeInvite, Served, JobFails,
                CreateAnswered, viewVars
<1>4. CASE (\E r \in Rooms : SelectRoom(r)) \/ Back
    BY <1>4, RoomListAssumption DEF Shows, SelectRoom, Back
<1>5. ASSUME NEW j \in Jobs, LeaveAnswered(j) PROVE Rests \/ Shows
    BY <1>5 DEF Rests, Shows, LeaveAnswered
<1>6. ASSUME NEW g \in Gets, Arrive(g) PROVE Rests \/ Shows
    <2>1. CASE get[g].for = None
        BY <1>6, <2>1 DEF Rests, Arrive, viewVars
    <2>2. CASE get[g].for # None
        <3>1. get[g] # Idle /\ get[g] \in Get
            BY <1>1, <1>6 DEF Arrive, GetsTyped
        <3>2. get[g].for \in Jobs
            BY <2>2, <3>1 DEF Get
        <3>3. job[get[g].for] # Idle /\ job[get[g].for].at = "fetch"
            BY <1>1, <2>2, <3>1 DEF Waited
        <3>4. PICK r \in Rooms : r = job[get[g].for].room
            BY <1>1, <3>2, <3>3 DEF Placed
        <3>5. Show(r) /\ UNCHANGED serverVars
            BY <1>6, <2>2, <3>4 DEF Arrive
        <3>6. QED
            BY <3>5, RoomListAssumption DEF Shows
    <2>3. QED
        BY <2>1, <2>2
<1>7. QED
    BY <1>2, <1>3, <1>4, <1>5, <1>6 DEF Next

LEMMA FramedStep ==
    ASSUME Base, Next
    PROVE  Framed'
<1>1. Framed /\ Seen
    BY TypeParts DEF Base
<1>2. CASE Rests
    BY <1>1, <1>2 DEF Rests, Framed
<1>3. CASE Shows
    BY <1>1, <1>3, Zenon DEF Shows, Show, Framed
<1>4. CASE OpenInvite
    <2>1. active # None
        BY <1>1, <1>4, RoomListAssumption DEF OpenInvite, Seen
    <2>2. QED
        BY <1>4, <2>1 DEF OpenInvite, Framed
<1>5. CASE CloseInvite
    BY <1>5 DEF CloseInvite, Framed
<1>6. ASSUME NEW j \in Jobs, InviteAnswered(j) PROVE Framed'
    <2>1. active' = active /\ inviting' = inviting /\ (invited' => invited \/ inviting)
        BY <1>6, Zenon DEF InviteAnswered
    <2>2. QED
        BY <1>1, <2>1 DEF Framed
<1>7. QED
    BY <1>2, <1>3, <1>4, <1>5, <1>6, ViewMoves

(* How the memberships change: the place of the user in one room, and the  *)
(* GETs know, or not at all.                                               *)
Enters == \E r \in Rooms : /\ exists' = exists \cup {r} /\ Changes(r)
                           /\ Me \notin in[r] /\ Me \in in'[r]
                           /\ \A s \in Rooms \ {r} : in'[s] = in[s]
Departs == \E r \in Rooms : /\ exists' = exists /\ Changes(r)
                            /\ Me \in in[r] /\ in'[r] = in[r] \ {Me}
                            /\ \A s \in Rooms \ {r} : in'[s] = in[s]
Remains == /\ exists \subseteq exists' /\ exists' \subseteq Rooms
           /\ \A r \in Rooms : Me \in in'[r] <=> Me \in in[r]
           /\ \A r \in Rooms \ exists' : in'[r] = in[r]

(* The other user's invitation or new DM: somebody comes, nobody goes.     *)
LEMMA CommitsPlace ==
    ASSUME in \in [Rooms -> SUBSET {Me, Other}], NEW r \in Rooms, OtherCommits(r),
           ~(r \in Mine \/ (r \in Dms /\ r \in exists))
    PROVE  /\ exists' = exists \cup {r} /\ Changes(r)
           /\ in' \in [Rooms -> SUBSET {Me, Other}]
           /\ Me \in in'[r] /\ in[r] \subseteq in'[r]
           /\ \A s \in Rooms \ {r} : in'[s] = in[s]
           /\ notices' = notices
           /\ crossed' = IF r \in Range(notices) THEN crossed ELSE crossed \cup {r}
<1>1. PICK us \in {{Me, Other}, in[r] \cup {Me}} : in' = [in EXCEPT ![r] = us]
    BY DEF OtherCommits
<1>2. in' \in [Rooms -> SUBSET {Me, Other}] /\ Me \in in'[r] /\ in[r] \subseteq in'[r]
      /\ \A s \in Rooms \ {r} : in'[s] = in[s]
    BY <1>1
<1>3. QED
    BY <1>2 DEF OtherCommits, linkVars

LEMMA PlacesMove ==
    ASSUME Base, Next
    PROVE  Enters \/ Departs \/ Remains
<1>1. Others /\ JobsTyped /\ Placed /\ Unborn
    BY TypeParts DEF Base
<1>2. UNCHANGED <<exists, in>> => Remains
    BY <1>1 DEF Remains, Others
<1>3. CASE \/ \E r \in Rooms : SelectRoom(r) \/ LeaveRoom(r) \/ OtherPublishes(r)
           \/ Back \/ OpenModal \/ CloseModal \/ HandleCreateRoom \/ HandleCreateDM
           \/ OpenInvite \/ CloseInvite \/ HandleInvite
           \/ \E j \in Jobs : \/ JobFails(j) \/ CreateAnswered(j) \/ LeaveAnswered(j)
                              \/ InviteAnswered(j)
           \/ \E g \in Gets : Read(g) \/ Arrive(g) \/ GetFails(g)
           \/ OnInvite \/ Drop \/ Reopen \/ Register
    <2>1. UNCHANGED <<exists, in>>
        BY <1>3 DEF SelectRoom, LeaveRoom, OtherPublishes, Back, OpenModal, CloseModal,
                    HandleCreateRoom, HandleCreateDM, OpenInvite, CloseInvite, HandleInvite,
                    JobFails, CreateAnswered, LeaveAnswered, InviteAnswered, Read, Arrive,
                    GetFails, OnInvite, Drop, Reopen, Register, serverVars
    <2>2. QED
        BY <1>2, <2>1
<1>4. ASSUME NEW j \in Jobs, ServeCreate(j) PROVE Enters
    BY <1>1, <1>4 DEF ServeCreate, Enters, Others, Unborn
<1>5. ASSUME NEW j \in Jobs, Sent(j, "dm") \/ Sent(j, "leave") \/ Sent(j, "invite")
      PROVE  \E r \in Rooms : r = job[j].room
    BY <1>1, <1>5 DEF Sent, Placed
<1>6. ASSUME NEW j \in Jobs, ServeDm(j) PROVE Enters \/ Remains
    <2>1. PICK r \in Rooms : r = job[j].room
        BY <1>5, <1>6 DEF ServeDm
    <2>2. /\ exists' = exists \cup {r} /\ in' = [in EXCEPT ![r] = {Me, Other}]
          /\ IF Me \in in[r] THEN UNCHANGED get ELSE Changes(r)
        BY <1>6, <2>1 DEF ServeDm
    <2>3. CASE Me \in in[r]
        BY <1>1, <2>2, <2>3 DEF Remains, Others
    <2>4. CASE Me \notin in[r]
        BY <1>1, <2>2, <2>4 DEF Enters, Others
    <2>5. QED
        BY <2>3, <2>4
<1>7. ASSUME NEW j \in Jobs, ServeLeave(j) PROVE Departs
    <2>1. PICK r \in Rooms : r = job[j].room
        BY <1>5, <1>7 DEF ServeLeave
    <2>2. /\ exists' = exists /\ Me \in in[r] /\ in' = [in EXCEPT ![r] = @ \ {Me}]
          /\ Changes(r)
        BY <1>7, <2>1 DEF ServeLeave
    <2>3. QED
        BY <1>1, <2>2 DEF Departs, Others
<1>8. ASSUME NEW j \in Jobs, ServeInvite(j) PROVE Remains
    <2>1. PICK r \in Rooms : r = job[j].room
        BY <1>5, <1>8 DEF ServeInvite
    <2>2. exists' = exists /\ Me \in in[r] /\ in' = [in EXCEPT ![r] = @ \cup {Other}]
        BY <1>8, <2>1 DEF ServeInvite
    <2>3. r \in exists
        BY <1>1, <2>1, <2>2 DEF Unborn
    <2>4. QED
        BY <1>1, <2>2, <2>3, RoomListAssumption DEF Remains, Others
<1>9. ASSUME NEW r \in Rooms, OtherCommits(r) PROVE Enters \/ Remains
    <2>1. CASE r \in Mine \/ (r \in Dms /\ r \in exists)
        BY <1>2, <1>9, <2>1 DEF OtherCommits
    <2>2. CASE ~(r \in Mine \/ (r \in Dms /\ r \in exists))
        <3>1. Me \notin in[r]
            BY <1>1, <2>2 DEF Mine, Unborn
        <3>2. QED
            BY <1>1, <1>9, <2>2, <3>1, CommitsPlace DEF Enters, Others
    <2>3. QED
        BY <2>1, <2>2
<1>10. ASSUME NEW r \in Rooms, OtherReopens(r) PROVE Enters \/ Remains
    <2>1. /\ exists' = exists /\ r \in exists /\ in' = [in EXCEPT ![r] = {Me, Other}]
          /\ Me \notin in[r] => Changes(r)
        BY <1>10 DEF OtherReopens
    <2>2. CASE Me \in in[r]
        BY <1>1, <2>1, <2>2 DEF Remains, Others
    <2>3. CASE Me \notin in[r]
        <3>1. exists' = exists \cup {r}
            BY <2>1
        <3>2. QED
            BY <1>1, <2>1, <2>3, <3>1 DEF Enters, Others
    <2>4. QED
        BY <2>2, <2>3
<1>11. ASSUME NEW r \in Rooms, OtherLeaves(r) PROVE Remains
    <2>1. r \in exists
        BY <1>1, <1>11 DEF OtherLeaves, Unborn
    <2>2. QED
        BY <1>1, <1>11, <2>1, RoomListAssumption DEF OtherLeaves, Remains, Others
<1>12. ASSUME NEW r \in Rooms, LeftElsewhere(r) PROVE Departs
    BY <1>1, <1>12 DEF LeftElsewhere, Departs, Others, Mine
<1>13. QED
    BY <1>3, <1>4, <1>6, <1>7, <1>8, <1>9, <1>10, <1>11, <1>12 DEF Next

LEMMA UnbornStep ==
    ASSUME Base, Next
    PROVE  Unborn'
<1>1. Unborn
    BY DEF Base
<1>2. CASE Enters
    BY <1>1, <1>2 DEF Enters, Unborn
<1>3. CASE Departs
    BY <1>1, <1>3 DEF Departs, Unborn
<1>4. CASE Remains
    BY <1>1, <1>4 DEF Remains, Unborn
<1>5. QED
    BY <1>2, <1>3, <1>4, PlacesMove

LEMMA BaseStep ==
    ASSUME Base, Next
    PROVE  Base'
<1>1. TypeOK'
    BY UserType, ServeType, AnswerType, GetType, OthersType DEF Next
<1>2. QED
    BY <1>1, PlacedStep, WaitedStep, FramedStep, UnbornStep DEF Base

LEMMA BaseStutters ==
    ASSUME Base, UNCHANGED vars
    PROVE  Base'
BY DEF Base, TypeOK, Placed, Waited, Framed, Unborn, vars, serverVars, viewVars, linkVars,
       counters

LEMMA BaseInit == Init => Base
<1> SUFFICES ASSUME Init PROVE Base
    OBVIOUS
<1>1. TypeOK
    <2>1. 0 \in 0..MaxActs /\ 0 \in 0..MaxOthers /\ 0 \in 0..MaxDrops
        BY RoomListAssumption
    <2>2. Others
        BY <2>1 DEF Init, Others
    <2>3. Seen
        BY DEF Init, Seen, Mine
    <2>4. JobsTyped /\ GetsTyped
        BY DEF Init, JobsTyped, GetsTyped
    <2>5. QED
        BY <2>2, <2>3, <2>4, TypeParts
<1>2. QED
    BY <1>1 DEF Init, Base, Placed, Waited, Framed, Unborn

(* Every state has its type.                                               *)
THEOREM TypeInvariant == Spec => []TypeOK
<1>1. Base /\ [Next]_vars => Base'
    BY BaseStep, BaseStutters
<1>2. Base => TypeOK
    BY DEF Base
<1>3. QED
    BY BaseInit, <1>1, <1>2, PTL DEF Spec
-----------------------------------------------------------------------------
(* Where the user is changes in one room at a time, and the GETs know.     *)
LEMMA MineMoves ==
    ASSUME Base, Next
    PROVE  \/ Mine' = Mine
           \/ \E r \in Rooms : Changes(r) /\ \A s \in Rooms \ {r} : s \in Mine' <=> s \in Mine
<1>1. Unborn /\ exists \subseteq Rooms
    BY DEF Base, TypeOK
<1>2. CASE Enters
    BY <1>2 DEF Enters, Mine
<1>3. CASE Departs
    BY <1>3 DEF Departs, Mine
<1>4. CASE Remains
    BY <1>1, <1>4 DEF Remains, Mine, Unborn
<1>5. QED
    BY <1>2, <1>3, <1>4, PlacesMove

(* What a GET has read is where the user is, but for the rooms it is known *)
(* to be out of date for.                                                  *)
Fresh ==
    \A g \in Gets : get[g] # Idle =>
        /\ get[g].page \subseteq Of(get[g].list)
        /\ get[g].at = "read" =>
              \A r \in Of(get[g].list) \ get[g].dirty : r \in get[g].page <=> r \in Mine

LEMMA FreshStep ==
    ASSUME Base, Next, Fresh
    PROVE  Fresh'
<1>1. GetsTyped
    BY TypeParts DEF Base
<1> SUFFICES ASSUME NEW g \in Gets, get'[g] # Idle
             PROVE  /\ get'[g].page \subseteq Of(get'[g].list)
                    /\ get'[g].at = "read" =>
                          \A r \in Of(get'[g].list) \ get'[g].dirty :
                              r \in get'[g].page <=> r \in Mine'
    BY DEF Fresh, Of
<1>2. CASE Starts(g)
    BY <1>2 DEF Starts
<1>3. CASE Read(g)
    <2>1. get'[g].list = get[g].list /\ get'[g].page = Mine \cap Of(get[g].list)
        BY <1>1, <1>3, ReadKeeps
    <2>2. Mine' = Mine
        BY <1>3 DEF Read, serverVars, Mine
    <2>3. QED
        BY <2>1, <2>2
<1>4. CASE Keeps(g) /\ ~Read(g)
    <2>1. /\ get[g] # Idle /\ get'[g].list = get[g].list /\ get'[g].at = get[g].at
          /\ get'[g].page = get[g].page /\ get[g].dirty \subseteq get'[g].dirty
        BY <1>4 DEF Keeps
    <2>2. get[g].list \in List
        BY <1>1, <2>1 DEF GetsTyped, Get
    <2>3. get'[g].page \subseteq Of(get'[g].list)
        BY <2>1 DEF Fresh
    <2>4. ASSUME get'[g].at = "read", NEW r \in Of(get'[g].list) \ get'[g].dirty
          PROVE  r \in get'[g].page <=> r \in Mine'
        <3>1. r \in Rooms /\ r \in Of(get[g].list) \ get[g].dirty
            BY <2>1, <2>4, RoomListAssumption DEF Of
        <3>2. r \in get[g].page <=> r \in Mine
            BY <2>1, <2>4, <3>1 DEF Fresh
        <3>3. ASSUME Changes(r) PROVE FALSE
            BY <1>1, <2>1, <2>2, <2>4, <3>1, <3>3, ChangesType, ListOfType
        <3>4. r \in Mine' <=> r \in Mine
            BY <3>1, <3>3, MineMoves
        <3>5. QED
            BY <2>1, <3>2, <3>4
    <2>5. QED
        BY <2>3, <2>4
<1>5. QED
    BY <1>2, <1>3, <1>4, GetsMove DEF Ends
-----------------------------------------------------------------------------
(* A room is right when the list has it as it should, or is to be: by the  *)
(* notice of it, by a GET of its list, or by the answer of what was done.  *)
Pending(r) ==
    \/ r \in Range(notices)
    \/ \E g \in Gets : get[g] # Idle /\ r \in Of(get[g].list)
    \/ \E j \in Jobs : Answered(j, {"create", "dm", "leave"}) /\ job[j].room = r

Agrees(r) == r \in listed <=> r \in Mine

Right(r) == r \in crossed \/ Agrees(r) \/ Pending(r)

AllRight == \A r \in Rooms : Right(r)

LEMMA RangeOf ==
    ASSUME NEW s \in Seq(Rooms), NEW r
    PROVE  /\ r \in Range(Append(s, r))
           /\ Range(s) \subseteq Range(Append(s, r))
           /\ s # <<>> => /\ Head(s) \in Rooms
                          /\ \A x \in Range(s) : x = Head(s) \/ x \in Range(Tail(s))
<1>1. /\ DOMAIN Append(s, r) = 1..(Len(s) + 1) /\ Len(s) \in Nat
      /\ Append(s, r)[Len(s) + 1] = r
      /\ \A i \in 1..Len(s) : Append(s, r)[i] = s[i]
    OBVIOUS
<1>2. r \in Range(Append(s, r)) /\ Range(s) \subseteq Range(Append(s, r))
    BY <1>1 DEF Range
<1>3. ASSUME s # <<>>, NEW x \in Range(s)
      PROVE  x = Head(s) \/ x \in Range(Tail(s))
    <2>1. PICK i \in 1..Len(s) : x = s[i]
        BY <1>3 DEF Range
    <2>2. CASE i = 1
        BY <1>3, <2>1, <2>2
    <2>3. CASE i # 1
        <3>1. /\ i - 1 \in 1..Len(Tail(s)) /\ Tail(s)[i - 1] = s[i]
              /\ DOMAIN Tail(s) = 1..Len(Tail(s))
            BY <1>3, <2>1, <2>3
        <3>2. QED
            BY <2>1, <3>1 DEF Range
    <2>4. QED
        BY <2>2, <2>3
<1>4. s # <<>> => Head(s) \in Rooms
    OBVIOUS
<1>5. QED
    BY <1>2, <1>3, <1>4

(* A GET that arrives sets the rooms of its list right.                    *)
LEMMA ArriveRight ==
    ASSUME Base, Fresh, NEW g \in Gets, Arrive(g), NEW r \in Rooms,
           r \in Of(get[g].list)
    PROVE  r \in crossed' \/ Agrees(r)'
<1>1. /\ get[g] # Idle /\ get[g].at = "read"
      /\ listed' = (listed \ Of(get[g].list)) \cup get[g].page
      /\ crossed' = (crossed \ Of(get[g].list)) \cup get[g].dirty
      /\ Mine' = Mine
    BY DEF Arrive, serverVars, Mine
<1>2. r \notin get[g].dirty => (r \in get[g].page <=> r \in Mine)
    BY <1>1 DEF Fresh
<1>3. QED
    BY <1>1, <1>2 DEF Agrees

LEMMA ArriveElsewhere ==
    ASSUME Base, Fresh, NEW g \in Gets, Arrive(g), NEW r \in Rooms,
           r \notin Of(get[g].list)
    PROVE  (r \in crossed => r \in crossed') /\ (Agrees(r) => Agrees(r)')
<1>1. /\ get[g] # Idle
      /\ listed' = (listed \ Of(get[g].list)) \cup get[g].page
      /\ crossed' = (crossed \ Of(get[g].list)) \cup get[g].dirty
      /\ Mine' = Mine
    BY DEF Arrive, serverVars, Mine
<1>2. get[g].page \subseteq Of(get[g].list)
    BY <1>1 DEF Fresh
<1>3. QED
    BY <1>1, <1>2 DEF Agrees

(* A GET or a request that fails leaves what is wrong marked.              *)
LEMMA FailureMarks ==
    ASSUME Base, NEW r \in Rooms,
           \/ \E g \in Gets : GetFails(g) /\ r \in Of(get[g].list)
           \/ \E j \in Jobs : JobFails(j) /\ job[j].room = r
    PROVE  r \in crossed' \/ Agrees(r)'
<1>1. Mine' = Mine /\ listed' = listed
    BY DEF GetFails, JobFails, serverVars, Mine
<1>2. ~Agrees(r) => r \in crossed'
    BY DEF GetFails, JobFails, Wrong, Agrees
<1>3. QED
    BY <1>1, <1>2 DEF Agrees

LEMMA LeaveRight ==
    ASSUME Base, NEW j \in Jobs, LeaveAnswered(j), NEW r \in Rooms
    PROVE  /\ job[j].room = r => r \in crossed' \/ Agrees(r)'
           /\ job[j].room # r => (Agrees(r) => Agrees(r)')
<1>1. /\ Mine' = Mine /\ listed' = listed \ {job[j].room}
      /\ crossed' = crossed \cup ({job[j].room} \cap Mine)
    BY DEF LeaveAnswered, serverVars, Mine
<1>2. QED
    BY <1>1 DEF Agrees

(* The mark of a room goes only when its list arrives.                     *)
LEMMA CrossedKept ==
    ASSUME Base, Next, NEW r \in crossed
    PROVE  r \in crossed' \/ \E g \in Gets : Arrive(g) /\ r \in Of(get[g].list)
<1>1. CASE \E g \in Gets : Arrive(g)
    BY <1>1 DEF Arrive
<1>2. CASE \/ \E g \in Gets : Read(g) \/ GetFails(g)
           \/ \E j \in Jobs : \/ ServeCreate(j) \/ ServeDm(j) \/ ServeLeave(j)
                              \/ ServeInvite(j) \/ JobFails(j) \/ CreateAnswered(j)
                              \/ LeaveAnswered(j) \/ InviteAnswered(j)
    BY <1>2 DEF Read, GetFails, ServeCreate, ServeDm, ServeLeave, ServeInvite, JobFails,
                CreateAnswered, LeaveAnswered, InviteAnswered
<1>3. CASE \/ Back \/ OpenModal \/ CloseModal \/ HandleCreateRoom \/ HandleCreateDM
           \/ OpenInvite \/ CloseInvite \/ HandleInvite \/ OnInvite \/ Drop \/ Reopen
           \/ Register
    BY <1>3 DEF Back, OpenModal, CloseModal, HandleCreateRoom, HandleCreateDM, OpenInvite,
                CloseInvite, HandleInvite, OnInvite, Drop, Reopen, Register
<1>4. CASE \E s \in Rooms : \/ SelectRoom(s) \/ LeaveRoom(s) \/ OtherPublishes(s)
                            \/ OtherCommits(s) \/ OtherReopens(s) \/ OtherLeaves(s)
                            \/ LeftElsewhere(s)
    BY <1>4 DEF SelectRoom, LeaveRoom, OtherPublishes, OtherCommits, OtherReopens,
                OtherLeaves, LeftElsewhere
<1>5. QED
    BY <1>1, <1>2, <1>3, <1>4 DEF Next

(* A notice is spent on a GET of the list, or lost with a mark.            *)
LEMMA NoticeKept ==
    ASSUME Base, Next, NEW r \in Range(notices)
    PROVE  r \in Rooms /\ (r \in crossed' \/ Pending(r)')
<1>1. notices \in Seq(Rooms) /\ GetsTyped
    BY TypeParts DEF Base, Others
<1>2. r \in Rooms
    BY <1>1 DEF Range
<1>3. CASE UNCHANGED notices
    BY <1>2, <1>3 DEF Pending
<1>4. CASE Drop
    BY <1>2, <1>4 DEF Drop
<1>5. ASSUME NEW s \in Rooms, OtherPublishes(s) PROVE Pending(r)'
    <2>1. r \in Range(notices')
        BY <1>1, <1>5, RangeOf DEF OtherPublishes
    <2>2. QED
        BY <2>1 DEF Pending
<1>6. CASE OnInvite
    <2>1. notices # <<>> /\ notices' = Tail(notices) /\ Ask(ListOf(Head(notices)), None)
        BY <1>6 DEF OnInvite
    <2>2. CASE r \in Range(Tail(notices))
        BY <1>2, <2>1, <2>2 DEF Pending
    <2>3. CASE r = Head(notices)
        <3>1. PICK list \in List : list = ListOf(r)
            BY <1>2, ListOfType
        <3>2. Ask(list, None) /\ None \in Jobs \cup {None}
            BY <2>1, <2>3, <3>1
        <3>3. PICK g \in Gets : get'[g] = Fetch(list, None)
            BY <1>1, <3>2, AskType
        <3>4. get'[g] # Idle /\ get'[g].list = list
            BY <3>3, FetchType
        <3>5. r \in Of(list)
            BY <1>2, <3>1, ListOfType
        <3>6. QED
            BY <1>2, <3>4, <3>5 DEF Pending
    <2>4. QED
        BY <1>1, <2>1, <2>2, <2>3, RangeOf
<1>7. UNCHANGED notices \/ Drop \/ OnInvite \/ \E s \in Rooms : OtherPublishes(s)
    <2>1. CASE \E s \in Rooms : \/ SelectRoom(s) \/ LeaveRoom(s) \/ OtherCommits(s)
                                \/ OtherReopens(s) \/ OtherLeaves(s) \/ LeftElsewhere(s)
        BY <2>1 DEF SelectRoom, LeaveRoom, OtherCommits, OtherReopens, OtherLeaves,
                    LeftElsewhere, linkVars
    <2>2. CASE \/ Back \/ OpenModal \/ CloseModal \/ HandleCreateRoom \/ HandleCreateDM
               \/ OpenInvite \/ CloseInvite \/ HandleInvite \/ Reopen \/ Register
        BY <2>2 DEF Back, OpenModal, CloseModal, HandleCreateRoom, HandleCreateDM,
                    OpenInvite, CloseInvite, HandleInvite, Reopen, Register, linkVars
    <2>3. CASE \E j \in Jobs : \/ ServeCreate(j) \/ ServeDm(j) \/ ServeLeave(j)
                               \/ ServeInvite(j) \/ JobFails(j) \/ CreateAnswered(j)
                               \/ LeaveAnswered(j) \/ InviteAnswered(j)
        BY <2>3 DEF ServeCreate, ServeDm, ServeLeave, ServeInvite, Served, JobFails,
                    CreateAnswered, LeaveAnswered, InviteAnswered, linkVars
    <2>4. CASE \E g \in Gets : Read(g) \/ Arrive(g) \/ GetFails(g)
        BY <2>4 DEF Read, Arrive, GetFails, linkVars
    <2>5. QED
        BY <2>1, <2>2, <2>3, <2>4 DEF Next
<1>8. QED
    BY <1>2, <1>3, <1>4, <1>5, <1>6, <1>7

(* An answer to come stays to come until it comes or fails.                *)
LEMMA AnswerKept ==
    ASSUME Base, Next, NEW j \in Jobs, job[j] # Idle, job[j].at = "done"
    PROVE  \/ /\ job'[j] # Idle /\ job'[j].at = "done"
              /\ job'[j].kind = job[j].kind /\ job'[j].room = job[j].room
           \/ JobFails(j) \/ CreateAnswered(j) \/ LeaveAnswered(j) \/ InviteAnswered(j)
<1>1. ASSUME NEW g \in Gets, get[g] # Idle, get[g].for = j PROVE FALSE
    <2>1. j # None
        BY RoomListAssumption
    <2>2. QED
        BY <1>1, <2>1 DEF Base, Waited
<1>2. QED
    BY <1>1, JobsMove DEF IsOver, Stays, Begins, Succeeds, GoesOn

(* After the POST its GET is on the way.                                   *)
LEMMA CreateRight ==
    ASSUME Base, NEW j \in Jobs, CreateAnswered(j), NEW r \in Rooms, job[j].room = r
    PROVE  Pending(r)'
<1>1. GetsTyped
    BY TypeParts DEF Base
<1>2. PICK list \in List : list = ListOf(r)
    BY ListOfType
<1>3. Ask(list, j)
    BY <1>2 DEF CreateAnswered
<1>4. PICK g \in Gets : get'[g] = Fetch(list, j)
    BY <1>1, <1>3, AskType
<1>5. get'[g] # Idle /\ get'[g].list = list
    BY <1>4, FetchType
<1>6. r \in Of(list)
    BY <1>2, ListOfType
<1>7. QED
    BY <1>5, <1>6 DEF Pending

LEMMA ListedMoves ==
    ASSUME Base, Next
    PROVE  \/ listed' = listed
           \/ \E g \in Gets : Arrive(g)
           \/ \E j \in Jobs : LeaveAnswered(j)
<1>1. CASE \E s \in Rooms : \/ SelectRoom(s) \/ LeaveRoom(s) \/ OtherPublishes(s)
                            \/ OtherCommits(s) \/ OtherReopens(s) \/ OtherLeaves(s)
                            \/ LeftElsewhere(s)
    BY <1>1 DEF SelectRoom, LeaveRoom, OtherPublishes, OtherCommits, OtherReopens,
                OtherLeaves, LeftElsewhere
<1>2. CASE \/ Back \/ OpenModal \/ CloseModal \/ HandleCreateRoom \/ HandleCreateDM
           \/ OpenInvite \/ CloseInvite \/ HandleInvite \/ OnInvite \/ Drop \/ Reopen
           \/ Register
    BY <1>2 DEF Back, OpenModal, CloseModal, HandleCreateRoom, HandleCreateDM, OpenInvite,
                CloseInvite, HandleInvite, OnInvite, Drop, Reopen, Register
<1>3. CASE \/ \E g \in Gets : Read(g) \/ GetFails(g)
           \/ \E j \in Jobs : \/ ServeCreate(j) \/ ServeDm(j) \/ ServeLeave(j)
                              \/ ServeInvite(j) \/ JobFails(j) \/ CreateAnswered(j)
                              \/ InviteAnswered(j)
    BY <1>3 DEF Read, GetFails, ServeCreate, ServeDm, ServeLeave, ServeInvite, Served,
                JobFails, CreateAnswered, InviteAnswered
<1>4. QED
    BY <1>1, <1>2, <1>3 DEF Next

(* What was done for the user is to be answered.                           *)
LEMMA ServedPends ==
    ASSUME Base, NEW j \in Jobs,
           ServeCreate(j) \/ ServeDm(j) \/ ServeLeave(j), NEW r \in Rooms,
           ~(r \in Mine' <=> r \in Mine)
    PROVE  /\ Pending(r)'
           /\ r \in Mine => Answered(j, {"leave"})' /\ job'[j].room = r
<1>1. JobsTyped /\ Placed /\ Others /\ Unborn
    BY TypeParts DEF Base
<1>2. job[j] # Idle
    BY DEF ServeCreate, ServeDm, ServeLeave, Sent
<1>3. PICK s \in Rooms : Done(j, s) /\ \A x \in Rooms \ {s} : x \in Mine' <=> x \in Mine
    <2>1. CASE ServeCreate(j)
        BY <1>1, <2>1 DEF ServeCreate, Mine, Others
    <2>2. CASE ServeDm(j) \/ ServeLeave(j)
        <3>1. PICK s \in Rooms : s = job[j].room
            BY <1>1, <2>2 DEF ServeDm, ServeLeave, Sent, Placed
        <3>2. /\ Done(j, s) /\ exists' \in {exists, exists \cup {s}}
              /\ in' \in {[in EXCEPT ![s] = {Me, Other}], [in EXCEPT ![s] = @ \ {Me}]}
            BY <2>2, <3>1 DEF ServeDm, ServeLeave
        <3>3. \A x \in Rooms \ {s} : x \in Mine' <=> x \in Mine
            BY <1>1, <3>2 DEF Mine, Others
        <3>4. QED
            BY <3>2, <3>3
    <2>3. QED
        BY <2>1, <2>2
<1>4. r = s
    BY <1>3
<1>5. /\ job'[j] # Idle /\ job'[j].kind = job[j].kind /\ job'[j].room = r
      /\ job'[j].at = "done"
    BY <1>1, <1>2, <1>3, <1>4, DoneType
<1>6. job[j].kind \in {"create", "dm", "leave"}
    BY DEF ServeCreate, ServeDm, ServeLeave, Sent
<1>7. Pending(r)'
    BY <1>5, <1>6 DEF Pending, Answered
<1>8. ASSUME r \in Mine PROVE Answered(j, {"leave"})'
    <2>1. ~ServeCreate(j)
        BY <1>1, <1>8 DEF ServeCreate, Mine, Others
    <2>2. ~ServeDm(j)
        <3>1. PICK x : x = job[j].room
            OBVIOUS
        <3>2. ASSUME ServeDm(j) PROVE FALSE
            <4>1. in' = [in EXCEPT ![x] = {Me, Other}] /\ exists' = exists \cup {x}
                BY <3>1, <3>2 DEF ServeDm
            <4>2. r \in Mine'
                BY <1>1, <1>8, <4>1 DEF Mine, Others
            <4>3. QED
                BY <1>8, <4>2
        <3>3. QED
            BY <3>2
    <2>3. job[j].kind = "leave"
        BY <2>1, <2>2 DEF ServeLeave, Sent
    <2>4. QED
        BY <1>5, <2>3 DEF Answered
<1>9. QED
    BY <1>5, <1>7, <1>8

(* When the user's place in a room changes, an answer or a notice is to    *)
(* tell the list, or the room is marked; and when it is lost, the screen   *)
(* is to be told or cannot know.                                           *)
LEMMA MineMarked ==
    ASSUME Base, Next, NEW r \in Rooms, ~(r \in Mine' <=> r \in Mine)
    PROVE  /\ r \in crossed' \/ Pending(r)'
           /\ r \in Mine => \/ r \in gone'
                            \/ \E j \in Jobs : Answered(j, {"leave"})' /\ job'[j].room = r
<1>1. Others /\ Unborn
    BY TypeParts DEF Base
<1>2. CASE \E j \in Jobs : ServeCreate(j) \/ ServeDm(j) \/ ServeLeave(j)
    BY <1>2, ServedPends
<1>3. ASSUME NEW s \in Rooms, OtherCommits(s)
      PROVE  r \notin Mine /\ (r \in crossed' \/ Pending(r)')
    <2>1. ~(s \in Mine \/ (s \in Dms /\ s \in exists))
        BY <1>3 DEF OtherCommits, Mine
    <2>2. /\ exists' = exists \cup {s} /\ \A x \in Rooms \ {s} : in'[x] = in[x]
          /\ notices' = notices
          /\ crossed' = IF s \in Range(notices) THEN crossed ELSE crossed \cup {s}
        BY <1>1, <1>3, <2>1, CommitsPlace DEF Others
    <2>3. r = s
        BY <1>1, <2>2 DEF Mine, Others
    <2>4. QED
        BY <2>1, <2>2, <2>3 DEF Pending
<1>4. ASSUME NEW s \in Rooms, OtherReopens(s)
      PROVE  r \notin Mine /\ r \in crossed'
    <2>1. /\ exists' = exists /\ s \in exists /\ in' = [in EXCEPT ![s] = {Me, Other}]
          /\ Me \notin in[s] => crossed' = crossed \cup {s}
        BY <1>4 DEF OtherReopens
    <2>2. QED
        BY <1>1, <2>1 DEF Mine, Others
<1>5. ASSUME NEW s \in Rooms, LeftElsewhere(s)
      PROVE  r \in crossed' /\ r \in gone'
    BY <1>1, <1>5 DEF LeftElsewhere, Mine, Others
<1>6. ASSUME NEW j \in Jobs, ServeInvite(j) PROVE FALSE
    <2>1. PICK x : x = job[j].room
        OBVIOUS
    <2>2. exists' = exists /\ in' = [in EXCEPT ![x] = @ \cup {Other}]
        BY <1>6, <2>1 DEF ServeInvite
    <2>3. QED
        BY <1>1, <2>2, RoomListAssumption DEF Mine, Others
<1>7. ASSUME NEW s \in Rooms, OtherLeaves(s) PROVE FALSE
    BY <1>1, <1>7, RoomListAssumption DEF OtherLeaves, Mine, Others
<1>8. UNCHANGED serverVars => FALSE
    BY DEF serverVars, Mine
<1>9. CASE \/ \E s \in Rooms : SelectRoom(s) \/ LeaveRoom(s)
           \/ Back \/ OpenModal \/ CloseModal \/ HandleCreateRoom \/ HandleCreateDM
           \/ OpenInvite \/ CloseInvite \/ HandleInvite \/ OnInvite \/ Drop \/ Reopen
           \/ Register
    BY <1>8, <1>9 DEF SelectRoom, LeaveRoom, Back, OpenModal, CloseModal, HandleCreateRoom,
                      HandleCreateDM, OpenInvite, CloseInvite, HandleInvite, OnInvite, Drop,
                      Reopen, Register
<1>10. CASE \/ \E g \in Gets : Read(g) \/ Arrive(g) \/ GetFails(g)
            \/ \E j \in Jobs : \/ JobFails(j) \/ CreateAnswered(j) \/ LeaveAnswered(j)
                               \/ InviteAnswered(j)
    BY <1>8, <1>10 DEF Read, Arrive, GetFails, JobFails, CreateAnswered, LeaveAnswered,
                       InviteAnswered
<1>11. ASSUME NEW s \in Rooms, OtherPublishes(s) PROVE FALSE
    BY <1>11 DEF OtherPublishes, Mine
<1>12. QED
    BY <1>2, <1>3, <1>4, <1>5, <1>6, <1>7, <1>9, <1>10, <1>11 DEF Next

LEMMA RightStep ==
    ASSUME Base, Next, Fresh, NEW r \in Rooms, Right(r)
    PROVE  Right(r)'
<1>1. SUFFICES r \in crossed' \/ Agrees(r)' \/ Pending(r)'
    BY DEF Right
<1>2. CASE \E g \in Gets : /\ Arrive(g) \/ GetFails(g)
                           /\ r \in Of(get[g].list)
    BY <1>2, ArriveRight, FailureMarks
<1>3. CASE \E j \in Jobs : /\ JobFails(j) \/ LeaveAnswered(j) \/ CreateAnswered(j)
                           /\ job[j].room = r
    BY <1>3, FailureMarks, LeaveRight, CreateRight
<1>4. ASSUME \A g \in Gets : Arrive(g) \/ GetFails(g) => r \notin Of(get[g].list),
             \A j \in Jobs : JobFails(j) \/ LeaveAnswered(j) \/ CreateAnswered(j) =>
                                job[j].room # r
      PROVE  r \in crossed' \/ Agrees(r)' \/ Pending(r)'
    <2>1. CASE r \in crossed
        BY <1>4, <2>1, CrossedKept
    <2>2. CASE Agrees(r)
        <3>1. CASE listed' = listed
            BY <2>2, <3>1, MineMarked DEF Agrees
        <3>2. CASE \E g \in Gets : Arrive(g)
            BY <1>4, <2>2, <3>2, ArriveElsewhere
        <3>3. CASE \E j \in Jobs : LeaveAnswered(j)
            BY <1>4, <2>2, <3>3, LeaveRight
        <3>4. QED
            BY <3>1, <3>2, <3>3, ListedMoves
    <2>3. CASE r \in Range(notices)
        BY <2>3, NoticeKept
    <2>4. ASSUME NEW g \in Gets, get[g] # Idle, r \in Of(get[g].list)
          PROVE  Pending(r)'
        <3>1. Keeps(g)
            BY <1>4, <2>4, GetsMove DEF Ends, Starts
        <3>2. get'[g] # Idle /\ get'[g].list = get[g].list
            BY <3>1 DEF Keeps
        <3>3. r \in Of(get'[g].list)
            BY <2>4, <3>2
        <3>4. QED
            BY <3>2, <3>3 DEF Pending
    <2>5. ASSUME NEW j \in Jobs, Answered(j, {"create", "dm", "leave"}), job[j].room = r
          PROVE  Pending(r)'
        <3>1. job[j] # Idle /\ job[j].at = "done" /\ job[j].kind \in {"create", "dm", "leave"}
            BY <2>5 DEF Answered
        <3>2. ~JobFails(j) /\ ~CreateAnswered(j) /\ ~LeaveAnswered(j) /\ ~InviteAnswered(j)
            BY <1>4, <2>5, <3>1 DEF InviteAnswered, Answered
        <3>3. /\ job'[j] # Idle /\ job'[j].at = "done"
              /\ job'[j].kind = job[j].kind /\ job'[j].room = job[j].room
            BY <3>1, <3>2, AnswerKept
        <3>4. QED
            BY <2>5, <3>1, <3>3 DEF Pending, Answered
    <2>6. QED
        BY <2>1, <2>2, <2>3, <2>4, <2>5 DEF Right, Pending
<1>5. QED
    BY <1>2, <1>3, <1>4

ListInv == Base /\ Fresh /\ AllRight

LEMMA ListInit == Init => ListInv
<1> SUFFICES ASSUME Init PROVE ListInv
    OBVIOUS
<1>1. Fresh /\ AllRight
    BY DEF Init, Fresh, AllRight, Right, Agrees
<1>2. QED
    BY <1>1, BaseInit DEF ListInv

LEMMA ListStep == ListInv /\ [Next]_vars => ListInv'
<1> SUFFICES ASSUME ListInv, [Next]_vars PROVE ListInv'
    OBVIOUS
<1>1. CASE Next
    <2>1. Base' /\ Fresh'
        BY <1>1, BaseStep, FreshStep DEF ListInv
    <2>2. ASSUME NEW r \in Rooms PROVE Right(r)'
        BY <1>1, RightStep DEF ListInv, AllRight
    <2>3. QED
        BY <2>1, <2>2 DEF ListInv, AllRight
<1>2. CASE UNCHANGED vars
    <2>1. Base' /\ Fresh'
        BY <1>2, BaseStutters DEF ListInv, Fresh, Mine, vars, serverVars
    <2>2. /\ listed' = listed /\ crossed' = crossed /\ notices' = notices /\ get' = get
          /\ job' = job /\ Mine' = Mine
        BY <1>2 DEF vars, serverVars, linkVars, Mine
    <2>3. AllRight'
        BY <2>2 DEF ListInv, AllRight, Right, Agrees, Pending, Answered
    <2>4. QED
        BY <2>1, <2>3 DEF ListInv
<1>3. QED
    BY <1>1, <1>2

LEMMA QuietSettles ==
    ASSUME ListInv, Quiet, NEW r \in Rooms \ crossed
    PROVE  r \in listed <=> r \in Mine
<1>1. ~Pending(r)
    BY DEF Quiet, Pending, Answered, Range
<1>2. QED
    BY <1>1 DEF ListInv, AllRight, Right, Agrees

(* When nothing is on its way the lists have the rooms the user is in, but *)
(* for the rooms that are marked.                                          *)
THEOREM ListsSettle == Spec => []ListRight
<1>1. ListInv => ListRight
    BY QuietSettles DEF ListRight
<1>2. QED
    BY ListInit, ListStep, <1>1, PTL DEF Spec
-----------------------------------------------------------------------------
(* The room on the screen is the user's, or it was left in a way this tab  *)
(* cannot know, or the answer of leaving it is to come.                    *)
Shown ==
    \/ active \in Mine \cup gone \cup {None}
    \/ \E j \in Jobs : Answered(j, {"leave"}) /\ job[j].room = active

LEMMA ShownStep ==
    ASSUME Base, Next, Shown
    PROVE  Shown'
<1>1. Seen
    BY TypeParts DEF Base
<1>2. CASE Shows
    <2>1. PICK r \in Rooms \cup {None} : Show(r) /\ UNCHANGED serverVars
        BY <1>2 DEF Shows
    <2>2. active' = r /\ gone' = gone \cup ({r} \ (Mine \cup {None})) /\ Mine' = Mine
        BY <2>1 DEF Show, serverVars, Mine
    <2>3. QED
        BY <2>2 DEF Shown
<1>3. ASSUME active' = active, active \in gone => active \in gone',
             \A j \in Jobs : LeaveAnswered(j) => job[j].room # active
      PROVE  Shown'
    <2>1. CASE active \in gone \cup {None}
        BY <1>3, <2>1 DEF Shown
    <2>2. CASE active \in Mine \ {None}
        <3>1. PICK r \in Rooms : r = active
            BY <1>1, <2>2 DEF Seen
        <3>2. CASE r \in Mine'
            BY <1>3, <3>1, <3>2 DEF Shown
        <3>3. CASE r \notin Mine'
            BY <1>3, <2>2, <3>1, <3>3, MineMarked DEF Shown
        <3>4. QED
            BY <3>2, <3>3
    <2>3. ASSUME NEW j \in Jobs, Answered(j, {"leave"}), job[j].room = active,
                 active # None
          PROVE  Shown'
        <3>1. job[j] # Idle /\ job[j].at = "done" /\ job[j].kind = "leave"
            BY <2>3 DEF Answered
        <3>2. CASE JobFails(j)
            <4>1. gone' = gone \cup ({active} \ Mine) /\ Mine' = Mine
                BY <2>3, <3>1, <3>2 DEF JobFails, serverVars, Mine
            <4>2. QED
                BY <1>3, <4>1 DEF Shown
        <3>3. CASE ~JobFails(j)
            <4>1. ~CreateAnswered(j) /\ ~InviteAnswered(j) /\ ~LeaveAnswered(j)
                BY <1>3, <2>3, <3>1 DEF CreateAnswered, InviteAnswered, Answered
            <4>2. /\ job'[j] # Idle /\ job'[j].at = "done"
                  /\ job'[j].kind = job[j].kind /\ job'[j].room = job[j].room
                BY <3>1, <3>3, <4>1, AnswerKept
            <4>3. QED
                BY <1>3, <2>3, <3>1, <4>2 DEF Shown, Answered
        <3>4. QED
            BY <3>2, <3>3
    <2>4. QED
        BY <2>1, <2>2, <2>3 DEF Shown
<1>4. ASSUME NEW j \in Jobs, LeaveAnswered(j), job[j].room = active PROVE Shown'
    BY <1>4 DEF LeaveAnswered, Show, Shown
<1>5. CASE OpenInvite
    <2>1. active \in Rooms
        BY <1>1, <1>5 DEF OpenInvite, Seen
    <2>2. active' = active /\ gone' = gone \ {Other}
        BY <1>5 DEF OpenInvite
    <2>3. QED
        BY <1>3, <1>4, <2>1, <2>2, RoomListAssumption
<1>6. CASE Rests \/ CloseInvite \/ \E j \in Jobs : InviteAnswered(j)
    <2>1. active' = active /\ gone \subseteq gone'
        BY <1>6 DEF Rests, CloseInvite, InviteAnswered
    <2>2. QED
        BY <1>3, <1>4, <2>1
<1>7. QED
    BY <1>2, <1>5, <1>6, ViewMoves

(* The room on the screen is one of the list.                              *)
THEOREM ScreenSettles == Spec => []ActiveListed
<1>1. Init => Shown
    BY DEF Init, Shown
<1>2. ListInv /\ Shown /\ [Next]_vars => Shown'
    <2>1. ListInv /\ Shown /\ Next => Shown'
        BY ShownStep DEF ListInv
    <2>2. Shown /\ UNCHANGED vars => Shown'
        BY DEF Shown, Answered, Mine, vars, serverVars, viewVars
    <2>3. QED
        BY <2>1, <2>2
<1>3. ListInv /\ Shown => ActiveListed
    <2>1. SUFFICES ASSUME ListInv, Shown, Quiet, active \notin gone \cup {None}
                   PROVE  active \in listed \cup crossed
        BY DEF ActiveListed
    <2>2. active \in Mine /\ active \in Rooms
        BY <2>1 DEF Shown, Quiet, Answered, ListInv, Base, TypeOK
    <2>3. QED
        BY <2>1, <2>2, QuietSettles
<1>4. QED
    BY ListInit, ListStep, <1>1, <1>2, <1>3, PTL DEF Spec
-----------------------------------------------------------------------------
(* A user who is marked as invited is in the room of the screen, or left   *)
(* it since; so is one the answer is to come for, unless another room came *)
(* on the screen under the modal.                                          *)
IsThere == Other \in in[active] \cup gone

Invitations ==
    /\ InvitedIsMember
    /\ \A j \in Jobs : job[j] # Idle /\ job[j].kind = "invite" /\ job[j].mine =>
          /\ inviting
          /\ moved \/ (job[j].room = active /\ (job[j].at = "done" => IsThere))

(* Who leaves is known to have left, until the modal is opened again.      *)
LEMMA OtherKept ==
    ASSUME Base, Next, ~OpenInvite, NEW r \in Rooms, Other \in in[r] \cup gone
    PROVE  Other \in in'[r] \cup gone'
<1>1. Others /\ JobsTyped /\ Placed /\ Unborn
    BY TypeParts DEF Base
<1>2. gone \subseteq gone'
    <2>1. Shows => gone \subseteq gone'
        BY DEF Shows, Show
    <2>2. QED
        BY <2>1, ViewMoves DEF Rests, CloseInvite, InviteAnswered
<1>3. ASSUME Other \in in[r], Other \notin in'[r] PROVE Other \in gone'
    <2>1. ASSUME NEW j \in Jobs, ServeCreate(j) PROVE FALSE
        BY <1>1, <1>3, <2>1 DEF ServeCreate, Others, Unborn
    <2>2. ASSUME NEW j \in Jobs, ServeDm(j) \/ ServeLeave(j) \/ ServeInvite(j) PROVE FALSE
        <3>1. PICK s : s = job[j].room
            OBVIOUS
        <3>2. in' \in {[in EXCEPT ![s] = {Me, Other}], [in EXCEPT ![s] = @ \ {Me}],
                       [in EXCEPT ![s] = @ \cup {Other}]}
            BY <2>2, <3>1 DEF ServeDm, ServeLeave, ServeInvite
        <3>3. QED
            BY <1>1, <1>3, <3>2, RoomListAssumption DEF Others
    <2>3. ASSUME NEW s \in Rooms, OtherCommits(s) \/ OtherReopens(s) \/ LeftElsewhere(s)
          PROVE  FALSE
        <3>1. CASE OtherCommits(s)
            <4>1. in' = in \/ ~(s \in Mine \/ (s \in Dms /\ s \in exists))
                BY <3>1 DEF OtherCommits
            <4>2. QED
                BY <1>1, <1>3, <3>1, <4>1, CommitsPlace DEF Others
        <3>2. CASE OtherReopens(s) \/ LeftElsewhere(s)
            <4>1. in' \in {[in EXCEPT ![s] = {Me, Other}], [in EXCEPT ![s] = @ \ {Me}]}
                BY <3>2 DEF OtherReopens, LeftElsewhere
            <4>2. QED
                BY <1>1, <1>3, <4>1, RoomListAssumption DEF Others
        <3>3. QED
            BY <2>3, <3>1, <3>2
    <2>4. ASSUME NEW s \in Rooms, OtherLeaves(s) PROVE Other \in gone'
        BY <2>4 DEF OtherLeaves
    <2>5. CASE \/ \E s \in Rooms : SelectRoom(s) \/ LeaveRoom(s) \/ OtherPublishes(s)
               \/ Back \/ OpenModal \/ CloseModal \/ HandleCreateRoom \/ HandleCreateDM
               \/ OpenInvite \/ CloseInvite \/ HandleInvite \/ OnInvite \/ Drop \/ Reopen
               \/ Register
        BY <1>3, <2>5 DEF SelectRoom, LeaveRoom, OtherPublishes, Back, OpenModal,
                          CloseModal, HandleCreateRoom, HandleCreateDM, OpenInvite,
                          CloseInvite, HandleInvite, OnInvite, Drop, Reopen, Register,
                          serverVars
    <2>6. CASE \/ \E g \in Gets : Read(g) \/ Arrive(g) \/ GetFails(g)
               \/ \E j \in Jobs : \/ JobFails(j) \/ CreateAnswered(j) \/ LeaveAnswered(j)
                                  \/ InviteAnswered(j)
        BY <1>3, <2>6 DEF Read, Arrive, GetFails, JobFails, CreateAnswered, LeaveAnswered,
                          InviteAnswered, serverVars
    <2>7. QED
        BY <2>1, <2>2, <2>3, <2>4, <2>5, <2>6 DEF Next
<1>4. QED
    BY <1>2, <1>3

(* What becomes of a room on the screen under the modal.                   *)
LEMMA ScreenMoves ==
    ASSUME Base, Next, ~OpenInvite, inviting
    PROVE  \/ /\ inviting' /\ active' = active /\ (moved => moved')
              /\ IsThere => IsThere'
           \/ inviting' /\ moved'
           \/ ~inviting' /\ ~invited'
<1>1. Seen /\ Framed
    BY TypeParts DEF Base
<1>2. PICK r \in Rooms : r = active
    BY <1>1 DEF Framed, Seen
<1>3. active' = active => (IsThere => IsThere')
    <2>1. IsThere => Other \in in'[r] \cup gone'
        BY <1>2, OtherKept DEF IsThere
    <2>2. QED
        BY <1>2, <2>1 DEF IsThere
<1>4. CASE Rests
    BY <1>3, <1>4 DEF Rests
<1>5. CASE Shows
    <2>1. PICK s \in Rooms \cup {None} : Show(s)
        BY <1>5 DEF Shows
    <2>2. /\ active' = s /\ (inviting' <=> s # None) /\ (s = None => ~invited')
          /\ moved' <=> (s # None /\ (moved \/ s # active))
        BY <2>1, Zenon DEF Show
    <2>3. CASE s = active
        BY <1>2, <1>3, <2>2, <2>3, RoomListAssumption
    <2>4. CASE s # active
        BY <2>2, <2>4
    <2>5. QED
        BY <2>3, <2>4
<1>6. CASE CloseInvite
    BY <1>6 DEF CloseInvite
<1>7. CASE \E j \in Jobs : InviteAnswered(j)
    BY <1>3, <1>7 DEF InviteAnswered
<1>8. QED
    BY <1>4, <1>5, <1>6, <1>7, ViewMoves

LEMMA InvitationsStep ==
    ASSUME Base, Next, Invitations
    PROVE  Invitations'
<1>1. Seen /\ Framed /\ JobsTyped
    BY TypeParts DEF Base
<1>2. InvitedIsMember'
    <2>1. ASSUME invited' PROVE IsThere' \/ moved'
        <3>1. ~OpenInvite
            BY <2>1 DEF OpenInvite
        <3>2. CASE \E j \in Jobs : InviteAnswered(j)
            <4>1. PICK j \in Jobs : InviteAnswered(j)
                BY <3>2
            <4>2. /\ UNCHANGED <<in, active, gone, moved>>
                  /\ invited \/ (inviting /\ job[j].mine)
                BY <2>1, <4>1, Zenon DEF InviteAnswered, serverVars
            <4>3. job[j] # Idle /\ job[j].kind = "invite" /\ job[j].at = "done"
                BY <4>1 DEF InviteAnswered, Answered
            <4>4. IsThere \/ moved
                BY <4>2, <4>3 DEF Invitations, InvitedIsMember, IsThere
            <4>5. QED
                BY <4>2, <4>4 DEF IsThere
        <3>3. CASE ~\E j \in Jobs : InviteAnswered(j)
            <4>1. invited
                <5>1. CASE Shows
                    BY <2>1, <5>1, Zenon DEF Shows, Show
                <5>2. CASE Rests \/ CloseInvite
                    BY <2>1, <5>2 DEF Rests, CloseInvite
                <5>3. QED
                    BY <3>1, <3>3, <5>1, <5>2, ViewMoves
            <4>2. inviting /\ (IsThere \/ moved)
                BY <1>1, <4>1 DEF Framed, Invitations, InvitedIsMember, IsThere
            <4>3. QED
                BY <2>1, <3>1, <4>2, ScreenMoves
        <3>4. QED
            BY <3>2, <3>3
    <2>2. QED
        BY <2>1 DEF InvitedIsMember, IsThere
<1>3. ASSUME NEW j \in Jobs, job'[j] # Idle, job'[j].kind = "invite", job'[j].mine
      PROVE  /\ inviting'
             /\ \/ moved'
                \/ job'[j].room = active' /\ (job'[j].at = "done" => IsThere')
    <2>1. CASE Begins(j)
        <3>1. HandleInvite /\ job'[j].room = active /\ job'[j].at = "sent"
            BY <1>3, <2>1 DEF Begins
        <3>2. inviting' /\ active' = active
            BY <3>1 DEF HandleInvite, viewVars
        <3>3. QED
            BY <3>1, <3>2
    <2>2. CASE Succeeds(j)
        <3>1. /\ job[j] # Idle /\ job[j].kind = "invite" /\ job[j].mine
              /\ job'[j].at = "done" /\ job'[j].room \in Rooms /\ ServeInvite(j)
            BY <1>3, <2>2 DEF Succeeds
        <3>2. inviting /\ (moved \/ job[j].room = active)
            BY <3>1 DEF Invitations
        <3>3. inviting' = inviting /\ moved' = moved /\ active' = active
            BY <3>1 DEF ServeInvite, Served, viewVars
        <3>4. ASSUME job[j].room = active
              PROVE  job'[j].room = active /\ IsThere'
            <4>1. PICK r \in Rooms : r = active
                <5>1. active # None
                    BY <1>1, <3>2 DEF Framed
                <5>2. QED
                    BY <1>1, <5>1 DEF Seen
            <4>2. in' = [in EXCEPT ![r] = @ \cup {Other}] /\ Done(j, r)
                BY <3>1, <3>4, <4>1 DEF ServeInvite
            <4>3. Other \in in'[r]
                BY <4>2, TypeParts DEF Base, Others
            <4>4. job'[j].room = r
                BY <1>1, <3>1, <4>2, DoneType
            <4>5. QED
                BY <3>3, <4>1, <4>3, <4>4 DEF IsThere
        <3>5. QED
            BY <3>2, <3>3, <3>4
    <2>3. CASE Stays(j)
        <3>1. /\ job[j] # Idle /\ job[j].kind = "invite" /\ job[j].mine
              /\ job'[j].room = job[j].room /\ job'[j].at = job[j].at
            BY <1>3, <2>3 DEF Stays
        <3>2. inviting /\ (moved \/ (job[j].room = active /\ (job[j].at = "done" => IsThere)))
            BY <3>1 DEF Invitations
        <3>3. ~OpenInvite
            BY <3>2 DEF OpenInvite
        <3>4. inviting'
            <4>1. ASSUME CloseInvite PROVE FALSE
                BY <1>1, <1>3, <3>1, <4>1, UnmountType DEF CloseInvite
            <4>2. ASSUME NEW i \in Jobs, LeaveAnswered(i), job[i].room = active PROVE FALSE
                <5>1. job' = [Unmount({"invite"}) EXCEPT ![i] = Idle]
                    BY <4>2 DEF LeaveAnswered
                <5>2. job'[j] = Unmount({"invite"})[j]
                    BY <1>3, <5>1 DEF Unmount
                <5>3. QED
                    BY <1>1, <1>3, <3>1, <5>2, UnmountType
            <4>3. CASE Shows
                <5>1. PICK r \in Rooms \cup {None} : Show(r) /\ r # None
                    BY <3>2, <4>2, <4>3 DEF Shows
                <5>2. QED
                    BY <3>2, <5>1, Zenon DEF Show
            <4>4. CASE Rests \/ \E i \in Jobs : InviteAnswered(i)
                BY <3>2, <4>4 DEF Rests, InviteAnswered
            <4>5. QED
                BY <3>3, <4>1, <4>3, <4>4, ViewMoves
        <3>5. QED
            BY <3>1, <3>2, <3>3, <3>4, ScreenMoves
    <2>4. QED
        BY <1>3, <2>1, <2>2, <2>3, JobsMove DEF IsOver, GoesOn
<1>4. QED
    BY <1>2, <1>3 DEF Invitations

(* A user is marked as invited only once in the room.                      *)
THEOREM InvitedSettles == Spec => []InvitedIsMember
<1>1. Init => Base /\ Invitations
    BY BaseInit DEF Init, Invitations, InvitedIsMember
<1>2. Base /\ Invitations /\ [Next]_vars => Base' /\ Invitations'
    <2>1. Base /\ Invitations /\ UNCHANGED vars => Invitations'
        BY DEF Invitations, InvitedIsMember, IsThere, vars, serverVars, viewVars
    <2>2. QED
        BY <2>1, BaseStep, BaseStutters, InvitationsStep
<1>3. Invitations => InvitedIsMember
    BY DEF Invitations
<1>4. QED
    BY <1>1, <1>2, <1>3, PTL DEF Spec
=============================================================================
