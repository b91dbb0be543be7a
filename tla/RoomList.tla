------------------------------ MODULE RoomList ------------------------------
(* The lists of rooms in one browser tab (store/chat.ts, Sidebar.tsx,      *)
(* CreateRoomModal.tsx, InviteMemberModal.tsx) beside the memberships on   *)
(* the server: the user creates, opens, leaves and invites; one other user *)
(* invites, opens the DM and leaves; another tab of the user leaves.  A    *)
(* list is fetched by a GET that is read at one time and applied at        *)
(* another; nothing cancels or orders GETs.                                *)
EXTENDS Naturals, Sequences, SequencesExt, FiniteSets

CONSTANTS
    Rooms, None, Dms,   \* rooms that may exist, and which are DMs with the other
    Me, Other,
    Jobs, Gets,         \* bounds: requests and GETs of lists in progress at once
    MaxActs, MaxOthers, MaxDrops    \* bounds: what the user does, what others do

ASSUME RoomListAssumption ==
    /\ None \notin Rooms \cup Jobs /\ Dms \subseteq Rooms
    /\ Me # Other /\ Other \notin Rooms
    /\ {MaxActs, MaxOthers, MaxDrops} \subseteq Nat

VARIABLES
    exists, in,     \* rooms, and who is in them
    coming,         \* invitations by the other user: published, not committed
    mobile,         \* isMobile
    listed,         \* rooms and dmRooms of the store
    active,         \* activeRoomId
    modal,          \* showModal of the sidebar: the create modal
    loading,        \* of that modal
    inviting,       \* showInvite of ChatWindow
    invited,        \* the invite modal marks the other user as invited
    link, notices,  \* the socket and the room.invite payloads to come
    job, get,       \* requests and GETs of lists in progress
    acts, others, drops,
    crossed,        \* history: rooms the list may have wrong (see README)
    moved,          \* history: the room changed under the invite modal
    gone            \* history: rooms left, which this tab cannot know; who left

serverVars == <<exists, in, coming>>
viewVars == <<active, modal, loading, inviting, invited>>
linkVars == <<link, notices>>
counters == <<acts, others, drops>>
vars == <<serverVars, mobile, listed, viewVars, linkVars, job, get, counters,
          crossed, moved, gone>>

Idle == [kind |-> "idle"]
Job == [kind : {"create", "dm", "leave", "invite"}, room : Rooms \cup {None},
        at : {"sent", "done", "fetch"}, mine : BOOLEAN]
List == {"rooms", "dmRooms"}
Get == [list : List, for : Jobs \cup {None}, page : SUBSET Rooms,
        dirty : SUBSET Rooms, at : {"sent", "read"}]

TypeOK ==
    /\ exists \subseteq Rooms /\ in \in [Rooms -> SUBSET {Me, Other}]
    /\ coming \subseteq Rooms
    /\ mobile \in BOOLEAN /\ listed \subseteq Rooms /\ active \in Rooms \cup {None}
    /\ {modal, loading, inviting, invited, moved} \subseteq BOOLEAN
    /\ link \in {"down", "accepted", "up"} /\ notices \in Seq(Rooms)
    /\ job \in [Jobs -> Job \cup {Idle}] /\ get \in [Gets -> Get \cup {Idle}]
    /\ acts \in 0..MaxActs /\ others \in 0..MaxOthers /\ drops \in 0..MaxDrops
    /\ crossed \subseteq Rooms /\ gone \subseteq Rooms \cup {Other}

Of(list) == IF list = "dmRooms" THEN Dms ELSE Rooms \ Dms
ListOf(r) == IF r \in Dms THEN "dmRooms" ELSE "rooms"
Mine == {r \in exists : Me \in in[r]}

(* The page is loaded and shows the rooms of the user. *)
Init ==
    /\ exists \in SUBSET Rooms
    /\ in \in [Rooms -> SUBSET {Me, Other}]
    /\ \A r \in Rooms \ exists : in[r] = {}
    /\ coming = {}
    /\ mobile \in BOOLEAN /\ listed = Mine /\ active = None
    /\ modal = FALSE /\ loading = FALSE /\ inviting = FALSE /\ invited = FALSE
    /\ link = "up" /\ notices = <<>>
    /\ job = [j \in Jobs |-> Idle] /\ get = [g \in Gets |-> Idle]
    /\ acts = 0 /\ others = 0 /\ drops = 0
    /\ crossed = {} /\ moved = FALSE /\ gone = {}
-----------------------------------------------------------------------------
Fetch(list, for) == [list |-> list, for |-> for, page |-> {}, dirty |-> {}, at |-> "sent"]
Free == {g \in Gets : get[g] = Idle}

Ask(list, for) == \E g \in Free : get' = [get EXCEPT ![g] = Fetch(list, for)]
AskBoth == \E g, h \in Free :
    g # h /\ get' = [get EXCEPT ![g] = Fetch("rooms", None), ![h] = Fetch("dmRooms", None)]

(* The user's place in r changes: what a GET has read is out of date. *)
Changes(r) ==
    get' = [g \in Gets |-> IF get[g] # Idle /\ get[g].at = "read" /\ get[g].list = ListOf(r)
                           THEN [get[g] EXCEPT !.dirty = @ \cup {r}] ELSE get[g]]

NewJob(kind, r) ==
    /\ acts < MaxActs /\ acts' = acts + 1
    /\ \E j \in Jobs :
          /\ job[j] = Idle
          /\ job' = [job EXCEPT ![j] = [kind |-> kind, room |-> r, at |-> "sent",
                                        mine |-> TRUE]]

(* The component that asked is gone; its request goes on. *)
Unmount(kinds) ==
    [j \in Jobs |-> IF job[j] # Idle /\ job[j].kind \in kinds
                    THEN [job[j] EXCEPT !.mine = FALSE] ELSE job[j]]

(* setActiveRoom: on a narrow screen the sidebar and its modal go with it, *)
(* without a room ChatWindow and its modal do.                             *)
Show(r) ==
    /\ active' = r
    /\ inviting' = (r # None /\ inviting) /\ invited' = (r # None /\ invited)
    /\ moved' = (r # None /\ inviting /\ (moved \/ r # active))
    /\ gone' = gone \cup ({r} \ (Mine \cup {None}))
-----------------------------------------------------------------------------
SelectRoom(r) ==
    /\ r \in listed \ {active} /\ (mobile => active = None)
    /\ ~modal /\ ~inviting
    /\ acts < MaxActs /\ acts' = acts + 1
    /\ Show(r)
    /\ UNCHANGED <<serverVars, mobile, listed, modal, loading, linkVars, job, get, others,
                   drops, crossed>>

(* handleBack: the sidebar mounts and fetches both lists. *)
Back ==
    /\ mobile /\ active # None /\ ~inviting
    /\ Show(None)
    /\ AskBoth
    /\ UNCHANGED <<serverVars, mobile, listed, modal, loading, linkVars, job, counters,
                   crossed>>

OpenModal ==
    /\ ~modal /\ ~inviting /\ (mobile => active = None) /\ acts < MaxActs
    /\ modal' = TRUE /\ loading' = FALSE
    /\ UNCHANGED <<serverVars, mobile, listed, active, inviting, invited, linkVars, job,
                   get, counters, crossed, moved, gone>>

(* A click beside the modal closes it, also while it waits. *)
CloseModal ==
    /\ modal
    /\ modal' = FALSE /\ job' = Unmount({"create", "dm"})
    /\ UNCHANGED <<serverVars, mobile, listed, active, loading, inviting, invited,
                   linkVars, get, counters, crossed, moved, gone>>

HandleCreateRoom ==
    /\ modal /\ ~loading /\ loading' = TRUE
    /\ NewJob("create", None)
    /\ UNCHANGED <<serverVars, mobile, listed, active, modal, inviting, invited,
                   linkVars, get, others, drops, crossed, moved, gone>>

(* The buttons of the DM tab stay on while loading. *)
HandleCreateDM ==
    /\ modal /\ loading' = TRUE
    /\ \E r \in Dms : NewJob("dm", r)
    /\ UNCHANGED <<serverVars, mobile, listed, active, modal, inviting, invited,
                   linkVars, get, others, drops, crossed, moved, gone>>

LeaveRoom(r) ==
    /\ r \in listed /\ ~modal /\ ~inviting /\ (mobile => active = None)
    /\ NewJob("leave", r)
    /\ UNCHANGED <<serverVars, mobile, listed, viewVars, linkVars, get, others, drops,
                   crossed, moved, gone>>

(* The button is there unless the room is known to be a DM. *)
OpenInvite ==
    /\ active # None /\ active \notin listed \cap Dms
    /\ ~inviting /\ ~modal /\ acts < MaxActs
    /\ inviting' = TRUE /\ invited' = FALSE /\ moved' = FALSE
    /\ gone' = gone \ {Other}
    /\ UNCHANGED <<serverVars, mobile, listed, active, modal, loading, linkVars, job, get,
                   counters, crossed>>

CloseInvite ==
    /\ inviting /\ inviting' = FALSE /\ invited' = FALSE /\ moved' = FALSE
    /\ job' = Unmount({"invite"})
    /\ UNCHANGED <<serverVars, mobile, listed, active, modal, loading, linkVars, get,
                   counters, crossed, gone>>

HandleInvite ==
    /\ inviting /\ ~invited
    /\ \A j \in Jobs : job[j] # Idle => ~(job[j].kind = "invite" /\ job[j].mine)
    /\ NewJob("invite", active)
    /\ UNCHANGED <<serverVars, mobile, listed, viewVars, linkVars, get, others, drops,
                   crossed, moved, gone>>
-----------------------------------------------------------------------------
Sent(j, kind) == job[j] # Idle /\ job[j].kind = kind /\ job[j].at = "sent"
Done(j, r) == job' = [job EXCEPT ![j].room = r, ![j].at = "done"]
Served == UNCHANGED <<coming, mobile, listed, viewVars, linkVars, counters, moved, gone>>

(* The transactions of the four requests.  A group room is new; the DM is  *)
(* opened, or entered again by whoever left it.                            *)
ServeCreate(j) ==
    /\ Sent(j, "create")
    /\ \E r \in Rooms \ (Dms \cup exists) :
          /\ exists' = exists \cup {r} /\ in' = [in EXCEPT ![r] = {Me}]
          /\ Changes(r) /\ Done(j, r)
    /\ UNCHANGED crossed /\ Served

ServeDm(j) ==
    /\ Sent(j, "dm")
    /\ LET r == job[j].room IN
       /\ exists' = exists \cup {r} /\ in' = [in EXCEPT ![r] = {Me, Other}]
       /\ IF Me \in in[r] THEN UNCHANGED get ELSE Changes(r)
       /\ Done(j, r)
    /\ UNCHANGED crossed /\ Served

ServeLeave(j) ==
    /\ Sent(j, "leave") /\ Me \in in[job[j].room]
    /\ in' = [in EXCEPT ![job[j].room] = @ \ {Me}]
    /\ Changes(job[j].room) /\ Done(j, job[j].room)
    /\ UNCHANGED <<exists, crossed>> /\ Served

ServeInvite(j) ==
    /\ Sent(j, "invite")
    /\ LET r == job[j].room IN
       /\ r \notin Dms /\ Me \in in[r]
       /\ in' = [in EXCEPT ![r] = @ \cup {Other}]
       /\ Done(j, r)
    /\ UNCHANGED <<exists, get, crossed>> /\ Served

Wrong(rs) == {r \in rs : (r \in listed) # (r \in Mine)}

(* Mutant of JobFails: the user is marked as invited whatever came. *)
JobFailsMarks(j) ==
    /\ job[j] # Idle /\ job[j].at \in {"sent", "done"}
    /\ job' = [job EXCEPT ![j] = Idle]
    /\ loading' = (loading /\ ~(job[j].kind \in {"create", "dm"} /\ job[j].mine))
    /\ invited' = (invited \/ (inviting /\ job[j].kind = "invite" /\ job[j].mine))
    /\ crossed' = crossed \cup Wrong({job[j].room} \cap Rooms)
    /\ UNCHANGED <<serverVars, mobile, listed, active, modal, inviting, linkVars, get,
                   counters, moved, gone>>

(* The request is answered with an error, or it or its answer is lost.     *)
(* The list may then miss what the request did, and a room that was left   *)
(* stays on the screen.                                                    *)
JobFails(j) ==
    /\ job[j] # Idle /\ job[j].at \in {"sent", "done"}
    /\ job' = [job EXCEPT ![j] = Idle]
    /\ loading' = (loading /\ ~(job[j].kind \in {"create", "dm"} /\ job[j].mine))
    /\ gone' = IF job[j].kind = "leave" THEN gone \cup ({job[j].room} \ Mine) ELSE gone
    /\ crossed' = crossed \cup Wrong({job[j].room} \cap Rooms)
    /\ UNCHANGED <<serverVars, mobile, listed, active, modal, inviting, invited, linkVars,
                   get, counters, moved>>

Answered(j, kinds) == job[j] # Idle /\ job[j].kind \in kinds /\ job[j].at = "done"

(* Mutant of CreateAnswered: the room is shown and no list fetched. *)
CreateAnsweredOnly(j) ==
    /\ Answered(j, {"create", "dm"})
    /\ job' = [job EXCEPT ![j] = Idle]
    /\ Show(job[j].room)
    /\ modal' = FALSE /\ loading' = FALSE
    /\ UNCHANGED <<serverVars, mobile, listed, linkVars, get, counters, crossed>>

(* After the POST the list is fetched, and the room shown when it is there. *)
CreateAnswered(j) ==
    /\ Answered(j, {"create", "dm"})
    /\ job' = [job EXCEPT ![j].at = "fetch"]
    /\ Ask(ListOf(job[j].room), j)
    /\ UNCHANGED <<serverVars, mobile, listed, viewVars, linkVars, counters, crossed,
                   moved, gone>>

(* leaveRoom: the room goes from the list and from the screen, and the     *)
(* invite modal with it; on a narrow screen the sidebar mounts and fetches *)
(* both lists.  Somebody may have invited the user again before the answer *)
(* came.                                                                   *)
LeaveAnswered(j) ==
    /\ Answered(j, {"leave"})
    /\ listed' = listed \ {job[j].room}
    /\ crossed' = crossed \cup ({job[j].room} \cap Mine)
    /\ IF active = job[j].room
       THEN /\ Show(None) /\ job' = [Unmount({"invite"}) EXCEPT ![j] = Idle]
            /\ IF mobile THEN AskBoth ELSE UNCHANGED get
       ELSE /\ job' = [job EXCEPT ![j] = Idle]
            /\ UNCHANGED <<active, inviting, invited, moved, gone, get>>
    /\ UNCHANGED <<serverVars, mobile, modal, loading, linkVars, counters>>

InviteAnswered(j) ==
    /\ Answered(j, {"invite"})
    /\ job' = [job EXCEPT ![j] = Idle]
    /\ invited' = (invited \/ (inviting /\ job[j].mine))
    /\ UNCHANGED <<serverVars, mobile, listed, active, modal, loading, inviting, linkVars,
                   get, counters, crossed, moved, gone>>
-----------------------------------------------------------------------------
(* The server reads the list.  An invitation that is published and not     *)
(* committed is not in it, and its notice may be spent.                    *)
Read(g) ==
    /\ get[g] # Idle /\ get[g].at = "sent"
    /\ LET mineNow == Mine \cap Of(get[g].list) IN
       get' = [get EXCEPT ![g].at = "read", ![g].page = mineNow,
                          ![g].dirty = coming \cap Of(get[g].list)]
    /\ UNCHANGED <<serverVars, mobile, listed, viewVars, linkVars, job, counters, crossed,
                   moved, gone>>

(* Mutant of Arrive: rooms are added to the list, none is taken off. *)
ArriveMerged(g) ==
    /\ get[g] # Idle /\ get[g].at = "read"
    /\ get' = [get EXCEPT ![g] = Idle]
    /\ listed' = listed \cup get[g].page
    /\ crossed' = (crossed \ Of(get[g].list)) \cup get[g].dirty
    /\ IF get[g].for = None THEN UNCHANGED <<viewVars, moved, gone, job>>
       ELSE /\ job' = [Unmount({"create", "dm"}) EXCEPT ![get[g].for] = Idle]
            /\ Show(job[get[g].for].room)
            /\ modal' = FALSE /\ loading' = FALSE
    /\ UNCHANGED <<serverVars, mobile, linkVars, counters>>

(* The list is set to the page.  For a room that was created the screen    *)
(* goes there, wherever it is now, and the modal closes, even if it is     *)
(* another than the one that asked.                                        *)
Arrive(g) ==
    /\ get[g] # Idle /\ get[g].at = "read"
    /\ get' = [get EXCEPT ![g] = Idle]
    /\ listed' = (listed \ Of(get[g].list)) \cup get[g].page
    /\ crossed' = (crossed \ Of(get[g].list)) \cup get[g].dirty
    /\ IF get[g].for = None THEN UNCHANGED <<viewVars, moved, gone, job>>
       ELSE /\ job' = [Unmount({"create", "dm"}) EXCEPT ![get[g].for] = Idle]
            /\ Show(job[get[g].for].room)
            /\ modal' = FALSE /\ loading' = FALSE
    /\ UNCHANGED <<serverVars, mobile, linkVars, counters>>

(* Nothing is set.  A room that was created is not shown, and the modal    *)
(* stays, ready to create it again.                                        *)
GetFails(g) ==
    /\ get[g] # Idle
    /\ get' = [get EXCEPT ![g] = Idle]
    /\ crossed' = crossed \cup Wrong(Of(get[g].list))
    /\ IF get[g].for = None THEN UNCHANGED <<loading, job>>
       ELSE /\ job' = [job EXCEPT ![get[g].for] = Idle]
            /\ loading' = (loading /\ ~job[get[g].for].mine)
    /\ UNCHANGED <<serverVars, mobile, listed, active, modal, inviting, invited, linkVars,
                   counters, moved, gone>>
-----------------------------------------------------------------------------
OthersAct == others < MaxOthers /\ others' = others + 1

(* The other user invites, or opens a DM there was none of: published,     *)
(* then committed.                                                         *)
OtherPublishes(r) ==
    /\ OthersAct /\ r \notin coming
    /\ IF r \in Dms THEN r \notin exists
       ELSE r \in exists /\ Other \in in[r] /\ Me \notin in[r]
    /\ coming' = coming \cup {r}
    /\ notices' = IF link = "up" THEN Append(notices, r) ELSE notices
    /\ UNCHANGED <<exists, in, mobile, listed, viewVars, link, job, get, acts, drops,
                   crossed, moved, gone>>

(* An invitation adds the user to the group, a new DM has the two.  Unless *)
(* the notice is still to come, nothing makes the tab look again.  A       *)
(* second DM of the two is left out here (see Rooms).                      *)
OtherCommits(r) ==
    /\ r \in coming /\ coming' = coming \ {r}
    /\ IF r \in Mine \/ (r \in Dms /\ r \in exists)
       THEN UNCHANGED <<exists, in, get, crossed>>
       ELSE /\ exists' = exists \cup {r}
            /\ in' = [in EXCEPT ![r] = IF r \in Dms THEN {Me, Other} ELSE @ \cup {Me}]
            /\ Changes(r)
            /\ crossed' = IF r \in Range(notices) THEN crossed ELSE crossed \cup {r}
    /\ UNCHANGED <<mobile, listed, viewVars, linkVars, job, counters, moved, gone>>

(* The other user opens the DM again: whoever left is put back, and nobody *)
(* is told.                                                                *)
OtherReopens(r) ==
    /\ OthersAct /\ r \in Dms \cap exists
    /\ in' = [in EXCEPT ![r] = {Me, Other}]
    /\ IF Me \in in[r] THEN UNCHANGED <<get, crossed>>
       ELSE Changes(r) /\ crossed' = crossed \cup {r}
    /\ UNCHANGED <<exists, coming, mobile, listed, viewVars, linkVars, job, acts, drops,
                   moved, gone>>

OtherLeaves(r) ==
    /\ OthersAct /\ Other \in in[r]
    /\ in' = [in EXCEPT ![r] = @ \ {Other}]
    /\ gone' = gone \cup {Other}
    /\ UNCHANGED <<exists, coming, mobile, listed, viewVars, linkVars, job, get, acts,
                   drops, crossed, moved>>

(* The user leaves in another tab; this one is not told. *)
LeftElsewhere(r) ==
    /\ OthersAct /\ r \in Mine
    /\ in' = [in EXCEPT ![r] = @ \ {Me}]
    /\ Changes(r)
    /\ crossed' = crossed \cup {r} /\ gone' = gone \cup {r}
    /\ UNCHANGED <<exists, coming, mobile, listed, viewVars, linkVars, job, acts, drops,
                   moved>>

(* room.invite: the list of that kind is fetched. *)
OnInvite ==
    /\ notices # <<>> /\ notices' = Tail(notices)
    /\ Ask(ListOf(Head(notices)), None)
    /\ UNCHANGED <<serverVars, mobile, listed, viewVars, link, job, counters, crossed,
                   moved, gone>>

Drop ==
    /\ link # "down" /\ drops < MaxDrops /\ drops' = drops + 1
    /\ link' = "down" /\ notices' = <<>>
    /\ crossed' = crossed \cup Range(notices)
    /\ UNCHANGED <<serverVars, mobile, listed, viewVars, job, get, acts, others, moved,
                   gone>>

(* onopen after a retry fetches both lists. *)
Reopen ==
    /\ link = "down" /\ link' = "accepted"
    /\ AskBoth
    /\ UNCHANGED <<serverVars, mobile, listed, viewVars, notices, job, counters, crossed,
                   moved, gone>>

Register ==
    /\ link = "accepted" /\ link' = "up"
    /\ UNCHANGED <<serverVars, mobile, listed, viewVars, notices, job, get, counters,
                   crossed, moved, gone>>
-----------------------------------------------------------------------------
Next ==
    \/ \E r \in Rooms : \/ SelectRoom(r) \/ LeaveRoom(r) \/ OtherPublishes(r)
                        \/ OtherCommits(r) \/ OtherReopens(r) \/ OtherLeaves(r)
                        \/ LeftElsewhere(r)
    \/ Back \/ OpenModal \/ CloseModal \/ HandleCreateRoom \/ HandleCreateDM
    \/ OpenInvite \/ CloseInvite \/ HandleInvite
    \/ \E j \in Jobs : \/ ServeCreate(j) \/ ServeDm(j) \/ ServeLeave(j) \/ ServeInvite(j)
                       \/ JobFails(j) \/ CreateAnswered(j) \/ LeaveAnswered(j)
                       \/ InviteAnswered(j)
    \/ \E g \in Gets : Read(g) \/ Arrive(g) \/ GetFails(g)
    \/ OnInvite \/ Drop \/ Reopen \/ Register

Spec == Init /\ [][Next]_vars
-----------------------------------------------------------------------------
Quiet ==
    /\ \A j \in Jobs : job[j] = Idle
    /\ \A g \in Gets : get[g] = Idle
    /\ coming = {} /\ notices = <<>> /\ link = "up"

(* When nothing is on its way the lists have the rooms the user is in,     *)
(* whatever was created, left or missed over a lost connection, unless the *)
(* change was told to nobody, met a GET that had read already, or the GET  *)
(* or the answer that was to show it failed.                               *)
ListRight == Quiet => \A r \in Rooms \ crossed : r \in listed <=> r \in Mine

(* The room on the screen is one of the list, so that it has a title and   *)
(* can be left, unless the user left it in another tab.                    *)
ActiveListed == Quiet => active \in listed \cup crossed \cup gone \cup {None}

(* A user marked as invited is in the room of the screen, or left it since *)
(* the modal was opened; unless a room that was created in the meantime    *)
(* came on the screen under the modal.                                     *)
InvitedIsMember == invited => Other \in in[active] \cup gone \/ moved
=============================================================================
