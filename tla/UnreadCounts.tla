---------------------------- MODULE UnreadCounts ----------------------------
(* The unread badges of one browser tab (store/chat.ts, ChatLayout.tsx,    *)
(* ChatWindow.tsx, useWebSocket.ts) beside the counts of the server        *)
(* (crud/room.py, api/websocket.py).  The tab counts up as messages come   *)
(* and puts a badge to zero as the room is opened; the server compares     *)
(* created_at with last_read_at, which read.update sets.  They meet when a *)
(* list of rooms is fetched.  The rooms are of one list; the other list is *)
(* handled alike.  The user stays in them and below the rate limit.        *)
(* No name is one of Session, so that a module can extend both.            *)
EXTENDS Naturals, Sequences, SequencesExt, FiniteSets

CONSTANTS
    Rooms, NoRoom, Me, Other,
    Gets,           \* bound: GETs in progress at once
    MaxMsgs,        \* bound: messages
    MaxMoves,       \* bound: changes of the room on the screen
    MaxEvents       \* bound: invitations and lost connections

ASSUME UnreadAssumption ==
    /\ NoRoom \notin Rooms /\ Me # Other
    /\ {MaxMsgs, MaxMoves, MaxEvents} \subseteq Nat

VARIABLES
    msg,            \* the messages, in the order of created_at
    read,           \* messages with created_at <= the user's last_read_at
    mobile, active, \* isMobile, activeRoomId
    blank,          \* React has unmounted the page
    listed, badge,  \* rooms: whether it is filled, and each unread_count
    link,           \* the socket
    retried,        \* retryCount > 0
    wire, feed,     \* frames to the endpoint, message.new payloads to the tab
    get,            \* GETs of the list in progress
    moves, events,
    off             \* history: rooms whose badge may be wrong (see README)

rowVars == <<msg, read>>
pageVars == <<mobile, active, blank, listed, badge>>
linkVars == <<link, retried>>
counters == <<moves, events>>
badgeVars == <<rowVars, pageVars, linkVars, wire, feed, get, counters, off>>

Id == 1..MaxMsgs
Message == [room : Rooms, from : {Me, Other},
            at : {"built", "published", "committed", "failed"}]
Frame == [type : {"read.update", "message.send"}, room : Rooms]
Vacant == [at |-> "idle"]
Get == [at : {"sent", "read"}, page : [Rooms -> Nat], met : SUBSET Rooms]
Ids == DOMAIN msg

BadgeTypeOK ==
    /\ msg \in Seq(Message) /\ Len(msg) <= MaxMsgs /\ read \subseteq Ids
    /\ mobile \in BOOLEAN /\ active \in Rooms \cup {NoRoom}
    /\ blank \in BOOLEAN /\ listed \in BOOLEAN /\ badge \in [Rooms -> Nat]
    /\ link \in {"connecting", "accepted", "up", "closed"} /\ retried \in BOOLEAN
    /\ wire \in Seq(Frame) /\ feed \in Seq(Ids)
    /\ get \in [Gets -> Get \cup {Vacant}]
    /\ moves \in 0..MaxMoves /\ events \in 0..MaxEvents
    /\ off \subseteq Rooms

Zero == [r \in Rooms |-> 0]
Request == [at |-> "sent", page |-> Zero, met |-> {}]

(* The page was opened: the sidebar fetches and the socket connects. *)
BadgeInit ==
    /\ msg = <<>> /\ read = {}
    /\ mobile \in BOOLEAN /\ active = NoRoom /\ blank = FALSE
    /\ listed = FALSE /\ badge = Zero
    /\ link = "connecting" /\ retried = FALSE /\ wire = <<>> /\ feed = <<>>
    /\ \E g \in Gets : get = [h \in Gets |-> IF h = g THEN Request ELSE Vacant]
    /\ moves = 0 /\ events = 0
    /\ off = {}
-----------------------------------------------------------------------------
UnderWay == {m \in Ids : msg[m].at \in {"built", "published"} \/ m \in Range(feed)}
RoomsOf(ms) == {msg[m].room : m \in ms}
ReadFrames(fs) == {f.room : f \in {h \in Range(fs) : h.type = "read.update"}}
FromOther(ms) == {m \in ms : msg[m].from = Other}

(* A GET meets the messages and the read.update frames under way. *)
Track(gets) ==
    LET met == ReadFrames(wire') \cup RoomsOf(UnderWay)'
    IN  get' = [g \in Gets |-> IF gets[g] = Vacant THEN Vacant
                               ELSE [gets[g] EXCEPT !.met = @ \cup met]]
NoGet == Track(get)
Ask == \E g \in Gets : get[g] = Vacant /\ Track([get EXCEPT ![g] = Request])
-----------------------------------------------------------------------------
(* The counts of get_rooms_by_user. *)
Unread(r) == {m \in Ids : msg[m].room = r /\ msg[m].from # Me
                          /\ msg[m].at = "committed" /\ m \notin read}
Count(r) == Cardinality(Unread(r))

(* Somebody else's message: its INSERT, with created_at of this moment, ... *)
Build(r) ==
    /\ Len(msg) < MaxMsgs
    /\ msg' = Append(msg, [room |-> r, from |-> Other, at |-> "built"])
    /\ UNCHANGED <<read, pageVars, linkVars, wire, feed, counters, off>>
    /\ NoGet

(* ... its publication, which reaches the tab when it is registered, ...   *)
Publish(m) ==
    /\ msg[m].at = "built"
    /\ msg' = [msg EXCEPT ![m].at = "published"]
    /\ IF link = "up"
       THEN feed' = Append(feed, m) /\ UNCHANGED off
       ELSE off' = off \cup RoomsOf(FromOther({m})) /\ UNCHANGED feed
    /\ UNCHANGED <<read, pageVars, linkVars, wire, counters>>
    /\ NoGet

(* ... and the end of its transaction. *)
Commit(m) ==
    /\ msg[m].at = "published"
    /\ msg' = [msg EXCEPT ![m].at = "committed"]
    /\ UNCHANGED <<read, pageVars, linkVars, wire, feed, counters, off>>
    /\ NoGet

CommitFails(m) ==
    /\ msg[m].at = "published"
    /\ msg' = [msg EXCEPT ![m].at = "failed"]
    /\ off' = off \cup RoomsOf(FromOther({m}))
    /\ UNCHANGED <<read, pageVars, linkVars, wire, feed, counters>>
    /\ NoGet

(* The endpoint of the user takes one frame after the other. *)
Serving == \E m \in Ids : msg[m].from = Me /\ msg[m].at \in {"built", "published"}
Receives(type) ==
    /\ link = "up" /\ ~Serving /\ wire # <<>> /\ Head(wire).type = type
    /\ wire' = Tail(wire)

(* update_last_read_at: the rows up to now count as read. *)
ReadUpdate ==
    /\ Receives("read.update")
    /\ read' = read \cup {m \in Ids : msg[m].room = Head(wire).room}
    /\ UNCHANGED <<msg, pageVars, linkVars, feed, counters, off>>
    /\ NoGet

ReceiveMessage ==
    /\ Receives("message.send") /\ Len(msg) < MaxMsgs
    /\ msg' = Append(msg, [room |-> Head(wire).room, from |-> Me, at |-> "built"])
    /\ UNCHANGED <<read, pageVars, linkVars, feed, counters, off>>
    /\ NoGet
-----------------------------------------------------------------------------
Open == link \in {"accepted", "up"}

(* Mutant of Shows: the effect has no cleanup. *)
ShowsNoCleanup(r) ==
    /\ active' = r
    /\ badge' = [x \in Rooms |-> IF x = r THEN 0 ELSE badge[x]]
    /\ wire' = IF Open /\ r # NoRoom
               THEN Append(wire, [type |-> "read.update", room |-> r]) ELSE wire
    /\ off' = (IF Open THEN off ELSE off \cup ({active} \ {NoRoom})) \ {r}

(* setActiveRoom, then the effects: ChatWindow says read.update for the    *)
(* room that goes and for the room that comes, in that order.              *)
Shows(r) ==
    LET leaving == {active} \ {NoRoom}
        entering == {r} \ {NoRoom}
        frames == [i \in 1..Cardinality(leaving \cup entering) |->
                      [type |-> "read.update",
                       room |-> IF i = 1 /\ leaving # {} THEN active ELSE r]]
    IN
    /\ active' = r
    /\ badge' = [x \in Rooms |-> IF x = r THEN 0 ELSE badge[x]]
    /\ wire' = IF Open THEN wire \o frames ELSE wire
    /\ off' = (IF Open THEN off ELSE off \cup leaving) \ entering

(* WebSocket.send raises while the socket connects: an error of an effect, *)
(* for which React takes the whole page away.                              *)
Breaks ==
    /\ blank' = TRUE /\ active' = NoRoom
    /\ listed' = FALSE /\ badge' = Zero /\ link' = "closed"
    /\ wire' = <<>> /\ feed' = <<>> /\ get' = [g \in Gets |-> Vacant]
    /\ UNCHANGED <<rowVars, mobile, retried, off>>

Moves == ~blank /\ moves < MaxMoves /\ moves' = moves + 1 /\ UNCHANGED events

SelectRoom(r) ==
    /\ Moves /\ listed /\ r # active /\ (mobile => active = NoRoom)
    /\ IF link = "connecting" THEN Breaks
       ELSE /\ Shows(r)
            /\ UNCHANGED <<rowVars, mobile, blank, listed, linkVars, feed>>
            /\ NoGet

(* handleBack: the sidebar is mounted and fetches while read.update is     *)
(* on its way.                                                             *)
Back ==
    /\ Moves /\ mobile /\ active # NoRoom
    /\ IF link = "connecting" THEN Breaks
       ELSE /\ Shows(NoRoom)
            /\ UNCHANGED <<rowVars, mobile, blank, listed, linkVars, feed>>
            /\ Ask

SendMessage ==
    /\ ~blank /\ active # NoRoom /\ Open /\ Len(msg) < MaxMsgs
    /\ \A f \in Range(wire) : f.type # "message.send"
    /\ wire' = Append(wire, [type |-> "message.send", room |-> active])
    /\ UNCHANGED <<rowVars, pageVars, linkVars, feed, counters, off>>
    /\ NoGet

(* message.new: every message of another room than the one on the screen   *)
(* counts, the user's own too, and one a read.update goes beyond.          *)
OnMessage ==
    /\ ~blank /\ feed # <<>> /\ feed' = Tail(feed)
    /\ LET m == Head(feed)
           r == msg[m].room
           passed == r # active /\ (m \in read \/ r \in ReadFrames(wire))
       IN  /\ badge' = IF r # active /\ listed THEN [badge EXCEPT ![r] = @ + 1] ELSE badge
           /\ off' = IF passed \/ (r # active /\ msg[m].from = Me) THEN off \cup {r} ELSE off
    /\ UNCHANGED <<rowVars, mobile, active, blank, listed, linkVars, wire, counters>>
    /\ NoGet

(* room.invite of some other room: the list is fetched. *)
OnInvite ==
    /\ ~blank /\ link = "up" /\ events < MaxEvents /\ events' = events + 1
    /\ UNCHANGED <<rowVars, pageVars, linkVars, wire, feed, moves, off>>
    /\ Ask

ReadList(g) ==
    /\ get[g].at = "sent"
    /\ UNCHANGED <<rowVars, pageVars, linkVars, wire, feed, counters, off>>
    /\ Track([get EXCEPT ![g].at = "read", ![g].page = [r \in Rooms |-> Count(r)]])

(* The badges are those of the answer, of the room on the screen too. *)
Arrive(g) ==
    /\ get[g].at = "read"
    /\ listed' = TRUE /\ badge' = get[g].page
    /\ off' = get[g].met \cup {r \in {active} \ {NoRoom} : get[g].page[r] # 0}
    /\ UNCHANGED <<rowVars, mobile, active, blank, linkVars, wire, feed, counters>>
    /\ Track([get EXCEPT ![g] = Vacant])

GetFails(g) ==
    /\ get[g] # Vacant
    /\ UNCHANGED <<rowVars, pageVars, linkVars, wire, feed, counters, off>>
    /\ Track([get EXCEPT ![g] = Vacant])
-----------------------------------------------------------------------------
(* onopen: after a retry the list is fetched. *)
Accept ==
    /\ ~blank /\ link = "connecting" /\ link' = "accepted"
    /\ retried' = FALSE
    /\ UNCHANGED <<rowVars, pageVars, wire, feed, counters, off>>
    /\ IF retried THEN Ask ELSE NoGet

Register ==
    /\ link = "accepted" /\ link' = "up"
    /\ UNCHANGED <<rowVars, pageVars, retried, wire, feed, counters, off>>
    /\ NoGet

(* The socket closes: what was on its way is lost. *)
Drop ==
    /\ ~blank /\ link # "closed" /\ events < MaxEvents /\ events' = events + 1
    /\ link' = "closed" /\ retried' = TRUE /\ wire' = <<>> /\ feed' = <<>>
    /\ off' = off \cup RoomsOf(FromOther(Range(feed))) \cup (ReadFrames(wire) \ {active})
    /\ UNCHANGED <<rowVars, pageVars, moves>>
    /\ NoGet

Retry ==
    /\ ~blank /\ link = "closed" /\ link' = "connecting"
    /\ UNCHANGED <<rowVars, pageVars, retried, wire, feed, counters, off>>
    /\ NoGet
-----------------------------------------------------------------------------
BadgeNext ==
    \/ \E r \in Rooms : Build(r) \/ SelectRoom(r)
    \/ \E m \in Ids : Publish(m) \/ Commit(m) \/ CommitFails(m)
    \/ ReadUpdate \/ ReceiveMessage
    \/ Back \/ SendMessage \/ OnMessage \/ OnInvite
    \/ \E g \in Gets : ReadList(g) \/ Arrive(g) \/ GetFails(g)
    \/ Accept \/ Register \/ Drop \/ Retry

BadgeSpec == BadgeInit /\ [][BadgeNext]_badgeVars
-----------------------------------------------------------------------------
Quiet ==
    /\ ~blank /\ link = "up" /\ wire = <<>> /\ UnderWay = {}
    /\ \A g \in Gets : get[g] = Vacant

(* When nothing is on its way, a badge is the number of messages of others *)
(* the server counts as unread, and the room on the screen has none,       *)
(* whatever was opened, left, sent and missed; unless a list was fetched   *)
(* while a message or a read.update was under way or brought a count of    *)
(* the room on the screen, the user's own message or one that an update    *)
(* went beyond came when its room had been left, a payload or an update    *)
(* was lost, or a message failed once published.                           *)
BadgeRight ==
    Quiet /\ listed =>
        \A r \in Rooms \ off : badge[r] = IF r = active THEN 0 ELSE Count(r)
=============================================================================
