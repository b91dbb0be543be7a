------------------------------ MODULE Composer ------------------------------
(* The input line of one browser tab (MessageInput.tsx, the handlers of    *)
(* ChatLayout.tsx), its socket, and a tab of somebody else who is in the   *)
(* same rooms and watches the typing indicators.  The line lives as long   *)
(* as some room is on the screen: changing the room keeps its draft, its   *)
(* flag and its timer, closing the room drops them but no timer.           *)
(* No name is one of ClientConnection, so that a module can extend both.   *)
EXTENDS Naturals, Sequences, SequencesExt, FiniteSets

CONSTANTS
    Rooms, NoRoom,
    Limit,          \* MESSAGE_SEND_LIMIT: messages in one window
    MaxKeys, MaxSends, MaxMoves, MaxDrops   \* bounds

ASSUME ComposerAssumption ==
    /\ NoRoom \notin Rooms
    /\ {Limit, MaxKeys, MaxSends, MaxMoves, MaxDrops} \subseteq Nat

VARIABLES
    mobile,         \* isMobile
    room,           \* activeRoomId
    content,        \* of the input, trimmed
    isTyping,       \* isTypingRef
    timer,          \* the pending timer of the line: the room its closure has
    strays,         \* the pending timers of lines that are gone, oldest first
    ws,             \* readyState of the tab's socket
    seen,           \* hasConnectedOnce
    toast,          \* wsErrorMessage
    wire,           \* frames on their way to the endpoint
    hits,           \* messages counted in the window that runs
    left,           \* rooms of the list the user left in another tab
    errors,         \* refusals on their way back
    feed,           \* payloads on their way to the other tab
    watching,       \* the other tab is connected
    shown,          \* typing of the other tab: where it shows the user
    sent, keys, moves, drops,   \* counters
    stored,         \* history: messages in the database
    untold,         \* history: messages lost without a sign on the screen
    hidden,         \* history: those of them no sign was due for
    spoiled         \* history: rooms whose indicator was spoiled (see README)

lineVars == <<room, content, isTyping, timer, strays>>
netVars == <<ws, seen>>
serverVars == <<wire, hits, left, errors, stored>>
otherVars == <<feed, watching, shown>>
counters == <<sent, keys, moves, drops>>
allVars == <<mobile, lineVars, netVars, toast, serverVars, otherVars, counters,
             untold, hidden, spoiled>>

Frame == [type : {"typing.start", "typing.stop"}, room : Rooms]
         \cup [type : {"message.send"}, room : Rooms, id : 1..MaxSends]
Indicator == [room : Rooms, is_typing : BOOLEAN]

LineTypeOK ==
    /\ mobile \in BOOLEAN /\ room \in Rooms \cup {NoRoom}
    /\ content \in {"blank", "text"}
    /\ isTyping \in BOOLEAN /\ timer \in Rooms \cup {NoRoom} /\ strays \in Seq(Rooms)
    /\ ws \in {"connecting", "open", "closed"} /\ seen \in BOOLEAN
    /\ toast \in BOOLEAN
    /\ wire \in Seq(Frame) /\ hits \in 0..Limit /\ left \subseteq Rooms
    /\ errors \subseteq 1..MaxSends
    /\ feed \in Seq(Indicator) /\ watching \in BOOLEAN /\ shown \subseteq Rooms
    /\ sent \in 0..MaxSends /\ keys \in 0..MaxKeys
    /\ moves \in 0..MaxMoves /\ drops \in 0..MaxDrops
    /\ stored \subseteq 1..MaxSends /\ untold \subseteq 1..MaxSends
    /\ hidden \subseteq untold /\ spoiled \subseteq Rooms

(* The tab was opened; nothing is on the screen yet but the list. *)
LineInit ==
    /\ mobile \in BOOLEAN /\ room = NoRoom
    /\ content = "blank" /\ isTyping = FALSE /\ timer = NoRoom /\ strays = <<>>
    /\ ws = "connecting" /\ seen = FALSE /\ toast = FALSE
    /\ wire = <<>> /\ hits = 0 /\ left = {} /\ errors = {}
    /\ feed = <<>> /\ watching = TRUE /\ shown = {}
    /\ sent = 0 /\ keys = 0 /\ moves = 0 /\ drops = 0
    /\ stored = {} /\ untold = {} /\ hidden = {} /\ spoiled = {}
-----------------------------------------------------------------------------
(* The banner over the page, and the toast, which ChatWindow shows. *)
Banner == seen /\ ws # "open"
Noticed == Banner \/ (toast /\ room # NoRoom)

(* What the user can know of lost: a sign on the screen tells of every     *)
(* loss, and none is due to a tab that never had a connection nor for a    *)
(* toast that runs out while no room is open.                              *)
Lose(lost, due) ==
    /\ untold' = IF Noticed' THEN {} ELSE untold \cup lost
    /\ hidden' = IF Noticed' THEN {} ELSE IF due THEN hidden ELSE hidden \cup lost

(* WebSocket.send on a socket that is open; one that closes or is closed   *)
(* swallows the frame.  On one that connects it raises.                    *)
Push(fs) == wire' = IF ws = "open" THEN wire \o fs ELSE wire
Raises == ws = "connecting"

Start(r) == [type |-> "typing.start", room |-> r]
Stop(r) == [type |-> "typing.stop", room |-> r]
TypingRooms(fs) == {f.room : f \in {g \in Range(fs) : g.type # "message.send"}}

(* A start or stop that was sent puts the indicator of r right, one that   *)
(* was not spoils it.                                                      *)
Sends(r) == IF ws = "open" THEN spoiled \ {r} ELSE spoiled \cup {r}
-----------------------------------------------------------------------------
(* Mutant of HandleChange: only the first key of a burst sets a timer. *)
HandleChangeOneTimer(c) ==
    /\ room # NoRoom /\ keys < MaxKeys
    /\ content' = c /\ keys' = keys + 1
    /\ isTyping' = TRUE
    /\ IF ~isTyping /\ Raises
       THEN UNCHANGED <<timer, wire>>
       ELSE /\ timer' = IF isTyping THEN NoRoom ELSE room
            /\ IF isTyping THEN UNCHANGED wire ELSE Push(<<Start(room)>>)
    /\ spoiled' = IF ~isTyping THEN Sends(room)
                  ELSE IF timer = room THEN spoiled
                  ELSE spoiled \cup ({room, timer} \ {NoRoom})
    /\ UNCHANGED <<mobile, room, strays, netVars, toast, hits, left, errors, stored,
                   otherVars, sent, moves, drops, untold, hidden>>

(* handleChange: typing.start with the first key, and a timer that sends   *)
(* typing.stop to the room of this key.  When the start raises, no timer   *)
(* is set and the flag stays.  A key in another room than the last is no   *)
(* first key and takes the timer of that room.                             *)
HandleChange(c) ==
    /\ room # NoRoom /\ keys < MaxKeys
    /\ content' = c /\ keys' = keys + 1
    /\ isTyping' = TRUE
    /\ IF ~isTyping /\ Raises
       THEN UNCHANGED <<timer, wire>>
       ELSE /\ timer' = room
            /\ IF isTyping THEN UNCHANGED wire ELSE Push(<<Start(room)>>)
    /\ spoiled' = IF ~isTyping THEN Sends(room)
                  ELSE IF timer = room THEN spoiled
                  ELSE spoiled \cup ({room, timer} \ {NoRoom})
    /\ UNCHANGED <<mobile, room, strays, netVars, toast, hits, left, errors, stored,
                   otherVars, sent, moves, drops, untold, hidden>>

(* 500 ms after the last key.  Timers of one delay run in their order. *)
TimerFires ==
    /\ timer # NoRoom /\ strays = <<>>
    /\ isTyping' = FALSE /\ timer' = NoRoom
    /\ Push(<<Stop(timer)>>)
    /\ spoiled' = Sends(timer)
    /\ UNCHANGED <<mobile, room, content, strays, netVars, toast, hits, left, errors,
                   stored, otherVars, counters, untold, hidden>>

(* The timer of a line that is gone: it stops what a new line may have     *)
(* started in the same room.                                               *)
StrayFires ==
    /\ strays # <<>>
    /\ strays' = Tail(strays)
    /\ Push(<<Stop(Head(strays))>>)
    /\ spoiled' = IF isTyping /\ timer = Head(strays) THEN spoiled \cup {timer}
                  ELSE Sends(Head(strays))
    /\ UNCHANGED <<mobile, room, content, isTyping, timer, netVars, toast, hits, left,
                   errors, stored, otherVars, counters, untold, hidden>>

(* Mutant of HandleSubmit: the timer is cleared, the stop forgotten. *)
HandleSubmitNoStop ==
    /\ room # NoRoom /\ content = "text" /\ sent < MaxSends
    /\ ~Raises
    /\ content' = "blank" /\ isTyping' = FALSE /\ timer' = NoRoom /\ sent' = sent + 1
    /\ Push(<<[type |-> "message.send", room |-> room, id |-> sent + 1]>>)
    /\ spoiled' = (IF isTyping THEN Sends(room) ELSE spoiled)
                  \cup IF timer \in {NoRoom, room} THEN {} ELSE {timer}
    /\ UNCHANGED <<mobile, room, strays, netVars, toast, hits, left, errors, stored,
                   otherVars, keys, moves, drops>>
    /\ Lose(IF ws = "open" THEN {} ELSE {sent + 1}, seen)

(* handleSubmit: the message, then the stop.  When the send raises the     *)
(* text stays; on a socket that is closed it is gone.                      *)
HandleSubmit ==
    /\ room # NoRoom /\ content = "text" /\ sent < MaxSends
    /\ ~Raises
    /\ content' = "blank" /\ isTyping' = FALSE /\ timer' = NoRoom /\ sent' = sent + 1
    /\ LET message == [type |-> "message.send", room |-> room, id |-> sent + 1] IN
       Push(<<message>> \o IF isTyping THEN <<Stop(room)>> ELSE <<>>)
    /\ spoiled' = (IF isTyping THEN Sends(room) ELSE spoiled)
                  \cup IF timer \in {NoRoom, room} THEN {} ELSE {timer}
    /\ UNCHANGED <<mobile, room, strays, netVars, toast, hits, left, errors, stored,
                   otherVars, keys, moves, drops>>
    /\ Lose(IF ws = "open" THEN {} ELSE {sent + 1}, seen)
-----------------------------------------------------------------------------
(* setActiveRoom.  On a narrow screen the list is seen when no room is. *)
SelectRoom(r) ==
    /\ r # room /\ (mobile => room = NoRoom) /\ moves < MaxMoves
    /\ room' = r /\ moves' = moves + 1
    /\ UNCHANGED <<mobile, content, isTyping, timer, strays, netVars, toast,
                   serverVars, otherVars, sent, keys, drops, spoiled>>
    /\ Lose({}, TRUE)

(* handleBack on a narrow screen, leaving the room of the screen on any:   *)
(* ChatWindow and its line go.                                             *)
CloseRoom ==
    /\ room # NoRoom
    /\ room' = NoRoom /\ content' = "blank" /\ isTyping' = FALSE /\ timer' = NoRoom
    /\ strays' = IF timer = NoRoom THEN strays ELSE Append(strays, timer)
    /\ UNCHANGED <<mobile, netVars, toast, serverVars, otherVars, counters,
                   untold, hidden, spoiled>>

(* The window grows or shrinks past 768 px; ChatWindow stays as it is. *)
Resize ==
    /\ mobile' = ~mobile /\ moves < MaxMoves /\ moves' = moves + 1
    /\ UNCHANGED <<lineVars, netVars, toast, serverVars, otherVars, sent, keys,
                   drops, untold, hidden, spoiled>>
-----------------------------------------------------------------------------
(* onopen *)
Connected ==
    /\ ws = "connecting"
    /\ ws' = "open" /\ seen' = TRUE
    /\ UNCHANGED <<mobile, lineVars, toast, serverVars, otherVars, counters,
                   untold, hidden, spoiled>>

(* onclose: what the endpoint did not read is lost, and what it answered. *)
ConnectionLost ==
    /\ ws # "closed" /\ drops < MaxDrops
    /\ ws' = "closed" /\ drops' = drops + 1
    /\ wire' = <<>> /\ errors' = {}
    /\ spoiled' = spoiled \cup TypingRooms(wire)
    /\ UNCHANGED <<mobile, lineVars, seen, toast, hits, left, stored, otherVars, sent,
                   keys, moves>>
    /\ Lose(errors \cup {f.id : f \in {g \in Range(wire) : g.type = "message.send"}},
            seen)

Retry ==
    /\ ws = "closed"
    /\ ws' = "connecting"
    /\ UNCHANGED <<mobile, lineVars, seen, toast, serverVars, otherVars, counters,
                   untold, hidden, spoiled>>
-----------------------------------------------------------------------------
(* The endpoint reads a typing frame and publishes it to the others. *)
HandleTyping ==
    /\ wire # <<>> /\ Head(wire).type # "message.send"
    /\ wire' = Tail(wire)
    /\ LET f == Head(wire) IN
       IF watching
       THEN /\ feed' = Append(feed, [room |-> f.room,
                                     is_typing |-> f.type = "typing.start"])
            /\ UNCHANGED spoiled
       ELSE UNCHANGED feed /\ spoiled' = spoiled \cup {f.room}
    /\ UNCHANGED <<mobile, lineVars, netVars, toast, hits, left, errors, stored, watching,
                   shown, counters, untold, hidden>>

(* A message that passes the limit is stored, unless the user is no member *)
(* of its room any more: then nothing is said.                             *)
Accept(f) ==
    /\ hits' = hits + 1 /\ UNCHANGED errors
    /\ stored' = IF f.room \in left THEN stored ELSE stored \cup {f.id}
    /\ Lose(IF f.room \in left THEN {f.id} ELSE {}, FALSE)

(* Mutant of HandleSend: a refused message is let go without an error. *)
HandleSendDrops ==
    /\ wire # <<>> /\ Head(wire).type = "message.send"
    /\ wire' = Tail(wire)
    /\ UNCHANGED <<mobile, lineVars, netVars, toast, left, otherVars, counters, spoiled>>
    /\ IF hits < Limit THEN Accept(Head(wire))
       ELSE UNCHANGED <<hits, errors, stored>> /\ Lose({Head(wire).id}, TRUE)

(* The endpoint reads a message; one too many is answered with an error. *)
HandleSend ==
    /\ wire # <<>> /\ Head(wire).type = "message.send"
    /\ wire' = Tail(wire)
    /\ UNCHANGED <<mobile, lineVars, netVars, toast, left, otherVars, counters, spoiled>>
    /\ IF hits < Limit THEN Accept(Head(wire))
       ELSE /\ errors' = errors \cup {Head(wire).id} /\ UNCHANGED <<hits, stored>>
            /\ Lose({}, TRUE)

(* The counter of the fixed window expires. *)
WindowEnds ==
    /\ hits > 0 /\ hits' = 0
    /\ UNCHANGED <<mobile, lineVars, netVars, toast, wire, left, errors, stored,
                   otherVars, counters, untold, hidden, spoiled>>

(* Another tab of the user leaves a room; this one is not told. *)
LeaveElsewhere(r) ==
    /\ r \notin left /\ moves < MaxMoves /\ moves' = moves + 1
    /\ left' = left \cup {r}
    /\ UNCHANGED <<mobile, lineVars, netVars, toast, wire, hits, errors, stored,
                   otherVars, sent, keys, drops, untold, hidden, spoiled>>

(* onmessage of an error *)
OnError(m) ==
    /\ m \in errors /\ errors' = errors \ {m}
    /\ toast' = TRUE
    /\ UNCHANGED <<mobile, lineVars, netVars, wire, hits, left, stored, otherVars, counters,
                   spoiled>>
    /\ Lose({m}, TRUE)

(* 3 s after wsErrorMessage was set *)
ToastEnds ==
    /\ toast /\ toast' = FALSE
    /\ UNCHANGED <<mobile, lineVars, netVars, serverVars, otherVars, counters, spoiled>>
    /\ Lose(untold, FALSE)
-----------------------------------------------------------------------------
(* setTyping in the other tab *)
SetTyping ==
    /\ feed # <<>>
    /\ feed' = Tail(feed)
    /\ LET p == Head(feed) IN
       shown' = IF p.is_typing THEN shown \cup {p.room} ELSE shown \ {p.room}
    /\ UNCHANGED <<mobile, lineVars, netVars, toast, serverVars, watching, counters,
                   untold, hidden, spoiled>>

(* The other tab loses its connection, and what was on its way to it. *)
WatcherDrops ==
    /\ watching /\ drops < MaxDrops
    /\ watching' = FALSE /\ drops' = drops + 1
    /\ feed' = <<>> /\ spoiled' = spoiled \cup {p.room : p \in Range(feed)}
    /\ UNCHANGED <<mobile, lineVars, netVars, toast, serverVars, shown, sent, keys,
                   moves, untold, hidden>>

(* It reconnects: rooms and messages are fetched, indicators are not. *)
WatcherReturns ==
    /\ ~watching /\ watching' = TRUE
    /\ UNCHANGED <<mobile, lineVars, netVars, toast, serverVars, feed, shown, counters,
                   untold, hidden, spoiled>>
-----------------------------------------------------------------------------
LineNext ==
    \/ \E c \in {"blank", "text"} : HandleChange(c)
    \/ HandleSubmit \/ TimerFires \/ StrayFires
    \/ \E r \in Rooms : SelectRoom(r) \/ LeaveElsewhere(r)
    \/ CloseRoom \/ Resize
    \/ Connected \/ ConnectionLost \/ Retry
    \/ HandleTyping \/ HandleSend \/ WindowEnds
    \/ \E m \in 1..MaxSends : OnError(m)
    \/ ToastEnds
    \/ SetTyping \/ WatcherDrops \/ WatcherReturns

(* The browser runs its timers, the endpoint and the other tab read what   *)
(* comes.  Nobody has to type, and no connection has to be made.           *)
LineFairness ==
    /\ WF_allVars(TimerFires) /\ WF_allVars(StrayFires)
    /\ WF_allVars(HandleTyping) /\ WF_allVars(HandleSend) /\ WF_allVars(SetTyping)

LineSpec == LineInit /\ [][LineNext]_allVars
LineFairSpec == LineSpec /\ LineFairness
-----------------------------------------------------------------------------
(* When nothing is on its way, the other tab shows the user in the rooms   *)
(* where the line has a timer, and nowhere else but in rooms closed less   *)
(* than 500 ms after a key, unless the indicator was spoiled: by a key in  *)
(* another room, a connection that was not there, or the timer of a line   *)
(* that is gone.  A later burst of keys in the room puts it right.         *)
IndicatorRight ==
    wire = <<>> /\ feed = <<>> /\ watching =>
        \A r \in Rooms \ spoiled :
            /\ isTyping /\ timer = r => r \in shown
            /\ r \in shown => (isTyping /\ timer = r) \/ r \in Range(strays)

(* An indicator that is shown goes away (MessageInput.tsx:12). *)
IndicatorEnds == \A r \in Rooms : r \in shown ~> (r \notin shown \/ r \in spoiled)

(* A text that left the line is stored, or on its way, or there is a sign  *)
(* on the screen that it may not be: the banner from the loss on, or the   *)
(* toast, if the tab ever was connected, a room is on the screen before    *)
(* the toast runs out, and the user did not leave the room in another tab. *)
LossIsTold == untold \subseteq hidden \/ toast
=============================================================================
