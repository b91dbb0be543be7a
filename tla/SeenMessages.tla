---------------------------- MODULE SeenMessages ----------------------------
(* What one browser tab has shown of the messages (fetchMessages and       *)
(* addMessage of store/chat.ts, ChatWindow.tsx, useWebSocket.ts) beside    *)
(* what counts as read.  Entering a room says read.update at once and      *)
(* fetches the newest page of its messages by a GET, which may fail, be    *)
(* answered when the room was left, and not have every message.  The steps *)
(* are those of UnreadCounts, with what they do to the messages; older     *)
(* pages are left out (see RoomView).                                      *)
EXTENDS UnreadCounts

CONSTANTS
    Fetches,        \* bound: GETs of messages in progress at once
    PageSize        \* limit of get_messages_by_room

ASSUME SeenAssumption == PageSize \in Nat \ {0}

VARIABLES
    messages,       \* messages of the store, those of all rooms
    fetch,          \* GETs of messages in progress
    seen,           \* history: messages that were on the screen
    missed          \* history: messages that did not get there (see ReadWasSeen)

messageVars == <<messages, fetch, seen, missed>>
seenVars == <<badgeVars, messageVars>>

NoFetch == [at |-> "idle"]
Fetch == [at : {"sent", "read"}, room : Rooms, page : SUBSET Ids]

SeenTypeOK ==
    /\ BadgeTypeOK
    /\ messages \subseteq Ids /\ seen \subseteq Ids /\ missed \subseteq Ids
    /\ fetch \in [Fetches -> Fetch \cup {NoFetch}]

SeenInit ==
    /\ BadgeInit
    /\ messages = {} /\ fetch = [f \in Fetches |-> NoFetch]
    /\ seen = {} /\ missed = {}
-----------------------------------------------------------------------------
InRoom(r) == {m \in Ids : msg[m].room = r}

(* It counts as read, or will when the frames are taken and the room left. *)
Passed(m) == m \in read \/ msg[m].room \in ReadFrames(wire) \/ msg[m].room = active

(* A GET that has not been read, or that a reconnect will send, asks for   *)
(* the messages of r.                                                      *)
Awaited(r) ==
    \/ r = active /\ ~Open
    \/ \E f \in Fetches : fetch[f].at = "sent" /\ fetch[f].room = r

(* Messages of r that pass without having been on the screen, and whose    *)
(* payload is no longer to come. *)
Unseen(r) == {m \in InRoom(r) \ (seen \cup Range(feed)) :
                 Passed(m) /\ msg[m].at \in {"published", "committed"}}

(* get_messages_by_room: the newest messages of anybody. *)
Page(r) == LET stored == {m \in InRoom(r) : msg[m].at = "committed"}
           IN  {m \in stored : Cardinality({n \in stored : n > m}) < PageSize}

FetchMessages(r) ==
    \E f \in Fetches :
        /\ fetch[f] = NoFetch
        /\ fetch' = [fetch EXCEPT ![f] = [at |-> "sent", room |-> r, page |-> {}]]

(* What a room left while the connection is down does not get any more:    *)
(* the GET of the reconnect will be of the room on the screen then.        *)
Leaves == missed' = IF Open THEN missed ELSE missed \cup (Unseen(active) \cap read)
-----------------------------------------------------------------------------
(* ChatWindow shows what the store has and fetches the newest page. *)
EnterRoom(r) ==
    /\ SelectRoom(r)
    /\ IF blank' THEN UNCHANGED messageVars
       ELSE /\ FetchMessages(r)
            /\ seen' = seen \cup (messages \cap InRoom(r))
            /\ Leaves
            /\ UNCHANGED messages

CloseRoom ==
    /\ Back
    /\ IF blank' THEN UNCHANGED messageVars
       ELSE Leaves /\ UNCHANGED <<messages, fetch, seen>>

(* A payload that reaches no socket: the message is on the page of a GET   *)
(* that was not read yet, or passes unseen.                                *)
Push(m) ==
    /\ Publish(m)
    /\ missed' = IF link # "up" /\ Passed(m) /\ ~Awaited(msg[m].room)
                 THEN missed \cup {m} ELSE missed
    /\ UNCHANGED <<messages, fetch, seen>>

(* addMessage, for whatever room. *)
AddMessage ==
    /\ OnMessage
    /\ LET m == Head(feed)
           showing == msg[m].room = active
       IN  /\ messages' = messages \cup {m}
           /\ seen' = IF showing THEN seen \cup {m} ELSE seen
           /\ missed' = IF Passed(m) /\ ~showing THEN missed \cup {m} ELSE missed
    /\ UNCHANGED fetch

(* What is not committed, or not on the newest page, is not in the answer. *)
ReadMessages(f) ==
    /\ fetch[f].at = "sent"
    /\ LET r == fetch[f].room IN
       /\ fetch' = [fetch EXCEPT ![f].at = "read", ![f].page = Page(r)]
       /\ missed' = missed \cup (Unseen(r) \ Page(r))
    /\ UNCHANGED <<badgeVars, messages, seen>>

(* The messages of the room are those of the answer, on the screen if the  *)
(* room still is.                                                          *)
MessagesArrive(f) ==
    /\ fetch[f].at = "read"
    /\ LET r == fetch[f].room
           page == fetch[f].page
       IN  /\ messages' = (messages \ InRoom(r)) \cup page
           /\ IF r = active THEN seen' = seen \cup page /\ UNCHANGED missed
              ELSE missed' = missed \cup (Unseen(r) \cap page) /\ UNCHANGED seen
    /\ fetch' = [fetch EXCEPT ![f] = NoFetch]
    /\ UNCHANGED badgeVars

(* Nothing is set, and nothing asks again. *)
FetchFails(f) ==
    /\ fetch[f] # NoFetch
    /\ missed' = missed \cup Unseen(fetch[f].room)
    /\ fetch' = [fetch EXCEPT ![f] = NoFetch]
    /\ UNCHANGED <<badgeVars, messages, seen>>

(* The socket closes: messages for the room on the screen will be fetched. *)
Disconnect ==
    /\ Drop
    /\ missed' = missed \cup {m \in Range(feed) \cap read : msg[m].room # active}
    /\ UNCHANGED <<messages, fetch, seen>>

(* Mutant of Reconnect: only the lists are fetched. *)
ReconnectLists ==
    /\ Accept
    /\ UNCHANGED messageVars

(* onopen: after a retry the messages of the open room are fetched. *)
Reconnect ==
    /\ Accept
    /\ IF retried /\ active # NoRoom THEN FetchMessages(active) ELSE UNCHANGED fetch
    /\ UNCHANGED <<messages, seen, missed>>
-----------------------------------------------------------------------------
(* What the other steps of UnreadCounts do is no matter of the messages of *)
(* the tab.                                                                *)
Elsewhere ==
    /\ \/ \E r \in Rooms : Build(r)
       \/ \E m \in Ids : Commit(m) \/ CommitFails(m)
       \/ ReadUpdate \/ ReceiveMessage \/ SendMessage \/ OnInvite
       \/ \E g \in Gets : ReadList(g) \/ Arrive(g) \/ GetFails(g)
       \/ Register \/ Retry
    /\ UNCHANGED messageVars

SeenNext ==
    \/ \E r \in Rooms : EnterRoom(r)
    \/ \E m \in Ids : Push(m)
    \/ CloseRoom \/ AddMessage
    \/ \E f \in Fetches : ReadMessages(f) \/ MessagesArrive(f) \/ FetchFails(f)
    \/ Disconnect \/ Reconnect
    \/ Elsewhere

SeenSpec == SeenInit /\ [][SeenNext]_seenVars
-----------------------------------------------------------------------------
(* When nothing is on its way, a message of somebody else that counts as   *)
(* read, so that no badge will ever show it, was on the screen, over       *)
(* whatever rooms were opened and left and connections lost; unless        *)
(*   - the GET of its room failed, was answered when the room had been     *)
(*     left, or stopped at the page before it;                             *)
(*   - its payload found no socket and that GET was read before its commit;*)
(*   - its payload came when the room had been left, or was lost with the  *)
(*     connection or found none and the room was left before the reconnect.*)
ReadWasSeen ==
    Quiet /\ (\A f \in Fetches : fetch[f] = NoFetch) =>
        \A m \in FromOther(read) : msg[m].at = "committed" => m \in seen \cup missed
=============================================================================
