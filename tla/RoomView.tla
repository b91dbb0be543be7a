------------------------------ MODULE RoomView ------------------------------
(* What one browser tab shows of a room (store/chat.ts, ChatWindow.tsx and *)
(* the handlers of useWebSocket.ts), beside the server of Messages: the    *)
(* room is entered and left, the newest page and older ones are fetched,   *)
(* payloads arrive, the connection breaks and comes back.  A GET reads the *)
(* messages and then their reactions, at two times, and its answer is      *)
(* applied at a third.                                                     *)
EXTENDS Messages

CONSTANTS
    Gets,           \* bound: GETs in progress at once
    MaxDrops        \* bound: how often the connection breaks

ASSUME RoomViewAssumption == MaxDrops \in Nat /\ Toggles # {}

VARIABLES
    active,         \* the room is the one on the screen
    list,           \* messages[roomId]
    more,           \* hasMoreMessages[roomId]
    loading,        \* isLoadingMore
    get,            \* the GETs in progress
    drops,
    crossed,        \* history: sends and toggles that met a GET (see Track)
    failed          \* history: kinds of GET that failed and were not made up for

tabVars == <<active, list, more, loading, get, drops, failed>>
vars == <<serverVars, tabVars, crossed>>

Entry == [id : Message, by : SUBSET Users]
Idle == [kind |-> "idle"]

(* existing: the list when an older page was asked for *)
Get == [kind : {"latest", "older"}, existing : Seq(Entry), page : Seq(Message),
        by : SUBSET Users, at : {"sent", "paged", "read"}]

TypeOK ==
    /\ ServerTypeOK
    /\ active \in BOOLEAN /\ more \in BOOLEAN /\ loading \in BOOLEAN
    /\ failed \in SUBSET {"latest", "older"}
    /\ list \in Seq(Entry)
    /\ get \in [Gets -> Get \cup {Idle}]
    /\ drops \in 0..MaxDrops
    /\ crossed \in SUBSET (Message \cup Toggles)

Entries(p, by) == [i \in DOMAIN p |->
                      [id |-> p[i], by |-> IF p[i] = Target THEN by ELSE {}]]
Full(p) == Len(p) = PageSize

(* The room was entered and its newest page is there. *)
Init ==
    /\ ServerInit
    /\ active = TRUE /\ loading = FALSE
    /\ \E p \in Pages(Latest) : list = Entries(p, reacted) /\ more = Full(p)
    /\ get = [g \in Gets |-> Idle]
    /\ drops = 0 /\ crossed = {} /\ failed = {}
-----------------------------------------------------------------------------
Busy == {g \in Gets : get[g] # Idle}
Coming(type) == {i \in DOMAIN feed : feed[i].type = type}
SendsUnderWay ==
    {m \in New : sending[m] \in {"flushed", "published"}}
    \cup {feed[i].id : i \in Coming("message.new")}
TogglesUnderWay ==
    {t \in Toggles : toggling[t] \in {"flush", "read", "publish", "commit"}}

(* A GET meets what is under way and what its payload is still to tell,    *)
(* and so does the socket between the handshake and the registration; of   *)
(* two GETs each meets everything.  Toggles also meet one another, and one *)
(* that fails once announced counts too.  A GET of the newest page that    *)
(* has the tab to itself makes up for what was met before it.              *)
Track ==
    LET met == Busy' # {} \/ link' = "accepted"
        alone == Busy = {} /\ \E g \in Gets : get'[g] # Idle /\ get'[g].kind = "latest"
        two == \E g, h \in Busy' : g # h
    IN
    crossed' = (IF alone THEN {} ELSE crossed)
        \cup (IF met THEN SendsUnderWay' ELSE {})
        \cup (IF two THEN Message ELSE {})
        \cup (IF \/ two
                 \/ met /\ (TogglesUnderWay' # {} \/ Coming("reaction.update")' # {})
                 \/ \E s, t \in TogglesUnderWay' : s # t
                 \/ \E t \in Toggles : toggling[t] = "commit" /\ toggling'[t] = "ended"
                                       /\ reacted' # Applied(t)
              THEN Toggles ELSE {})

-----------------------------------------------------------------------------
Ask(g, kind, existing) ==
    /\ get[g] = Idle
    /\ get' = [get EXCEPT ![g] = [kind |-> kind, existing |-> existing,
                                  page |-> <<>>, by |-> {}, at |-> "sent"]]

Leave ==
    /\ active
    /\ active' = FALSE
    /\ UNCHANGED <<serverVars, list, more, loading, get, drops, failed>>
    /\ Track

(* ChatWindow's effect: the paging starts anew and the room is fetched. *)
Enter ==
    /\ ~active
    /\ active' = TRUE /\ loading' = FALSE /\ failed' = failed \ {"older"}
    /\ \E g \in Gets : Ask(g, "latest", <<>>)
    /\ UNCHANGED <<serverVars, list, more, drops>>
    /\ Track

(* handleScroll at the top: one page at a time *)
ScrollUp ==
    /\ active /\ more /\ ~loading /\ list # <<>>
    /\ loading' = TRUE
    /\ \E g \in Gets : Ask(g, "older", list)
    /\ UNCHANGED <<serverVars, active, list, more, drops, failed>>
    /\ Track

ReadPage(g) ==
    /\ get[g] # Idle /\ get[g].at = "sent"
    /\ \E p \in Pages(IF get[g].kind = "latest" THEN Latest
                      ELSE get[g].existing[1].id) :
          get' = [get EXCEPT ![g].page = p, ![g].at = "paged"]
    /\ UNCHANGED <<serverVars, active, list, more, loading, drops, failed>>
    /\ Track

ReadReactions(g) ==
    /\ get[g] # Idle /\ get[g].at = "paged"
    /\ get' = [get EXCEPT ![g].by = reacted, ![g].at = "read"]
    /\ UNCHANGED <<serverVars, active, list, more, loading, drops, failed>>
    /\ Track

(* Mutant of Arrive: isLoadingMore is left on. *)
ArriveStillLoading(g) ==
    LET entries == Entries(get[g].page, get[g].by) IN
    /\ get[g] # Idle /\ get[g].at = "read"
    /\ list' = IF get[g].kind = "latest" THEN entries ELSE entries \o get[g].existing
    /\ more' = Full(get[g].page)
    /\ get' = [get EXCEPT ![g] = Idle]
    /\ failed' = IF get[g].kind = "latest" THEN failed \ {"latest"} ELSE failed
    /\ UNCHANGED <<serverVars, active, loading, drops>>
    /\ Track

(* Mutant of Arrive: there is more only beyond a full page. *)
ArriveOver(g) ==
    LET entries == Entries(get[g].page, get[g].by) IN
    /\ get[g] # Idle /\ get[g].at = "read"
    /\ list' = IF get[g].kind = "latest" THEN entries ELSE entries \o get[g].existing
    /\ more' = (Len(get[g].page) > PageSize)
    /\ loading' = IF get[g].kind = "older" THEN FALSE ELSE loading
    /\ get' = [get EXCEPT ![g] = Idle]
    /\ failed' = IF get[g].kind = "latest" THEN failed \ {"latest"} ELSE failed
    /\ UNCHANGED <<serverVars, active, drops>>
    /\ Track

(* fetchMessages sets the list to the page, fetchOlderMessages to the page *)
(* and the list it began with. *)
Arrive(g) ==
    LET entries == Entries(get[g].page, get[g].by) IN
    /\ get[g] # Idle /\ get[g].at = "read"
    /\ list' = IF get[g].kind = "latest" THEN entries ELSE entries \o get[g].existing
    /\ more' = Full(get[g].page)
    /\ loading' = IF get[g].kind = "older" THEN FALSE ELSE loading
    /\ get' = [get EXCEPT ![g] = Idle]
    /\ failed' = IF get[g].kind = "latest" THEN failed \ {"latest"} ELSE failed
    /\ UNCHANGED <<serverVars, active, drops>>
    /\ Track

(* The GET fails: nothing is set, and nothing ends the loading. *)
GetFails(g) ==
    /\ get[g] # Idle
    /\ get' = [get EXCEPT ![g] = Idle]
    /\ failed' = failed \cup {get[g].kind}
    /\ UNCHANGED <<serverVars, active, list, more, loading, drops>>
    /\ Track
-----------------------------------------------------------------------------
Shown(l, n) == CASE n.type = "message.new" -> Append(l, [id |-> n.id, by |-> {}])
                 [] n.type = "reaction.update" ->
                       [i \in DOMAIN l |-> IF l[i].id = Target
                                           THEN [l[i] EXCEPT !.by = n.by] ELSE l[i]]

(* Mutant of OnMessage: reactions are added to those shown. *)
OnMessageMerged ==
    /\ feed # <<>>
    /\ feed' = Tail(feed)
    /\ LET l == Shown(list, Head(feed)) IN
       list' = [i \in DOMAIN l |->
                   IF i \in DOMAIN list THEN [l[i] EXCEPT !.by = @ \cup list[i].by]
                   ELSE l[i]]
    /\ UNCHANGED <<sendVars, toggleVars, link, active, more, loading, get, drops, failed>>
    /\ Track

(* onmessage: addMessage or updateReactions *)
OnMessage ==
    /\ feed # <<>>
    /\ feed' = Tail(feed)
    /\ list' = Shown(list, Head(feed))
    /\ UNCHANGED <<sendVars, toggleVars, link, active, more, loading, get, drops, failed>>
    /\ Track

Drop ==
    /\ link # "down" /\ drops < MaxDrops
    /\ link' = "down" /\ feed' = <<>> /\ drops' = drops + 1
    /\ UNCHANGED <<sendVars, toggleVars, active, list, more, loading, get, failed>>
    /\ Track

(* Mutant of Reopen: nothing is fetched. *)
ReopenOnly ==
    /\ link = "down"
    /\ link' = "accepted"
    /\ UNCHANGED <<sendVars, toggleVars, feed, tabVars>>
    /\ Track

(* onopen after a retry: the room on the screen is fetched again. *)
Reopen ==
    /\ link = "down"
    /\ link' = "accepted"
    /\ IF active THEN \E g \in Gets : Ask(g, "latest", <<>>) ELSE UNCHANGED get
    /\ UNCHANGED <<sendVars, toggleVars, feed, active, list, more, loading, drops, failed>>
    /\ Track

(* The endpoint registers the socket. *)
Register ==
    /\ link = "accepted"
    /\ link' = "up"
    /\ UNCHANGED <<sendVars, toggleVars, feed, tabVars>>
    /\ Track
-----------------------------------------------------------------------------
(* A step of the server leaves the tab alone. *)
Beside(ServerStep) == ServerStep /\ UNCHANGED tabVars /\ Track

Next ==
    \/ Leave \/ Enter \/ ScrollUp \/ OnMessage \/ Drop \/ Reopen \/ Register
    \/ \E g \in Gets : ReadPage(g) \/ ReadReactions(g) \/ Arrive(g) \/ GetFails(g)
    \/ \E m \in New : \/ Beside(Flush(m)) \/ Beside(PublishMessage(m))
                       \/ Beside(Store(m)) \/ Beside(AbortSend(m))
    \/ \E t \in Toggles : \/ Beside(Look(t)) \/ Beside(FlushToggle(t))
                           \/ Beside(ReadBack(t)) \/ Beside(PublishReactions(t))
                           \/ Beside(CommitToggle(t)) \/ Beside(AbortToggle(t))

Spec == Init /\ [][Next]_vars
-----------------------------------------------------------------------------
(* Nothing is under way, the tab looks at the room and the last GET of its *)
(* newest page did not fail. *)
Quiet == /\ active /\ link = "up" /\ feed = <<>>
         /\ Busy = {} /\ "latest" \notin failed /\ SendsUnderWay = {} /\ TogglesUnderWay = {}
Tied == {m \in stored : \E x \in stored \ {m} : created_at[x] = created_at[m]}
Listed == {list[i].id : i \in DOMAIN list}

(* From the message at the top of the screen on, the tab shows every       *)
(* message of the room, also those it missed while it was not connected,   *)
(* unless the message was under way during a GET, two GETs were, or the    *)
(* message has the time of another, which the bound of a page skips.  Not  *)
(* from the oldest on: what was under way may come later, below newer ones.*)
NothingMissing ==
    Quiet /\ list # <<>> =>
        \A m \in stored \ (crossed \cup Tied) :
            created_at[list[1].id] < created_at[m] => m \in Listed

(* And no message is on the screen twice: the pages do not overlap, and    *)
(* what a page has does not come again. *)
NothingTwice ==
    Quiet => \A i, j \in DOMAIN list : i # j /\ list[i].id \notin crossed =>
                 list[i].id # list[j].id

(* When the tab offers no older page, there is none. *)
EndReached ==
    Quiet /\ ~more => stored \ (crossed \cup Tied) \subseteq Listed

(* The reactions on the screen are those of the database, unless toggles   *)
(* were under way at once, or during a GET, or failed once announced.  The *)
(* plan, docs/superpowers/plans/2026-07-24-message-reactions.md:64-66, has *)
(* no such exception: the whole state is sent and only overwritten.        *)
ReactionsRight ==
    Quiet /\ crossed \cap Toggles = {} =>
        \A i \in DOMAIN list : list[i].id = Target => list[i].by = reacted

(* The tab is never left waiting for an older page, which would be its     *)
(* last, unless the GET failed. *)
LoadingEnds == loading => "older" \in failed \/ \E g \in Busy : get[g].kind = "older"
=============================================================================
