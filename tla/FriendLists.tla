---------------------------- MODULE FriendLists ----------------------------
(* The friend lists a browser keeps (store/friend.ts) beside the requests  *)
(* of Friends: what useWebSocket.ts does on each notice, and what the      *)
(* store's own actions do once their request was answered.  A list is      *)
(* fetched by a GET that reads the committed rows at one time and is       *)
(* applied at a later one; nothing orders two of them, and one that failed *)
(* is not repeated.                                                        *)
EXTENDS Friends

CONSTANTS
    Fetches,        \* bound: fetches in progress at once
    MaxFails        \* bound: GETs, answers and connections that are lost

ASSUME FriendListsAssumption == MaxFails \in Nat

VARIABLES
    friends,        \* friends[u]: whom u's sidebar lists as friends
    pending,        \* pending[u]: whose requests it lists
    fetch,          \* the GETs in progress
    answered,       \* requests whose answer was acted on, or was lost
    fails,
    heard,          \* history: the notices each user had or lost
    stale           \* history: lists that something made wrong (see Mark)

listVars == <<friends, pending, fetch, answered, fails, heard, stale>>
allVars == <<vars, listVars>>

Lists == {"friends", "pending"}

(* got: the answers there so far; the store is set when all of lists are. *)
Idle == [lists |-> {}, got |-> [l \in {} |-> {}]]

(* get_friend_ids and get_received_requests *)
FriendsOf(u) == {v \in Users \ {u} : "accepted" \in {friend[<<u, v>>], friend[<<v, u>>]}}
RequestsTo(u) == {v \in Users \ {u} : friend[<<v, u>>] = "pending"}

Listed(l, u) == IF l = "friends" THEN FriendsOf(u) ELSE RequestsTo(u)
Shown(l, u) == IF l = "friends" THEN friends[u] ELSE pending[u]
Wrong == {p \in Users \X Lists : Shown(p[2], p[1]) # Listed(p[2], p[1])}

(* The sidebar fetched both lists when it was mounted. *)
ListsInit ==
    /\ Init
    /\ friends = [u \in Users |-> FriendsOf(u)]
    /\ pending = [u \in Users |-> RequestsTo(u)]
    /\ fetch = [f \in Fetches |-> Idle]
    /\ answered = {} /\ fails = 0
    /\ heard = {} /\ stale = {}

(* A list of ps is wrong for a reason that has a name, until it is right   *)
(* again.                                                                  *)
Mark(ps) ==
    stale' = {p \in stale \cup ps : Shown(p[2], p[1])' # Listed(p[2], p[1])'}

(* What a commit leaves wrong: the notice of it was spent before, or it    *)
(* takes a request back, of which nobody is told.                          *)
NoticeOf(q) == [type |-> IF job[q].op = "send" THEN "request" ELSE job[q].op,
                from |-> job[q].by]
Untold(q) ==
    IF pc[q] = "ok" \/ pc'[q] # "ok" THEN {}
    ELSE {p \in Users \X Lists :
             \/ p[1] = job[q].to /\ <<p[1], NoticeOf(q)>> \in heard
             \/ job[q].op = "delete" /\ p[2] = "pending"}

ServerStep ==
    /\ Next
    /\ UNCHANGED <<friends, pending, fetch, answered, fails, heard>>
    /\ Mark(UNION {Untold(q) : q \in Requests})

StartFetch(u, lists) ==
    \E f \in Fetches :
        /\ fetch[f] = Idle
        /\ fetch' = [fetch EXCEPT ![f] =
              [lists |-> lists, by |-> u, got |-> [l \in {} |-> {}]]]

(* deleteFriend and removeFriend: a late one takes off a new friend. *)
Remove(u, v) ==
    /\ friends' = [friends EXCEPT ![u] = @ \ {v}]
    /\ Mark(IF v \in FriendsOf(u) THEN {<<u, "friends">>} ELSE {})

(* Mutant of Notified: an accept fetches the requests. *)
NotifiedWrongList(u) ==
    /\ UNCHANGED <<dbVars, pending, answered, fails>>
    /\ notices[u] # <<>>
    /\ notices' = [notices EXCEPT ![u] = Tail(@)]
    /\ LET n == Head(notices[u]) IN
       /\ heard' = heard \cup {<<u, n>>}
       /\ \/ /\ n.type \in {"request", "accept"} /\ StartFetch(u, {"pending"})
             /\ UNCHANGED friends
          \/ n.type = "delete" /\ UNCHANGED <<friends, fetch>>
    /\ Mark({})

(* onmessage: a request or an accept refetches, a delete is applied. *)
Notified(u) ==
    /\ UNCHANGED <<dbVars, pending, answered, fails>>
    /\ notices[u] # <<>>
    /\ notices' = [notices EXCEPT ![u] = Tail(@)]
    /\ LET n == Head(notices[u]) IN
       /\ heard' = heard \cup {<<u, n>>}
       /\ \/ n.type = "request" /\ UNCHANGED friends
             /\ StartFetch(u, {"pending"}) /\ Mark({})
          \/ n.type = "accept" /\ UNCHANGED friends
             /\ StartFetch(u, {"friends"}) /\ Mark({})
          \/ n.type = "delete" /\ Remove(u, n.from) /\ UNCHANGED fetch

(* acceptRequest refetches both lists, deleteFriend removes the friend,    *)
(* sendRequest does nothing with the answer.                               *)
Answered(q) ==
    /\ UNCHANGED <<dbVars, notices, pending, fails, heard>>
    /\ q \notin answered /\ pc[q] = "ok"
    /\ answered' = answered \cup {q}
    /\ \/ job[q].op = "accept" /\ UNCHANGED friends
          /\ StartFetch(job[q].by, {"friends", "pending"}) /\ Mark({})
       \/ job[q].op = "delete" /\ Remove(job[q].by, job[q].to) /\ UNCHANGED fetch

(* The server reads the rows for one GET of the fetch. *)
Read(f, l) ==
    LET g == fetch[f] IN
    /\ l \in g.lists \ DOMAIN g.got
    /\ fetch' = [fetch EXCEPT ![f].got =
          [x \in DOMAIN @ \cup {l} |-> IF x = l THEN Listed(l, g.by) ELSE @[x]]]
    /\ UNCHANGED <<vars, friends, pending, answered, fails, heard, stale>>

(* The answers to all GETs of a fetch are there and the store is set; what *)
(* they read may be out of date.                                           *)
Arrive(f) ==
    LET g == fetch[f] IN
    /\ UNCHANGED <<vars, answered, fails, heard>>
    /\ g # Idle
    /\ g.lists = DOMAIN g.got
    /\ friends' = IF "friends" \in g.lists
                  THEN [friends EXCEPT ![g.by] = g.got["friends"]] ELSE friends
    /\ pending' = IF "pending" \in g.lists
                  THEN [pending EXCEPT ![g.by] = g.got["pending"]] ELSE pending
    /\ fetch' = [fetch EXCEPT ![f] = Idle]
    /\ Mark({g.by} \X g.lists)

Fails == fails < MaxFails /\ fails' = fails + 1

(* One GET failed: the store is not set. *)
FetchFails(f) ==
    /\ UNCHANGED <<vars, friends, pending, answered, heard>>
    /\ Fails /\ fetch[f] # Idle
    /\ fetch' = [fetch EXCEPT ![f] = Idle]
    /\ Mark({fetch[f].by} \X Lists)

(* The request was done and its answer is lost. *)
AnswerLost(q) ==
    /\ UNCHANGED <<vars, friends, pending, fetch, heard>>
    /\ Fails /\ q \notin answered /\ pc[q] = "ok" /\ job[q].op # "send"
    /\ answered' = answered \cup {q}
    /\ Mark({job[q].by} \X Lists)

(* The socket broke: onopen fetches the rooms again, and no friends. *)
NoticesLost(u) ==
    /\ UNCHANGED <<dbVars, friends, pending, fetch, answered>>
    /\ Fails /\ notices[u] # <<>>
    /\ notices' = [notices EXCEPT ![u] = <<>>]
    /\ heard' = heard \cup ({u} \X {notices[u][i] : i \in DOMAIN notices[u]})
    /\ Mark({u} \X Lists)

ListsNext ==
    \/ ServerStep
    \/ \E u \in Users : Notified(u) \/ NoticesLost(u)
    \/ \E q \in Requests : Answered(q) \/ AnswerLost(q)
    \/ \E f \in Fetches : Arrive(f) \/ FetchFails(f) \/ \E l \in Lists : Read(f, l)

ListsSpec == ListsInit /\ [][ListsNext]_allVars
-----------------------------------------------------------------------------
AllQuiet ==
    /\ \A q \in Requests : pc[q] \in Ended \cup {"new"}
    /\ \A q \in Requests : pc[q] = "ok" /\ job[q].op # "send" => q \in answered
    /\ \A u \in Users : notices[u] = <<>>
    /\ \A f \in Fetches : fetch[f] = Idle

(* With nothing in progress, the lists a user is shown are those of the    *)
(* database: what was sent, accepted or deleted on either side has come on *)
(* both screens; unless the notice was acted on before the commit, a GET   *)
(* was overtaken by a change or failed, an answer or a notice was lost, a  *)
(* removal came after the two were friends again, or a request was taken   *)
(* back.                                                                   *)
ListsRight == AllQuiet => Wrong \subseteq stale
=============================================================================
