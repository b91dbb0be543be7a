# websocket-chat in TLA+

A chat server (FastAPI, Redis, PostgreSQL; `src/backend/app`) and its browser
client (React, zustand; `src/frontend/src`).  Several server processes share
one Redis and one database behind one address; a browser tab holds one
WebSocket to one of them and calls the REST API of any of them.  This directory
models the parts whose correctness depends on what happens in which order.

## The system

| component | state | operations | interacts by |
|---|---|---|---|
| Connection registry (`managers/connection.py`) | per server: user -> set of sockets | `connect`, `disconnect`, `is_online`, `send_to_user`, `broadcast_to_users` | called by the endpoint and by the subscriber, which interleave at every `await` |
| Pub/Sub fan-out (`managers/pubsub.py`, `main.py`) | one Redis channel, one subscriber task per server | `publish`, `subscribe` | every server gets every payload and writes it to its own sockets of the addressees |
| WebSocket endpoint (`api/websocket.py`) | one coroutine per socket | connect, announce, loop over messages, disconnect | registry, presence, database, publish |
| Presence (`managers/presence.py`, `_broadcast_presence`, `setOnline`) | Redis keys with a TTL; a map of online users per tab | `set_online`, `set_offline`, the scan for a snapshot, the ping that renews | keys shared by all servers; ONLINE and OFFLINE payloads |
| Transactions (`db/session.py`) | PostgreSQL, READ COMMITTED | `get_session`, `get_db` | one transaction per request; the commit comes after the handler returned, and so after it published |
| Rooms (`services/room.py`, `crud/room.py`) | `rooms`, `room_members` | create, open a DM, invite, leave | concurrent requests; `room.invite` payloads |
| Friends (`services/friend.py`, `crud/friend.py`) | `friends` | send, accept, delete | concurrent requests; `friend.*` payloads |
| Friend lists of the client (`store/friend.ts`) | friends and pending requests of a tab | refetch on a notice, refetch after accepting, local removal | GETs that are read at one time and applied at another |
| Messages and reactions (`crud/message.py`, `crud/reaction.py`) | `messages`, `message_reactions` | send, toggle, page through the history | the endpoint and the REST API |
| Unread counts (`crud/room.py`, `store/chat.ts`, `ChatWindow.tsx`) | `last_read_at` per member; a badge per room and tab | count, `read.update`, count up, put to zero | lists of rooms, which carry the server's count to the tab |
| Room lists of the client (`store/chat.ts`, `Sidebar.tsx`, `CreateRoomModal.tsx`, `InviteMemberModal.tsx`) | rooms, DMs, open room, two modals | create, open, leave, invite, refetch | requests and GETs beside `room.invite` |
| Client connection (`useWebSocket.ts`) | socket, timers, retry count | reconnect with backoff, ping and watchdog, refetch | browser callbacks |
| Client message list (`store/chat.ts`, `ChatWindow.tsx`) | messages, cursor, active room | enter, leave, fetch, fetch older, add, update | GETs beside payloads, over a connection that breaks |
| Input line and typing (`MessageInput.tsx`, `ChatLayout.tsx`, `TypingIndicator.tsx`) | text, a flag, a timer; who types, per watching tab | type, send, change the room, start, stop | frames to the endpoint, payloads to the others, an error to the sender |
| Rate limits (`core/limiter.py`) | counters in Redis | hit | REST and `message.send` |
| Sessions (`services/auth.py`, `store/auth.ts`, `components/Auth`, `App.tsx`) | users; a token in localStorage; a session per tab | register, log in, load a page, log out | tabs share localStorage, calls are answered late |

`PROJECT.json` lists them with what is and is not modelled, and the hazards of
each at its line.

What makes the parts correct, in short: every live tab of an addressee gets a
payload once and in order, and nobody else does; users who are both there see
each other, and those who are gone are forgotten; an acknowledged request did
what it says whatever ran beside it; a change somebody else made to a user's
rooms or friends is announced to that user; a list, a badge or an
indicator the client keeps ends up as the server has it; a text somebody typed
is stored or its loss is told; a tab is logged in as one user.

## Modules

| module | models |
|---|---|
| `ConnectionManager` | the registry of one server as values and pure operators |
| `Delivery` | registry, channel, subscriber tasks and the life of an endpoint; an action is what a coroutine does between two awaits |
| `OrderedBroadcast` | what Delivery promises: each socket gets the payloads of its user in publish order, each at most once |
| `DeliveryProofs` | the theorems about Delivery |
| `Presence` | the keys and their TTL, the endpoint's steps on them, and the maps of the tabs |
| `PresenceProofs` | the theorems about Presence |
| `ReadCommitted` | what a transaction reads, writes and holds |
| `Rooms` | create, DM, invite and leave as concurrent requests |
| `RoomsProofs` | the theorems about Rooms, and about its requests that cross |
| `Friends` | send, accept and delete as concurrent requests |
| `FriendLists` | Friends with the lists of the browsers |
| `FriendsProofs` | the theorems about Friends, alone and within FriendLists |
| `Messages` | sends and reaction toggles of one room as transactions, the pages of its history |
| `RoomView` | Messages with the list of one browser tab |
| `RoomViewProofs` | the theorems about RoomView |
| `ClientConnection` | the socket of a tab, its heartbeat and its reconnection |
| `Composer` | the input line of a tab, the endpoint with its limit, and what another tab shows of the typing |
| `TabProofs` | the theorems about ClientConnection and Composer; it extends both, so Composer shares no name with ClientConnection (`LineInit`, `LineSpec`) |
| `RoomList` | the lists of rooms of a tab beside the memberships |
| `RoomListProofs` | the theorems about RoomList |
| `UnreadCounts` | the badges of a tab beside the counts of the server |
| `SeenMessages` | UnreadCounts with the messages of the tab: what was on the screen beside what counts as read |
| `Session` | registration, login, reload and logout in the tabs of one browser |
| `BrowserProofs` | the theorems about Session, UnreadCounts and SeenMessages; it extends them, so UnreadCounts shares no name with Session (`BadgeInit`, `BadgeSpec`) |
| `MC...` | for each run the instance TLC checks |

`FriendLists` composes with `Friends` by extending it: it adds its variables,
takes every step of Friends and consumes the notices of Friends; `RoomView` does
the same with `Messages` and `SeenMessages` with `UnreadCounts`.  Each is checked through the composition.  `Rooms` and
`Friends` share `ReadCommitted`.  Presence
uses the delivery of a payload as one step of a server, and RoomView, RoomList,
UnreadCounts and Composer the channel to one tab as a queue; Delivery, its proofs of order and of
completeness justify that for a server whose subscriber lives.

### Delivery

`connections[s]` is `ConnectionManager._connections` of server `s`.  The channel
is `log`; `cursor[s]` says how many payloads the subscriber of `s` took and
`pending[s]` which addressees of the last one are left.  A call of
`send_to_user` is a `frame`: the set under iteration is the one in the registry
(or, when `disconnect` removed the entry, the object the call still holds), and
a change of its size between two steps is the `RuntimeError` of Python, which
ends the subscriber (`deaf`) or the endpoint.  `pc[w]` is the endpoint of socket
`w`.  A socket may drop at any time, before or between sends.  Payloads are
abstracted to their number and their addressees.

Liberties: there are more points of preemption than asyncio has, so the checks
are about a superset of the schedules.  When a set changes and keeps its size, a
newcomer may or may not be met.  The rehashing of a set under iteration is not
modelled.  That a send fails is decided when it is made.  A payload for nobody is
left out.  Fairness is weak for each subscriber and each endpoint: an asyncio
task that can run does, and a reader too slow for a send is cut off by the ping
timeout of uvicorn, which makes the send raise.  It is not assumed that anybody
connects, publishes or drops.

### Presence

`ttl[u]` is what is left of the key of `u`, in heartbeat intervals (`Tick` is one:
every connected tab pings within it and no handler takes longer); `TTL = 2` in
the runs keeps the code's order, interval < TTL (30 s and 300 s), in a
small space.  `pc[w]` names the await the endpoint stands at, from the
registration to `_broadcast_presence` and from `disconnect` over
`set_offline` to the parting OFFLINE.  A tab keeps its map over reconnects
(`Tab`).  Scans are atomic, and what SCAN may return twice is a set.  `Fragile`
(sockets that may drop) and `MaxFaults` (crashes and exceptions) bound the
faults.  Fairness: endpoints, servers and time go on.

### Rooms and Friends

A request is a process with a transaction of its own: one action per SQL
statement that can see or be stopped by another request, one for what it
publishes and one for the commit, as `get_db` commits after the handler
returned.  Any request may be aborted at any step (the database or Redis fails).
At READ COMMITTED a SELECT sees the committed rows and its own; an UPDATE or
DELETE waits for a row it matches and another transaction wrote, then looks at it
again; an INSERT waits for a row with its key and fails if it stays.  The rows of
one UPDATE are locked in one step.  In PostgreSQL the UPDATE that reopens a DM
locks them one after the other; two of them do so in the order of the same
scan, so that they make no circle, which the model takes for granted.  `Tables`
are the states earlier requests can have left; `before[q]`
(history) are the requests that had ended when `q` began, which is what "at
once" means in the properties.  A friend request to oneself is refused before
the database is asked.  A DM with oneself is not an input: the sidebar offers
others only, though services/room.py would accept one.

### FriendLists

On `friend.request` and `friend.accept` the tab starts a GET; `Read` is the
moment the server reads the rows, `Arrive` the moment the store is set.
After its own `accept` was answered the tab fetches both lists, after a `delete`
it removes the friend; nothing orders two fetches and none is repeated when it
failed.  `stale` (history) has the lists a named event made wrong, for as long
as they are: a notice the tab acted on before the commit (`heard` has the
notices that were spent), an answer overtaken by a change, a GET, an answer or a
notice that was lost, a request taken back, of which nobody is told, and a
removal that arrived after the two were friends again.

### Messages and RoomView

A send and a toggle are transactions that publish before they commit: `Flush`,
`PublishMessage`, `Store` and `Look`, `FlushToggle`, `ReadBack`,
`PublishReactions`, `CommitToggle`, each with an abort.  The INSERT or DELETE of
a toggle is written out by the SELECT that follows it, and waits for another
toggle of the same user.  `feed` holds the payloads on their way to the tab;
what is published while the tab is not registered never comes.  A GET
reads the messages, then the reactions, at two times, and is applied at a third
(`ReadPage`, `ReadReactions`, `Arrive`); an older page is put before the list
the tab had when it asked (`existing`).  `crossed` (history) names the sends and
toggles that were under way while a GET was, or between the handshake and the
registration: of those the code promises nothing, and the properties are about
all others.  It starts anew with a GET of the newest page, which makes up for
what was met before.  Two GETs at once put every message in `crossed`, so the run
has one at a time.

Liberties: the members of the room stay the same; the unread counters, the room
lists and the rate limit are in modules of their own; one emoji on one message is toggled; the clock
never goes back between servers, but two messages may have one time; a DELETE
that waited does not find a row somebody deleted and inserted again meanwhile.
Entering a room resets `isLoadingMore` in the model as the effect of ChatWindow
does; that an older page may then arrive beside the newest is two GETs at once.

### ClientConnection

One mount of `useWebSocket`: `socket` is the `readyState`, `ping` and `watchdog`
count down the timers in ticks of ten seconds, an action is a callback of the
browser or a thing the user does.  A timer that is due runs before time goes on;
a page that sleeps has no ticks.  In a development build, which
`docker-compose.yml` serves, StrictMode runs the effect twice with the same
refs: `first` says that the socket of the first time has still to close, and
`robbed` (history) that its `onclose` stopped the heartbeat of the second; until
that socket closes nothing watches it.  `EnterRoom` is `read.update` on a socket
that still connects: `send` raises inside an effect of React and the tree is
unmounted.  The length of the backoff is any.  A pong may come unasked, as the
server sends it to all tabs of the user.  What the messages do is in RoomView,
FriendLists and Presence.  Fairness: timers run, a closing socket closes, and
(strong) an attempt made again and again succeeds; the last is an assumption
about the server and the token, without which nothing could be promised: a tab
whose token expired tries for ever.  A reconnection
fetches the room on the screen and the lists of rooms; friends and requests
announced meanwhile wait for the next notice or a reload.

### Composer

The line lives as long as some room is on the screen: `content`, `isTyping` and
`timer` stay when the room changes and go when it is closed, but a timer that
runs then is not cancelled (`strays`).  The timer keeps the room of the key that
set it.  `send` on a socket that is not open any more drops the frame, on one
that connects it raises, in the handler of the event, which ends there.  `hits`
is the fixed window of `message.send`; `WindowEnds` may come at any time, so the
run covers ten messages at the end of one window and ten at the start of the
next, which the code allows.  A refusal is answered on the socket and shown in a
toast, which a room on the screen must be there to show; one that is shown
already runs out with the old timer (`ChatLayout.tsx:28`).

The histories: `spoiled` has the rooms where a start or stop was not sent or was
spent on another room, by a key in another room, a connection that was not
there or the timer of a line that is gone; the next start or stop that is sent
there puts the room right.  `untold` has the messages lost
since a banner or a toast was last on the screen, `hidden` those of them for
which none was due, `left` the rooms the user left in another tab.
Fairness: timers run out, the endpoint reads, the other tab shows; nobody has to
type or connect.

### RoomList

A request of a modal or of the list is a `job`, a GET of one list a `get` that
is read at one time and applied at another, whoever asked; `mine` says that the
modal that asked is still there.  On a narrow screen the sidebar is mounted when the
open room is closed or left, and fetches both lists (`Back`, `LeaveAnswered`).  `OtherPublishes` and `OtherCommits` are the
peer's invitation, whose notice comes before its commit.  `crossed` (history)
has the rooms the lists may have wrong: whose change met a GET that had read, or
a notice that was spent or lost, whose GET or answer failed, or which the user
left in another tab.  A GET that reads after them and arrives takes them out.
The invite modal goes with the room on the screen, also when leaving that room is
answered (`LeaveAnswered`).  `moved` says that the room changed under the open modal,
`gone` what this tab cannot know: rooms left elsewhere, a peer who left.

### UnreadCounts

`msg` is in the order of `created_at`, which is taken when the row is built;
`Publish` and `Commit` follow in their own time, and `read.update` sets
`last_read_at` to the clock, so it covers messages that nobody can see yet.
`ReadList` reads the counts, `Arrive` sets them, over whatever the tab counted.
`Back` on a narrow screen mounts the sidebar, which fetches, and runs the
cleanup of ChatWindow, which sends `read.update`; on a wide screen the sidebar is
always there.  Opening a room while the socket connects raises inside an effect
and leaves a blank page (`blank`); the other modules of the client leave this
out.  `off` (history) has the rooms whose badge may be wrong, for the reasons
`BadgeRight` names; `met` of a GET the rooms of what was under way while it was, a
message or a `read.update` (what the user opens and leaves needs no exception of
its own: its update is under way).  The tab is the only one of its user: a
`read.update` of another tab is left out.

### SeenMessages

ChatWindow says `read.update` and starts the GET of the messages in one effect
(`ChatWindow.tsx:58`), and neither waits for the other.  `EnterRoom`, `CloseRoom`,
`Push`, `AddMessage`, `Disconnect` and `Reconnect` are the steps of UnreadCounts with what
they do to `messages`, the messages of the store; the rest of its steps are no matter
of it (`Elsewhere`).  A GET is sent by entering a room and by the `onopen` of a retry with
a room on the screen; it is read (`Page`: what is committed, the newest
`PageSize`), arrives and replaces the messages of its room, or fails, at which nothing
asks again.  `seen` (history) has the messages that were on the screen: on entering what
the store had of the room, the answer if its room still is the one on the screen, and
each payload for that room.  `missed` (history) has those that will not get there
on the way they should have, marked at the step where it happens: the GET that was to bring
them failed, arrived after the room had been left, or was read without them; their payload
found no socket after that, came when the room had been left, or was lost with the
connection or found none, and the room was left before the reconnect.  `ReadWasSeen` says that nothing else
that counts as read was unseen, so each way by which the code does bring a message (the
payload, the page, the GET of a reconnect) is needed.  Older pages are left out: RoomView has them.

### Session

A call is sent, served and answered in three steps, and the tab may be loaded
anew, its form left or the user logged in or out between them (`tab = None`, `mine =
FALSE`).  Registration looks for the address and inserts in two steps; the
unique column stops the second of two.  Tabs share `stored`, the token in
localStorage, and none is told of a change.  `meddled` (history) has the tabs
whose session was interfered with: another tab changed the token, or the user
acted while a call of this tab was in progress; `stranded` those whose login
stored a token and could not fetch the user; `creator` says whose request made
an account.  `initUser` removes the token after any error, also a network's
(`store/auth.ts:28`).  Logout leaves the chat store as it is (`store/auth.ts:48`):
no property is about it, the lists being in modules of one user.

## Runs

| run | question | bounds | result |
|---|---|---|---|
| `delivery` | does every live tab get every payload, in order, whatever happens to the set, and does the subscriber go on? | 2 tabs of one user, 1 server, 2 payloads, one chatty endpoint | holds |
| `delivery_set_mutated` | is the set left alone while iterated? | the same, 1 payload | violated |
| `presence` | are steady users mutually visible, keys kept, brought back and given up? | 3 sockets, 2 servers, one drops, one crash or exception | holds |
| `presence_ghost` | does a tab show online users only? | 3 connections, one tab twice | violated |
| `rooms` | what is acknowledged holds, errors and duplicates need crossing requests, nobody is stuck, who joins is told but for a DM reopened | any 3 of 10 requests, 15 tables | holds |
| `friend_lists` | the same for friend requests, and do both screens end up with the database? | any 3 of 6 requests, 3 tables, 2 fetches, 1 loss | holds |
| `room_view` | does the list show each message once, does it end where the history ends, are the reactions those of the database? | 2 old messages, 1 sent, 2 toggles of one user, page size 1, 1 GET at a time, 1 drop | holds |
| `client_connection` | is a dead socket given up in time and a live one kept, is there always one attempt, is what was lost replaced? | the ratios of the code: ping 3, timeout 1, 2 missed; retries counted to 3 | holds |
| `composer` | does the other tab show who types, does the indicator go away, is a lost text told? | 2 rooms, 3 keys, 2 messages, 1 per window, 2 changes of room, 1 drop | holds |
| `session` | is a tab nobody meddled with in one session, is one of two registrations told? | 2 tabs, 2 users, 2 tokens, 2 calls at once, 2 loads | holds |
| `room_list` | are the lists right when all is quiet, is the open room listed, is an invited mark true? | 1 group, 1 DM, 2 requests and 2 GETs at once, 2 acts of the user, 1 of others, 1 drop | holds |
| `unread` | is a badge the count of the server, was on the screen what counts as read? | 2 rooms, 2 messages, a page of 1, 1 GET of the list and 1 of messages at once, 2 moves, 1 invitation or drop | holds |

Each takes from some seconds to three minutes.

Why the bounds are enough: the set that is iterated changes its size with one
tab that joins or leaves, and a second payload is needed for an order; a race of
transactions needs two requests and a third that ends between them or blocks on
either; visibility needs a user on each side and a second server for the user
whose connection moves; pages of one message
make every message a bound of a page, and two old ones give an older page
to fetch while the third is sent.  An indicator goes wrong with keys in two
rooms and a timer that outlives a change of the screen: two rooms, two changes
and three keys.  Lists go wrong when one change falls between
the two moments of a GET, or two GETs swap: two GETs and a change on each side; badges
when a message or a frame does.
A message is read unseen when one GET goes wrong or a drop falls beside a change of
the room: two rooms, two changes, two messages and a page of one, so that a page can stop
before one.  GETs of the list that cross are left to `RoomList`'s run and to `BadgesAgree`.
Of sessions, two tabs and two users are enough to swap a token.  What two
servers, three tabs or more payloads add to Delivery is left to the theorems.
Symmetry is used where the elements are interchangeable
(requests, quiet tabs, toggles of one user) and no liveness is checked.  Deadlock
is checked in `presence` only, where time goes on; the others may legally come to
rest (all sockets gone, all requests ended); where somebody must go on there is a property (`NotStuck`,
`EventuallyBroadcast`, `LoadingEnds`, `IndicatorEnds`).

Each module has a `TypeOK` (`LineTypeOK` in Composer, `BadgeTypeOK` in
UnreadCounts).  No run lists it; it is proved.

### What the exceptions say

A property that holds up to a named exception says where the code does not keep
what its documents promise:

* `SecondDmOnlyWhenCrossed`: two users who open a DM with each other at once get
  two rooms, and from then on `create_dm` raises for the pair; the plan of
  2026-06-30 says there are no duplicates.
* `JoinerTold`: a DM that one of the two left and the other opens again puts the one
  who left back in (`crud/room.py:188`) and publishes nothing, `is_new` being False
  (`services/room.py:35`); they find it when a list is fetched the next time.
* `BothWaysOnlyWhenCrossed`: two users who ask each other at once get a row in
  each direction.
* `ReactionsRight`: each toggle broadcasts what its own transaction sees, before
  it commits.  Of two users who press at once the one delivered last lacks the
  other's reaction, and every screen keeps that until the room is entered again;
  the plan of 2026-07-24 expects the screens to agree.
* `NothingMissing` counts from the first message of the list.  A message under way
  while the newest page was read comes afterwards and is put at the end, below newer
  ones though its time is older than theirs; the messages between its time and the top of the
  list stay off the screen until an older page is fetched.  The run's bounds do not reach
  this; the proof does.
* `ListsRight`: a notice is out before the commit, so the refetch it causes can
  read the rows of before (`useWebSocket.ts:159`); a request taken back is
  announced to nobody.
* `ListRight`, `ActiveListed`: the same of `room.invite`; a room left in one tab
  stays in the list of another.
* `BadgeRight`: the user's own message counts as unread when it comes after the
  room was left, against the comment above the line (`useWebSocket.ts:147`); on a
  narrow screen the list may be read before the `read.update` of the same click.
* `ReadWasSeen`: `read.update` is sent beside the GET of the messages, whatever becomes
  of that (`ChatWindow.tsx:58`).  When it fails, is answered after the user went on to another
  room, or there are more than 50 unread, messages that were never on the screen count as
  read, and no badge will show them.
* `IndicatorRight`: after a change of the room within 500 ms no stop is sent for
  the old one when a key follows in the new one (`MessageInput.tsx:12`).
* `LossIsTold`: a text sent after the user left the room in another tab is
  neither stored nor answered (`websocket.py:117`).
* `Coherent`: a login that stored its token and failed to fetch the user looks
  failed, and is one at the next load.

### What the violated runs show

* `delivery_set_mutated`: `send_to_user` awaits inside a loop over the live set;
  a tab that connects meanwhile makes the next step raise, and the subscriber
  task of that server ends.  The comment above the loop forbids the change, but
  only the loop's own clean-up heeds it.  `Complete` is therefore stated for
  servers whose subscriber lives.
* `presence_ghost`: the snapshot for a new tab is scanned before two awaits and
  sent after them.  A peer can leave in between and its OFFLINE overtake the
  snapshot.

## Proofs

`DeliveryProofs` proves for any users, servers, sockets and bound:

* `TypeInvariant`: `TypeOK`, one lemma per action.
* `PositionInvariant`: no socket is ahead of the cursor of its server, and only
  sockets the current broadcast has met have its payload.  This is the
  strengthening the rest needs: `Order` alone is not inductive, since it does not
  say why the next payload written is newer than all before.
* `Refinement`: Delivery implements `OrderedBroadcast`; a send by a
  subscriber is a delivery, everything else but a publish is a stutter.
* `Order`: publish order, at most once and addressees only, obtained by the
  refinement and an invariant of the abstract specification.
* `CoverageInvariant` and `Completeness`: a live registered socket that is owed
  a payload has it or is still in what the broadcast has to meet; when
  nothing is left to meet nothing is owed.
* `RegistryExactness`: the registries have every socket that is up, under its
  owner and server, and no empty entry.  It follows from the two
  invariants above and `Filled`, which the clean-up of dead sockets keeps because
  an entry goes with its last socket.

`PresenceProofs` proves for any users, servers, sockets, tabs and faults, and any
TTL longer than an interval:

* `TypeInvariant`: `TypeOK`.
* `NeverExpires`: the key of a user with a socket in service goes only in the step of an
  endpoint of the same user that deletes it.  `KeySet` says why it does not
  expire: whoever set or renewed it since the last tick finds it full or deleted.
* `Visibility`: `MutuallyVisible`.  `Aware` follows each pair of working sockets
  through the handshake: the tab of one has the dot of the other's user, or it is
  `Learns`: found by its own scan, in a payload at its server, yet to be announced by the
  other, or the other has yet to scan.  The step that matters is the scan of
  either: whoever scans second finds the key of the first, which `KeySet` says is there, and
  publishes to the first, which `Registered` says is reached.  `NoFarewell` says that an
  OFFLINE on its way is about a user one of whose endpoints has ended.

`BrowserProofs` proves of Session, for any tabs, users, tokens and calls:

* `TypeInvariant`: `TypeOK`; it needs to know of a call in progress whom and what it is about
  (`WellFormed`), since an answer puts that into the session.
* `RegisteredOnce`: whoever is told that a registration succeeded created the
  account.  `Truthful`, the inductive invariant, adds the answers that
  are still on their way (`Told`): the form alone does not say why the next
  answer is true.
* `CoherentSession`: `Coherent`.  `AllUpright` says where a call of a tab nobody meddled
  with has got to: the tab of `initUser` holds the token it asks about, a tab that fetches
  its user after a login holds none while the new one is stored, a tab whose form was sent is logged
  out; and a tab has one call at most.

It proves of UnreadCounts and SeenMessages, for any rooms, messages, moves, GETs, pages and lost
connections:

* `BadgeTypeInvariant`: `BadgeTypeOK`.
* `BadgesAgree`: `BadgeRight`.
* `ReadMeansSeen`: `ReadWasSeen` of SeenMessages.

The properties speak of the moment when nothing is on its way; the invariant of UnreadCounts
(`BadgeInvariant`) says what the tab and each GET hold before.  Of the tab
(`TabInv`): the badge of a room that is not on the screen is the number of
messages that came out of the feed, did not fail and are not read, or zero
while a `read.update` of the room is on its way (`CountRight`); the room on the screen
has none (`ShownRight`); a message that failed while in the feed is excused
(`FailedRight`), and the feed has each message once (`FeedRight`).  With
no frame and no message under way what was counted is what the server
counts, which is `BadgeRight`.  Of a GET (`GetInv`): it has met every room something is
under way of (`MetRight`), and its answer is the count of the server for
every room it did not meet (`PageRight`), because the count of a room
changes only while something of it is under way (`UnreadKept`).  So an answer may
replace what the tab counted: where the two differ, the room was met.

The invariant of SeenMessages (`SeenInv`): a message that is read, or will be once the frames
are taken and the room left, and whose payload is no longer to come, is seen, missed, on
the page of a GET that was read, or of a room a GET asks for or a reconnect will
(`SeenOrDue`).  That a reconnect will needs that a socket which is closed, or connects
while a room is open, is a retry (`LinkRight`): `onopen` fetches only then.  An answer has messages of
its room only (`PagesRight`).  The steps are those of UnreadCounts
(`SeenStepIsBadgeStep`), whose types hold here too.

`RoomsProofs` proves for any users, rooms, requests and jobs:

* `TypeInvariant`: `TypeOK`, strengthened by what the rest needs: a request that is not
  about to commit has written nothing.
* `DmWhole`: a DM room has no rows or two, however many requests for it cross.
* `LeaveOnce`: a leave is acknowledged only by the request that took the user out.
* `AcknowledgedHolds`: what an acknowledged invite or leave did holds, or was undone
  by a request that was not over when it began.
* `JoinedTold`: whoever comes to be in a room asked for it or was told by the request that
  put them there, before its commit; a DM they left is the exception, because the other user may open it again untold.
* `NeverAllWaiting`: while requests are in progress there is one whose next statement waits
  for no row.  `Wanted` is the rows that statement must lock, read off the guards: no statement
  is executed before they are free (`WaitsForWanted`), and each one that may wait is the first of its
  transaction that writes (`ChainsAreShort`).  This is the content of `NotStuck`, which says it
  with ENABLED and is left to TLC.

`IInv` is about the row locks.  None of the four properties in the middle is
inductive: they speak of the commit and need what was true when the row was
read.  `Apart` (no row was written by two requests that are not over) carries it
from there to the commit: what `Writing` says of the rows a request wrote, for instance
that the row of a leave is still "in", can only be changed by the request
itself.  `Unmade` (a room is not seen before the request that makes it
is over) is why the INSERTs of `create_room` and `create_dm`, which wait for no
lock, keep `Apart`; `Standing` says that a permitted invitation is for a group
that is seen, so it never adds a third row to a DM; `Told` is the order of
publishing and committing.

Two more are about requests that cross, for tables in which no two DM
rooms have the same users (`OneDmEach`, a hypothesis of both theorems: where earlier
requests for a DM crossed there are two from the start):

* `SecondDmCrossed`: a pair gets a second DM room only from two requests that were both
  under way at once, whoever leaves, is put back in or asks again.
* `ErrorCrossed`: the database fails a request only when two invitations of one user
  to one room crossed, or two requests for the DM that is asked for.

Their invariant `CInv` says what a request still knows of what it read: one that saw
no DM of the two meets one only if that crossed it (`Unseen`), an invitation that
saw no row of the target meets one only if an invitation crossed it (`Met`), and
what failed was explained when it failed (`Explained`).  A commit of another request is the only step
that can disturb these, and it crosses every request that is not over
(`CommitCrosses`, from `Past`).  That two rooms both users have rows in are DMs of one pair
follows from `WholeDm` by counting (`SameRows`).

`FriendsProofs` proves for any users, requests and jobs, of Friends alone and of the
composition the run `friend_lists` checks:

* `TypeInvariant`, `AcknowledgedChange` and `RowLifecycle`: an acknowledged request did
  itself what it was for, and nothing else moves a row.
* `CrossedPairs`: rows in both directions were sent by two requests that crossed.
* `DeletionHolds`: after an acknowledged deletion there is nothing between the two, unless
  a request that was not over when it began sent one.

The argument is the same, with two facts more: a deletion that looked will
delete every row it saw, and finds no other unless one was sent since (`Cleared`); a
request that saw none in the other direction meets one only if that
request crossed it (`Crossing`).  The invariant leaves the notices out, so
the steps of the lists, which only take notices away, keep it.

* `ListsCorrect`: `ListsRight`.  Its invariant `AllExcused` gives every name a list has
  wrong a reason: the list is marked stale, a notice on its way will make the
  tab fetch it (`Corrects`), a fetch that has not read yet or read after the change is under
  way (`Refetches`), or the answer to a request of the user's own is to come
  (`ActsOn`).  `Published` ties the notices to the commits they are about: a commit
  makes a list wrong only of users who were sent a notice, asked for it, or are marked.

`RoomListProofs` proves for any rooms, requests, GETs and bounds:

* `TypeInvariant`: `TypeOK`, with what a request and the GETs it waits for know of each
  other (`Placed`, `Waited`).
* `ListsSettle`: `ListRight`.  A room is as it should be in its list, or crossed, or
  there is something that will put it there: a notice, a GET of that list, the
  answer of what was done (`Pending`).  A GET is enough because what it read is right
  for every room that is not marked on it (`Fresh`): a change of the membership marks the GETs that had read.
* `ScreenSettles`: `ActiveListed`, from that and `Shown`: the room on the screen is the
  user's, or was left in a way this tab cannot know, or the answer to leaving it is to come.
* `InvitedSettles`: `InvitedIsMember`.  `Invitations` adds the request in progress: it
  is about the room the modal is open for, until the room changes under it.

`RoomViewProofs` proves for any messages, toggles, users, page size, GETs and drops:

* `TypeInvariant`: `TypeOK`; that the clock stays in its range needs a count of the messages begun.
* `LoadingIsOver`: `LoadingEnds`.
* `NoRepeat`, `NoGap`, `EndIsReached`: `NothingTwice`, `NothingMissing`, `EndReached`.
  The three rest on one invariant, `AllFine`, about each message no GET met: it is at
  most once on the screen or on its way to it (`Once`); nothing that is there is older
  than the top of the screen, and nothing stored when no more is offered (`Below`); what is
  stored and newer than the top is there or on its way (`Reached`); and the list still
  begins with the list an older page will be put before, the page being all older than
  that list (`Continues`).  `PagesFit` says what a page has: all that was asked for and stored then, or a
  full page of the newest of it, which is why the top may move up to its oldest.
* `ReactionsSettle`: `ReactionsRight`.  Without toggles that cross there is one at a time
  and none during a GET (`OneAtATime`), so what it read back is what it commits; then
  the last update on its way, or the list when there is none, has what is due
  (`AllShown`): what a toggle that was announced is about to commit, else what the database has.

`TabProofs` proves of Composer, for any rooms, keys, messages, changes of the room
and lost connections, and any limit:

* `LineTypeInvariant`: `LineTypeOK`.
* `LossesAreTold`: `LossIsTold`, which is inductive.
* `IndicatorSettles`: `IndicatorRight`.  `Ends` is what the other tab will show once it has
  what is on its way: the last word about the room in the frames, else in the
  payloads, else what it shows.  `AllRight` says of it what `IndicatorRight` says of the
  screen at rest.  A frame that is pushed has the last word, reading,
  publishing and showing one leave it as it was (`Sent`, `Skipped`, `Published`, `Taken`), and
  a lost connection spoils every room it had a word about.

It proves of ClientConnection, for any interval, any shorter timeout and any number of
pongs that may be missed:

* `TypeInvariant`, `AlwaysOneAttempt`: the range of every variable, one
  attempt at a time and nothing after a logout.
* `DeadSocketGivenUp`: an open socket whose heartbeat was not taken away heard a
  pong within `MAX_MISSED_PONGS` intervals and a timeout (70 s with the constants of the code).
* `LiveSocketKept`: the watchdog closes only a socket that was silent for all but
  one of these intervals and the timeout (40 s).

`IInv` (`HeartbeatInvariant`) adds to the properties what the heartbeat adds up to: while a
watchdog runs, it is that of the last ping, and the silence lies between two
bounds given by the pongs missed, the last ping and the timer.  Neither
bound is inductive without the other facts.

The assumptions of Delivery are those of `DeliveryAssumption`: finitely many
sockets, servers and sockets distinct, each socket with an owner and a host.
That of ClientConnection is `ConnectionAssumption`: a timeout is shorter than an
interval, as 10 s and 30 s are.  That of Session is `SessionAssumption`: every
token has an owner, and `None` is neither a tab, a user nor a token.  Those of
Rooms and Friends are about `Tables`, what earlier requests can have left: a group
that was made has members, a DM has two rows, and no pair has friend requests in
both directions.  That of Presence gives each socket an owner, a server and a tab,
each tab one user, and a TTL longer than an interval.  That of Messages has at least one message from
before, which the toggles are about, and pages that are not empty; RoomView needs
a toggle within the bound, with none there is nothing to mark when two GETs
cross.  Those of RoomList and Composer say that `None` (`NoRoom`) is none of the rooms, that
the two users are two, and that the bounds are numbers; that of UnreadCounts says the
same of its `NoRoom`, of `Me` and `Other`, and of its bounds, and that of SeenMessages that a page
is not empty.

Models were corrected by what could not be proved or was not needed: `RoomList`
kept the invite modal open when the room it is of was left (two group rooms are needed to see
it), `NothingMissing` asked for messages above the top of the screen, and `BadgeRight` excused
every room that was opened or left during a GET.

Only model-checked: the liveness properties (`EventuallyBroadcast`, `Relisted`,
`Forgotten`, `Replaced`, `IndicatorEnds`), which need fairness, and `NotStuck` of
Rooms as it stands (an ENABLED; see `NeverAllWaiting`).  Every other property of a
passing run is a theorem.

## Not modelled

* The rejection of a token, and of frames that are not JSON or name no room, by the
  endpoint: they end the coroutine as `HandlerRaises` does, before it did
  anything.
* Hashing and signing (pure functions of libraries), the limits of the HTTP
  routes (decorators that refuse a request; the modules let any request fail).
* Request and response types, exceptions, configuration, the clients of Redis
  and PostgreSQL: data and constructors.  Migrations run once, before the
  servers start; the keys they create are in the modules of the tables.
* Theme, member list, the reaction picker and the layout of a message: rendering and
  local flags of one component.  What they send and show is in Messages and
  RoomView.
* Deployment, except that there are several servers behind one address.

## What is left

1. One module of a tab with its room list, message list and badges at once: the
   parts are checked each with its own channel, and a change of user in one tab
   (logout leaves the chat store) would need it.
2. Sending beside leaving: the members of a room are fixed in Messages.
