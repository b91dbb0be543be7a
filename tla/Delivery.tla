------------------------------ MODULE Delivery ------------------------------
(* How a payload published on the Redis channel "chat" reaches the sockets *)
(* of its addressees: the connection managers of the server processes      *)
(* (managers/connection.py), their subscriber tasks (managers/pubsub.py,   *)
(* started by main.py) and the life of a socket's endpoint coroutine       *)
(* (api/websocket.py).                                                     *)
(*                                                                         *)
(* A server is one asyncio loop: an action is what one coroutine does      *)
(* between two awaits.  The tasks that send are the subscriber of a server *)
(* and the endpoint of a socket; each has at most one send_to_user call in *)
(* progress, its frame.  What a payload says is abstracted to its number   *)
(* in the publish order and the set of users it is for; what the endpoint  *)
(* does to the database and to the presence keys is in other modules.      *)
EXTENDS Naturals, Sequences, FiniteSets, ConnectionManager

CONSTANTS
    Users, Servers, Sockets,
    Owner,          \* Owner[w] is the user that opened socket w
    Host,           \* Host[w] is the server that accepted w
    MaxPublish,     \* bound: payloads published in a behaviour
    Chatty,         \* bound: sockets whose endpoint sends to its own user
    NoFrame         \* the task has no send_to_user call in progress

Tasks == Servers \cup Sockets

Frame == [user : Users,          \* the addressee
          size : Nat,            \* size of the set when iteration began
          todo : SUBSET Sockets, \* sockets of that time still to be written
          seen : SUBSET Sockets, \* sockets written so far
          dead : SUBSET Sockets, \* sockets whose send raised
          stale : BOOLEAN]       \* the set iterated was popped from the dict

Registry == UNION {[D -> SUBSET Sockets] : D \in SUBSET Users}

ASSUME DeliveryAssumption ==
    /\ IsFiniteSet(Sockets)
    /\ Servers \cap Sockets = {}
    /\ Owner \in [Sockets -> Users]
    /\ Host \in [Sockets -> Servers]
    /\ MaxPublish \in Nat
    /\ Chatty \subseteq Sockets
    /\ NoFrame \notin Frame

VARIABLES
    log,            \* log[m]: the user_ids of the m-th payload published
    cursor,         \* cursor[s]: payloads server s has taken off the channel
    pending,        \* pending[s]: addressees of payload cursor[s] not served yet
    deaf,           \* servers whose subscriber task has raised
    connections,    \* connections[s]: the registry of server s
    frame,          \* frame[t]: the send_to_user call task t is in
    pc,             \* pc[w]: where the endpoint coroutine of w stands
    open,           \* sockets whose transport is up
    received,       \* received[w]: channel payloads written to w, in order
    since,          \* history: cursor[Host[w]] when w was registered
    missed          \* history: payloads lost to a gap in s's subscription

registryVars == <<connections, frame>>
channelVars  == <<log, cursor, pending, deaf, missed>>
socketVars   == <<pc, open, since>>
vars == <<channelVars, registryVars, socketVars, received>>

Home(t) == IF t \in Servers THEN t ELSE Host[t]
Live(s, u) == SocketsOf(connections[s], u)
Serving(w) == pc[w] \notin {"new", "gone"}

(* Payloads whose broadcast on s has run to its end. *)
Done(s) == IF pending[s] = {} THEN cursor[s] ELSE cursor[s] - 1

TypeOK ==
    /\ log \in Seq(SUBSET Users)
    /\ cursor \in [Servers -> Nat]
    /\ \A s \in Servers : cursor[s] <= Len(log)
    /\ pending \in [Servers -> SUBSET Users]
    /\ deaf \in SUBSET Servers
    /\ connections \in [Servers -> Registry]
    /\ frame \in [Tasks -> Frame \cup {NoFrame}]
    /\ pc \in [Sockets -> {"new", "announcing", "greeting", "loop",
                           "leaving", "gone"}]
    /\ open \in SUBSET Sockets
    /\ received \in [Sockets -> Seq(Nat)]
    /\ since \in [Sockets -> Nat]
    /\ missed \in [Servers -> SUBSET Nat]

Init ==
    /\ log = <<>>
    /\ cursor = [s \in Servers |-> 0]
    /\ pending = [s \in Servers |-> {}]
    /\ deaf = {}
    /\ connections = [s \in Servers |-> EmptyRegistry]
    /\ frame = [t \in Tasks |-> NoFrame]
    /\ pc = [w \in Sockets |-> "new"]
    /\ open = {}
    /\ received = [w \in Sockets |-> <<>>]
    /\ since = [w \in Sockets |-> 0]
    /\ missed = [s \in Servers |-> {}]
-----------------------------------------------------------------------------
(* disconnect() of the sockets ws by task t, which leaves its own frame.   *)
(* When the entry is popped the other iterations over it hold a set object *)
(* that is no longer in the dict.                                          *)
Unregister(t, u, ws) ==
    LET s == Home(t)
        reg == Disconnected(connections[s], u, ws)
    IN  /\ connections' = [connections EXCEPT ![s] = reg]
        /\ frame' = [x \in Tasks |->
              IF x = t \/ frame[x] = NoFrame THEN NoFrame
              ELSE IF Home(x) = s /\ frame[x].user = u /\ ~IsOnline(reg, u)
              THEN [frame[x] EXCEPT !.stale = TRUE]
              ELSE frame[x]]

(* await websocket.send_json(payload): it raises when the transport is     *)
(* down.  Payloads of the channel are recorded; PONG, the rate-limit error *)
(* and the presence snapshot an endpoint sends are not.                    *)
Write(t, w) ==
    received' = IF t \in Servers /\ w \in open
                THEN [received EXCEPT ![w] = Append(@, cursor[t])]
                ELSE received

DeadAfter(dead, w) == IF w \in open THEN dead ELSE dead \cup {w}

(* send_to_user(u) up to its first await *)
SendFirst(t, u) ==
    \E w \in Live(Home(t), u) :
        /\ frame' = [frame EXCEPT ![t] =
              [user |-> u,
               size |-> Cardinality(Live(Home(t), u)),
               todo |-> Live(Home(t), u) \ {w},
               seen |-> {w},
               dead |-> DeadAfter({}, w),
               stale |-> FALSE]]
        /\ Write(t, w)
        /\ UNCHANGED connections

(* next() of the set iterator fails when the set changed size. *)
Mutated(t) ==
    \/ frame[t].stale
    \/ Cardinality(Live(Home(t), frame[t].user)) # frame[t].size

(* Mutant of SendNext: a socket already written can be met again. *)
SendNextAgain(t) ==
    /\ frame[t] # NoFrame
    /\ ~Mutated(t)
    /\ \E w \in Live(Home(t), frame[t].user) :
        /\ frame' = [frame EXCEPT ![t].todo = @ \ {w},
                                  ![t].seen = @ \cup {w},
                                  ![t].dead = DeadAfter(@, w)]
        /\ Write(t, w)
    /\ UNCHANGED <<connections, channelVars, socketVars>>

(* The next round of the loop of send_to_user.  A socket added while       *)
(* another was discarded may or may not be met by the iterator.            *)
SendNext(t) ==
    /\ frame[t] # NoFrame
    /\ ~Mutated(t)
    /\ \E w \in Live(Home(t), frame[t].user) \ frame[t].seen :
        /\ frame' = [frame EXCEPT ![t].todo = @ \ {w},
                                  ![t].seen = @ \cup {w},
                                  ![t].dead = DeadAfter(@, w)]
        /\ Write(t, w)
    /\ UNCHANGED <<connections, channelVars, socketVars>>

(* Mutant of SendEnd: the first send that raises ends the loop. *)
SendEndAtFirstDead(t) ==
    /\ frame[t] # NoFrame
    /\ ~Mutated(t)
    /\ \/ frame[t].todo \cap Live(Home(t), frame[t].user) = {}
       \/ frame[t].dead # {}
    /\ Unregister(t, frame[t].user, frame[t].dead)
    /\ pending' = IF t \in Servers
                  THEN [pending EXCEPT ![t] = @ \ {frame[t].user}]
                  ELSE pending
    /\ UNCHANGED <<log, cursor, deaf, missed, socketVars, received>>

(* The loop ends and the dead sockets are disconnected. *)
SendEnd(t) ==
    /\ frame[t] # NoFrame
    /\ ~Mutated(t)
    /\ frame[t].todo \cap Live(Home(t), frame[t].user) = {}
    /\ Unregister(t, frame[t].user, frame[t].dead)
    /\ pending' = IF t \in Servers
                  THEN [pending EXCEPT ![t] = @ \ {frame[t].user}]
                  ELSE pending
    /\ UNCHANGED <<log, cursor, deaf, missed, socketVars, received>>

(* RuntimeError: Set changed size during iteration.  Nothing catches it:   *)
(* it ends the subscriber task, or the endpoint with its socket still      *)
(* registered.                                                             *)
SendRaises(t) ==
    /\ frame[t] # NoFrame
    /\ Mutated(t)
    /\ frame' = [frame EXCEPT ![t] = NoFrame]
    /\ IF t \in Servers
       THEN deaf' = deaf \cup {t} /\ UNCHANGED <<pc, open>>
       ELSE /\ pc' = [pc EXCEPT ![t] = "gone"]
            /\ open' = open \ {t}
            /\ UNCHANGED deaf
    /\ UNCHANGED <<log, cursor, pending, missed, connections, since, received>>
-----------------------------------------------------------------------------
(* The subscriber task of server s *)

(* listen() yields the next payload and broadcast_to_users starts. *)
Take(s) ==
    /\ s \notin deaf
    /\ pending[s] = {}
    /\ cursor[s] < Len(log)
    /\ cursor' = [cursor EXCEPT ![s] = @ + 1]
    /\ pending' = [pending EXCEPT ![s] = log[cursor[s] + 1]]
    /\ UNCHANGED <<log, deaf, missed, registryVars, socketVars, received>>

(* Mutant of SkipAbsent: the absent user is waited for. *)
SkipAbsentWaits(s, u) ==
    /\ s \notin deaf
    /\ frame[s] = NoFrame
    /\ u \in pending[s]
    /\ IsOnline(connections[s], u)
    /\ pending' = [pending EXCEPT ![s] = @ \ {u}]
    /\ UNCHANGED <<log, cursor, deaf, missed, registryVars, socketVars, received>>

(* send_to_user returns at once for a user with no socket here. *)
SkipAbsent(s, u) ==
    /\ s \notin deaf
    /\ frame[s] = NoFrame
    /\ u \in pending[s]
    /\ ~IsOnline(connections[s], u)
    /\ pending' = [pending EXCEPT ![s] = @ \ {u}]
    /\ UNCHANGED <<log, cursor, deaf, missed, registryVars, socketVars, received>>

Dispatch(s, u) ==
    /\ s \notin deaf
    /\ frame[s] = NoFrame
    /\ u \in pending[s]
    /\ SendFirst(s, u)
    /\ UNCHANGED <<channelVars, socketVars>>

(* The connection to Redis is lost and made again: Redis keeps nothing for *)
(* a subscriber that is away.                                              *)
LoseGap(s) ==
    /\ s \notin deaf
    /\ pending[s] = {}
    /\ \E k \in (cursor[s] + 1)..Len(log) :
        /\ cursor' = [cursor EXCEPT ![s] = k]
        /\ missed' = [missed EXCEPT ![s] = @ \cup (cursor[s] + 1)..k]
    /\ UNCHANGED <<log, pending, deaf, registryVars, socketVars, received>>

(* listen() raises when the reconnection fails as well. *)
ListenRaises(s) ==
    /\ s \notin deaf
    /\ pending[s] = {}
    /\ deaf' = deaf \cup {s}
    /\ UNCHANGED <<log, cursor, pending, missed, registryVars, socketVars, received>>
-----------------------------------------------------------------------------
(* The endpoint coroutine of socket w *)

(* accept() returns and manager.connect runs before the next await. *)
Connect(w) ==
    LET s == Host[w] IN
    /\ pc[w] = "new"
    /\ pc' = [pc EXCEPT ![w] = "announcing"]
    /\ open' = open \cup {w}
    /\ connections' = [connections EXCEPT ![s] = Connected(@, Owner[w], w)]
    /\ since' = [since EXCEPT ![w] = cursor[s]]
    /\ UNCHANGED <<channelVars, frame, received>>

(* pubsub.publish: Redis fans the payload out to every subscriber, in one  *)
(* order.  A payload for nobody goes unseen and is left out of log.        *)
Publish(to) ==
    /\ \/ to = {} /\ UNCHANGED log
       \/ to # {} /\ Len(log) < MaxPublish /\ log' = Append(log, to)
    /\ UNCHANGED <<cursor, pending, deaf, missed>>

(* _broadcast_presence publishes ONLINE to the peers it scanned... *)
AnnounceOnline(w) ==
    /\ pc[w] = "announcing"
    /\ \E peers \in SUBSET (Users \ {Owner[w]}) : Publish(peers)
    /\ pc' = [pc EXCEPT ![w] = "greeting"]
    /\ UNCHANGED <<registryVars, open, since, received>>

(* ... and sends the user one snapshot entry for each peer. *)
Greet(w) ==
    /\ w \in Chatty
    /\ pc[w] = "greeting"
    /\ frame[w] = NoFrame
    /\ SendFirst(w, Owner[w])
    /\ UNCHANGED <<channelVars, socketVars>>

EnterLoop(w) ==
    /\ pc[w] = "greeting"
    /\ frame[w] = NoFrame
    /\ pc' = [pc EXCEPT ![w] = "loop"]
    /\ UNCHANGED <<channelVars, registryVars, open, since, received>>

(* A frame of the client that makes the endpoint publish: message.send,    *)
(* typing.start, typing.stop or reaction.toggle. *)
Receive(w) ==
    /\ pc[w] = "loop"
    /\ frame[w] = NoFrame
    /\ \E members \in SUBSET Users : Publish(members)
    /\ UNCHANGED <<registryVars, socketVars, received>>

(* A ping, or a message over the rate limit: answered to every socket the  *)
(* user has on this server. *)
Reply(w) ==
    /\ w \in Chatty
    /\ pc[w] = "loop"
    /\ frame[w] = NoFrame
    /\ SendFirst(w, Owner[w])
    /\ UNCHANGED <<channelVars, socketVars>>

(* receive_text raises WebSocketDisconnect *)
HangUp(w) ==
    /\ pc[w] = "loop"
    /\ frame[w] = NoFrame
    /\ w \notin open
    /\ Unregister(w, Owner[w], {w})
    /\ pc' = [pc EXCEPT ![w] =
          IF IsOnline(connections'[Host[w]], Owner[w]) THEN "gone" ELSE "leaving"]
    /\ UNCHANGED <<channelVars, open, since, received>>

AnnounceOffline(w) ==
    /\ pc[w] = "leaving"
    /\ \E peers \in SUBSET (Users \ {Owner[w]}) : Publish(peers)
    /\ pc' = [pc EXCEPT ![w] = "gone"]
    /\ UNCHANGED <<registryVars, open, since, received>>

(* Any exception but WebSocketDisconnect: a malformed room id, an error of *)
(* the database or of Redis, a WebSocketDisconnect before the loop.  The   *)
(* server closes the transport and the socket stays registered.            *)
HandlerRaises(w) ==
    /\ Serving(w)
    /\ frame[w] = NoFrame
    /\ pc' = [pc EXCEPT ![w] = "gone"]
    /\ open' = open \ {w}
    /\ UNCHANGED <<channelVars, registryVars, since, received>>

(* The client closes the socket or the network does. *)
Drop(w) ==
    /\ w \in open
    /\ open' = open \ {w}
    /\ UNCHANGED <<channelVars, registryVars, pc, since, received>>
-----------------------------------------------------------------------------
SubscriberNext(s) ==
    \/ Take(s)
    \/ \E u \in Users : SkipAbsent(s, u) \/ Dispatch(s, u)
    \/ SendNext(s) \/ SendEnd(s) \/ SendRaises(s)

EndpointNext(w) ==
    \/ AnnounceOnline(w) \/ Greet(w) \/ EnterLoop(w)
    \/ Receive(w) \/ Reply(w) \/ HangUp(w) \/ AnnounceOffline(w)
    \/ SendNext(w) \/ SendEnd(w) \/ SendRaises(w)

Environment ==
    \/ \E s \in Servers : LoseGap(s) \/ ListenRaises(s)
    \/ \E w \in Sockets : Connect(w) \/ HandlerRaises(w) \/ Drop(w)

Next ==
    \/ \E s \in Servers : SubscriberNext(s)
    \/ \E w \in Sockets : EndpointNext(w)
    \/ Environment

Spec == Init /\ [][Next]_vars

(* A coroutine that can run is run by its loop, and a send completes: a    *)
(* peer that stops reading is cut off by uvicorn's own keepalive.          *)
Fairness ==
    /\ \A s \in Servers : WF_vars(SubscriberNext(s))
    /\ \A w \in Sockets : WF_vars(EndpointNext(w))

FairSpec == Spec /\ Fairness
-----------------------------------------------------------------------------
(* A socket still up has every payload for its user that its server        *)
(* finished broadcasting after the socket was registered and did not lose  *)
(* in a Redis gap: one dead tab never costs the others a payload.          *)
Complete ==
    \A w \in open : \A m \in (since[w] + 1)..Done(Host[w]) :
        Owner[w] \in log[m] /\ m \notin missed[Host[w]]
            => \E i \in 1..Len(received[w]) : received[w][i] = m

(* The whole protocol implements the ordered broadcast: no step of it      *)
(* writes a payload that is older than what the socket has, that is for    *)
(* somebody else, or that was never published.                             *)
Broadcast == INSTANCE OrderedBroadcast WITH
                 Users <- Users, Sockets <- Sockets, Owner <- Owner,
                 log <- log, received <- received
ImplementsBroadcast == Broadcast!Spec

(* The registry has every socket whose transport is up, under its owner    *)
(* and its server, and no other entry of it is empty: cleaning up after a  *)
(* failed send never removes a working socket, and is_online tells the     *)
(* truth about them.                                                       *)
RegistryExact ==
    /\ \A w \in open : w \in Live(Host[w], Owner[w])
    /\ \A s \in Servers : \A u \in DOMAIN connections[s] :
        /\ connections[s][u] # {}
        /\ \A w \in connections[s][u] : Host[w] = s /\ Owner[w] = u

(* Why the broadcast is ordered (what the proof of the refinement needs):  *)
(* what a socket has is not ahead of its server's cursor, and while        *)
(* payload cursor[s] is being broadcast only the sockets already met by    *)
(* the iteration in progress, among those still to be served, have it.     *)
Position ==
    /\ \A s \in Servers :
        /\ pending[s] # {} => /\ cursor[s] \in 1..Len(log)
                             /\ pending[s] \subseteq log[cursor[s]]
        /\ frame[s] # NoFrame => s \notin deaf /\ frame[s].user \in pending[s]
        /\ \A u \in Users : \A w \in Live(s, u) : Host[w] = s /\ Owner[w] = u
    /\ \A w \in Sockets : \A i \in 1..Len(received[w]) :
        LET s == Host[w] IN
        /\ received[w][i] \in 1..cursor[s]
        /\ s \notin deaf /\ received[w][i] = cursor[s] /\ Owner[w] \in pending[s]
            => frame[s] # NoFrame /\ frame[s].user = Owner[w] /\ w \in frame[s].seen

(* Why Complete holds: a socket that is up and owed a payload has it, or   *)
(* is still to be reached by the broadcast of that payload; and what an    *)
(* iteration is about to disconnect was really down.                       *)
Coverage ==
    /\ \A t \in Tasks : frame[t] # NoFrame =>
        \A w \in frame[t].dead : w \notin open /\ pc[w] # "new"
    /\ \A s \in Servers : \A u \in Users : \A w \in Live(s, u) : pc[w] # "new"
    /\ \A w \in open :
        LET s == Host[w] IN
        /\ w \in Live(s, Owner[w])
        /\ \A m \in (since[w] + 1)..cursor[s] :
            Owner[w] \in log[m] /\ m \notin missed[s] =>
                \/ \E i \in 1..Len(received[w]) : received[w][i] = m
                \/ /\ m = cursor[s] /\ Owner[w] \in pending[s]
                   /\ frame[s] # NoFrame /\ frame[s].user = Owner[w]
                        => w \in frame[s].todo

(* Every payload published is broadcast by every server, unless its        *)
(* subscriber task has died. *)
EventuallyBroadcast ==
    \A s \in Servers : \A m \in 1..MaxPublish :
        Len(log) >= m ~> (Done(s) >= m \/ s \in deaf)

(* The comment of send_to_user (connection.py:35): the set must not be     *)
(* modified while it is iterated.  It is, by connect and disconnect of     *)
(* other coroutines that run during the await.                             *)
SetStableWhileIterated == \A t \in Tasks : frame[t] # NoFrame => ~Mutated(t)
=============================================================================
