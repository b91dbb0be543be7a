------------------------------ MODULE Presence ------------------------------
(* Who is online: the Redis keys user:{id}:online with their TTL           *)
(* (managers/presence.py), the steps the endpoint coroutine of a socket    *)
(* takes on them when it starts, pings and ends (api/websocket.py), and    *)
(* the map of online users each browser tab keeps from what it is told     *)
(* (store/chat.ts).                                                        *)
(*                                                                         *)
(* Endpoints run on several servers over one Redis; an action is one await *)
(* of one of them.  That a payload reaches the sockets of its addressees,  *)
(* in publish order, is what Delivery shows: here each server delivers it  *)
(* in one step.  A tick of the clock is one heartbeat interval.            *)
EXTENDS Naturals, Sequences, FiniteSets, ConnectionManager

CONSTANTS
    Users, Servers, Sockets, Tabs,
    Owner,          \* Owner[w] is the user that opened socket w
    Host,           \* Host[w] is the server that accepted w
    Tab,            \* Tab[w] is the browser tab that opened w
    TTL,            \* PRESENCE_TTL, in heartbeat intervals
    Fragile,        \* bound: sockets that drop or whose endpoint raises
    MaxFaults       \* bound: crashes and exceptions in a behaviour

ASSUME PresenceAssumption ==
    /\ IsFiniteSet(Sockets)
    /\ Owner \in [Sockets -> Users]
    /\ Host \in [Sockets -> Servers]
    /\ Tab \in [Sockets -> Tabs]
    /\ \A w, x \in Sockets : Tab[w] = Tab[x] => Owner[w] = Owner[x]
    /\ TTL \in Nat \ {0, 1}
    /\ Fragile \subseteq Sockets
    /\ MaxFaults \in Nat

VARIABLES
    ttl,            \* ttl[u]: ticks the key of u has left; 0 when it is absent
    pinged,         \* sockets that pinged in this heartbeat interval
    connections,    \* connections[s]: the registry of server s
    pc,             \* pc[w]: where the endpoint coroutine of w stands
    open,           \* sockets whose transport is up
    peers,          \* peers[w]: users w's endpoint scanned and has yet to use
    inbox,          \* inbox[s]: presence payloads server s has yet to deliver
    online,         \* online[t]: the users tab t shows as online
    faults          \* crashes and exceptions so far

vars == <<ttl, pinged, connections, pc, open, peers, inbox, online, faults>>

Listed == {u \in Users : ttl[u] > 0}
Registry == UNION {[D -> SUBSET Sockets] : D \in SUBSET Users}
Update == [to : SUBSET Users, who : Users, up : BOOLEAN]

TypeOK ==
    /\ ttl \in [Users -> 0..TTL]
    /\ pinged \in SUBSET Sockets
    /\ connections \in [Servers -> Registry]
    /\ pc \in [Sockets -> {"new", "registered", "listed", "scanned", "greeting",
                           "loop", "unregistered", "delisted", "parting", "gone"}]
    /\ open \in SUBSET Sockets
    /\ peers \in [Sockets -> SUBSET Users]
    /\ inbox \in [Servers -> Seq(Update)]
    /\ online \in [Tabs -> SUBSET Users]
    /\ faults \in 0..MaxFaults

Init ==
    /\ ttl = [u \in Users |-> 0]
    /\ pinged = {}
    /\ connections = [s \in Servers |-> EmptyRegistry]
    /\ pc = [w \in Sockets |-> "new"]
    /\ open = {}
    /\ peers = [w \in Sockets |-> {}]
    /\ inbox = [s \in Servers |-> <<>>]
    /\ online = [t \in Tabs |-> {}]
    /\ faults = 0
-----------------------------------------------------------------------------
(* send_to_user for each user of us on server s, with a payload that sets  *)
(* who's dot to up: the sockets whose transport is up get it, the others   *)
(* are disconnected.                                                       *)
Reached(s, us) ==
    {Tab[w] : w \in open \cap UNION {SocketsOf(connections[s], u) : u \in us}}

SetOnline(s, us, who, up) ==
    online' = [t \in Tabs |->
        IF t \notin Reached(s, us) THEN online[t]
        ELSE IF up THEN online[t] \cup {who} ELSE online[t] \ {who}]

Cleaned(reg, us) ==
    LET kept(u) == IF u \in us THEN reg[u] \cap open ELSE reg[u]
    IN  [u \in {v \in DOMAIN reg : kept(v) # {}} |-> kept(u)]

SendToUsers(s, us, who, up) ==
    /\ SetOnline(s, us, who, up)
    /\ connections' = [connections EXCEPT ![s] = Cleaned(@, us)]
-----------------------------------------------------------------------------
(* The endpoint coroutine of socket w *)

(* A tab opens a socket when its last one is closed; the server registers  *)
(* it before the next await.                                               *)
Connect(w) ==
    /\ pc[w] = "new"
    /\ \A x \in open : Tab[x] # Tab[w]
    /\ pc' = [pc EXCEPT ![w] = "registered"]
    /\ open' = open \cup {w}
    /\ connections' =
          [connections EXCEPT ![Host[w]] = Connected(@, Owner[w], w)]
    /\ UNCHANGED <<ttl, pinged, peers, inbox, online, faults>>

(* presence.set_online: SET with ex=PRESENCE_TTL *)
List(w) ==
    /\ pc[w] = "registered"
    /\ pc' = [pc EXCEPT ![w] = "listed"]
    /\ ttl' = [ttl EXCEPT ![Owner[w]] = TTL]
    /\ UNCHANGED <<pinged, connections, open, peers, inbox, online, faults>>

(* _broadcast_presence: get_all_online_ids scans the keys... *)
Scan(w) ==
    /\ pc[w] \in {"listed", "delisted"}
    /\ pc' = [pc EXCEPT ![w] = IF @ = "listed" THEN "scanned" ELSE "parting"]
    /\ peers' = [peers EXCEPT ![w] = Listed \ {Owner[w]}]
    /\ UNCHANGED <<ttl, pinged, connections, open, inbox, online, faults>>

(* ... and the users found are told; a payload for nobody goes unseen. *)
Publish(w) ==
    /\ pc[w] \in {"scanned", "parting"}
    /\ LET m == [to |-> peers[w], who |-> Owner[w], up |-> pc[w] = "scanned"]
       IN  inbox' = [s \in Servers |->
               IF peers[w] = {} THEN inbox[s] ELSE Append(inbox[s], m)]
    /\ IF pc[w] = "scanned"
       THEN pc' = [pc EXCEPT ![w] = "greeting"] /\ UNCHANGED peers
       ELSE /\ pc' = [pc EXCEPT ![w] = "gone"]
            /\ peers' = [peers EXCEPT ![w] = {}]
    /\ UNCHANGED <<ttl, pinged, connections, open, online, faults>>

(* is_reconnect: the sockets the user has here are told of each peer. *)
Greet(w) ==
    /\ pc[w] = "greeting"
    /\ \E p \in peers[w] :
        /\ peers' = [peers EXCEPT ![w] = @ \ {p}]
        /\ SendToUsers(Host[w], {Owner[w]}, p, TRUE)
    /\ UNCHANGED <<ttl, pinged, pc, open, inbox, faults>>

(* Mutant of EnterLoop: the snapshot is not sent to the end. *)
EnterLoopUngreeted(w) ==
    /\ pc[w] = "greeting"
    /\ pc' = [pc EXCEPT ![w] = "loop"]
    /\ peers' = [peers EXCEPT ![w] = {}]
    /\ pinged' = pinged \cup {w}
    /\ UNCHANGED <<ttl, connections, open, inbox, online, faults>>

(* The first ping comes one interval after the socket was opened. *)
EnterLoop(w) ==
    /\ pc[w] = "greeting"
    /\ peers[w] = {}
    /\ pc' = [pc EXCEPT ![w] = "loop"]
    /\ pinged' = pinged \cup {w}
    /\ UNCHANGED <<ttl, connections, open, peers, inbox, online, faults>>

(* Mutants of Ping: it forgets the key; it only prolongs a key that is     *)
(* there, as EXPIRE would. *)
PingForgetsKey(w) ==
    /\ pc[w] = "loop" /\ w \in open \ pinged
    /\ pinged' = pinged \cup {w}
    /\ connections' = [connections EXCEPT ![Host[w]] = Cleaned(@, {Owner[w]})]
    /\ UNCHANGED <<ttl, pc, open, peers, inbox, online, faults>>
PingProlongs(w) ==
    /\ pc[w] = "loop" /\ w \in open \ pinged
    /\ pinged' = pinged \cup {w}
    /\ ttl' = [ttl EXCEPT ![Owner[w]] = IF @ = 0 THEN 0 ELSE TTL]
    /\ connections' = [connections EXCEPT ![Host[w]] = Cleaned(@, {Owner[w]})]
    /\ UNCHANGED <<pc, open, peers, inbox, online, faults>>

(* A ping sets the key again and the user's sockets here get the PONG. *)
Ping(w) ==
    /\ pc[w] = "loop" /\ w \in open \ pinged
    /\ pinged' = pinged \cup {w}
    /\ ttl' = [ttl EXCEPT ![Owner[w]] = TTL]
    /\ connections' = [connections EXCEPT ![Host[w]] = Cleaned(@, {Owner[w]})]
    /\ UNCHANGED <<pc, open, peers, inbox, online, faults>>

(* receive_text raises WebSocketDisconnect: the socket is unregistered and *)
(* is_online is read before the next await. *)
HangUp(w) ==
    LET reg == Disconnected(connections[Host[w]], Owner[w], {w}) IN
    /\ pc[w] = "loop"
    /\ w \notin open
    /\ connections' = [connections EXCEPT ![Host[w]] = reg]
    /\ pc' = [pc EXCEPT ![w] =
                 IF IsOnline(reg, Owner[w]) THEN "gone" ELSE "unregistered"]
    /\ UNCHANGED <<ttl, pinged, open, peers, inbox, online, faults>>

(* presence.set_offline: DEL, whatever connected since HangUp *)
Delist(w) ==
    /\ pc[w] = "unregistered"
    /\ pc' = [pc EXCEPT ![w] = "delisted"]
    /\ ttl' = [ttl EXCEPT ![Owner[w]] = 0]
    /\ UNCHANGED <<pinged, connections, open, peers, inbox, online, faults>>

(* Any other exception ends the endpoint with its socket registered. *)
HandlerRaises(w) ==
    /\ w \in Fragile /\ pc[w] \notin {"new", "gone"}
    /\ faults < MaxFaults
    /\ faults' = faults + 1
    /\ pc' = [pc EXCEPT ![w] = "gone"]
    /\ open' = open \ {w}
    /\ peers' = [peers EXCEPT ![w] = {}]
    /\ UNCHANGED <<ttl, pinged, connections, inbox, online>>
-----------------------------------------------------------------------------
(* The subscriber of server s delivers the next payload. *)
Deliver(s) ==
    /\ inbox[s] # <<>>
    /\ LET m == Head(inbox[s]) IN SendToUsers(s, m.to, m.who, m.up)
    /\ inbox' = [inbox EXCEPT ![s] = Tail(@)]
    /\ UNCHANGED <<ttl, pinged, pc, open, peers, faults>>

(* The process dies and starts again, with an empty registry and a new     *)
(* subscription. *)
Crash(s) ==
    LET dying == {w \in Sockets : Host[w] = s /\ pc[w] \notin {"new", "gone"}} IN
    /\ dying # {}
    /\ faults < MaxFaults
    /\ faults' = faults + 1
    /\ pc' = [w \in Sockets |-> IF w \in dying THEN "gone" ELSE pc[w]]
    /\ peers' = [w \in Sockets |-> IF w \in dying THEN {} ELSE peers[w]]
    /\ open' = open \ dying
    /\ connections' = [connections EXCEPT ![s] = EmptyRegistry]
    /\ inbox' = [inbox EXCEPT ![s] = <<>>]
    /\ UNCHANGED <<ttl, pinged, online>>

(* The tab or the network closes the socket. *)
Drop(w) ==
    /\ w \in open \cap Fragile
    /\ open' = open \ {w}
    /\ UNCHANGED <<ttl, pinged, connections, pc, peers, inbox, online, faults>>

(* What an endpoint does between two pings takes less than the interval,   *)
(* and a tab that is up pings once in each.                                *)
IntervalOver ==
    \A w \in Sockets :
        /\ pc[w] \in {"new", "loop", "gone"}
        /\ pc[w] = "loop" /\ w \in open => w \in pinged

(* Mutant of Tick: the key was set with no expiry. *)
TickNoExpiry ==
    /\ IntervalOver
    /\ pinged' = {}
    /\ UNCHANGED <<ttl, connections, pc, open, peers, inbox, online, faults>>

Tick ==
    /\ IntervalOver
    /\ ttl' = [u \in Users |-> IF ttl[u] = 0 THEN 0 ELSE ttl[u] - 1]
    /\ pinged' = {}
    /\ UNCHANGED <<connections, pc, open, peers, inbox, online, faults>>
-----------------------------------------------------------------------------
EndpointNext(w) ==
    \/ List(w) \/ Scan(w) \/ Publish(w) \/ Greet(w) \/ EnterLoop(w)
    \/ Ping(w) \/ HangUp(w) \/ Delist(w)

Next ==
    \/ \E w \in Sockets : EndpointNext(w)
    \/ \E w \in Sockets : Connect(w) \/ Drop(w) \/ HandlerRaises(w)
    \/ \E s \in Servers : Deliver(s) \/ Crash(s)
    \/ Tick

Spec == Init /\ [][Next]_vars

(* Coroutines that can run do, the client's interval timer fires while its *)
(* socket is open, and time passes.                                        *)
Fairness ==
    /\ \A w \in Sockets : WF_vars(EndpointNext(w))
    /\ \A s \in Servers : WF_vars(Deliver(s))
    /\ WF_vars(Tick)

FairSpec == Spec /\ Fairness
-----------------------------------------------------------------------------
(* Users one of whose endpoints is ending or has ended. *)
Left == {Owner[w] : w \in {x \in Sockets :
            pc[x] \in {"unregistered", "delisted", "parting", "gone"}}}

InService(w) == pc[w] = "loop" /\ w \in open
Settled(s) == inbox[s] = <<>>

(* Two users that are both up see each other online, on every tab, however *)
(* their connections interleave and wherever they land, provided none of   *)
(* their endpoints has ended: each sets its key before it scans, so one of *)
(* the two scans finds the other.                                          *)
MutuallyVisible ==
    \A w, x \in Sockets :
        /\ InService(w) /\ InService(x)
        /\ Owner[w] # Owner[x] /\ {Owner[w], Owner[x]} \cap Left = {}
        /\ Settled(Host[w])
        => Owner[x] \in online[Tab[w]]

(* The key of a user with a working socket goes only when an endpoint of   *)
(* the same user deletes it: it never expires under a tab that pings.      *)
ExpiresOnlyUnattended ==
    [][\A w \in Sockets :
          InService(w) /\ Owner[w] \in Listed /\ Owner[w] \notin Listed' =>
              \E x \in Sockets : /\ Owner[x] = Owner[w]
                                 /\ pc[x] = "unregistered" /\ pc'[x] = "delisted"
      ]_vars

(* A user who stays connected is listed again and for good after any late  *)
(* set_offline of an older socket (disconnect racing a reconnect, or the   *)
(* last socket of one server while another server has one). *)
Relisted ==
    \A w \in Sockets : <>[]InService(w) => <>[](Owner[w] \in Listed)

(* A user whose endpoints have all ended is not listed forever, even when  *)
(* they ended in an exception or with the process. *)
Forgotten ==
    \A u \in Users :
        <>[](\A w \in Sockets : Owner[w] = u => pc[w] \in {"new", "gone"})
            => <>[](u \notin Listed)

(* The plan of the feature (docs/superpowers/plans/                        *)
(* 2026-07-11-advanced-features.md:13): the sidebar shows online users     *)
(* only.  Once every payload is delivered and no endpoint is at work, a    *)
(* tab that is up shows only users with a socket that is up. *)
OnlyOnlineShown ==
    (\A w \in Sockets : pc[w] = "new" \/ pc[w] = "gone" \/ InService(w))
        /\ (\A s \in Servers : Settled(s))
    => \A w \in Sockets : InService(w) =>
           \A u \in online[Tab[w]] : \E x \in Sockets : Owner[x] = u /\ InService(x)
=============================================================================
