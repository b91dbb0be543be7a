--------------------------- MODULE PresenceProofs ---------------------------
(* Proofs about Presence, for any users, servers, sockets and tabs: its    *)
(* types, that a key expires only when nobody pings, and that users who    *)
(* are up at the same time learn of each other.                            *)
EXTENDS Presence, TLAPS

(* Registering a socket keeps the registry one and adds that socket.       *)
LEMMA ConnectedEffect ==
    ASSUME NEW reg \in Registry, NEW u \in Users, NEW w \in Sockets
    PROVE  /\ Connected(reg, u, w) \in Registry
           /\ \A v : SocketsOf(Connected(reg, u, w), v) =
                 IF v = u THEN SocketsOf(reg, u) \cup {w} ELSE SocketsOf(reg, v)
<1>1. PICK D \in SUBSET Users : reg \in [D -> SUBSET Sockets]
    BY DEF Registry
<1>2. Connected(reg, u, w) \in [D \cup {u} -> SUBSET Sockets]
    BY <1>1 DEF Connected, SocketsOf, IsOnline
<1>3. \A v : SocketsOf(Connected(reg, u, w), v) =
         IF v = u THEN SocketsOf(reg, u) \cup {w} ELSE SocketsOf(reg, v)
    BY <1>1 DEF Connected, SocketsOf, IsOnline
<1>4. QED
    BY <1>2, <1>3 DEF Registry

(* Unregistering takes away the named sockets only.                        *)
LEMMA DisconnectedEffect ==
    ASSUME NEW reg \in Registry, NEW u, NEW ws
    PROVE  /\ Disconnected(reg, u, ws) \in Registry
           /\ \A v : SocketsOf(Disconnected(reg, u, ws), v) =
                 IF v = u THEN SocketsOf(reg, u) \ ws ELSE SocketsOf(reg, v)
<1>1. PICK D \in SUBSET Users : reg \in [D -> SUBSET Sockets]
    BY DEF Registry
<1> DEFINE rest == SocketsOf(reg, u) \ ws
           E == {x \in D : x # u \/ rest # {}}
<1>2. Disconnected(reg, u, ws) \in [E -> SUBSET Sockets]
    BY <1>1 DEF Disconnected, SocketsOf, IsOnline
<1>3. \A v : SocketsOf(Disconnected(reg, u, ws), v) =
         IF v = u THEN rest ELSE SocketsOf(reg, v)
    BY <1>1 DEF Disconnected, SocketsOf, IsOnline
<1>4. E \in SUBSET Users
    BY <1>1
<1>5. QED
    BY <1>2, <1>3, <1>4 DEF Registry

(* So does a send, of the sockets that are closed.                         *)
LEMMA CleanedEffect ==
    ASSUME NEW reg \in Registry, NEW us
    PROVE  /\ Cleaned(reg, us) \in Registry
           /\ \A v : SocketsOf(reg, v) \cap open \subseteq SocketsOf(Cleaned(reg, us), v)
<1>1. PICK D \in SUBSET Users : reg \in [D -> SUBSET Sockets]
    BY DEF Registry
<1> DEFINE kept(u) == IF u \in us THEN reg[u] \cap open ELSE reg[u]
           E == {v \in D : kept(v) # {}}
<1>2. Cleaned(reg, us) = [u \in E |-> kept(u)]
    BY <1>1 DEF Cleaned
<1>3. \A u \in D : kept(u) \in SUBSET Sockets
    BY <1>1
<1>4. Cleaned(reg, us) \in [E -> SUBSET Sockets] /\ E \in SUBSET Users
    BY <1>2, <1>3
<1>5. ASSUME NEW v PROVE SocketsOf(reg, v) \cap open \subseteq SocketsOf(Cleaned(reg, us), v)
    <2>1. CASE v \in E
        BY <1>1, <1>2, <2>1 DEF SocketsOf, IsOnline
    <2>2. CASE v \in D \ E
        BY <1>1, <1>2, <2>2 DEF SocketsOf, IsOnline
    <2>3. CASE v \notin D
        BY <1>1, <2>3 DEF SocketsOf, IsOnline
    <2>4. QED
        BY <2>1, <2>2, <2>3
<1>6. QED
    BY <1>4, <1>5 DEF Registry

(* What a send does to the dots of the tabs: it changes that of one user.  *)
LEMMA SetOnlineEffect ==
    ASSUME TypeOK, NEW s \in Servers, NEW us, NEW who \in Users, NEW up \in BOOLEAN,
           SetOnline(s, us, who, up)
    PROVE  /\ online' \in [Tabs -> SUBSET Users]
           /\ \A t \in Tabs : /\ \A u \in online[t] : u # who \/ up => u \in online'[t]
                              /\ up /\ t \in Reached(s, us) => who \in online'[t]
BY DEF SetOnline, TypeOK

(* The state of one server, changed by one of its steps. *)
LEMMA ConnectionsType ==
    ASSUME TypeOK, NEW s, NEW reg \in Registry,
           connections' = [connections EXCEPT ![s] = reg]
    PROVE  connections' \in [Servers -> Registry]
BY DEF TypeOK

(* The steps of an endpoint keep the types.                                *)
LEMMA EndpointType ==
    ASSUME TypeOK, NEW w \in Sockets, EndpointNext(w) \/ Connect(w)
    PROVE  TypeOK'
<1>1. Owner[w] \in Users /\ Host[w] \in Servers
    BY PresenceAssumption
<1>2. connections[Host[w]] \in Registry
    BY <1>1 DEF TypeOK
<1>3. TTL \in 0..TTL /\ 0 \in 0..TTL
    BY PresenceAssumption
<1>4. CASE List(w)
    BY <1>1, <1>3, <1>4 DEF List, TypeOK
<1>5. CASE Scan(w)
    <2>1. Listed \ {Owner[w]} \in SUBSET Users
        BY DEF Listed
    <2>2. QED
        BY <1>5, <2>1 DEF Scan, TypeOK
<1>6. CASE Publish(w)
    <2> DEFINE m == [to |-> peers[w], who |-> Owner[w], up |-> pc[w] = "scanned"]
    <2>1. m \in Update
        BY <1>1 DEF Update, TypeOK
    <2>2. inbox' = [s \in Servers |->
                       IF peers[w] = {} THEN inbox[s] ELSE Append(inbox[s], m)]
        BY <1>6 DEF Publish
    <2> HIDE DEF m
    <2>3. inbox' \in [Servers -> Seq(Update)]
        BY <2>1, <2>2 DEF TypeOK
    <2>4. /\ pc' \in [Sockets -> {"new", "registered", "listed", "scanned", "greeting",
                           "loop", "unregistered", "delisted", "parting", "gone"}]
          /\ peers' \in [Sockets -> SUBSET Users]
          /\ UNCHANGED <<ttl, pinged, connections, open, online, faults>>
        BY <1>6 DEF Publish, TypeOK
    <2>5. QED
        BY <2>3, <2>4 DEF TypeOK
<1>7. CASE Greet(w)
    <2>1. PICK p \in peers[w] : /\ peers' = [peers EXCEPT ![w] = @ \ {p}]
                                /\ SendToUsers(Host[w], {Owner[w]}, p, TRUE)
        BY <1>7 DEF Greet
    <2>2. p \in Users
        BY <2>1 DEF TypeOK
    <2>3. online' \in [Tabs -> SUBSET Users]
        BY <1>1, <2>1, <2>2, SetOnlineEffect DEF SendToUsers
    <2>4. connections' =
             [connections EXCEPT ![Host[w]] = Cleaned(connections[Host[w]], {Owner[w]})]
        BY <2>1 DEF SendToUsers
    <2>5. connections' \in [Servers -> Registry]
        BY <1>2, <2>4, CleanedEffect, ConnectionsType
    <2>6. /\ peers' \in [Sockets -> SUBSET Users]
          /\ UNCHANGED <<ttl, pinged, pc, open, inbox, faults>>
        BY <1>7, <2>1 DEF Greet, TypeOK
    <2>7. QED
        BY <2>3, <2>5, <2>6 DEF TypeOK
<1>8. CASE EnterLoop(w)
    BY <1>8 DEF EnterLoop, TypeOK
<1>9. CASE Ping(w)
    <2>1. connections' =
             [connections EXCEPT ![Host[w]] = Cleaned(connections[Host[w]], {Owner[w]})]
        BY <1>9 DEF Ping
    <2>2. connections' \in [Servers -> Registry]
        BY <1>2, <2>1, CleanedEffect, ConnectionsType
    <2>3. QED
        BY <1>1, <1>3, <1>9, <2>2 DEF Ping, TypeOK
<1>10. CASE HangUp(w)
    <2>1. connections' = [connections EXCEPT ![Host[w]] =
                             Disconnected(connections[Host[w]], Owner[w], {w})]
        BY <1>10 DEF HangUp
    <2>2. connections' \in [Servers -> Registry]
        BY <1>2, <2>1, DisconnectedEffect, ConnectionsType
    <2>3. /\ pc' = [pc EXCEPT ![w] = "gone"] \/ pc' = [pc EXCEPT ![w] = "unregistered"]
          /\ UNCHANGED <<ttl, pinged, open, peers, inbox, online, faults>>
        BY <1>10 DEF HangUp
    <2>4. QED
        BY <2>2, <2>3 DEF TypeOK
<1>11. CASE Delist(w)
    BY <1>1, <1>3, <1>11 DEF Delist, TypeOK
<1>12. CASE Connect(w)
    <2>1. connections' = [connections EXCEPT ![Host[w]] =
                             Connected(connections[Host[w]], Owner[w], w)]
        BY <1>12 DEF Connect
    <2>2. connections' \in [Servers -> Registry]
        BY <1>1, <1>2, <2>1, ConnectedEffect, ConnectionsType
    <2>3. QED
        BY <1>12, <2>2 DEF Connect, TypeOK
<1>13. QED
    BY <1>4, <1>5, <1>6, <1>7, <1>8, <1>9, <1>10, <1>11, <1>12 DEF EndpointNext

(* The empty registry is one. *)
LEMMA EmptyRegistryType == EmptyRegistry \in Registry
<1>1. EmptyRegistry \in [{} -> SUBSET Sockets] /\ {} \in SUBSET Users
    BY DEF EmptyRegistry
<1>2. QED
    BY <1>1, Zenon DEF Registry

(* So do the deliveries, the faults and the clock.                         *)
LEMMA EnvironmentType ==
    ASSUME TypeOK,
           \/ \E w \in Sockets : Drop(w) \/ HandlerRaises(w)
           \/ \E s \in Servers : Deliver(s) \/ Crash(s)
           \/ Tick
    PROVE  TypeOK'
<1>1. ASSUME NEW w \in Sockets, Drop(w) PROVE TypeOK'
    BY <1>1 DEF Drop, TypeOK
<1>2. ASSUME NEW w \in Sockets, HandlerRaises(w) PROVE TypeOK'
    BY <1>2, PresenceAssumption DEF HandlerRaises, TypeOK
<1>3. ASSUME NEW s \in Servers, Deliver(s) PROVE TypeOK'
    <2>1. inbox[s] \in Seq(Update) /\ inbox[s] # <<>>
        BY <1>3 DEF Deliver, TypeOK
    <2>2. Head(inbox[s]) \in Update /\ Tail(inbox[s]) \in Seq(Update)
        BY <2>1
    <2>3. PICK m \in Update : m = Head(inbox[s])
        BY <2>2
    <2>4. SendToUsers(s, m.to, m.who, m.up) /\ m.who \in Users /\ m.up \in BOOLEAN
        BY <1>3, <2>3 DEF Deliver, Update
    <2>5. online' \in [Tabs -> SUBSET Users]
        BY <2>4, SetOnlineEffect DEF SendToUsers
    <2>6. connections[s] \in Registry
        BY DEF TypeOK
    <2>7. connections' = [connections EXCEPT ![s] = Cleaned(connections[s], m.to)]
        BY <2>4 DEF SendToUsers
    <2>8. connections' \in [Servers -> Registry]
        BY <2>6, <2>7, CleanedEffect, ConnectionsType
    <2>9. inbox' = [inbox EXCEPT ![s] = Tail(inbox[s])]
        BY <1>3 DEF Deliver
    <2>10. inbox' \in [Servers -> Seq(Update)]
        BY <2>2, <2>9 DEF TypeOK
    <2>11. UNCHANGED <<ttl, pinged, pc, open, peers, faults>>
        BY <1>3 DEF Deliver
    <2>12. QED
        BY <2>5, <2>8, <2>10, <2>11 DEF TypeOK
<1>4. ASSUME NEW s \in Servers, Crash(s) PROVE TypeOK'
    <2>1. connections' \in [Servers -> Registry]
        BY <1>4, EmptyRegistryType, ConnectionsType DEF Crash
    <2>2. inbox' \in [Servers -> Seq(Update)]
        BY <1>4 DEF Crash, TypeOK
    <2>3. /\ pc' \in [Sockets -> {"new", "registered", "listed", "scanned", "greeting",
                           "loop", "unregistered", "delisted", "parting", "gone"}]
          /\ peers' \in [Sockets -> SUBSET Users]
          /\ open' \in SUBSET Sockets /\ faults' \in 0..MaxFaults
          /\ UNCHANGED <<ttl, pinged, online>>
        BY <1>4, PresenceAssumption DEF Crash, TypeOK
    <2>4. QED
        BY <2>1, <2>2, <2>3 DEF TypeOK
<1>5. CASE Tick
    <2>1. ttl' \in [Users -> 0..TTL]
        BY <1>5, PresenceAssumption DEF Tick, TypeOK
    <2>2. QED
        BY <1>5, <2>1 DEF Tick, TypeOK
<1>6. QED
    BY <1>1, <1>2, <1>3, <1>4, <1>5

(* The initial state is well-typed. *)
LEMMA InitType == Init => TypeOK
<1> SUFFICES ASSUME Init PROVE TypeOK
    OBVIOUS
<1>1. connections \in [Servers -> Registry]
    BY EmptyRegistryType DEF Init
<1>2. inbox \in [Servers -> Seq(Update)]
    BY DEF Init
<1>3. ttl \in [Users -> 0..TTL] /\ faults \in 0..MaxFaults
    BY PresenceAssumption DEF Init
<1>4. QED
    BY <1>1, <1>2, <1>3 DEF Init, TypeOK

(* Every step keeps the types. *)
LEMMA StepType ==
    ASSUME TypeOK, [Next]_vars
    PROVE  TypeOK'
<1>1. CASE UNCHANGED vars
    BY <1>1 DEF vars, TypeOK
<1>2. CASE Next
    BY <1>2, EndpointType, EnvironmentType DEF Next
<1>3. QED
    BY <1>1, <1>2

(* Type correctness: the registries map users to sockets, the lifetimes of *)
(* keys stay within the TTL, and what is published or shown names users,   *)
(* whatever is dropped, raises or crashes.                                 *)
THEOREM TypeInvariant == Spec => []TypeOK
BY InitType, StepType, PTL DEF Spec
-----------------------------------------------------------------------------
(* An endpoint that is ending or has ended does not come back ...          *)
Ending == {"unregistered", "delisted", "parting", "gone"}

LEMMA EndingStays ==
    ASSUME TypeOK, Next, NEW w \in Sockets, pc[w] \in Ending
    PROVE  pc'[w] \in Ending
<1>1. ASSUME NEW x \in Sockets, EndpointNext(x) PROVE pc'[w] \in Ending
    BY <1>1 DEF EndpointNext, List, Scan, Publish, Greet, EnterLoop, Ping, HangUp,
                Delist, TypeOK, Ending
<1>2. ASSUME NEW x \in Sockets, Connect(x) \/ Drop(x) \/ HandlerRaises(x)
      PROVE  pc'[w] \in Ending
    BY <1>2 DEF Connect, Drop, HandlerRaises, TypeOK, Ending
<1>3. ASSUME NEW s \in Servers, Deliver(s) \/ Crash(s) PROVE pc'[w] \in Ending
    BY <1>3 DEF Deliver, Crash, TypeOK, Ending
<1>4. CASE Tick
    BY <1>4 DEF Tick
<1>5. QED
    BY <1>1, <1>2, <1>3, <1>4 DEF Next

(* ... so who has left has left.                                           *)
LEMMA LeftGrows ==
    ASSUME TypeOK, [Next]_vars
    PROVE  Left \subseteq Left'
<1>1. \A w \in Sockets : pc[w] \in Ending => pc'[w] \in Ending
    BY EndingStays DEF vars
<1>2. Left = {Owner[w] : w \in {x \in Sockets : pc[x] \in Ending}}
    BY DEF Left, Ending
<1>3. Left' = {Owner[w] : w \in {x \in Sockets : pc'[x] \in Ending}}
    BY DEF Left, Ending
<1>4. QED
    BY <1>1, <1>2, <1>3

LEMMA EndingLeft ==
    ASSUME NEW w \in Sockets, pc[w] \in Ending PROVE Owner[w] \in Left
BY DEF Left, Ending
-----------------------------------------------------------------------------
(* An endpoint that has set the key and not yet reached the loop.          *)
Working == {"listed", "scanned", "greeting"}

(* The key of a user whose endpoint is at work, or pinged since the last   *)
(* tick, has its full lifetime or was deleted; and it is there unless an   *)
(* endpoint of the same user is ending.                                    *)
FullOrDeleted ==
    \A w \in Sockets :
        pc[w] \in Working \/ (pc[w] = "loop" /\ w \in pinged) => ttl[Owner[w]] \in {0, TTL}

KeyThere ==
    \A w \in Sockets :
        pc[w] \in Working \/ InService(w) => ttl[Owner[w]] > 0 \/ Owner[w] \in Left

KeySet == FullOrDeleted /\ KeyThere

(* The steps that leave the keys alone.                                    *)
LEMMA KeyQuiet ==
    ASSUME TypeOK, KeySet, [Next]_vars, ttl' = ttl,
           \A w \in Sockets :
              /\ pc'[w] \in Working => pc[w] \in Working
              /\ pc'[w] = "loop" => pc[w] = "greeting"
                                    \/ (pc[w] = "loop" /\ (w \in pinged' => w \in pinged)
                                        /\ (w \in open' => w \in open))
    PROVE  KeySet'
<1>1. FullOrDeleted'
    BY DEF KeySet, FullOrDeleted, Working
<1>2. KeyThere'
    BY LeftGrows DEF KeySet, KeyThere, Working, InService
<1>3. QED
    BY <1>1, <1>2 DEF KeySet

(* The steps that set or delete the key of a user.                         *)
LEMMA KeyStep ==
    ASSUME TypeOK, KeySet, [Next]_vars
    PROVE  KeySet'
<1>1. TTL \in Nat /\ TTL > 1
    BY PresenceAssumption
<1>2. ASSUME NEW w \in Sockets, List(w) PROVE KeySet'
    <2>1. \A x \in Sockets : ttl'[Owner[x]] = IF Owner[x] = Owner[w] THEN TTL
                                              ELSE ttl[Owner[x]]
        BY <1>2, PresenceAssumption DEF List, TypeOK
    <2>2. \A x \in Sockets \ {w} : pc'[x] = pc[x]
        BY <1>2 DEF List, TypeOK
    <2>3. UNCHANGED <<pinged, open>>
        BY <1>2 DEF List
    <2>4. FullOrDeleted'
        BY <2>1, <2>2, <2>3 DEF KeySet, FullOrDeleted
    <2>5. KeyThere'
        BY <1>1, <2>1, <2>2, <2>3, LeftGrows DEF KeySet, KeyThere, InService
    <2>6. QED
        BY <2>4, <2>5 DEF KeySet
<1>3. ASSUME NEW w \in Sockets, Ping(w) PROVE KeySet'
    <2>1. \A x \in Sockets : ttl'[Owner[x]] = IF Owner[x] = Owner[w] THEN TTL
                                              ELSE ttl[Owner[x]]
        BY <1>3, PresenceAssumption DEF Ping, TypeOK
    <2>2. pinged' = pinged \cup {w} /\ UNCHANGED <<pc, open>>
        BY <1>3 DEF Ping
    <2>3. FullOrDeleted'
        BY <2>1, <2>2 DEF KeySet, FullOrDeleted
    <2>4. KeyThere'
        BY <1>1, <2>1, <2>2, LeftGrows DEF KeySet, KeyThere, InService
    <2>5. QED
        BY <2>3, <2>4 DEF KeySet
<1>4. ASSUME NEW w \in Sockets, Delist(w) PROVE KeySet'
    <2>1. \A x \in Sockets : ttl'[Owner[x]] = IF Owner[x] = Owner[w] THEN 0
                                              ELSE ttl[Owner[x]]
        BY <1>4, PresenceAssumption DEF Delist, TypeOK
    <2>2. pc' = [pc EXCEPT ![w] = "delisted"] /\ UNCHANGED <<pinged, open>>
        BY <1>4 DEF Delist
    <2>3. pc'[w] = "delisted" /\ \A x \in Sockets \ {w} : pc'[x] = pc[x]
        BY <2>2 DEF TypeOK
    <2>4. Owner[w] \in Left'
        BY <2>3 DEF Left
    <2>5. FullOrDeleted'
        BY <2>1, <2>2, <2>3 DEF KeySet, FullOrDeleted, Working
    <2>6. KeyThere'
        BY <2>1, <2>2, <2>3, <2>4, LeftGrows DEF KeySet, KeyThere, InService, Working
    <2>7. QED
        BY <2>5, <2>6 DEF KeySet
<1>5. CASE Tick
    <2>1. \A u \in Users : ttl'[u] = IF ttl[u] = 0 THEN 0 ELSE ttl[u] - 1
        BY <1>5 DEF Tick
    <2>2. \A x \in Sockets : /\ pc[x] \in {"new", "loop", "gone"}
                             /\ pc[x] = "loop" /\ x \in open => x \in pinged
        BY <1>5 DEF Tick, IntervalOver
    <2>3. pinged' = {} /\ UNCHANGED <<pc, open>>
        BY <1>5 DEF Tick
    <2>4. FullOrDeleted'
        BY <2>2, <2>3 DEF FullOrDeleted, Working
    <2>5. ASSUME NEW x \in Sockets, InService(x), Owner[x] \notin Left
          PROVE  ttl'[Owner[x]] > 0
        <3>1. ttl[Owner[x]] \in {0, TTL} /\ ttl[Owner[x]] > 0
            BY <2>2, <2>5 DEF KeySet, FullOrDeleted, KeyThere, InService
        <3>2. QED
            BY <1>1, <2>1, <3>1, PresenceAssumption
    <2>6. KeyThere'
        BY <2>2, <2>3, <2>5, LeftGrows DEF KeyThere, Working, InService
    <2>7. QED
        BY <2>4, <2>6 DEF KeySet
<1>6. ASSUME NEW w \in Sockets,
             \/ Scan(w) \/ Publish(w) \/ Greet(w) \/ HangUp(w)
             \/ Connect(w) \/ Drop(w) \/ HandlerRaises(w)
      PROVE  KeySet'
    <2>1. /\ ttl' = ttl /\ pinged' = pinged
          /\ open' \subseteq open \cup (IF pc'[w] = "registered" THEN {w} ELSE {})
        BY <1>6 DEF Scan, Publish, Greet, HangUp, Connect, Drop, HandlerRaises, TypeOK
    <2>2. \A x \in Sockets \ {w} : pc'[x] = pc[x]
        BY <1>6 DEF Scan, Publish, Greet, HangUp, Connect, Drop, HandlerRaises, TypeOK
    <2>3. (pc'[w] \in Working => pc[w] \in Working) /\ (pc'[w] = "loop" => pc[w] = "loop")
        BY <1>6 DEF Scan, Publish, Greet, HangUp, Connect, Drop, HandlerRaises, TypeOK,
                    Working
    <2>4. QED
        BY <2>1, <2>2, <2>3, KeyQuiet
<1>7. ASSUME NEW w \in Sockets, EnterLoop(w) PROVE KeySet'
    <2>1. /\ pc[w] = "greeting" /\ pc' = [pc EXCEPT ![w] = "loop"]
          /\ pinged' = pinged \cup {w} /\ UNCHANGED <<ttl, open>>
        BY <1>7 DEF EnterLoop
    <2>2. QED
        BY <2>1, KeyQuiet DEF TypeOK, Working
<1>8. ASSUME NEW s \in Servers, Deliver(s) \/ Crash(s) PROVE KeySet'
    <2>1. /\ ttl' = ttl /\ pinged' = pinged /\ open' \subseteq open
          /\ \A x \in Sockets : pc'[x] \in {pc[x], "gone"}
        BY <1>8 DEF Deliver, Crash
    <2>2. QED
        BY <2>1, KeyQuiet DEF Working
<1>9. CASE UNCHANGED vars
    BY <1>9, KeyQuiet DEF vars
<1>10. QED
    BY <1>2, <1>3, <1>4, <1>5, <1>6, <1>7, <1>8, <1>9 DEF Next, EndpointNext

LEMMA InitKeys == Init => KeySet
BY DEF Init, KeySet, FullOrDeleted, KeyThere, Working, InService

(* A key that goes under a tab that is up was deleted by another endpoint  *)
(* of the user: a step of the clock finds it with its full lifetime.       *)
LEMMA OnlyDeleted ==
    ASSUME TypeOK, KeySet, [Next]_vars, NEW w \in Sockets, InService(w),
           Owner[w] \in Listed, Owner[w] \notin Listed'
    PROVE  \E x \in Sockets : /\ Owner[x] = Owner[w]
                              /\ pc[x] = "unregistered" /\ pc'[x] = "delisted"
<1>1. /\ TTL \in Nat /\ TTL > 1 /\ Owner[w] \in Users
      /\ \A x \in Sockets : Owner[x] \in Users
    BY PresenceAssumption
<1>2. ttl[Owner[w]] > 0 /\ ~(ttl'[Owner[w]] > 0)
    BY <1>1 DEF Listed
<1>3. ASSUME NEW x \in Sockets, List(x) \/ Ping(x) PROVE FALSE
    <2>1. ttl' = [ttl EXCEPT ![Owner[x]] = TTL] /\ ttl \in [Users -> 0..TTL]
        BY <1>3 DEF List, Ping, TypeOK
    <2>2. QED
        BY <1>1, <1>2, <2>1
<1>4. ASSUME NEW x \in Sockets,
             \/ Scan(x) \/ Publish(x) \/ Greet(x) \/ EnterLoop(x) \/ HangUp(x)
             \/ Connect(x) \/ Drop(x) \/ HandlerRaises(x)
      PROVE  FALSE
    BY <1>2, <1>4 DEF Scan, Publish, Greet, EnterLoop, HangUp, Connect, Drop,
                      HandlerRaises
<1>5. ASSUME NEW s \in Servers, Deliver(s) \/ Crash(s) PROVE FALSE
    BY <1>2, <1>5 DEF Deliver, Crash
<1>6. CASE Tick
    <2>1. w \in pinged /\ pc[w] = "loop"
        BY <1>6 DEF Tick, IntervalOver, InService
    <2>2. ttl[Owner[w]] = TTL
        BY <1>2, <2>1 DEF KeySet, FullOrDeleted
    <2>3. ttl'[Owner[w]] = TTL - 1
        BY <1>1, <1>6, <2>2 DEF Tick
    <2>4. QED
        BY <1>1, <1>2, <2>3
<1>7. ASSUME NEW x \in Sockets, Delist(x)
      PROVE  Owner[x] = Owner[w] /\ pc[x] = "unregistered" /\ pc'[x] = "delisted"
    <2>1. ttl' = [ttl EXCEPT ![Owner[x]] = 0]
        BY <1>7 DEF Delist
    <2>2. Owner[x] = Owner[w]
        BY <1>1, <1>2, <2>1 DEF TypeOK
    <2>3. QED
        BY <1>7, <2>2 DEF Delist, TypeOK
<1>8. CASE UNCHANGED vars
    BY <1>2, <1>8 DEF vars
<1>9. QED
    BY <1>3, <1>4, <1>5, <1>6, <1>7, <1>8 DEF Next, EndpointNext

LEMMA KeysInvariant == Spec => [](TypeOK /\ KeySet)
BY InitType, StepType, InitKeys, KeyStep, PTL DEF Spec

(* The heartbeat keeps the key: that of a user with a tab that is up goes  *)
(* only when an endpoint of the same user, for an older socket or one on   *)
(* another server, deletes it (set_offline); it never runs out under a tab *)
(* that pings, whatever drops, raises or crashes.                          *)
THEOREM NeverExpires == Spec => ExpiresOnlyUnattended
<1>1. TypeOK /\ KeySet /\ [Next]_vars =>
        [\A w \in Sockets :
            InService(w) /\ Owner[w] \in Listed /\ Owner[w] \notin Listed' =>
                \E x \in Sockets : /\ Owner[x] = Owner[w]
                                   /\ pc[x] = "unregistered" /\ pc'[x] = "delisted"
        ]_vars
    BY OnlyDeleted
<1>2. QED
    BY <1>1, KeysInvariant, PTL DEF Spec, ExpiresOnlyUnattended
-----------------------------------------------------------------------------
(* A socket that is up is in the registry of its server, and its endpoint  *)
(* has not ended.                                                          *)
Reachable(w) ==
    /\ pc[w] \in {"registered", "listed", "scanned", "greeting", "loop"}
    /\ w \in SocketsOf(connections[Host[w]], Owner[w])

Registered == \A w \in open : Reachable(w)

(* The steps that change a registry at most as a send does.                *)
LEMMA ReachableKept ==
    ASSUME TypeOK, Registered, open' \subseteq open,
           \A w \in open' : pc'[w] \in {"registered", "listed", "scanned", "greeting", "loop"},
           connections' = connections \/
              \E s \in Servers : \E us :
                  connections' = [connections EXCEPT ![s] = Cleaned(connections[s], us)]
    PROVE  Registered'
<1>1. ASSUME NEW w \in open', NEW s \in Servers, NEW us,
             connections' = [connections EXCEPT ![s] = Cleaned(connections[s], us)]
      PROVE  w \in SocketsOf(connections'[Host[w]], Owner[w])
    <2>1. w \in open /\ Host[w] \in Servers /\ w \in SocketsOf(connections[Host[w]], Owner[w])
        BY <1>1, PresenceAssumption DEF Registered, Reachable, TypeOK
    <2>2. CASE Host[w] = s
        <3>1. connections'[s] = Cleaned(connections[s], us) /\ connections[s] \in Registry
            BY <1>1 DEF TypeOK
        <3>2. QED
            BY <2>1, <2>2, <3>1, CleanedEffect
    <2>3. CASE Host[w] # s
        <3>1. connections'[Host[w]] = connections[Host[w]]
            BY <1>1, <2>1, <2>3 DEF TypeOK
        <3>2. QED
            BY <2>1, <3>1
    <2>4. QED
        BY <2>2, <2>3
<1>2. ASSUME NEW w \in open', connections' = connections
      PROVE  w \in SocketsOf(connections'[Host[w]], Owner[w])
    BY <1>2 DEF Registered, Reachable
<1>3. \A w \in open' : w \in SocketsOf(connections'[Host[w]], Owner[w])
    BY <1>1, <1>2
<1>4. QED
    BY <1>3 DEF Registered, Reachable, SocketsOf, IsOnline

(* Sockets register before they may be sent to, and leave the registry     *)
(* when they are closed.                                                   *)
LEMMA RegisteredStep ==
    ASSUME TypeOK, Registered, [Next]_vars
    PROVE  Registered'
<1>0. \A w \in Sockets : Host[w] \in Servers /\ Owner[w] \in Users
    BY PresenceAssumption
<1>1. ASSUME NEW w \in Sockets, Connect(w) PROVE Registered'
    <2>1. /\ open' = open \cup {w} /\ pc' = [pc EXCEPT ![w] = "registered"]
          /\ connections' = [connections EXCEPT ![Host[w]] =
                               Connected(connections[Host[w]], Owner[w], w)]
        BY <1>1 DEF Connect
    <2>2. connections[Host[w]] \in Registry
        BY <1>0 DEF TypeOK
    <2>3. \A s \in Servers \ {Host[w]} : connections'[s] = connections[s]
        BY <1>0, <2>1 DEF TypeOK
    <2>4. connections'[Host[w]] = Connected(connections[Host[w]], Owner[w], w)
        BY <1>0, <2>1 DEF TypeOK
    <2>5. \A v : SocketsOf(connections'[Host[w]], v) =
                    IF v = Owner[w] THEN SocketsOf(connections[Host[w]], Owner[w]) \cup {w}
                    ELSE SocketsOf(connections[Host[w]], v)
        <3>1. PICK reg \in Registry : reg = connections[Host[w]]
            BY <2>2
        <3>2. \A v : SocketsOf(Connected(reg, Owner[w], w), v) =
                    IF v = Owner[w] THEN SocketsOf(reg, Owner[w]) \cup {w}
                    ELSE SocketsOf(reg, v)
            <4>1. PICK u \in Users : u = Owner[w]
                BY <1>0
            <4>2. QED
                BY <4>1, ConnectedEffect, Zenon
        <3>3. connections'[Host[w]] = Connected(reg, Owner[w], w)
            BY <2>4, <3>1
        <3>4. QED
            BY <3>1, <3>2, <3>3, Zenon
    <2>6. \A x \in Sockets \ {w} : pc'[x] = pc[x]
        BY <2>1 DEF TypeOK
    <2>7. pc'[w] = "registered"
        BY <2>1 DEF TypeOK
    <2>8. ASSUME NEW x \in open' PROVE
             /\ pc'[x] \in {"registered", "listed", "scanned", "greeting", "loop"}
             /\ x \in SocketsOf(connections'[Host[x]], Owner[x])
        <3>1. CASE x = w
            BY <2>5, <2>7, <3>1
        <3>2. CASE x # w
            <4>1. x \in open /\ x \in Sockets /\ Reachable(x)
                BY <2>1, <2>8, <3>2 DEF TypeOK, Registered
            <4>2. x \in SocketsOf(connections'[Host[x]], Owner[x])
                <5>1. CASE Host[x] = Host[w]
                    BY <2>5, <4>1, <5>1 DEF Reachable
                <5>2. CASE Host[x] # Host[w]
                    <6>1. connections'[Host[x]] = connections[Host[x]]
                        BY <1>0, <2>3, <4>1, <5>2
                    <6>2. QED
                        BY <4>1, <6>1 DEF Reachable
                <5>3. QED
                    BY <5>1, <5>2
            <4>3. QED
                BY <2>6, <3>2, <4>1, <4>2 DEF Reachable
        <3>3. QED
            BY <3>1, <3>2
    <2>9. QED
        BY <2>8 DEF Registered, Reachable, SocketsOf, IsOnline
<1>2. ASSUME NEW w \in Sockets, HangUp(w) PROVE Registered'
    <2>1. /\ w \notin open /\ open' = open
          /\ connections' = [connections EXCEPT ![Host[w]] =
                               Disconnected(connections[Host[w]], Owner[w], {w})]
          /\ \A x \in Sockets \ {w} : pc'[x] = pc[x]
        BY <1>2 DEF HangUp, TypeOK
    <2>2. connections[Host[w]] \in Registry
        BY <1>0 DEF TypeOK
    <2>3. \A s \in Servers \ {Host[w]} : connections'[s] = connections[s]
        BY <1>0, <2>1 DEF TypeOK
    <2>4. connections'[Host[w]] = Disconnected(connections[Host[w]], Owner[w], {w})
        BY <1>0, <2>1 DEF TypeOK
    <2>5. \A v : SocketsOf(connections[Host[w]], v) \ {w}
                    \subseteq SocketsOf(connections'[Host[w]], v)
        BY <2>2, <2>4, DisconnectedEffect
    <2>6. ASSUME NEW x \in open PROVE
             /\ pc'[x] \in {"registered", "listed", "scanned", "greeting", "loop"}
             /\ x \in SocketsOf(connections'[Host[x]], Owner[x])
        <3>1. x \in Sockets /\ x # w /\ Reachable(x)
            BY <2>1 DEF TypeOK, Registered
        <3>2. x \in SocketsOf(connections'[Host[x]], Owner[x])
            <4>1. CASE Host[x] = Host[w]
                BY <2>5, <3>1, <4>1 DEF Reachable
            <4>2. CASE Host[x] # Host[w]
                <5>1. connections'[Host[x]] = connections[Host[x]]
                    BY <1>0, <2>3, <3>1, <4>2
                <5>2. QED
                    BY <3>1, <5>1 DEF Reachable
            <4>3. QED
                BY <4>1, <4>2
        <3>3. QED
            BY <2>1, <3>1, <3>2 DEF Reachable
    <2>7. QED
        BY <2>1, <2>6 DEF Registered, Reachable, SocketsOf, IsOnline
<1>3. ASSUME NEW s \in Servers, Crash(s) PROVE Registered'
    <2> DEFINE dying == {w \in Sockets : Host[w] = s /\ pc[w] \notin {"new", "gone"}}
    <2>1. /\ open' = open \ dying
          /\ connections' = [connections EXCEPT ![s] = EmptyRegistry]
          /\ pc' = [w \in Sockets |-> IF w \in dying THEN "gone" ELSE pc[w]]
        BY <1>3 DEF Crash
    <2>2. ASSUME NEW x \in open' PROVE
             /\ pc'[x] \in {"registered", "listed", "scanned", "greeting", "loop"}
             /\ x \in SocketsOf(connections'[Host[x]], Owner[x])
        <3>1. x \in open /\ x \in Sockets /\ x \notin dying /\ Reachable(x)
            BY <2>1, <2>2 DEF TypeOK, Registered
        <3>2. Host[x] # s
            BY <3>1 DEF Reachable
        <3>3. connections'[Host[x]] = connections[Host[x]] /\ pc'[x] = pc[x]
            BY <1>0, <2>1, <3>1, <3>2 DEF TypeOK
        <3>4. QED
            BY <3>1, <3>3 DEF Reachable
    <2>3. QED
        BY <2>2 DEF Registered, Reachable, SocketsOf, IsOnline
<1>4. ASSUME NEW w \in Sockets,
             \/ List(w) \/ Scan(w) \/ Publish(w) \/ Greet(w) \/ EnterLoop(w)
             \/ Ping(w) \/ Delist(w) \/ Drop(w) \/ HandlerRaises(w)
      PROVE  Registered'
    <2>1. \A x \in open : pc[x] \in {"registered", "listed", "scanned", "greeting", "loop"}
        BY DEF Registered, Reachable
    <2>2. open' \subseteq open
        BY <1>4 DEF List, Scan, Publish, Greet, EnterLoop, Ping, Delist, Drop, HandlerRaises
    <2>3. \A x \in open' : pc'[x] \in {"registered", "listed", "scanned", "greeting", "loop"}
        BY <1>4, <2>1 DEF List, Scan, Publish, Greet, EnterLoop, Ping, Delist, Drop,
                          HandlerRaises, TypeOK
    <2>4. \/ connections' = connections
          \/ connections' = [connections EXCEPT ![Host[w]] =
                               Cleaned(connections[Host[w]], {Owner[w]})]
        BY <1>4 DEF List, Scan, Publish, Greet, EnterLoop, Ping, Delist, Drop,
                    HandlerRaises, SendToUsers
    <2>5. QED
        BY <1>0, <2>2, <2>3, <2>4, ReachableKept
<1>5. ASSUME NEW s \in Servers, Deliver(s) PROVE Registered'
    <2>1. /\ pc' = pc /\ open' = open
          /\ connections' = [connections EXCEPT ![s] =
                               Cleaned(connections[s], Head(inbox[s]).to)]
        BY <1>5 DEF Deliver, SendToUsers
    <2>2. QED
        BY <2>1, ReachableKept DEF Registered, Reachable
<1>6. CASE Tick \/ UNCHANGED vars
    BY <1>6, ReachableKept DEF Tick, vars, Registered, Reachable
<1>7. QED
    BY <1>1, <1>2, <1>3, <1>4, <1>5, <1>6 DEF Next, EndpointNext

LEMMA InitRegistered == Init => Registered
BY DEF Init, Registered
-----------------------------------------------------------------------------
(* The payloads of a queue, whatever their order.                          *)
Elements(q) == {q[i] : i \in 1..Len(q)}

LEMMA AppendElements ==
    ASSUME NEW S, NEW q \in Seq(S), NEW m \in S
    PROVE  Elements(Append(q, m)) = Elements(q) \cup {m}
<1>1. /\ Len(Append(q, m)) = Len(q) + 1 /\ Len(q) \in Nat
      /\ \A i \in 1..Len(q) : Append(q, m)[i] = q[i]
      /\ Append(q, m)[Len(q) + 1] = m
    OBVIOUS
<1>2. Elements(Append(q, m)) \subseteq Elements(q) \cup {m}
    BY <1>1 DEF Elements
<1>3. Elements(q) \subseteq Elements(Append(q, m))
    BY <1>1 DEF Elements
<1>4. m \in Elements(Append(q, m))
    <2>1. Len(q) + 1 \in 1..Len(Append(q, m))
        BY <1>1
    <2>2. QED
        BY <1>1, <2>1 DEF Elements
<1>5. QED
    BY <1>2, <1>3, <1>4

LEMMA TailElements ==
    ASSUME NEW S, NEW q \in Seq(S), q # <<>>
    PROVE  Elements(q) = Elements(Tail(q)) \cup {Head(q)}
<1>1. /\ Len(Tail(q)) = Len(q) - 1 /\ Len(q) \in Nat /\ Len(q) > 0
      /\ \A i \in 1..Len(Tail(q)) : Tail(q)[i] = q[i + 1]
      /\ Head(q) = q[1]
    OBVIOUS
<1>2. Elements(Tail(q)) \subseteq Elements(q)
    <2>1. \A i \in 1..Len(Tail(q)) : i + 1 \in 1..Len(q)
        BY <1>1
    <2>2. QED
        BY <1>1, <2>1 DEF Elements
<1>3. Head(q) \in Elements(q)
    <2>1. 1 \in 1..Len(q)
        BY <1>1
    <2>2. QED
        BY <1>1, <2>1 DEF Elements
<1>4. ASSUME NEW i \in 1..Len(q), i # 1 PROVE q[i] \in Elements(Tail(q))
    <2>1. i - 1 \in 1..Len(Tail(q)) /\ (i - 1) + 1 = i
        BY <1>1, <1>4
    <2>2. Tail(q)[i - 1] = q[i]
        BY <1>1, <2>1
    <2>3. QED
        BY <2>1, <2>2 DEF Elements
<1>5. Elements(q) \subseteq Elements(Tail(q)) \cup {Head(q)}
    BY <1>1, <1>4 DEF Elements
<1>6. QED
    BY <1>2, <1>3, <1>5

(* What waits for a server and is gone after a step was delivered by it or *)
(* lost with it; what is new was published.                                *)
LEMMA InboxChange ==
    ASSUME TypeOK, [Next]_vars, NEW s \in Servers, NEW m
    PROVE  /\ m \in Elements(inbox[s]) =>
                \/ m \in Elements(inbox'[s])
                \/ Deliver(s) /\ m = Head(inbox[s])
                \/ Crash(s)
           /\ m \in Elements(inbox'[s]) =>
                \/ m \in Elements(inbox[s])
                \/ \E w \in Sockets :
                      /\ Publish(w)
                      /\ m = [to |-> peers[w], who |-> Owner[w], up |-> pc[w] = "scanned"]
<1>1. inbox[s] \in Seq(Update)
    BY DEF TypeOK
<1>2. ASSUME NEW w \in Sockets, Publish(w), peers[w] # {}
      PROVE  Elements(inbox'[s]) = Elements(inbox[s]) \cup
                {[to |-> peers[w], who |-> Owner[w], up |-> pc[w] = "scanned"]}
    <2> DEFINE u == [to |-> peers[w], who |-> Owner[w], up |-> pc[w] = "scanned"]
    <2>1. u \in Update
        BY PresenceAssumption DEF Update, TypeOK
    <2>2. inbox'[s] = Append(inbox[s], u)
        BY <1>2 DEF Publish
    <2> HIDE DEF u
    <2>3. Elements(inbox'[s]) = Elements(inbox[s]) \cup {u}
        BY <1>1, <2>1, <2>2, AppendElements
    <2>4. QED
        BY <2>3 DEF u
<1>3. ASSUME Deliver(s)
      PROVE  Elements(inbox[s]) = Elements(inbox'[s]) \cup {Head(inbox[s])}
    <2>1. inbox'[s] = Tail(inbox[s]) /\ inbox[s] # <<>>
        BY <1>3 DEF Deliver, TypeOK
    <2>2. QED
        BY <1>1, <2>1, TailElements
<1>4. ASSUME Crash(s) PROVE Elements(inbox'[s]) = {}
    <2>1. inbox'[s] = <<>>
        BY <1>4 DEF Crash, TypeOK
    <2>2. QED
        BY <2>1 DEF Elements
<1>5. \/ inbox'[s] = inbox[s] \/ Deliver(s) \/ Crash(s)
      \/ \E w \in Sockets : Publish(w) /\ peers[w] # {}
    <2>1. ASSUME NEW w \in Sockets, EndpointNext(w), ~(Publish(w) /\ peers[w] # {})
          PROVE  inbox'[s] = inbox[s]
        BY <2>1 DEF EndpointNext, List, Scan, Publish, Greet, EnterLoop, Ping, HangUp,
                    Delist
    <2>2. ASSUME NEW w \in Sockets, Connect(w) \/ Drop(w) \/ HandlerRaises(w)
          PROVE  inbox'[s] = inbox[s]
        BY <2>2 DEF Connect, Drop, HandlerRaises
    <2>3. ASSUME NEW r \in Servers, Deliver(r) \/ Crash(r), r # s
          PROVE  inbox'[s] = inbox[s]
        BY <2>3 DEF Deliver, Crash, TypeOK
    <2>4. CASE Tick \/ UNCHANGED vars
        BY <2>4 DEF Tick, vars
    <2>5. QED
        BY <2>1, <2>2, <2>3, <2>4 DEF Next
<1>6. QED
    BY <1>2, <1>3, <1>4, <1>5

(* A payload that takes a dot away is about a user who has left.           *)
NoFarewell ==
    \A s \in Servers : \A m \in Elements(inbox[s]) : ~m.up => m.who \in Left

LEMMA NoFarewellStep ==
    ASSUME TypeOK, NoFarewell, [Next]_vars
    PROVE  NoFarewell'
<1> SUFFICES ASSUME NEW s \in Servers, NEW m \in Elements(inbox'[s]), ~m.up
             PROVE  m.who \in Left'
    BY DEF NoFarewell, Elements
<1>1. CASE m \in Elements(inbox[s])
    BY <1>1, LeftGrows DEF NoFarewell
<1>2. ASSUME NEW w \in Sockets, Publish(w),
             m = [to |-> peers[w], who |-> Owner[w], up |-> pc[w] = "scanned"]
      PROVE  m.who \in Left'
    <2>1. pc[w] = "parting" /\ m.who = Owner[w]
        BY <1>2 DEF Publish
    <2>2. Owner[w] \in Left
        BY <2>1, EndingLeft DEF Ending
    <2>3. QED
        BY <2>1, <2>2, LeftGrows
<1>3. QED
    BY <1>1, <1>2, InboxChange

LEMMA InitNoFarewell == Init => NoFarewell
BY DEF Init, NoFarewell, Elements
-----------------------------------------------------------------------------
(* An endpoint that has scanned the keys.                                  *)
PastScan == {"scanned", "greeting", "loop"}

(* How the tab of w has learned, or will learn, that x's user is online:   *)
(* the dot is there; w's endpoint found x's key and has yet to say so; a   *)
(* payload about x waits at w's server; or x's endpoint has yet to scan,   *)
(* or found w's key and has yet to publish.                                *)
Found(w, x) == pc[w] \in {"scanned", "greeting"} /\ Owner[x] \in peers[w]
Announced(w, x) ==
    \E m \in Elements(inbox[Host[w]]) : m.up /\ m.who = Owner[x] /\ Owner[w] \in m.to
YetToScan(x) == pc[x] \in {"new", "registered", "listed"}
YetToPublish(w, x) == pc[x] = "scanned" /\ Owner[w] \in peers[x]

Learns(w, x) ==
    \/ Owner[x] \in online[Tab[w]] \/ Found(w, x) \/ Announced(w, x)
    \/ YetToScan(x) \/ YetToPublish(w, x)

Pair(w, x) == Owner[w] # Owner[x] /\ {Owner[w], Owner[x]} \cap Left = {}

(* The inductive invariant of MutuallyVisible.                             *)
Informed ==
    \A w, x \in open : pc[w] \in PastScan /\ Pair(w, x) => Learns(w, x)

Aware == KeySet /\ Registered /\ NoFarewell /\ Informed

(* An endpoint that has not ended stands still or takes a step of its own. *)
LEMMA OwnStep ==
    ASSUME TypeOK, [Next]_vars, NEW w \in Sockets, pc'[w] \notin Ending
    PROVE  \/ EndpointNext(w) \/ Connect(w)
           \/ pc'[w] = pc[w] /\ peers'[w] = peers[w]
<1>1. ASSUME NEW x \in Sockets, x # w, EndpointNext(x) \/ Connect(x)
      PROVE  pc'[w] = pc[w] /\ peers'[w] = peers[w]
    BY <1>1 DEF EndpointNext, List, Scan, Publish, Greet, EnterLoop, Ping, HangUp,
                Delist, Connect, TypeOK
<1>2. ASSUME NEW x \in Sockets, Drop(x) \/ HandlerRaises(x)
      PROVE  pc'[w] = pc[w] /\ peers'[w] = peers[w]
    BY <1>2 DEF Drop, HandlerRaises, TypeOK, Ending
<1>3. ASSUME NEW s \in Servers, Deliver(s) \/ Crash(s)
      PROVE  pc'[w] = pc[w] /\ peers'[w] = peers[w]
    BY <1>3 DEF Deliver, Crash, Ending
<1>4. CASE Tick \/ UNCHANGED vars
    BY <1>4 DEF Tick, vars
<1>5. QED
    BY <1>1, <1>2, <1>3, <1>4 DEF Next

(* A send to a user reaches the tab of each socket that is up.             *)
LEMMA ReachesTab ==
    ASSUME TypeOK, Registered, NEW w \in open, NEW us, Owner[w] \in us
    PROVE  Tab[w] \in Reached(Host[w], us) /\ Tab[w] \in Tabs
<1>1. w \in SocketsOf(connections[Host[w]], Owner[w])
    BY DEF Registered, Reachable
<1>2. w \in UNION {SocketsOf(connections[Host[w]], u) : u \in us}
    BY <1>1, Zenon
<1>3. Tab[w] \in Tabs
    BY PresenceAssumption DEF TypeOK
<1>4. QED
    BY <1>2, <1>3 DEF Reached

(* A dot stays while its user does: only a farewell takes one away.        *)
LEMMA DotStays ==
    ASSUME TypeOK, NoFarewell, [Next]_vars, NEW t \in Tabs, NEW u \in Users \ Left,
           u \in online[t]
    PROVE  u \in online'[t]
<1>1. ASSUME NEW w \in Sockets, NEW p \in Users, SendToUsers(Host[w], {Owner[w]}, p, TRUE)
      PROVE  u \in online'[t]
    BY <1>1, SetOnlineEffect, PresenceAssumption DEF SendToUsers
<1>2. ASSUME NEW s \in Servers, Deliver(s) PROVE u \in online'[t]
    <2>1. inbox[s] \in Seq(Update) /\ inbox[s] # <<>>
        BY <1>2 DEF Deliver, TypeOK
    <2>2. PICK m \in Update : m = Head(inbox[s])
        BY <2>1
    <2>3. m \in Elements(inbox[s])
        BY <2>1, <2>2, TailElements
    <2>4. /\ SetOnline(s, m.to, m.who, m.up) /\ m.who \in Users /\ m.up \in BOOLEAN
        BY <1>2, <2>2 DEF Deliver, SendToUsers, Update
    <2>5. m.up \/ m.who # u
        BY <2>3 DEF NoFarewell
    <2>6. u # m.who \/ m.up => u \in online'[t]
        <3>1. PICK who \in Users, up \in BOOLEAN, to \in {m.to} :
                    who = m.who /\ up = m.up /\ SetOnline(s, to, who, up)
            BY <2>4
        <3>2. u # who \/ up => u \in online'[t]
            BY <3>1, SetOnlineEffect
        <3>3. QED
            BY <3>1, <3>2
    <2>7. QED
        BY <2>5, <2>6
<1>3. ASSUME NEW w \in Sockets, Greet(w) PROVE u \in online'[t]
    <2>1. PICK p \in peers[w] : SendToUsers(Host[w], {Owner[w]}, p, TRUE)
        BY <1>3 DEF Greet
    <2>2. p \in Users
        BY <2>1 DEF TypeOK
    <2>3. QED
        BY <1>1, <2>1, <2>2
<1>4. CASE online' = online
    BY <1>4
<1>5. online' = online \/ (\E w \in Sockets : Greet(w)) \/ (\E s \in Servers : Deliver(s))
    <2>1. ASSUME NEW w \in Sockets, EndpointNext(w), ~Greet(w) PROVE online' = online
        BY <2>1 DEF EndpointNext, List, Scan, Publish, EnterLoop, Ping, HangUp, Delist
    <2>2. ASSUME NEW w \in Sockets, Connect(w) \/ Drop(w) \/ HandlerRaises(w)
          PROVE  online' = online
        BY <2>2 DEF Connect, Drop, HandlerRaises
    <2>3. ASSUME NEW s \in Servers, Crash(s) PROVE online' = online
        BY <2>3 DEF Crash
    <2>4. CASE Tick \/ UNCHANGED vars
        BY <2>4 DEF Tick, vars
    <2>5. QED
        BY <2>1, <2>2, <2>3, <2>4 DEF Next
<1>6. QED
    BY <1>2, <1>3, <1>4, <1>5

(* What w's endpoint found it tells its tab, before it enters the loop.    *)
LEMMA FoundStep ==
    ASSUME TypeOK, Registered, [Next]_vars, NEW w \in open, NEW x \in Sockets,
           pc'[w] \notin Ending, Found(w, x)
    PROVE  Learns(w, x)'
<1>1. w \in Sockets /\ Owner[w] \in Users /\ Host[w] \in Servers /\ Owner[x] \in Users
    BY PresenceAssumption DEF TypeOK
<1>2. CASE pc'[w] = pc[w] /\ peers'[w] = peers[w]
    BY <1>2 DEF Found, Learns
<1>3. CASE Publish(w)
    <2>1. pc'[w] = "greeting" /\ peers'[w] = peers[w]
        BY <1>1, <1>3 DEF Found, Publish, TypeOK
    <2>2. QED
        BY <2>1 DEF Found, Learns
<1>4. CASE Greet(w)
    <2>1. PICK p \in peers[w] : /\ peers' = [peers EXCEPT ![w] = @ \ {p}]
                                /\ SendToUsers(Host[w], {Owner[w]}, p, TRUE)
        BY <1>4 DEF Greet
    <2>2. CASE p = Owner[x]
        <3>1. Tab[w] \in Reached(Host[w], {Owner[w]}) /\ Tab[w] \in Tabs
            BY ReachesTab
        <3>2. p \in online'[Tab[w]]
            BY <1>1, <2>1, <2>2, <3>1, SetOnlineEffect DEF SendToUsers
        <3>3. QED
            BY <2>2, <3>2 DEF Learns
    <2>3. CASE p # Owner[x]
        <3>1. Owner[x] \in peers'[w] /\ pc'[w] = pc[w]
            BY <1>1, <1>4, <2>1, <2>3 DEF Found, Greet, TypeOK
        <3>2. QED
            BY <3>1 DEF Found, Learns
    <2>4. QED
        BY <2>2, <2>3
<1>5. ~(\/ List(w) \/ Scan(w) \/ EnterLoop(w) \/ Ping(w) \/ HangUp(w) \/ Delist(w)
        \/ Connect(w))
    BY DEF Found, List, Scan, EnterLoop, Ping, HangUp, Delist, Connect
<1>6. QED
    BY <1>1, <1>2, <1>3, <1>4, <1>5, OwnStep DEF EndpointNext

(* What waits at w's server reaches w's tab.                               *)
LEMMA AnnouncedStep ==
    ASSUME TypeOK, Registered, [Next]_vars, NEW w \in open, NEW x \in Sockets,
           w \in open', Announced(w, x)
    PROVE  Learns(w, x)'
<1>1. w \in Sockets /\ Owner[w] \in Users /\ Host[w] \in Servers /\ Owner[x] \in Users
    BY PresenceAssumption DEF TypeOK
<1>2. PICK m \in Elements(inbox[Host[w]]) : m.up /\ m.who = Owner[x] /\ Owner[w] \in m.to
    BY DEF Announced
<1>3. CASE m \in Elements(inbox'[Host[w]])
    BY <1>2, <1>3 DEF Announced, Learns, Elements
<1>4. CASE Deliver(Host[w]) /\ m = Head(inbox[Host[w]])
    <2>1. SetOnline(Host[w], m.to, m.who, m.up)
        BY <1>4 DEF Deliver, SendToUsers
    <2>2. Tab[w] \in Reached(Host[w], m.to) /\ Tab[w] \in Tabs
        BY <1>2, ReachesTab
    <2>3. m.up \in BOOLEAN
        <3>1. inbox[Host[w]] \in Seq(Update) /\ inbox[Host[w]] # <<>>
            BY <1>1, <1>4 DEF TypeOK, Deliver
        <3>2. Head(inbox[Host[w]]) \in Update
            BY <3>1
        <3>3. QED
            BY <1>4, <3>2 DEF Update
    <2>4. m.who \in online'[Tab[w]]
        <3>1. PICK who \in Users, up \in BOOLEAN, to \in {m.to} :
                    who = m.who /\ up = m.up /\ to = m.to /\ SetOnline(Host[w], to, who, up)
            BY <1>1, <1>2, <2>1, <2>3
        <3>2. Tab[w] \in Reached(Host[w], to) /\ up
            BY <1>2, <2>2, <3>1
        <3>3. who \in online'[Tab[w]]
            BY <1>1, <2>2, <3>1, <3>2, SetOnlineEffect
        <3>4. QED
            BY <3>1, <3>3
    <2>5. QED
        BY <1>2, <2>4 DEF Learns
<1>5. ~Crash(Host[w])
    <2>1. pc[w] \notin {"new", "gone"}
        BY DEF Registered, Reachable
    <2>2. QED
        BY <1>1, <2>1 DEF Crash
<1>6. QED
    BY <1>1, <1>2, <1>3, <1>4, <1>5, InboxChange

(* x's endpoint has yet to scan: when it does it finds the key of w, which *)
(* was set before w's endpoint scanned.                                    *)
LEMMA YetToScanStep ==
    ASSUME TypeOK, KeySet, [Next]_vars, NEW w \in open, NEW x \in Sockets,
           pc[w] \in PastScan, Pair(w, x), pc'[x] \notin Ending, YetToScan(x)
    PROVE  Learns(w, x)'
<1>1. w \in Sockets /\ Owner[w] \in Users
    BY PresenceAssumption DEF TypeOK
<1>2. CASE pc'[x] = pc[x] \/ Connect(x) \/ List(x)
    <2>1. pc'[x] \in {"new", "registered", "listed"}
        BY <1>2 DEF YetToScan, Connect, List, TypeOK
    <2>2. QED
        BY <2>1 DEF YetToScan, Learns
<1>3. CASE Scan(x)
    <2>1. Owner[w] \in Listed /\ Owner[w] # Owner[x]
        BY <1>1 DEF KeySet, KeyThere, InService, Working, PastScan, Pair, Listed
    <2>2. pc'[x] = "scanned" /\ peers'[x] = Listed \ {Owner[x]}
        BY <1>3 DEF Scan, YetToScan, TypeOK
    <2>3. QED
        BY <2>1, <2>2 DEF YetToPublish, Learns
<1>4. ~(Publish(x) \/ Greet(x) \/ EnterLoop(x) \/ Ping(x) \/ HangUp(x) \/ Delist(x))
    BY DEF YetToScan, Publish, Greet, EnterLoop, Ping, HangUp, Delist
<1>5. QED
    BY <1>2, <1>3, <1>4, OwnStep DEF EndpointNext

(* What x's endpoint publishes waits at w's server.                        *)
LEMMA YetToPublishStep ==
    ASSUME TypeOK, [Next]_vars, NEW w \in Sockets, NEW x \in Sockets,
           pc'[x] \notin Ending, YetToPublish(w, x)
    PROVE  Learns(w, x)'
<1>1. CASE pc'[x] = pc[x] /\ peers'[x] = peers[x]
    BY <1>1 DEF YetToPublish, Learns
<1>2. CASE Publish(x)
    <2> DEFINE m == [to |-> peers[x], who |-> Owner[x], up |-> pc[x] = "scanned"]
    <2>1. m \in Update /\ Host[w] \in Servers
        BY PresenceAssumption DEF Update, TypeOK
    <2>2. inbox'[Host[w]] = Append(inbox[Host[w]], m)
        BY <1>2, <2>1 DEF Publish, YetToPublish
    <2>3. m.up /\ m.who = Owner[x] /\ Owner[w] \in m.to
        BY DEF YetToPublish
    <2> HIDE DEF m
    <2>4. m \in Elements(inbox'[Host[w]])
        BY <2>1, <2>2, AppendElements DEF TypeOK
    <2>5. QED
        BY <2>3, <2>4 DEF Announced, Learns, Elements
<1>3. ~(\/ List(x) \/ Scan(x) \/ Greet(x) \/ EnterLoop(x) \/ Ping(x) \/ HangUp(x)
        \/ Delist(x) \/ Connect(x))
    BY DEF YetToPublish, List, Scan, Greet, EnterLoop, Ping, HangUp, Delist, Connect
<1>4. QED
    BY <1>1, <1>2, <1>3, OwnStep DEF EndpointNext

(* w's endpoint scans: it finds the key of x, unless x has yet to scan.    *)
LEMMA ScanStep ==
    ASSUME TypeOK, KeySet, Registered, NEW w \in Sockets, NEW x \in open,
           Pair(w, x), pc[w] = "listed", Scan(w)
    PROVE  Learns(w, x)'
<1>1. x \in Sockets /\ Owner[x] \in Users /\ x # w
    BY PresenceAssumption DEF TypeOK, Pair
<1>2. pc'[x] = pc[x] /\ pc'[w] = "scanned" /\ peers'[w] = Listed \ {Owner[w]}
    BY <1>1 DEF Scan, TypeOK
<1>3. pc[x] \in {"registered", "listed", "scanned", "greeting", "loop"}
    BY DEF Registered, Reachable
<1>4. CASE pc[x] \in {"registered", "listed"}
    BY <1>2, <1>4 DEF YetToScan, Learns
<1>5. CASE pc[x] \in PastScan
    <2>1. Owner[x] \in Listed /\ Owner[x] # Owner[w]
        BY <1>1, <1>5 DEF KeySet, KeyThere, InService, Working, PastScan, Pair, Listed
    <2>2. QED
        BY <1>2, <2>1 DEF Found, Learns
<1>6. QED
    BY <1>3, <1>4, <1>5 DEF PastScan

(* Two users who are up and whom nobody left learn of each other.          *)
LEMMA InformedStep ==
    ASSUME TypeOK, Aware, [Next]_vars
    PROVE  Informed'
<1> USE DEF Aware
<1> SUFFICES ASSUME NEW w \in open', NEW x \in open', pc'[w] \in PastScan, Pair(w, x)'
             PROVE  Learns(w, x)'
    BY DEF Informed, Pair, Left
<1>1. w \in Sockets /\ x \in Sockets
    BY StepType DEF TypeOK
<1>2. Owner[w] # Owner[x] /\ Owner[w] \notin Left' /\ Owner[x] \notin Left'
    BY DEF Pair
<1>3. pc'[w] \notin Ending /\ pc'[x] \notin Ending
    <2>1. \A y \in Sockets : pc'[y] \in Ending => Owner[y] \in Left'
        BY DEF Left, Ending
    <2>2. QED
        BY <1>1, <1>2, <2>1
<1>4. Pair(w, x)
    BY <1>2, LeftGrows DEF Pair
<1>5. \A y \in open' : y \in open \/ Connect(y)
    <2>1. ASSUME NEW y \in Sockets, EndpointNext(y) PROVE open' = open
        BY <2>1 DEF EndpointNext, List, Scan, Publish, Greet, EnterLoop, Ping, HangUp,
                    Delist
    <2>2. ASSUME NEW y \in Sockets, Drop(y) \/ HandlerRaises(y) PROVE open' \subseteq open
        BY <2>2 DEF Drop, HandlerRaises
    <2>3. ASSUME NEW y \in Sockets, Connect(y) PROVE open' = open \cup {y}
        BY <2>3 DEF Connect
    <2>4. ASSUME NEW s \in Servers, Deliver(s) \/ Crash(s) PROVE open' \subseteq open
        BY <2>4 DEF Deliver, Crash
    <2>5. CASE Tick \/ UNCHANGED vars
        BY <2>5 DEF Tick, vars
    <2>6. QED
        BY <2>1, <2>2, <2>3, <2>4, <2>5 DEF Next
<1>6. CASE Connect(x)
    <2>1. pc'[x] = "registered"
        BY <1>1, <1>6 DEF Connect, TypeOK
    <2>2. QED
        BY <2>1 DEF YetToScan, Learns
<1>7. ~Connect(w)
    BY <1>1 DEF Connect, PastScan, TypeOK
<1>8. CASE x \in open /\ w \in open
    <2>1. CASE pc[w] \in PastScan
        <3>1. Learns(w, x)
            BY <1>4, <1>8, <2>1 DEF Informed
        <3>2. CASE Owner[x] \in online[Tab[w]]
            <4>1. Tab[w] \in Tabs /\ Owner[x] \in Users \ Left
                BY <1>1, <1>4, PresenceAssumption DEF Pair
            <4>2. Owner[x] \in online'[Tab[w]]
                BY <3>2, <4>1, DotStays
            <4>3. QED
                BY <4>2 DEF Learns
        <3>3. QED
            BY <1>1, <1>3, <1>4, <1>8, <2>1, <3>1, <3>2, FoundStep, AnnouncedStep,
               YetToScanStep, YetToPublishStep DEF Learns
    <2>2. CASE pc[w] \notin PastScan
        <3>1. ~(\/ List(w) \/ Publish(w) \/ Greet(w) \/ EnterLoop(w) \/ Ping(w)
                \/ HangUp(w) \/ Delist(w))
            BY <1>1, <1>3, <2>2 DEF List, Publish, Greet, EnterLoop, Ping, HangUp, Delist,
                                    PastScan, Ending, TypeOK
        <3>2. Scan(w)
            BY <1>1, <1>3, <1>7, <2>2, <3>1, OwnStep DEF EndpointNext
        <3>3. pc[w] = "listed"
            BY <1>1, <3>2 DEF Scan, PastScan, TypeOK
        <3>4. QED
            BY <1>1, <1>4, <1>8, <3>2, <3>3, ScanStep
    <2>3. QED
        BY <2>1, <2>2
<1>9. QED
    BY <1>5, <1>6, <1>7, <1>8

LEMMA AwareStep ==
    ASSUME TypeOK, Aware, [Next]_vars
    PROVE  Aware'
BY KeyStep, RegisteredStep, NoFarewellStep, InformedStep DEF Aware

LEMMA InitAware == Init => Aware
<1>1. Init => Informed
    BY DEF Init, Informed
<1>2. QED
    BY <1>1, InitKeys, InitRegistered, InitNoFarewell DEF Aware

(* Users who are up at the same time see each other online on every tab,   *)
(* whatever server each landed on and however their endpoints interleave:  *)
(* each sets its key before it scans (_broadcast_presence), so one of the  *)
(* two scans finds the other, and what it found reaches the tab.           *)
THEOREM Visibility == Spec => []MutuallyVisible
<1>1. TypeOK /\ Aware => MutuallyVisible
    <2> SUFFICES ASSUME TypeOK, Aware, NEW w \in Sockets, NEW x \in Sockets,
                        InService(w), InService(x), Pair(w, x), Settled(Host[w])
                 PROVE  Owner[x] \in online[Tab[w]]
        BY DEF MutuallyVisible, Pair
    <2>1. Learns(w, x)
        BY DEF Aware, Informed, InService, PastScan
    <2>2. ~Announced(w, x)
        BY DEF Settled, Announced, Elements
    <2>3. QED
        BY <2>1, <2>2 DEF Learns, Found, YetToScan, YetToPublish, InService
<1>2. QED
    BY <1>1, InitType, StepType, InitAware, AwareStep, PTL DEF Spec
=============================================================================
