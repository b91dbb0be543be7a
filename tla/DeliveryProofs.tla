--------------------------- MODULE DeliveryProofs ---------------------------
(* Proofs about Delivery, for any number of users, servers, sockets and    *)
(* payloads: its types, the inductive invariant of the subscriber's        *)
(* position in the channel, that it implements the ordered broadcast, that *)
(* no socket that is up misses a payload, and that the registries are      *)
(* exact.                                                                  *)
EXTENDS Delivery, FiniteSetTheorems, TLAPS

(* connect keeps the registry a dict of sets of sockets. *)
LEMMA ConnectedType ==
    ASSUME NEW reg \in Registry, NEW u \in Users, NEW w \in Sockets
    PROVE  /\ Connected(reg, u, w) \in Registry
           /\ \A v : SocketsOf(Connected(reg, u, w), v) =
                 IF v = u THEN SocketsOf(reg, u) \cup {w} ELSE SocketsOf(reg, v)
<1>1. PICK D \in SUBSET Users : reg \in [D -> SUBSET Sockets]
    BY DEF Registry
<1>2. Connected(reg, u, w) \in [D \cup {u} -> SUBSET Sockets]
    BY <1>1 DEF Connected, SocketsOf, IsOnline
<1>3. \A v : SocketsOf(Connected(reg, u, w), v) =
         IF v = u THEN SocketsOf(reg, u) \cup {w} ELSE SocketsOf(reg, v)
    BY <1>1 DEF Connected, SocketsOf, IsOnline
<1>4. QED
    BY <1>2, <1>3 DEF Registry

(* disconnect keeps it too and takes away the named sockets only. *)
LEMMA DisconnectedType ==
    ASSUME NEW reg \in Registry, NEW u, NEW ws
    PROVE  /\ Disconnected(reg, u, ws) \in Registry
           /\ \A v : SocketsOf(Disconnected(reg, u, ws), v) =
                 IF v = u THEN SocketsOf(reg, u) \ ws ELSE SocketsOf(reg, v)
<1>1. PICK D \in SUBSET Users : reg \in [D -> SUBSET Sockets]
    BY DEF Registry
<1> DEFINE rest == SocketsOf(reg, u) \ ws
           E == {x \in D : x # u \/ rest # {}}
<1>2. Disconnected(reg, u, ws) \in [E -> SUBSET Sockets]
    BY <1>1 DEF Disconnected, SocketsOf, IsOnline
<1>3. \A v : SocketsOf(Disconnected(reg, u, ws), v) =
         IF v = u THEN rest ELSE SocketsOf(reg, v)
    BY <1>1 DEF Disconnected, SocketsOf, IsOnline
<1>4. E \in SUBSET Users
    BY <1>1
<1>5. QED
    BY <1>2, <1>3, <1>4 DEF Registry

(* The sockets iterated are sockets, finitely many. *)
LEMMA LiveType ==
    ASSUME TypeOK, NEW t \in Tasks, NEW u
    PROVE  /\ Home(t) \in Servers
           /\ Live(Home(t), u) \in SUBSET Sockets
           /\ Cardinality(Live(Home(t), u)) \in Nat
<1>1. Home(t) \in Servers
    BY DeliveryAssumption DEF Home, Tasks
<1>2. connections[Home(t)] \in Registry
    BY <1>1 DEF TypeOK
<1>3. Live(Home(t), u) \in SUBSET Sockets
    BY <1>2 DEF Live, SocketsOf, IsOnline, Registry
<1>4. QED
    BY <1>1, <1>3, DeliveryAssumption, FS_Subset, FS_CardinalityType
-----------------------------------------------------------------------------
(* SendFirst and SendNext change the frame of their task and write to one  *)
(* socket of the addressee; only a socket that is down is noted as dead.   *)
LEMMA SendFirstEffect ==
    ASSUME TypeOK, NEW t \in Tasks, NEW u \in Users, SendFirst(t, u)
    PROVE  /\ frame' \in [Tasks -> Frame \cup {NoFrame}]
           /\ UNCHANGED connections
           /\ \A x \in Tasks \ {t} : frame'[x] = frame[x]
           /\ frame'[t] # NoFrame
           /\ \E w \in Live(Home(t), u) :
                /\ w \in Sockets
                /\ frame'[t].user = u
                /\ frame'[t].todo = Live(Home(t), u) \ {w}
                /\ frame'[t].seen = {w}
                /\ frame'[t].dead = DeadAfter({}, w)
                /\ Write(t, w)
<1>1. PICK w \in Live(Home(t), u) :
        /\ frame' = [frame EXCEPT ![t] =
              [user |-> u, size |-> Cardinality(Live(Home(t), u)),
               todo |-> Live(Home(t), u) \ {w}, seen |-> {w},
               dead |-> DeadAfter({}, w), stale |-> FALSE]]
        /\ Write(t, w)
        /\ UNCHANGED connections
    BY DEF SendFirst
<1>2. w \in Sockets /\ DeadAfter({}, w) \in SUBSET Sockets
    BY LiveType DEF DeadAfter
<1> DEFINE f == [user |-> u, size |-> Cardinality(Live(Home(t), u)),
                 todo |-> Live(Home(t), u) \ {w}, seen |-> {w},
                 dead |-> DeadAfter({}, w), stale |-> FALSE]
<1>3. f \in Frame
    BY <1>2, LiveType DEF Frame
<1>4. frame'[t] = f /\ \A x \in Tasks \ {t} : frame'[x] = frame[x]
    BY <1>1 DEF TypeOK
<1>5. frame' \in [Tasks -> Frame \cup {NoFrame}]
    BY <1>1, <1>3 DEF TypeOK
<1>6. frame'[t] # NoFrame
    BY <1>3, <1>4, DeliveryAssumption
<1>7. QED
    BY <1>1, <1>2, <1>4, <1>5, <1>6

(* The same of a step of the iteration. *)
LEMMA SendNextEffect ==
    ASSUME TypeOK, NEW t \in Tasks, SendNext(t)
    PROVE  /\ frame' \in [Tasks -> Frame \cup {NoFrame}]
           /\ \A x \in Tasks \ {t} : frame'[x] = frame[x]
           /\ frame[t] # NoFrame /\ frame[t] \in Frame /\ frame'[t] # NoFrame
           /\ \E w \in Live(Home(t), frame[t].user) \ frame[t].seen :
                /\ w \in Sockets
                /\ frame'[t].user = frame[t].user
                /\ frame'[t].todo = frame[t].todo \ {w}
                /\ frame'[t].seen = frame[t].seen \cup {w}
                /\ frame'[t].dead = DeadAfter(frame[t].dead, w)
                /\ Write(t, w)
<1>1. PICK w \in Live(Home(t), frame[t].user) \ frame[t].seen :
        /\ frame' = [frame EXCEPT ![t].todo = @ \ {w},
                                  ![t].seen = @ \cup {w},
                                  ![t].dead = DeadAfter(@, w)]
        /\ Write(t, w)
    BY DEF SendNext
<1>2. w \in Sockets /\ frame[t] \in Frame /\ frame[t] # NoFrame
    BY LiveType DEF SendNext, TypeOK
<1>3. DeadAfter(frame[t].dead, w) \in SUBSET Sockets
    BY <1>2 DEF DeadAfter, Frame
<1> DEFINE f == [frame[t] EXCEPT !.todo = @ \ {w}, !.seen = @ \cup {w},
                                 !.dead = DeadAfter(@, w)]
<1>4. /\ f \in Frame /\ f.user = frame[t].user
      /\ f.todo = frame[t].todo \ {w} /\ f.seen = frame[t].seen \cup {w}
      /\ f.dead = DeadAfter(frame[t].dead, w)
    BY <1>2, <1>3 DEF Frame
<1>5. frame'[t] = f /\ \A x \in Tasks \ {t} : frame'[x] = frame[x]
    BY <1>1 DEF TypeOK
<1>6. frame' \in [Tasks -> Frame \cup {NoFrame}]
    <2>1. frame' = [frame EXCEPT ![t] = f]
        BY <1>1 DEF TypeOK
    <2>2. QED
        BY <1>4, <2>1 DEF TypeOK
<1>7. frame'[t] # NoFrame
    BY <1>4, <1>5, DeliveryAssumption
<1>8. QED
    BY <1>1, <1>2, <1>4, <1>5, <1>6, <1>7

(* What a send appends to a socket keeps the histories typed. *)
LEMMA WriteType ==
    ASSUME TypeOK, NEW t \in Tasks, NEW w \in Sockets, Write(t, w)
    PROVE  received' \in [Sockets -> Seq(Nat)]
BY DEF Write, TypeOK

(* disconnect by another coroutine keeps the registry and all frames typed. *)
LEMMA UnregisterType ==
    ASSUME TypeOK, NEW t \in Tasks, NEW u, NEW ws, Unregister(t, u, ws)
    PROVE  /\ connections' \in [Servers -> Registry]
           /\ frame' \in [Tasks -> Frame \cup {NoFrame}]
<1>1. connections' \in [Servers -> Registry]
    BY LiveType, DisconnectedType DEF Unregister, TypeOK
<1>2. ASSUME NEW x \in Tasks
      PROVE  frame'[x] \in Frame \cup {NoFrame}
    <2>1. frame[x] # NoFrame => [frame[x] EXCEPT !.stale = TRUE] \in Frame
        BY DEF TypeOK, Frame
    <2>2. QED
        BY <2>1 DEF Unregister, TypeOK
<1>3. frame' = [x \in Tasks |-> frame'[x]]
    BY DEF Unregister
<1>4. QED
    BY <1>1, <1>2, <1>3

(* A step of the iteration over the sockets keeps TypeOK. *)
LEMMA SendNextType ==
    ASSUME TypeOK, NEW t \in Tasks, SendNext(t)
    PROVE  TypeOK'
<1>1. frame' \in [Tasks -> Frame \cup {NoFrame}]
      /\ received' \in [Sockets -> Seq(Nat)]
    BY SendNextEffect, WriteType
<1>2. QED
    BY <1>1 DEF SendNext, TypeOK, channelVars, socketVars

(* The end of send_to_user, with its clean-up, keeps TypeOK. *)
LEMMA SendEndType ==
    ASSUME TypeOK, NEW t \in Tasks, SendEnd(t)
    PROVE  TypeOK'
<1>1. connections' \in [Servers -> Registry]
      /\ frame' \in [Tasks -> Frame \cup {NoFrame}]
    BY UnregisterType DEF SendEnd
<1>2. pending' \in [Servers -> SUBSET Users]
    BY DEF SendEnd, TypeOK
<1>3. QED
    BY <1>1, <1>2 DEF SendEnd, TypeOK, socketVars

(* The RuntimeError of a set that changed while iterated keeps TypeOK. *)
LEMMA SendRaisesType ==
    ASSUME TypeOK, NEW t \in Tasks, SendRaises(t)
    PROVE  TypeOK'
<1>1. t \in Servers \/ t \in Sockets
    BY DEF Tasks
<1>2. /\ deaf' \in SUBSET Servers
      /\ open' \in SUBSET Sockets
      /\ pc' \in [Sockets -> {"new", "announcing", "greeting", "loop",
                             "leaving", "gone"}]
    BY <1>1 DEF SendRaises, TypeOK
<1>3. QED
    BY <1>2 DEF SendRaises, TypeOK

(* publish keeps TypeOK: the channel only grows. *)
LEMMA PublishType ==
    ASSUME TypeOK, NEW to \in SUBSET Users, Publish(to)
    PROVE  /\ log' \in Seq(SUBSET Users)
           /\ \A s \in Servers : cursor'[s] <= Len(log')
           /\ UNCHANGED <<cursor, pending, deaf, missed>>
<1>1. CASE to = {} /\ UNCHANGED log
    BY <1>1 DEF Publish, TypeOK
<1>2. CASE log' = Append(log, to)
    <2>1. log' \in Seq(SUBSET Users) /\ Len(log') = Len(log) + 1
        BY <1>2 DEF TypeOK
    <2>2. Len(log) \in Nat
        BY DEF TypeOK
    <2>3. QED
        BY <2>1, <2>2 DEF Publish, TypeOK
<1>3. QED
    BY <1>1, <1>2 DEF Publish

(* An endpoint that registers its socket keeps TypeOK. *)
LEMMA ConnectType ==
    ASSUME TypeOK, NEW w \in Sockets, Connect(w)
    PROVE  TypeOK'
<1>1. Host[w] \in Servers /\ Owner[w] \in Users
    BY DeliveryAssumption
<1>2. Connected(connections[Host[w]], Owner[w], w) \in Registry
    BY <1>1, ConnectedType DEF TypeOK
<1>3. connections' \in [Servers -> Registry]
    BY <1>1, <1>2 DEF Connect, TypeOK
<1>4. QED
    BY <1>1, <1>3 DEF Connect, TypeOK, channelVars

(* Type correctness of the whole delivery: what is iterated, collected as  *)
(* dead and unregistered are always sockets, and no subscriber has taken   *)
(* more than was published.                                                *)
THEOREM TypeInvariant == Spec => []TypeOK
<1>1. Init => TypeOK
    <2> SUFFICES ASSUME Init PROVE TypeOK
        OBVIOUS
    <2>1. EmptyRegistry \in [{} -> SUBSET Sockets]
        BY DEF EmptyRegistry
    <2>2. EmptyRegistry \in Registry
        BY <2>1 DEF Registry
    <2>3. QED
        BY <2>2 DEF Init, TypeOK
<1>2. TypeOK /\ [Next]_vars => TypeOK'
    <2> SUFFICES ASSUME TypeOK, [Next]_vars PROVE TypeOK'
        OBVIOUS
    <2>1. ASSUME NEW s \in Servers, SubscriberNext(s) PROVE TypeOK'
        <3>1. CASE Take(s)
            BY <3>1 DEF Take, TypeOK, registryVars, socketVars
        <3>2. CASE \E u \in Users : SkipAbsent(s, u)
            BY <3>2 DEF SkipAbsent, TypeOK, registryVars, socketVars
        <3>3. ASSUME NEW u \in Users, Dispatch(s, u) PROVE TypeOK'
            BY <3>3, SendFirstEffect, WriteType
            DEF Dispatch, TypeOK, channelVars, socketVars, Tasks
        <3>4. CASE SendNext(s) \/ SendEnd(s) \/ SendRaises(s)
            BY <3>4, SendNextType, SendEndType, SendRaisesType DEF Tasks
        <3>5. QED
            BY <2>1, <3>1, <3>2, <3>3, <3>4 DEF SubscriberNext
    <2>2. ASSUME NEW w \in Sockets, EndpointNext(w) PROVE TypeOK'
        <3> Owner[w] \in Users /\ w \in Tasks
            BY DeliveryAssumption DEF Tasks
        <3>1. CASE AnnounceOnline(w) \/ AnnounceOffline(w) \/ Receive(w)
            <4>1. PICK to \in SUBSET Users : Publish(to)
                BY <3>1 DEF AnnounceOnline, AnnounceOffline, Receive
            <4>2. UNCHANGED <<connections, frame, open, since, received>>
                BY <3>1 DEF AnnounceOnline, AnnounceOffline, Receive,
                            registryVars, socketVars
            <4>3. pc' \in [Sockets -> {"new", "announcing", "greeting", "loop",
                                      "leaving", "gone"}]
                BY <3>1 DEF AnnounceOnline, AnnounceOffline, Receive,
                            socketVars, TypeOK
            <4>4. QED
                BY <4>1, <4>2, <4>3, PublishType DEF TypeOK
        <3>2. CASE Greet(w) \/ Reply(w)
            BY <3>2, SendFirstEffect, WriteType
            DEF Greet, Reply, TypeOK, channelVars, socketVars
        <3>3. CASE EnterLoop(w)
            BY <3>3 DEF EnterLoop, TypeOK, channelVars, registryVars
        <3>4. CASE HangUp(w)
            BY <3>4, UnregisterType DEF HangUp, TypeOK, channelVars
        <3>5. CASE SendNext(w) \/ SendEnd(w) \/ SendRaises(w)
            BY <3>5, SendNextType, SendEndType, SendRaisesType
        <3>6. QED
            BY <2>2, <3>1, <3>2, <3>3, <3>4, <3>5 DEF EndpointNext
    <2>3. CASE \E s \in Servers : LoseGap(s)
        BY <2>3 DEF LoseGap, TypeOK, registryVars, socketVars
    <2>4. CASE \E s \in Servers : ListenRaises(s)
        BY <2>4 DEF ListenRaises, TypeOK, registryVars, socketVars
    <2>5. CASE \E w \in Sockets : Connect(w)
        BY <2>5, ConnectType
    <2>6. CASE \E w \in Sockets : HandlerRaises(w)
        BY <2>6 DEF HandlerRaises, TypeOK, channelVars, registryVars
    <2>7. CASE \E w \in Sockets : Drop(w)
        BY <2>7 DEF Drop, TypeOK, channelVars, registryVars
    <2>8. CASE UNCHANGED vars
        BY <2>8 DEF vars, channelVars, registryVars, socketVars, TypeOK
    <2>9. QED
        BY <2>1, <2>2, <2>3, <2>4, <2>5, <2>6, <2>7, <2>8
        DEF Next, Environment
<1>3. QED
    BY <1>1, <1>2, PTL DEF Spec
-----------------------------------------------------------------------------
(* A send by the subscriber always carries a payload the socket has not    *)
(* got, that is newer than all it has and that is for its owner.           *)
LEMMA WriteFresh ==
    ASSUME TypeOK, Position, NEW s \in Servers, NEW u \in pending[s],
           NEW w \in Live(s, u), s \notin deaf,
           frame[s] = NoFrame \/ w \notin frame[s].seen
    PROVE  /\ w \in Sockets /\ Host[w] = s /\ Owner[w] = u
           /\ cursor[s] \in 1..Len(log) /\ u \in log[cursor[s]]
           /\ \A i \in 1..Len(received[w]) :
                received[w][i] \in 1..cursor[s] /\ received[w][i] < cursor[s]
<1>1. u \in Users
    BY DEF TypeOK
<1>2. w \in Sockets
    BY LiveType, DeliveryAssumption DEF Tasks, Home
<1>3. Host[w] = s /\ Owner[w] = u
    BY <1>1 DEF Position
<1>4. cursor[s] \in 1..Len(log) /\ u \in log[cursor[s]]
    BY DEF Position
<1>5. ASSUME NEW i \in 1..Len(received[w])
      PROVE  received[w][i] \in 1..cursor[s] /\ received[w][i] # cursor[s]
    BY <1>2, <1>3 DEF Position
<1>6. QED
    BY <1>2, <1>3, <1>4, <1>5

(* unregistering keeps the frames of the others, but for their stale flag, *)
(* and adds no socket. *)
LEMMA UnregisterEffect ==
    ASSUME TypeOK, NEW t \in Tasks, NEW u, NEW ws, Unregister(t, u, ws)
    PROVE  /\ frame'[t] = NoFrame
           /\ \A x \in Tasks \ {t} :
                /\ frame'[x] = NoFrame <=> frame[x] = NoFrame
                /\ frame[x] # NoFrame =>
                     /\ frame'[x].user = frame[x].user
                     /\ frame'[x].todo = frame[x].todo
                     /\ frame'[x].seen = frame[x].seen
                     /\ frame'[x].dead = frame[x].dead
           /\ \A s \in Servers : \A v :
                Live(s, v)' = IF s = Home(t) /\ v = u
                              THEN Live(s, v) \ ws ELSE Live(s, v)
<1>1. frame'[t] = NoFrame
    BY DEF Unregister
<1>2. ASSUME NEW x \in Tasks \ {t}
      PROVE  /\ frame'[x] = NoFrame <=> frame[x] = NoFrame
             /\ frame[x] # NoFrame =>
                  /\ frame'[x].user = frame[x].user
                  /\ frame'[x].todo = frame[x].todo
                  /\ frame'[x].seen = frame[x].seen
                  /\ frame'[x].dead = frame[x].dead
    <2>1. CASE frame[x] = NoFrame
        BY <2>1 DEF Unregister
    <2>2. CASE frame[x] # NoFrame
        <3>1. frame[x] \in Frame /\ frame'[x] \in {frame[x], [frame[x] EXCEPT !.stale = TRUE]}
            BY <2>2 DEF Unregister, TypeOK
        <3>2. frame'[x] \in Frame
            BY <3>1 DEF Frame
        <3>3. frame'[x] # NoFrame
            BY <3>2, DeliveryAssumption
        <3>4. QED
            BY <2>2, <3>1, <3>3 DEF Frame
    <2>3. QED
        BY <2>1, <2>2
<1>3. ASSUME NEW s \in Servers, NEW v
      PROVE  Live(s, v)' = IF s = Home(t) /\ v = u
                           THEN Live(s, v) \ ws ELSE Live(s, v)
    <2>1. connections[s] \in Registry /\ Home(t) \in Servers
        BY LiveType DEF TypeOK
    <2>2. connections'[s] = IF s = Home(t) THEN Disconnected(connections[s], u, ws)
                            ELSE connections[s]
        BY <2>1 DEF Unregister, TypeOK
    <2>3. Live(s, v)' = SocketsOf(connections'[s], v)
        BY DEF Live
    <2>4. SocketsOf(Disconnected(connections[s], u, ws), v) =
            IF v = u THEN SocketsOf(connections[s], u) \ ws
            ELSE SocketsOf(connections[s], v)
        BY <2>1, DisconnectedType
    <2>5. QED
        BY <2>2, <2>3, <2>4 DEF Live
<1>4. QED
    BY <1>1, <1>2, <1>3

(* Steps that move no payload keep Position. *)
LEMMA PositionKept ==
    ASSUME TypeOK, Position, UNCHANGED <<log, cursor, pending, received>>,
           deaf \subseteq deaf',
           \A s \in Servers :
              /\ frame'[s] # NoFrame =>
                   /\ frame[s] # NoFrame /\ s \notin deaf'
                   /\ frame'[s].user = frame[s].user
              /\ frame[s] # NoFrame =>
                   \/ s \in deaf'
                   \/ /\ frame'[s] # NoFrame
                      /\ frame'[s].user = frame[s].user
                      /\ frame'[s].seen = frame[s].seen,
           \A s \in Servers : \A u \in Users : \A w \in Live(s, u)' :
              w \in Live(s, u) \/ (Host[w] = s /\ Owner[w] = u)
    PROVE  Position'
<1>1. ASSUME NEW s \in Servers
      PROVE  /\ pending'[s] # {} => /\ cursor'[s] \in 1..Len(log')
                                   /\ pending'[s] \subseteq log'[cursor'[s]]
             /\ frame'[s] # NoFrame => s \notin deaf' /\ frame'[s].user \in pending'[s]
             /\ \A u \in Users : \A w \in Live(s, u)' : Host[w] = s /\ Owner[w] = u
    BY DEF Position
<1>2. ASSUME NEW w \in Sockets, NEW i \in 1..Len(received'[w])
      PROVE  LET s == Host[w] IN
             /\ received'[w][i] \in 1..cursor'[s]
             /\ s \notin deaf' /\ received'[w][i] = cursor'[s] /\ Owner[w] \in pending'[s]
                 => frame'[s] # NoFrame /\ frame'[s].user = Owner[w]
                    /\ w \in frame'[s].seen
    <2>1. Host[w] \in Servers
        BY DeliveryAssumption
    <2>2. QED
        BY <2>1 DEF Position
<1>3. QED
    BY <1>1, <1>2 DEF Position

(* An index of a sequence with one more element is the new one or an old. *)
LEMMA AppendedOrOld ==
    ASSUME NEW S, NEW q \in Seq(S), NEW m \in S, NEW i \in 1..Len(Append(q, m))
    PROVE  \/ Append(q, m)[i] = m
           \/ i \in 1..Len(q) /\ Append(q, m)[i] = q[i]
<1>1. Len(Append(q, m)) = Len(q) + 1 /\ Len(q) \in Nat
    OBVIOUS
<1>2. CASE i = Len(q) + 1
    BY <1>2
<1>3. CASE i # Len(q) + 1
    <2>1. i \in 1..Len(q)
        BY <1>1, <1>3
    <2>2. QED
        BY <2>1
<1>4. QED
    BY <1>2, <1>3

(* What a broadcast writes: at most the current payload, to one socket,    *)
(* when it starts on the sockets of a user and when it goes on.            *)
LEMMA PositionWrite ==
    ASSUME TypeOK, Position, NEW s \in Servers,
           SendNext(s) \/ \E u \in Users : Dispatch(s, u)
    PROVE  Position'
<1>1. s \in Tasks /\ Home(s) = s
    BY DEF Tasks, Home
<1>2. UNCHANGED <<log, cursor, pending, deaf, connections>>
    BY <1>1, SendFirstEffect DEF SendNext, Dispatch, channelVars
<1>3. PICK u \in pending[s] : \E w \in Live(s, u) :
        /\ u \in Users /\ s \notin deaf
        /\ frame[s] = NoFrame \/ (frame[s].user = u /\ w \notin frame[s].seen)
        /\ frame'[s] # NoFrame /\ frame'[s].user = u /\ w \in frame'[s].seen
        /\ frame[s] # NoFrame => frame[s].seen \subseteq frame'[s].seen
        /\ \A x \in Tasks \ {s} : frame'[x] = frame[x]
        /\ Write(s, w)
    <2>1. CASE SendNext(s)
        <3>1. s \notin deaf /\ frame[s].user \in pending[s] /\ frame[s].user \in Users
            BY <1>1, <2>1, SendNextEffect DEF Position, Frame
        <3>2. QED
            BY <1>1, <2>1, <3>1, SendNextEffect
    <2>2. ASSUME NEW u \in Users, Dispatch(s, u)
          PROVE  /\ s \notin deaf /\ u \in pending[s] /\ frame[s] = NoFrame
                 /\ SendFirst(s, u)
        BY <2>2 DEF Dispatch
    <2>3. QED
        BY <1>1, <2>1, <2>2, SendFirstEffect
<1>4. PICK w \in Live(s, u) :
        /\ u \in Users /\ s \notin deaf
        /\ frame[s] = NoFrame \/ (frame[s].user = u /\ w \notin frame[s].seen)
        /\ frame'[s] # NoFrame /\ frame'[s].user = u /\ w \in frame'[s].seen
        /\ frame[s] # NoFrame => frame[s].seen \subseteq frame'[s].seen
        /\ \A x \in Tasks \ {s} : frame'[x] = frame[x]
        /\ Write(s, w)
    BY <1>3
<1>5. /\ w \in Sockets /\ Host[w] = s /\ Owner[w] = u /\ cursor[s] \in 1..Len(log)
      /\ \A i \in 1..Len(received[w]) :
            received[w][i] \in 1..cursor[s] /\ received[w][i] < cursor[s]
    BY <1>4, WriteFresh
<1>6. ASSUME NEW r \in Servers
      PROVE  /\ pending'[r] # {} => /\ cursor'[r] \in 1..Len(log')
                                   /\ pending'[r] \subseteq log'[cursor'[r]]
             /\ frame'[r] # NoFrame => r \notin deaf' /\ frame'[r].user \in pending'[r]
             /\ \A v \in Users : \A x \in Live(r, v)' : Host[x] = r /\ Owner[x] = v
    BY <1>1, <1>2, <1>4 DEF Position, Live, Tasks
<1>7. ASSUME NEW x \in Sockets, NEW i \in 1..Len(received'[x])
      PROVE  LET r == Host[x] IN
             /\ received'[x][i] \in 1..cursor'[r]
             /\ r \notin deaf' /\ received'[x][i] = cursor'[r] /\ Owner[x] \in pending'[r]
                 => frame'[r] # NoFrame /\ frame'[r].user = Owner[x]
                    /\ x \in frame'[r].seen
    <2>1. Host[x] \in Servers /\ Host[x] \in Tasks
        BY DeliveryAssumption DEF Tasks
    <2>2. CASE x = w
        <3>1. received'[w] \in {received[w], Append(received[w], cursor[s])}
            BY <1>4, <1>5 DEF Write, TypeOK
        <3>2. cursor[s] \in Nat /\ received[w] \in Seq(Nat)
            BY <1>5 DEF TypeOK
        <3>3. CASE received'[w] = received[w]
            BY <1>2, <1>4, <1>5, <2>2, <3>3
        <3>4. CASE received'[w] = Append(received[w], cursor[s])
            <4>1. \/ received'[w][i] = cursor[s]
                  \/ i \in 1..Len(received[w]) /\ received'[w][i] = received[w][i]
                BY <2>2, <3>2, <3>4, AppendedOrOld
            <4>2. QED
                BY <1>2, <1>4, <1>5, <2>2, <4>1
        <3>5. QED
            BY <3>1, <3>3, <3>4
    <2>3. CASE x # w
        <3>1. received'[x] = received[x]
            BY <1>4, <2>3 DEF Write, TypeOK
        <3>2. CASE Host[x] = s
            <4>1. received[x][i] = cursor[s] /\ Owner[x] \in pending[s] =>
                    frame[s] # NoFrame /\ frame[s].user = Owner[x] /\ x \in frame[s].seen
                BY <1>4, <3>1, <3>2 DEF Position
            <4>2. received[x][i] \in 1..cursor[s]
                BY <3>1, <3>2 DEF Position
            <4>3. QED
                BY <1>2, <1>4, <3>1, <3>2, <4>1, <4>2
        <3>3. CASE Host[x] # s
            BY <1>2, <1>4, <2>1, <3>1, <3>3 DEF Position
        <3>4. QED
            BY <3>2, <3>3
    <2>4. QED
        BY <2>2, <2>3
<1>8. QED
    BY <1>6, <1>7 DEF Position

(* A user leaves pending only when the iteration over its sockets is over  *)
(* or when it has none. *)
LEMMA PositionServed ==
    ASSUME TypeOK, Position, NEW s \in Servers,
           SendEnd(s) \/ \E u \in Users : SkipAbsent(s, u)
    PROVE  Position'
<1>1. s \in Tasks /\ Home(s) = s
    BY DEF Tasks, Home
<1>2. UNCHANGED <<log, cursor, deaf, received>>
    BY DEF SendEnd, SkipAbsent, socketVars, registryVars
<1>3. /\ \A r \in Servers \ {s} : pending'[r] = pending[r]
      /\ pending'[s] \subseteq pending[s]
      /\ frame'[s] = NoFrame
      /\ frame[s] # NoFrame => pending'[s] = pending[s] \ {frame[s].user}
      /\ \A r \in Servers \ {s} :
            /\ frame'[r] = NoFrame <=> frame[r] = NoFrame
            /\ frame[r] # NoFrame => /\ frame'[r].user = frame[r].user
                                    /\ frame'[r].seen = frame[r].seen
      /\ \A r \in Servers : \A v : Live(r, v)' \subseteq Live(r, v)
    <2>1. CASE SendEnd(s)
        <3>1. pending' = [pending EXCEPT ![s] = @ \ {frame[s].user}]
            BY <2>1 DEF SendEnd
        <3>2. Unregister(s, frame[s].user, frame[s].dead)
            BY <2>1 DEF SendEnd
        <3>3. /\ frame'[s] = NoFrame
              /\ \A r \in Servers \ {s} :
                    /\ frame'[r] = NoFrame <=> frame[r] = NoFrame
                    /\ frame[r] # NoFrame => /\ frame'[r].user = frame[r].user
                                            /\ frame'[r].seen = frame[r].seen
              /\ \A r \in Servers : \A v : Live(r, v)' \subseteq Live(r, v)
            BY <1>1, <3>2, UnregisterEffect DEF Tasks
        <3>4. QED
            BY <3>1, <3>3 DEF TypeOK
    <2>2. CASE \E u \in Users : SkipAbsent(s, u)
        BY <1>1, <2>2 DEF SkipAbsent, TypeOK, registryVars, Live
    <2>3. QED
        BY <2>1, <2>2
<1>4. ASSUME NEW r \in Servers
      PROVE  /\ pending'[r] # {} => /\ cursor'[r] \in 1..Len(log')
                                   /\ pending'[r] \subseteq log'[cursor'[r]]
             /\ frame'[r] # NoFrame => r \notin deaf' /\ frame'[r].user \in pending'[r]
             /\ \A v \in Users : \A x \in Live(r, v)' : Host[x] = r /\ Owner[x] = v
    <2>1. CASE r = s
        BY <1>2, <1>3, <2>1 DEF Position
    <2>2. CASE r # s
        <3>1. pending'[r] = pending[r] /\ cursor'[r] = cursor[r]
            BY <1>2, <1>3, <2>2
        <3>2. frame'[r] # NoFrame =>
                frame[r] # NoFrame /\ frame'[r].user = frame[r].user
            BY <1>3, <2>2
        <3>3. QED
            BY <1>2, <1>3, <3>1, <3>2 DEF Position
    <2>3. QED
        BY <2>1, <2>2
<1>5. ASSUME NEW x \in Sockets, NEW i \in 1..Len(received'[x])
      PROVE  LET r == Host[x] IN
             /\ received'[x][i] \in 1..cursor'[r]
             /\ r \notin deaf' /\ received'[x][i] = cursor'[r] /\ Owner[x] \in pending'[r]
                 => frame'[r] # NoFrame /\ frame'[r].user = Owner[x]
                    /\ x \in frame'[r].seen
    <2>1. Host[x] \in Servers
        BY DeliveryAssumption
    <2>2. CASE Host[x] = s
        BY <1>2, <1>3, <2>1, <2>2 DEF Position
    <2>3. CASE Host[x] # s
        BY <1>2, <1>3, <2>1, <2>3 DEF Position
    <2>4. QED
        BY <2>2, <2>3
<1>6. QED
    BY <1>4, <1>5 DEF Position

(* The cursor moves only when nothing is pending, so it leaves every       *)
(* payload written behind it. *)
LEMMA PositionAdvance ==
    ASSUME TypeOK, Position, NEW s \in Servers, Take(s) \/ LoseGap(s)
    PROVE  Position'
<1>1. /\ pending[s] = {} /\ frame[s] = NoFrame
      /\ UNCHANGED <<log, deaf, frame, connections, received>>
    BY DEF Take, LoseGap, Position, registryVars
<1>2. /\ cursor'[s] \in (cursor[s] + 1)..Len(log)
      /\ pending'[s] # {} => pending'[s] = log[cursor'[s]]
      /\ \A r \in Servers \ {s} : cursor'[r] = cursor[r] /\ pending'[r] = pending[r]
    <2>1. CASE Take(s)
        BY <2>1 DEF Take, TypeOK
    <2>2. CASE LoseGap(s)
        BY <1>1, <2>2 DEF LoseGap, TypeOK
    <2>3. QED
        BY <2>1, <2>2
<1>3. cursor[s] \in Nat /\ Len(log) \in Nat
    BY DEF TypeOK
<1>4. ASSUME NEW r \in Servers
      PROVE  /\ pending'[r] # {} => /\ cursor'[r] \in 1..Len(log')
                                   /\ pending'[r] \subseteq log'[cursor'[r]]
             /\ frame'[r] # NoFrame => r \notin deaf' /\ frame'[r].user \in pending'[r]
             /\ \A v \in Users : \A x \in Live(r, v)' : Host[x] = r /\ Owner[x] = v
    <2>1. CASE r = s
        BY <1>1, <1>2, <1>3, <2>1 DEF Position, Live
    <2>2. CASE r # s
        BY <1>1, <1>2, <2>2 DEF Position, Live
    <2>3. QED
        BY <2>1, <2>2
<1>5. ASSUME NEW x \in Sockets, NEW i \in 1..Len(received'[x])
      PROVE  LET r == Host[x] IN
             /\ received'[x][i] \in 1..cursor'[r]
             /\ r \notin deaf' /\ received'[x][i] = cursor'[r] /\ Owner[x] \in pending'[r]
                 => frame'[r] # NoFrame /\ frame'[r].user = Owner[x]
                    /\ x \in frame'[r].seen
    <2>1. Host[x] \in Servers
        BY DeliveryAssumption
    <2>2. CASE Host[x] = s
        <3>1. received'[x][i] \in 1..cursor[s]
            BY <1>1, <2>2 DEF Position
        <3>2. QED
            BY <1>2, <1>3, <2>2, <3>1
    <2>3. CASE Host[x] # s
        BY <1>1, <1>2, <2>1, <2>3 DEF Position
    <2>4. QED
        BY <2>2, <2>3
<1>6. QED
    BY <1>4, <1>5 DEF Position

(* Nothing published is ever changed. *)
LEMMA LogGrows ==
    ASSUME TypeOK, NEW to \in SUBSET Users, Publish(to)
    PROVE  /\ Len(log) \in Nat /\ Len(log') \in Nat /\ Len(log) <= Len(log')
           /\ \A m \in 1..Len(log) : log'[m] = log[m]
<1>1. log \in Seq(SUBSET Users) /\ Len(log) \in Nat
    BY DEF TypeOK
<1>2. CASE UNCHANGED log
    BY <1>1, <1>2
<1>3. CASE log' = Append(log, to)
    BY <1>1, <1>3
<1>4. QED
    BY <1>2, <1>3 DEF Publish

(* publish leaves every subscriber where it is. *)
LEMMA PositionPublish ==
    ASSUME TypeOK, Position, NEW to \in SUBSET Users, Publish(to),
           UNCHANGED <<connections, frame, received>>
    PROVE  Position'
<1>1. /\ Len(log) \in Nat /\ Len(log') \in Nat /\ Len(log) <= Len(log')
      /\ \A m \in 1..Len(log) : log'[m] = log[m]
    BY LogGrows
<1>2. UNCHANGED <<cursor, pending, deaf, connections, frame, received>>
    BY DEF Publish
<1>3. QED
    BY <1>1, <1>2 DEF Position, Live

(* The steps of an endpoint and of the environment leave the position of   *)
(* every subscriber as it is, but for the log that grows. *)
LEMMA PositionEndpoint ==
    ASSUME TypeOK, Position, NEW w \in Sockets, EndpointNext(w)
    PROVE  Position'
<1>1. w \in Tasks /\ w \notin Servers /\ Home(w) = Host[w] /\ Owner[w] \in Users
    BY DeliveryAssumption DEF Tasks, Home
<1>2. CASE AnnounceOnline(w) \/ AnnounceOffline(w) \/ Receive(w)
    <2>1. PICK to \in SUBSET Users : Publish(to)
        BY <1>2 DEF AnnounceOnline, AnnounceOffline, Receive
    <2>2. UNCHANGED <<connections, frame, received>>
        BY <1>2 DEF AnnounceOnline, AnnounceOffline, Receive, registryVars
    <2>3. QED
        BY <2>1, <2>2, PositionPublish
<1>3. CASE Greet(w) \/ Reply(w) \/ SendNext(w)
    <2>1. UNCHANGED <<channelVars, connections>>
        BY <1>3 DEF Greet, Reply, SendNext, SendFirst
    <2>2. UNCHANGED received
        BY <1>1, <1>3 DEF Greet, Reply, SendNext, SendFirst, Write
    <2>3. \A s \in Servers : frame'[s] = frame[s]
        BY <1>1, <1>3 DEF Greet, Reply, SendNext, SendFirst, TypeOK, Tasks
    <2>4. \A s \in Servers : frame[s] # NoFrame => s \notin deaf
        BY DEF Position
    <2>5. QED
        BY <2>1, <2>2, <2>3, <2>4, PositionKept DEF channelVars, Live
<1>4. CASE HangUp(w) \/ SendEnd(w)
    <2>1. PICK u, ws : Unregister(w, u, ws)
        BY <1>4 DEF HangUp, SendEnd
    <2>2. UNCHANGED <<channelVars, received>>
        BY <1>1, <1>4 DEF HangUp, SendEnd, channelVars
    <2>3. /\ \A s \in Servers :
             /\ frame'[s] = NoFrame <=> frame[s] = NoFrame
             /\ frame[s] # NoFrame => /\ frame'[s].user = frame[s].user
                                     /\ frame'[s].seen = frame[s].seen
          /\ \A s \in Servers : \A v : Live(s, v)' \subseteq Live(s, v)
        BY <1>1, <2>1, UnregisterEffect DEF Tasks
    <2>4. \A s \in Servers : frame[s] # NoFrame => s \notin deaf
        BY DEF Position
    <2>5. QED
        BY <2>2, <2>3, <2>4, PositionKept DEF channelVars
<1>5. CASE EnterLoop(w) \/ SendRaises(w)
    <2>1. UNCHANGED <<channelVars, connections, received>>
        BY <1>1, <1>5 DEF EnterLoop, SendRaises, channelVars, registryVars
    <2>2. \A s \in Servers : frame'[s] = frame[s]
        BY <1>1, <1>5 DEF EnterLoop, SendRaises, registryVars, TypeOK, Tasks
    <2>3. \A s \in Servers : frame[s] # NoFrame => s \notin deaf
        BY DEF Position
    <2>4. QED
        BY <2>1, <2>2, <2>3, PositionKept DEF channelVars, Live
<1>6. QED
    BY <1>2, <1>3, <1>4, <1>5 DEF EndpointNext

(* Every step keeps Position. *)
LEMMA PositionStep ==
    ASSUME TypeOK, Position, [Next]_vars
    PROVE  Position'
<1>1. ASSUME NEW s \in Servers, SubscriberNext(s) PROVE Position'
    <2>1. CASE SendRaises(s)
        <3>1. /\ frame'[s] = NoFrame /\ deaf' = deaf \cup {s}
              /\ \A r \in Servers \ {s} : frame'[r] = frame[r]
              /\ UNCHANGED <<log, cursor, pending, received, connections>>
            <4>1. s \in Tasks /\ frame' = [frame EXCEPT ![s] = NoFrame]
                BY <2>1 DEF SendRaises, Tasks
            <4>2. deaf' = deaf \cup {s}
                BY <2>1 DEF SendRaises
            <4>3. UNCHANGED <<log, cursor, pending, received, connections>>
                BY <2>1 DEF SendRaises
            <4>4. QED
                BY <4>1, <4>2, <4>3 DEF TypeOK, Tasks
        <3>2. \A r \in Servers : frame[r] # NoFrame => r \notin deaf
            BY DEF Position
        <3>3. \A r \in Servers :
                 /\ frame'[r] # NoFrame =>
                      /\ frame[r] # NoFrame /\ r \notin deaf'
                      /\ frame'[r].user = frame[r].user
                 /\ frame[r] # NoFrame =>
                      \/ r \in deaf'
                      \/ /\ frame'[r] # NoFrame
                         /\ frame'[r].user = frame[r].user
                         /\ frame'[r].seen = frame[r].seen
            BY <3>1, <3>2
        <3>4. \A r \in Servers : \A u \in Users : Live(r, u)' = Live(r, u)
            BY <3>1 DEF Live
        <3>5. QED
            BY <3>1, <3>3, <3>4, PositionKept
    <2>2. QED
        BY <1>1, <2>1, PositionWrite, PositionServed, PositionAdvance
        DEF SubscriberNext
<1>2. CASE \E s \in Servers : LoseGap(s)
    BY <1>2, PositionAdvance
<1>3. ASSUME NEW s \in Servers, ListenRaises(s) PROVE Position'
    <2>1. /\ deaf' = deaf \cup {s} /\ frame[s] = NoFrame
          /\ UNCHANGED <<log, cursor, pending, received, connections, frame>>
        BY <1>3 DEF ListenRaises, registryVars, Position
    <2>2. \A r \in Servers : frame[r] # NoFrame => r \notin deaf
        BY DEF Position
    <2>3. QED
        BY <2>1, <2>2, PositionKept DEF Live
<1>4. ASSUME NEW w \in Sockets, Connect(w) PROVE Position'
    <2>1. Host[w] \in Servers /\ Owner[w] \in Users
        BY DeliveryAssumption
    <2>2. UNCHANGED <<channelVars, frame, received>>
        BY <1>4 DEF Connect
    <2>3. ASSUME NEW s \in Servers, NEW u \in Users, NEW x \in Live(s, u)'
          PROVE  x \in Live(s, u) \/ (Host[x] = s /\ Owner[x] = u)
        <3>1. connections[s] \in Registry
            BY DEF TypeOK
        <3>2. connections'[s] = IF s = Host[w]
                                THEN Connected(connections[s], Owner[w], w)
                                ELSE connections[s]
            BY <1>4, <2>1 DEF Connect, TypeOK
        <3>3. \A v : SocketsOf(Connected(connections[s], Owner[w], w), v) =
                IF v = Owner[w] THEN SocketsOf(connections[s], Owner[w]) \cup {w}
                ELSE SocketsOf(connections[s], v)
            BY <2>1, <3>1, ConnectedType
        <3>4. Live(s, u)' = SocketsOf(connections'[s], u)
            BY DEF Live
        <3>5. CASE s = Host[w] /\ u = Owner[w]
            BY <2>3, <3>2, <3>3, <3>4, <3>5 DEF Live
        <3>6. CASE ~(s = Host[w] /\ u = Owner[w])
            BY <2>3, <3>2, <3>3, <3>4, <3>6 DEF Live
        <3>7. QED
            BY <3>5, <3>6
    <2>4. \A r \in Servers : frame[r] # NoFrame => r \notin deaf
        BY DEF Position
    <2>5. QED
        BY <2>2, <2>3, <2>4, PositionKept DEF channelVars
<1>5. CASE (\E w \in Sockets : HandlerRaises(w) \/ Drop(w)) \/ UNCHANGED vars
    <2>1. UNCHANGED <<channelVars, connections, frame, received>>
        BY <1>5 DEF HandlerRaises, Drop, vars, registryVars
    <2>2. \A r \in Servers : frame[r] # NoFrame => r \notin deaf
        BY DEF Position
    <2>3. QED
        BY <2>1, <2>2, PositionKept DEF channelVars, Live
<1>6. QED
    BY <1>1, <1>2, <1>3, <1>4, <1>5, PositionEndpoint DEF Next, Environment

(* Position is an invariant: see its comment in Delivery. *)
THEOREM PositionInvariant == Spec => []Position
<1>1. Init => Position
    <2> SUFFICES ASSUME Init PROVE Position
        OBVIOUS
    <2>1. \A s \in Servers : \A u : Live(s, u) = {}
        BY DEF Init, Live, SocketsOf, IsOnline, EmptyRegistry
    <2>2. \A s \in Servers : frame[s] = NoFrame /\ pending[s] = {}
        BY DEF Init, Tasks
    <2>3. \A w \in Sockets : received[w] = <<>>
        BY DEF Init
    <2>4. QED
        BY <2>1, <2>2, <2>3 DEF Position
<1>2. TypeOK /\ Position /\ [Next]_vars => Position'
    BY PositionStep
<1>3. QED
    BY <1>1, <1>2, TypeInvariant, PTL DEF Spec
-----------------------------------------------------------------------------
(* A send by the subscriber is a delivery of the ordered broadcast. *)
LEMMA WriteIsDeliver ==
    ASSUME TypeOK, Position, NEW s \in Servers,
           \/ \E u \in Users : Dispatch(s, u)
           \/ SendNext(s)
    PROVE  [Broadcast!Next]_<<log, received>>
<1>1. s \in Tasks /\ Home(s) = s /\ UNCHANGED log
    BY DEF Tasks, Home, Dispatch, SendNext, channelVars
<1>2. PICK u \in pending[s] : \E x \in Live(s, u) :
        /\ s \notin deaf
        /\ frame[s] = NoFrame \/ x \notin frame[s].seen
        /\ Write(s, x)
    <2>1. CASE \E u \in Users : Dispatch(s, u)
        BY <1>1, <2>1 DEF Dispatch, SendFirst
    <2>2. CASE SendNext(s)
        BY <1>1, <2>2 DEF SendNext, Position
    <2>3. QED
        BY <2>1, <2>2
<1>3. PICK x \in Live(s, u) :
        /\ s \notin deaf
        /\ frame[s] = NoFrame \/ x \notin frame[s].seen
        /\ Write(s, x)
    BY <1>2
<1>4. /\ x \in Sockets /\ Owner[x] = u
      /\ cursor[s] \in 1..Len(log) /\ u \in log[cursor[s]]
      /\ \A i \in 1..Len(received[x]) : received[x][i] < cursor[s]
    BY <1>3, WriteFresh
<1>5. CASE x \in open
    <2>1. received' = [received EXCEPT ![x] = Append(@, cursor[s])]
        BY <1>3, <1>5 DEF Write
    <2>2. Broadcast!Deliver(x)
        BY <1>1, <1>4, <2>1 DEF Broadcast!Deliver
    <2>3. QED
        BY <1>4, <2>2 DEF Broadcast!Next
<1>6. CASE x \notin open
    BY <1>1, <1>3, <1>6 DEF Write
<1>7. QED
    BY <1>5, <1>6

(* Every step of the system is a step of the ordered broadcast, or is not  *)
(* seen by it. *)
LEMMA StepIsBroadcast ==
    ASSUME TypeOK, Position, [Next]_vars
    PROVE  [Broadcast!Next]_<<log, received>>
<1>1. ASSUME NEW to \in SUBSET Users, Publish(to), UNCHANGED received
      PROVE  [Broadcast!Next]_<<log, received>>
    BY <1>1 DEF Publish, Broadcast!Next, Broadcast!Publish
<1>2. ASSUME NEW s \in Servers, SubscriberNext(s)
      PROVE  [Broadcast!Next]_<<log, received>>
    <2>1. CASE (\E u \in Users : Dispatch(s, u)) \/ SendNext(s)
        BY <2>1, WriteIsDeliver
    <2>2. CASE Take(s) \/ SendEnd(s) \/ SendRaises(s) \/ \E u \in Users : SkipAbsent(s, u)
        BY <2>2 DEF Take, SendEnd, SendRaises, SkipAbsent
    <2>3. QED
        BY <1>2, <2>1, <2>2 DEF SubscriberNext
<1>3. ASSUME NEW w \in Sockets, EndpointNext(w)
      PROVE  [Broadcast!Next]_<<log, received>>
    <2>1. w \notin Servers
        BY DeliveryAssumption
    <2>2. CASE AnnounceOnline(w) \/ AnnounceOffline(w) \/ Receive(w)
        <3>1. PICK to \in SUBSET Users : Publish(to)
            BY <2>2 DEF AnnounceOnline, AnnounceOffline, Receive
        <3>2. UNCHANGED received
            BY <2>2 DEF AnnounceOnline, AnnounceOffline, Receive
        <3>3. QED
            BY <1>1, <3>1, <3>2
    <2>3. CASE Greet(w) \/ Reply(w) \/ SendNext(w)
        BY <2>1, <2>3 DEF Greet, Reply, SendNext, SendFirst, Write, channelVars
    <2>4. CASE EnterLoop(w) \/ HangUp(w) \/ SendEnd(w) \/ SendRaises(w)
        BY <2>4 DEF EnterLoop, HangUp, SendEnd, SendRaises, channelVars
    <2>5. QED
        BY <1>3, <2>2, <2>3, <2>4 DEF EndpointNext
<1>4. CASE Environment \/ UNCHANGED vars
    BY <1>4 DEF Environment, LoseGap, ListenRaises, Connect, HandlerRaises,
                Drop, vars, channelVars
<1>5. QED
    BY <1>2, <1>3, <1>4 DEF Next

(* Delivery implements the ordered broadcast. *)
THEOREM Refinement == Spec => ImplementsBroadcast
<1>1. Init => Broadcast!Init
    BY DEF Init, Broadcast!Init
<1>2. TypeOK /\ Position /\ [Next]_vars => [Broadcast!Next]_<<log, received>>
    BY StepIsBroadcast
<1>3. QED
    BY <1>1, <1>2, TypeInvariant, PositionInvariant, PTL
    DEF Spec, ImplementsBroadcast, Broadcast!Spec

(* What the ordered broadcast means for what a socket has got: payloads in *)
(* publish order, each at most once, ... *)
InOrder ==
    \A w \in Sockets : \A i, j \in 1..Len(received[w]) :
        i < j => received[w][i] < received[w][j]

(* ... and only those published for its owner. *)
OnlyAddressees ==
    \A w \in Sockets : \A i \in 1..Len(received[w]) :
        Owner[w] \in log[received[w][i]]

(* A step of the broadcast keeps both. *)
LEMMA BroadcastStep ==
    ASSUME TypeOK, InOrder, OnlyAddressees,
           \A w \in Sockets : \A i \in 1..Len(received[w]) :
              received[w][i] \in 1..Len(log),
           [Broadcast!Next]_<<log, received>>
    PROVE  InOrder' /\ OnlyAddressees'
<1>1. CASE Broadcast!Publish
    <2>1. PICK to \in SUBSET Users : log' = Append(log, to) /\ received' = received
        BY <1>1 DEF Broadcast!Publish
    <2>2. \A m \in 1..Len(log) : log'[m] = log[m]
        BY <2>1 DEF TypeOK
    <2>3. QED
        BY <2>1, <2>2 DEF InOrder, OnlyAddressees
<1>2. ASSUME NEW w \in Sockets, Broadcast!Deliver(w)
      PROVE  InOrder' /\ OnlyAddressees'
    <2>1. PICK m \in 1..Len(log) :
            /\ Owner[w] \in log[m]
            /\ \A i \in 1..Len(received[w]) : received[w][i] < m
            /\ received' = [received EXCEPT ![w] = Append(@, m)]
            /\ log' = log
        BY <1>2 DEF Broadcast!Deliver
    <2>2. m \in Nat /\ received[w] \in Seq(Nat)
        BY DEF TypeOK
    <2>3. /\ received'[w] = Append(received[w], m)
          /\ \A x \in Sockets \ {w} : received'[x] = received[x]
        BY <2>1 DEF TypeOK
    <2>4. ASSUME NEW x \in Sockets, NEW j \in 1..Len(received'[x])
          PROVE  /\ Owner[x] \in log'[received'[x][j]]
                 /\ \A i \in 1..Len(received'[x]) :
                      i < j => received'[x][i] < received'[x][j]
        <3>1. CASE x # w
            BY <2>1, <2>3, <3>1 DEF InOrder, OnlyAddressees
        <3>2. CASE x = w /\ j \in 1..Len(received[w])
            <4>1. received'[w][j] = received[w][j]
                BY <2>2, <2>3, <3>2
            <4>2. ASSUME NEW i \in 1..Len(received'[w]), i < j
                  PROVE  received'[w][i] < received'[w][j]
                <5>1. i \in 1..Len(received[w]) /\ received'[w][i] = received[w][i]
                    BY <2>2, <2>3, <3>2, <4>2
                <5>2. QED
                    BY <3>2, <4>1, <4>2, <5>1 DEF InOrder
            <4>3. QED
                BY <2>1, <3>2, <4>1, <4>2 DEF OnlyAddressees
        <3>3. CASE x = w /\ j \notin 1..Len(received[w])
            <4>1. j = Len(received[w]) + 1 /\ received'[w][j] = m
                BY <2>2, <2>3, <3>3
            <4>2. ASSUME NEW i \in 1..Len(received'[w]), i < j
                  PROVE  received'[w][i] < m
                <5>1. i \in 1..Len(received[w]) /\ received'[w][i] = received[w][i]
                    BY <2>2, <2>3, <4>1, <4>2
                <5>2. QED
                    BY <2>1, <5>1
            <4>3. QED
                BY <2>1, <3>3, <4>1, <4>2
        <3>4. QED
            BY <3>1, <3>2, <3>3
    <2>5. QED
        BY <2>4 DEF InOrder, OnlyAddressees
<1>3. CASE UNCHANGED <<log, received>>
    BY <1>3 DEF InOrder, OnlyAddressees
<1>4. QED
    BY <1>1, <1>2, <1>3 DEF Broadcast!Next

(* On every socket of every instance the payloads are in publish order,    *)
(* none twice, and none that was not for the socket's owner.               *)
THEOREM Order == Spec => [](InOrder /\ OnlyAddressees)
<1>1. Init => InOrder /\ OnlyAddressees
    BY DEF Init, InOrder, OnlyAddressees
<1>2. ASSUME TypeOK, Position, InOrder, OnlyAddressees, [Next]_vars
      PROVE  InOrder' /\ OnlyAddressees'
    <2>1. ASSUME NEW w \in Sockets, NEW i \in 1..Len(received[w])
          PROVE  received[w][i] \in 1..Len(log)
        <3>1. Host[w] \in Servers /\ received[w][i] \in 1..cursor[Host[w]]
            BY <1>2, DeliveryAssumption DEF Position
        <3>2. cursor[Host[w]] \in Nat /\ Len(log) \in Nat
              /\ cursor[Host[w]] <= Len(log)
            BY <1>2, <3>1 DEF TypeOK
        <3>3. QED
            BY <3>1, <3>2
    <2>2. QED
        BY <1>2, <2>1, StepIsBroadcast, BroadcastStep
<1>3. QED
    BY <1>1, <1>2, TypeInvariant, PositionInvariant, PTL DEF Spec
-----------------------------------------------------------------------------
(* What socket w is still owed by the broadcast in progress on its server. *)
Owed(w) ==
    LET s == Host[w] IN
    /\ Owner[w] \in pending[s]
    /\ frame[s] # NoFrame /\ frame[s].user = Owner[w] => w \in frame[s].todo

Got(w, m) == \E i \in 1..Len(received[w]) : received[w][i] = m

(* A step that registers no socket and moves no cursor keeps Coverage when *)
(* it unregisters and gives up no socket that is up, and settles what it   *)
(* stops owing. *)
LEMMA CoverageKept ==
    ASSUME TypeOK, Coverage, UNCHANGED <<cursor, missed, since>>,
           open' \subseteq open,
           \A w \in Sockets : pc[w] # "new" => pc'[w] # "new",
           \A m \in 1..Len(log) : log'[m] = log[m],
           \A w \in Sockets : \A m : Got(w, m) => Got(w, m)',
           \A t \in Tasks : frame'[t] # NoFrame =>
              \A w \in frame'[t].dead : w \notin open' /\ pc'[w] # "new",
           \A s \in Servers : \A u \in Users : Live(s, u)' \subseteq Live(s, u),
           \A w \in open' : w \in Live(Host[w], Owner[w])',
           \A w \in open' : Owed(w) => Owed(w)' \/ Got(w, cursor[Host[w]])'
    PROVE  Coverage'
<1>1. ASSUME NEW s \in Servers, NEW u \in Users, NEW w \in Live(s, u)'
      PROVE  pc'[w] # "new"
    <2>1. w \in Live(s, u) /\ w \in Sockets
        <3>1. s \in Tasks /\ Home(s) = s
            BY DEF Tasks, Home
        <3>2. QED
            BY <3>1, LiveType
    <2>2. QED
        BY <2>1 DEF Coverage
<1>2. ASSUME NEW w \in open', NEW m \in (since'[w] + 1)..cursor'[Host[w]],
             Owner[w] \in log'[m], m \notin missed'[Host[w]]
      PROVE  Got(w, m)' \/ (m = cursor'[Host[w]] /\ Owed(w)')
    <2>1. w \in open /\ w \in Sockets /\ Host[w] \in Servers
        BY DeliveryAssumption DEF TypeOK
    <2>2. m \in 1..Len(log) /\ m \in (since[w] + 1)..cursor[Host[w]]
        BY <2>1 DEF TypeOK
    <2>3. Got(w, m) \/ (m = cursor[Host[w]] /\ Owed(w))
        BY <1>2, <2>1, <2>2 DEF Coverage, Got, Owed
    <2>4. QED
        BY <2>1, <2>3
<1>3. QED
    BY <1>1, <1>2 DEF Coverage, Got, Owed

(* A send writes the socket if it is up, and takes nothing from the rest. *)
LEMMA WriteEffect ==
    ASSUME TypeOK, NEW t \in Tasks, NEW w \in Sockets, Write(t, w),
           UNCHANGED cursor
    PROVE  /\ \A x \in Sockets : \A m : Got(x, m) => Got(x, m)'
           /\ t \in Servers /\ w \in open => Got(w, cursor[t])'
<1>1. CASE t \in Servers /\ w \in open
    <2>1. cursor[t] \in Nat /\ received[w] \in Seq(Nat)
        BY <1>1 DEF TypeOK
    <2>2. /\ received'[w] = Append(received[w], cursor[t])
          /\ \A x \in Sockets \ {w} : received'[x] = received[x]
        BY <1>1 DEF Write, TypeOK
    <2>3. Got(w, cursor[t])'
        <3>1. Len(received'[w]) \in 1..Len(received'[w])
              /\ received'[w][Len(received'[w])] = cursor[t]
            BY <2>1, <2>2
        <3>2. QED
            BY <3>1 DEF Got
    <2>4. ASSUME NEW m, Got(w, m) PROVE Got(w, m)'
        <3>1. PICK i \in 1..Len(received[w]) : received[w][i] = m
            BY <2>4 DEF Got
        <3>2. Len(received'[w]) = Len(received[w]) + 1 /\ Len(received[w]) \in Nat
            BY <2>1, <2>2
        <3>3. i \in 1..Len(received'[w])
            BY <3>1, <3>2
        <3>4. received'[w][i] = m
            BY <2>1, <2>2, <3>1
        <3>5. QED
            BY <3>3, <3>4 DEF Got
    <2>5. ASSUME NEW x \in Sockets, x # w, NEW m, Got(x, m) PROVE Got(x, m)'
        BY <2>2, <2>5 DEF Got
    <2>6. QED
        BY <2>3, <2>4, <2>5
<1>2. CASE ~(t \in Servers /\ w \in open)
    BY <1>2 DEF Write, Got
<1>3. QED
    BY <1>1, <1>2

(* The sockets that are up are among the iterated: unregistering sockets   *)
(* that are down keeps all of them. *)
LEMMA CoverageUnregister ==
    ASSUME TypeOK, Coverage, NEW t \in Tasks, NEW u, NEW ws, Unregister(t, u, ws),
           \A w \in ws : w \notin open
    PROVE  /\ \A x \in Tasks : frame'[x] # NoFrame =>
                 \A w \in frame'[x].dead : w \notin open /\ pc[w] # "new"
           /\ \A s \in Servers : \A v \in Users : Live(s, v)' \subseteq Live(s, v)
           /\ \A w \in open : w \in Live(Host[w], Owner[w])'
<1>1. \A w \in open : w \in Live(Host[w], Owner[w]) /\ Host[w] \in Servers
    BY DeliveryAssumption DEF Coverage, TypeOK
<1>2. \A x \in Tasks : frame'[x] # NoFrame =>
          frame[x] # NoFrame /\ frame'[x].dead = frame[x].dead
    BY UnregisterEffect
<1>3. \A s \in Servers : \A v : Live(s, v) \ ws \subseteq Live(s, v)'
                            /\ Live(s, v)' \subseteq Live(s, v)
    BY UnregisterEffect
<1>4. QED
    BY <1>1, <1>2, <1>3 DEF Coverage

(* A broadcast gives the payload to the socket it meets, if that is up,    *)
(* and goes on owing it to the others it has to meet. *)
LEMMA CoverageWrite ==
    ASSUME TypeOK, Position, Coverage, NEW s \in Servers,
           SendNext(s) \/ \E u \in Users : Dispatch(s, u)
    PROVE  Coverage'
<1>1. s \in Tasks /\ Home(s) = s
    BY DEF Tasks, Home
<1>2. UNCHANGED <<log, cursor, pending, deaf, missed, pc, open, since, connections>>
    BY <1>1, SendFirstEffect DEF SendNext, Dispatch, channelVars, socketVars
<1>3. PICK u \in Users : \E w \in Live(s, u) :
        /\ w \in Sockets
        /\ frame'[s].user = u
        /\ frame[s] = NoFrame => frame'[s].todo = Live(s, u) \ {w}
        /\ frame[s] # NoFrame => frame[s].user = u /\ frame'[s].todo = frame[s].todo \ {w}
        /\ frame'[s].dead \subseteq DeadAfter(IF frame[s] = NoFrame THEN {}
                                             ELSE frame[s].dead, w)
        /\ \A x \in Tasks \ {s} : frame'[x] = frame[x]
        /\ Write(s, w)
    <2>1. CASE SendNext(s)
        BY <1>1, <2>1, SendNextEffect DEF Frame
    <2>2. ASSUME NEW u \in Users, Dispatch(s, u)
          PROVE  frame[s] = NoFrame /\ SendFirst(s, u)
        BY <2>2 DEF Dispatch
    <2>3. QED
        BY <1>1, <2>1, <2>2, SendFirstEffect
<1>4. PICK w \in Live(s, u) :
        /\ w \in Sockets
        /\ frame'[s].user = u
        /\ frame[s] = NoFrame => frame'[s].todo = Live(s, u) \ {w}
        /\ frame[s] # NoFrame => frame[s].user = u /\ frame'[s].todo = frame[s].todo \ {w}
        /\ frame'[s].dead \subseteq DeadAfter(IF frame[s] = NoFrame THEN {}
                                             ELSE frame[s].dead, w)
        /\ \A x \in Tasks \ {s} : frame'[x] = frame[x]
        /\ Write(s, w)
    BY <1>3
<1>5. Host[w] = s /\ Owner[w] = u
    BY <1>4 DEF Position
<1>6. ASSUME NEW t \in Tasks, frame'[t] # NoFrame, NEW x \in frame'[t].dead
      PROVE  x \notin open /\ pc[x] # "new"
    <2>1. CASE t = s
        BY <1>4, <1>6, <2>1 DEF Coverage, DeadAfter
    <2>2. CASE t # s
        BY <1>4, <1>6, <2>2 DEF Coverage
    <2>3. QED
        BY <2>1, <2>2
<1>7. ASSUME NEW x \in open, Owed(x)
      PROVE  Owed(x)' \/ Got(x, cursor[Host[x]])'
    <2>1. x \in Sockets /\ Host[x] \in Tasks /\ x \in Live(Host[x], Owner[x])
        BY DeliveryAssumption DEF TypeOK, Tasks, Coverage
    <2>2. CASE x = w
        BY <1>1, <1>2, <1>4, <1>5, <1>7, <2>1, <2>2, WriteEffect DEF Owed
    <2>3. CASE x # w /\ Host[x] = s
        BY <1>2, <1>4, <1>7, <2>1, <2>3 DEF Owed
    <2>4. CASE Host[x] # s
        BY <1>2, <1>4, <1>7, <2>1, <2>4 DEF Owed
    <2>5. QED
        BY <2>2, <2>3, <2>4
<1>8. \A x \in Sockets : \A m : Got(x, m) => Got(x, m)'
    BY <1>1, <1>2, <1>4, WriteEffect
<1>9. \A r \in Servers : \A v : Live(r, v)' = Live(r, v)
    BY <1>2 DEF Live
<1>10. \A x \in open : x \in Live(Host[x], Owner[x])'
    BY <1>9, DeliveryAssumption DEF Coverage, TypeOK
<1>11. QED
    BY <1>2, <1>6, <1>7, <1>8, <1>9, <1>10, CoverageKept

(* A user is taken off pending when all its sockets were met, or it has    *)
(* none: nothing is owed to a socket that is up. *)
LEMMA CoverageServed ==
    ASSUME TypeOK, Position, Coverage, NEW s \in Servers,
           SendEnd(s) \/ \E u \in Users : SkipAbsent(s, u)
    PROVE  Coverage'
<1>1. s \in Tasks /\ Home(s) = s
    BY DEF Tasks, Home
<1>2. UNCHANGED <<log, cursor, missed, pc, open, since, received>>
    BY DEF SendEnd, SkipAbsent, socketVars
<1>3. \A x \in open : x \in Sockets /\ Host[x] \in Servers /\ Owner[x] \in Users
                       /\ x \in Live(Host[x], Owner[x])
    BY DeliveryAssumption DEF TypeOK, Coverage
<1>4. CASE SendEnd(s)
    <2>1. /\ Unregister(s, frame[s].user, frame[s].dead)
          /\ pending' = [pending EXCEPT ![s] = @ \ {frame[s].user}]
          /\ frame[s].todo \cap Live(s, frame[s].user) = {}
          /\ frame[s] # NoFrame
        BY <1>1, <1>4 DEF SendEnd
    <2>2. \A w \in frame[s].dead : w \notin open
        BY <1>1, <2>1 DEF Coverage
    <2>3. /\ frame'[s] = NoFrame
          /\ \A r \in Servers \ {s} :
               /\ frame'[r] = NoFrame <=> frame[r] = NoFrame
               /\ frame[r] # NoFrame => /\ frame'[r].user = frame[r].user
                                       /\ frame'[r].todo = frame[r].todo
        BY <1>1, <2>1, UnregisterEffect DEF Tasks
    <2>4. ASSUME NEW x \in open, Owed(x)
          PROVE  Owed(x)'
        <3>1. CASE Host[x] # s
            BY <1>3, <2>1, <2>3, <2>4, <3>1 DEF Owed, TypeOK
        <3>2. CASE Host[x] = s
            <4>1. Owner[x] # frame[s].user
                BY <1>3, <2>1, <2>4, <3>2 DEF Owed
            <4>2. pending'[s] = pending[s] \ {frame[s].user}
                BY <2>1 DEF TypeOK
            <4>3. QED
                BY <2>3, <2>4, <3>2, <4>1, <4>2 DEF Owed
        <3>3. QED
            BY <3>1, <3>2
    <2>5. \A x \in Sockets : \A m : Got(x, m) => Got(x, m)'
        BY <1>2 DEF Got
    <2>6. /\ \A x \in Tasks : frame'[x] # NoFrame =>
                \A w \in frame'[x].dead : w \notin open /\ pc[w] # "new"
          /\ \A r \in Servers : \A v \in Users : Live(r, v)' \subseteq Live(r, v)
          /\ \A w \in open : w \in Live(Host[w], Owner[w])'
        BY <1>1, <2>1, <2>2, CoverageUnregister
    <2>7. QED
        BY <1>2, <2>4, <2>5, <2>6, CoverageKept
<1>5. ASSUME NEW u \in Users, SkipAbsent(s, u)
      PROVE  Coverage'
    <2>1. /\ pending' = [pending EXCEPT ![s] = @ \ {u}]
          /\ UNCHANGED <<connections, frame>>
          /\ Live(s, u) = {}
        BY <1>5 DEF SkipAbsent, registryVars, Live, SocketsOf
    <2>2. ASSUME NEW x \in open, Owed(x)
          PROVE  Owed(x)'
        <3>1. Host[x] = s => Owner[x] # u
            BY <1>3, <2>1
        <3>2. Owner[x] \in pending'[Host[x]]
            BY <1>3, <2>1, <2>2, <3>1 DEF Owed, TypeOK
        <3>3. QED
            BY <2>1, <2>2, <3>2 DEF Owed
    <2>3. \A x \in Sockets : \A m : Got(x, m) => Got(x, m)'
        BY <1>2 DEF Got
    <2>4. \A r \in Servers : \A v : Live(r, v)' = Live(r, v)
        BY <2>1 DEF Live
    <2>5. \A x \in open : x \in Live(Host[x], Owner[x])'
        BY <1>3, <2>4
    <2>6. \A t \in Tasks : frame'[t] # NoFrame =>
              \A w \in frame'[t].dead : w \notin open /\ pc[w] # "new"
        BY <2>1 DEF Coverage
    <2>7. QED
        BY <1>2, <2>2, <2>3, <2>4, <2>5, <2>6, CoverageKept
<1>6. QED
    BY <1>4, <1>5

(* Nothing is owed when the subscriber takes the next payload; from then   *)
(* on it owes that one, or counts it as missed. *)
LEMMA CoverageAdvance ==
    ASSUME TypeOK, Position, Coverage, NEW s \in Servers, Take(s) \/ LoseGap(s)
    PROVE  Coverage'
<1>1. /\ pending[s] = {} /\ frame[s] = NoFrame
      /\ UNCHANGED <<log, deaf, frame, connections, received, pc, open, since>>
    BY DEF Take, LoseGap, Position, registryVars, socketVars
<1>2. /\ cursor'[s] \in Nat /\ cursor[s] \in Nat
      /\ \A m \in (cursor[s] + 1)..cursor'[s] :
           m \in missed'[s] \/ (m = cursor'[s] /\ pending'[s] = log[m])
      /\ missed[s] \subseteq missed'[s]
      /\ \A r \in Servers \ {s} : /\ cursor'[r] = cursor[r]
                                 /\ pending'[r] = pending[r]
                                 /\ missed'[r] = missed[r]
    <2>1. CASE Take(s)
        BY <2>1 DEF Take, TypeOK
    <2>2. CASE LoseGap(s)
        BY <2>2 DEF LoseGap, TypeOK
    <2>3. QED
        BY <2>1, <2>2
<1>3. ASSUME NEW w \in open, NEW m \in (since[w] + 1)..cursor'[Host[w]],
             Owner[w] \in log[m], m \notin missed'[Host[w]]
      PROVE  Got(w, m) \/ (m = cursor'[Host[w]] /\ Owed(w)')
    <2>1. w \in Sockets /\ Host[w] \in Servers /\ since[w] \in Nat
        BY DeliveryAssumption DEF TypeOK
    <2>2. CASE Host[w] # s
        BY <1>1, <1>2, <1>3, <2>1, <2>2 DEF Coverage, Got, Owed
    <2>3. CASE Host[w] = s /\ m \in (cursor[s] + 1)..cursor'[s]
        BY <1>1, <1>2, <1>3, <2>3 DEF Owed
    <2>4. CASE Host[w] = s /\ m \notin (cursor[s] + 1)..cursor'[s]
        <3>1. m \in (since[w] + 1)..cursor[s] /\ m \notin missed[s]
            BY <1>2, <1>3, <2>1, <2>4
        <3>2. Owner[w] \notin pending[s]
            BY <1>1
        <3>3. QED
            BY <1>3, <2>4, <3>1, <3>2 DEF Coverage, Got
    <2>5. QED
        BY <2>2, <2>3, <2>4
<1>4. \A r \in Servers : \A v : Live(r, v)' = Live(r, v)
    BY <1>1 DEF Live
<1>5. \A w \in open : w \in Live(Host[w], Owner[w])'
    BY <1>4, DeliveryAssumption DEF Coverage, TypeOK
<1>6. QED
    BY <1>1, <1>3, <1>4, <1>5 DEF Coverage, Got, Owed

(* A socket is owed nothing when it is registered: its history begins at   *)
(* the cursor. *)
LEMMA CoverageConnect ==
    ASSUME TypeOK, Coverage, NEW w \in Sockets, Connect(w)
    PROVE  Coverage'
<1>1. Host[w] \in Servers /\ Owner[w] \in Users
    BY DeliveryAssumption
<1>2. /\ UNCHANGED <<channelVars, frame, received>>
      /\ pc[w] = "new" /\ pc' = [pc EXCEPT ![w] = "announcing"]
      /\ open' = open \cup {w}
      /\ since' = [since EXCEPT ![w] = cursor[Host[w]]]
    BY DEF Connect
<1>3. ASSUME NEW s \in Servers
      PROVE  \A v : Live(s, v)' = IF s = Host[w] /\ v = Owner[w]
                                 THEN Live(s, v) \cup {w} ELSE Live(s, v)
    <2>1. connections[s] \in Registry
        BY DEF TypeOK
    <2>2. connections'[s] = IF s = Host[w]
                            THEN Connected(connections[s], Owner[w], w)
                            ELSE connections[s]
        BY <1>1 DEF Connect, TypeOK
    <2>3. \A v : SocketsOf(Connected(connections[s], Owner[w], w), v) =
                 IF v = Owner[w] THEN SocketsOf(connections[s], Owner[w]) \cup {w}
                 ELSE SocketsOf(connections[s], v)
        BY <1>1, <2>1, ConnectedType
    <2>4. \A v : Live(s, v)' = SocketsOf(connections'[s], v)
        BY DEF Live
    <2>5. CASE s = Host[w]
        BY <2>2, <2>3, <2>4, <2>5 DEF Live
    <2>6. CASE s # Host[w]
        BY <2>2, <2>4, <2>6 DEF Live
    <2>7. QED
        BY <2>5, <2>6
<1>4. \A t \in Tasks : frame'[t] # NoFrame =>
         \A x \in frame'[t].dead : x \notin open' /\ pc'[x] # "new"
    <2>1. ASSUME NEW t \in Tasks, frame[t] # NoFrame, NEW x \in frame[t].dead
          PROVE  x \notin open /\ pc[x] # "new" /\ x # w /\ x \in Sockets
        <3>1. frame[t] \in Frame
            BY <2>1 DEF TypeOK
        <3>2. QED
            BY <1>2, <2>1, <3>1 DEF Coverage, Frame
    <2>2. QED
        BY <1>2, <2>1 DEF TypeOK
<1>5. ASSUME NEW s \in Servers, NEW u \in Users, NEW x \in Live(s, u)'
      PROVE  pc'[x] # "new"
    <2>1. x = w \/ (x \in Live(s, u) /\ x \in Sockets)
        <3>1. s \in Tasks /\ Home(s) = s
            BY DEF Tasks, Home
        <3>2. x = w \/ x \in Live(s, u)
            BY <1>3
        <3>3. QED
            BY <3>1, <3>2, LiveType
    <2>2. QED
        BY <1>2, <2>1 DEF Coverage, TypeOK
<1>6. ASSUME NEW x \in open', NEW m \in (since'[x] + 1)..cursor'[Host[x]],
             Owner[x] \in log'[m], m \notin missed'[Host[x]]
      PROVE  Got(x, m)' \/ (m = cursor'[Host[x]] /\ Owed(x)')
    <2>1. CASE x = w
        <3>1. since'[w] = cursor[Host[w]] /\ cursor[Host[w]] \in Nat
            BY <1>1, <1>2 DEF TypeOK
        <3>2. QED
            BY <1>2, <2>1, <3>1 DEF channelVars
    <2>2. CASE x # w
        BY <1>2, <1>6, <2>2 DEF Coverage, Got, Owed, TypeOK, channelVars
    <2>3. QED
        BY <2>1, <2>2
<1>7. ASSUME NEW x \in open'
      PROVE  x \in Live(Host[x], Owner[x])'
    <2>1. x \in Sockets /\ Host[x] \in Servers
        BY <1>2, DeliveryAssumption DEF TypeOK
    <2>2. QED
        BY <1>2, <1>3, <2>1 DEF Coverage
<1>8. QED
    BY <1>4, <1>5, <1>6, <1>7 DEF Coverage, Got, Owed

(* Endpoints and the environment change no debt of a subscriber. *)
LEMMA CoverageQuiet ==
    ASSUME TypeOK, Coverage,
           UNCHANGED <<cursor, missed, since, pending, connections, received>>,
           open' \subseteq open,
           \A w \in Sockets : pc[w] # "new" => pc'[w] # "new",
           \A m \in 1..Len(log) : log'[m] = log[m],
           \A t \in Tasks : frame'[t] # NoFrame =>
              \A w \in frame'[t].dead : w \notin open' /\ pc'[w] # "new",
           \A s \in Servers : frame'[s] # NoFrame => frame'[s] = frame[s]
    PROVE  Coverage'
<1>1. \A s \in Servers : \A v : Live(s, v)' = Live(s, v)
    BY DEF Live
<1>2. \A w \in open' : w \in open /\ Host[w] \in Servers
    BY DeliveryAssumption DEF TypeOK
<1>3. \A w \in open' : w \in Live(Host[w], Owner[w])'
    BY <1>1, <1>2 DEF Coverage
<1>4. \A w \in open' : Owed(w) => Owed(w)'
    BY <1>2 DEF Owed
<1>5. \A w \in Sockets : \A m : Got(w, m) => Got(w, m)'
    BY DEF Got
<1>6. QED
    BY <1>1, <1>3, <1>4, <1>5, CoverageKept

(* An iteration that fails forgets its frame; what the server still owed   *)
(* stays owed, and is never given if the iteration was the subscriber's.   *)
LEMMA CoverageRaises ==
    ASSUME TypeOK, Coverage, NEW t \in Tasks, SendRaises(t)
    PROVE  Coverage'
<1>1. UNCHANGED <<log, cursor, pending, missed, connections, since, received>>
    BY DEF SendRaises
<1>2. frame'[t] = NoFrame /\ \A x \in Tasks \ {t} : frame'[x] = frame[x]
    BY DEF SendRaises, TypeOK
<1>3. open' \subseteq open /\ \A w \in Sockets : pc'[w] = pc[w] \/ pc'[w] = "gone"
    BY DEF SendRaises, TypeOK
<1>4. ASSUME NEW x \in Tasks, frame'[x] # NoFrame, NEW w \in frame'[x].dead
      PROVE  w \notin open' /\ pc'[w] # "new"
    <2>1. frame'[x] = frame[x] /\ frame[x] \in Frame
        BY <1>2, <1>4 DEF TypeOK
    <2>2. w \in Sockets
        BY <1>4, <2>1 DEF Frame
    <2>3. QED
        BY <1>3, <1>4, <2>1, <2>2 DEF Coverage
<1>5. \A s \in Servers : frame'[s] # NoFrame => frame'[s] = frame[s]
    BY <1>2 DEF Tasks
<1>6. QED
    BY <1>1, <1>3, <1>4, <1>5, CoverageQuiet

(* The steps of an endpoint keep Coverage. *)
LEMMA CoverageEndpoint ==
    ASSUME TypeOK, Coverage, NEW w \in Sockets, EndpointNext(w)
    PROVE  Coverage'
<1>1. w \in Tasks /\ w \notin Servers /\ Owner[w] \in Users /\ Home(w) = Host[w]
      /\ Host[w] \in Servers
    BY DeliveryAssumption DEF Tasks, Home
<1>2. CASE AnnounceOnline(w) \/ AnnounceOffline(w) \/ Receive(w)
    <2>1. PICK to \in SUBSET Users : Publish(to)
        BY <1>2 DEF AnnounceOnline, AnnounceOffline, Receive
    <2>2. UNCHANGED <<connections, frame, open, since, received>>
          /\ \A x \in Sockets : pc[x] # "new" => pc'[x] # "new"
        BY <1>2 DEF AnnounceOnline, AnnounceOffline, Receive, registryVars,
                    socketVars, TypeOK
    <2>3. UNCHANGED <<cursor, pending, missed>>
          /\ \A m \in 1..Len(log) : log'[m] = log[m]
        BY <2>1, PublishType, LogGrows
    <2>4. ASSUME NEW t \in Tasks, frame[t] # NoFrame, NEW x \in frame[t].dead
          PROVE  x \notin open /\ pc'[x] # "new"
        <3>1. frame[t] \in Frame
            BY <2>4 DEF TypeOK
        <3>2. QED
            BY <2>2, <2>4, <3>1 DEF Coverage, Frame
    <2>5. QED
        BY <2>2, <2>3, <2>4, CoverageQuiet
<1>3. CASE Greet(w) \/ Reply(w) \/ SendNext(w)
    <2>1. UNCHANGED <<channelVars, socketVars, connections, received>>
        BY <1>1, <1>3 DEF Greet, Reply, SendNext, SendFirst, Write
    <2>2. PICK u \in Users : \E x \in Live(Host[w], u) :
            /\ \A t \in Tasks \ {w} : frame'[t] = frame[t]
            /\ frame'[w].dead \subseteq DeadAfter(IF frame[w] = NoFrame THEN {}
                                                 ELSE frame[w].dead, x)
        <3>1. CASE SendNext(w)
            BY <1>1, <3>1, SendNextEffect DEF Frame
        <3>2. CASE Greet(w) \/ Reply(w)
            BY <1>1, <3>2, SendFirstEffect DEF Greet, Reply
        <3>3. QED
            BY <1>3, <3>1, <3>2
    <2>3. ASSUME NEW t \in Tasks, frame'[t] # NoFrame, NEW x \in frame'[t].dead
          PROVE  x \notin open' /\ pc'[x] # "new"
        <3>1. CASE t = w
            BY <1>1, <2>1, <2>2, <2>3, <3>1 DEF Coverage, DeadAfter, socketVars
        <3>2. CASE t # w
            BY <2>1, <2>2, <2>3, <3>2 DEF Coverage, socketVars
        <3>3. QED
            BY <3>1, <3>2
    <2>4. \A s \in Servers : frame'[s] = frame[s]
        BY <1>1, <2>2 DEF Tasks
    <2>5. QED
        BY <2>1, <2>3, <2>4, CoverageQuiet DEF channelVars, socketVars
<1>4. CASE HangUp(w) \/ SendEnd(w)
    <2>1. PICK u, ws : Unregister(w, u, ws) /\ \A x \in ws : x \notin open
        BY <1>1, <1>4 DEF HangUp, SendEnd, Coverage
    <2>2. /\ UNCHANGED <<log, cursor, pending, missed, open, since, received>>
          /\ \A x \in Sockets : pc[x] # "new" => pc'[x] # "new"
        BY <1>1, <1>4 DEF HangUp, SendEnd, channelVars, socketVars, TypeOK
    <2>3. /\ \A t \in Tasks : frame'[t] # NoFrame =>
                \A x \in frame'[t].dead : x \notin open /\ pc[x] # "new"
          /\ \A s \in Servers : \A v \in Users : Live(s, v)' \subseteq Live(s, v)
          /\ \A x \in open : x \in Live(Host[x], Owner[x])'
        BY <1>1, <2>1, CoverageUnregister
    <2>4. ASSUME NEW t \in Tasks, frame'[t] # NoFrame, NEW x \in frame'[t].dead
          PROVE  pc'[x] # "new"
        <3>1. frame' \in [Tasks -> Frame \cup {NoFrame}]
            BY <1>1, <2>1, UnregisterType
        <3>2. frame'[t] \in Frame
            BY <2>4, <3>1
        <3>3. QED
            BY <2>2, <2>3, <2>4, <3>2 DEF Frame
    <2>5. \A s \in Servers :
             /\ frame'[s] = NoFrame <=> frame[s] = NoFrame
             /\ frame[s] # NoFrame => /\ frame'[s].user = frame[s].user
                                     /\ frame'[s].todo = frame[s].todo
        BY <1>1, <2>1, UnregisterEffect DEF Tasks
    <2>6. \A x \in open : Owed(x) => Owed(x)'
        BY <2>2, <2>5, DeliveryAssumption DEF Owed, TypeOK
    <2>7. \A x \in Sockets : \A m : Got(x, m) => Got(x, m)'
        BY <2>2 DEF Got
    <2>8. QED
        BY <2>2, <2>3, <2>4, <2>6, <2>7, CoverageKept
<1>5. CASE EnterLoop(w)
    <2>1. /\ UNCHANGED <<channelVars, connections, frame, open, since, received>>
          /\ \A x \in Sockets : pc[x] # "new" => pc'[x] # "new"
        BY <1>5 DEF EnterLoop, registryVars, TypeOK
    <2>2. ASSUME NEW t \in Tasks, frame[t] # NoFrame, NEW x \in frame[t].dead
          PROVE  x \notin open /\ pc'[x] # "new"
        <3>1. frame[t] \in Frame
            BY <2>2 DEF TypeOK
        <3>2. QED
            BY <2>1, <2>2, <3>1 DEF Coverage, Frame
    <2>3. QED
        BY <2>1, <2>2, CoverageQuiet DEF channelVars
<1>6. QED
    BY <1>1, <1>2, <1>3, <1>4, <1>5, CoverageRaises DEF EndpointNext

(* Every step keeps Coverage. *)
LEMMA CoverageStep ==
    ASSUME TypeOK, Position, Coverage, [Next]_vars
    PROVE  Coverage'
<1>1. ASSUME NEW s \in Servers, SubscriberNext(s) PROVE Coverage'
    BY <1>1, CoverageWrite, CoverageServed, CoverageAdvance, CoverageRaises
    DEF SubscriberNext, Tasks
<1>2. CASE \E s \in Servers : ListenRaises(s)
    <2>1. UNCHANGED <<log, cursor, pending, missed, connections, since, received,
                      open, pc, frame>>
        BY <1>2 DEF ListenRaises, registryVars, socketVars
    <2>2. QED
        BY <2>1, CoverageQuiet DEF Coverage
<1>3. ASSUME NEW w \in Sockets, HandlerRaises(w) \/ Drop(w) PROVE Coverage'
    <2>1. /\ UNCHANGED <<channelVars, connections, frame, since, received>>
          /\ open' \subseteq open
          /\ \A x \in Sockets : pc[x] # "new" => pc'[x] # "new"
        BY <1>3 DEF HandlerRaises, Drop, registryVars, TypeOK
    <2>2. ASSUME NEW t \in Tasks, frame[t] # NoFrame, NEW x \in frame[t].dead
          PROVE  x \notin open' /\ pc'[x] # "new"
        <3>1. frame[t] \in Frame
            BY <2>2 DEF TypeOK
        <3>2. QED
            BY <2>1, <2>2, <3>1 DEF Coverage, Frame
    <2>3. QED
        BY <2>1, <2>2, CoverageQuiet DEF channelVars
<1>4. CASE UNCHANGED vars
    <2>1. UNCHANGED <<log, cursor, pending, missed, connections, since, received,
                      open, pc, frame>>
        BY <1>4 DEF vars, channelVars, registryVars, socketVars
    <2>2. QED
        BY <2>1, CoverageQuiet DEF Coverage
<1>5. QED
    BY <1>1, <1>2, <1>3, <1>4, CoverageEndpoint, CoverageConnect, CoverageAdvance
    DEF Next, Environment

(* Coverage is an invariant: see its comment in Delivery. *)
THEOREM CoverageInvariant == Spec => []Coverage
<1>1. Init => Coverage
    <2> SUFFICES ASSUME Init PROVE Coverage
        OBVIOUS
    <2>1. \A s \in Servers : \A u : Live(s, u) = {}
        BY DEF Init, Live, SocketsOf, IsOnline, EmptyRegistry
    <2>2. (\A t \in Tasks : frame[t] = NoFrame) /\ open = {}
        BY DEF Init
    <2>3. QED
        BY <2>1, <2>2 DEF Coverage
<1>2. TypeOK /\ Position /\ Coverage /\ [Next]_vars => Coverage'
    BY CoverageStep
<1>3. QED
    BY <1>1, <1>2, TypeInvariant, PositionInvariant, PTL DEF Spec

(* No socket that is up misses a payload its server finished broadcasting. *)
THEOREM Completeness == Spec => []Complete
<1>1. TypeOK /\ Coverage => Complete
    <2> SUFFICES ASSUME TypeOK, Coverage, NEW w \in open,
                        NEW m \in (since[w] + 1)..Done(Host[w]),
                        Owner[w] \in log[m], m \notin missed[Host[w]]
                 PROVE  \E i \in 1..Len(received[w]) : received[w][i] = m
        BY DEF Complete
    <2>1. Host[w] \in Servers /\ cursor[Host[w]] \in Nat /\ since[w] \in Nat
        BY DeliveryAssumption DEF TypeOK
    <2>2. m \in (since[w] + 1)..cursor[Host[w]]
        BY <2>1 DEF Done
    <2>3. m = cursor[Host[w]] => pending[Host[w]] = {}
        BY <2>1 DEF Done
    <2>4. QED
        BY <2>2, <2>3 DEF Coverage
<1>2. QED
    BY <1>1, TypeInvariant, CoverageInvariant, PTL
-----------------------------------------------------------------------------
(* No entry of a registry is empty: is_online is "has a socket". *)
Filled == \A s \in Servers : \A u \in DOMAIN connections[s] : connections[s][u] # {}

(* connect leaves no empty entry... *)
LEMMA ConnectedFilled ==
    ASSUME NEW reg \in Registry, NEW u, NEW w, \A v \in DOMAIN reg : reg[v] # {}
    PROVE  \A v \in DOMAIN Connected(reg, u, w) : Connected(reg, u, w)[v] # {}
BY DEF Connected

(* ... and neither does disconnect, which takes the entry with its last    *)
(* socket. *)
LEMMA DisconnectedFilled ==
    ASSUME NEW reg \in Registry, NEW u, NEW ws, \A v \in DOMAIN reg : reg[v] # {}
    PROVE  \A v \in DOMAIN Disconnected(reg, u, ws) : Disconnected(reg, u, ws)[v] # {}
BY DEF Disconnected

(* One server's registry becomes another without empty entries. *)
LEMMA FilledChange ==
    ASSUME TypeOK, Filled, NEW s \in Servers, NEW reg,
           connections' = [connections EXCEPT ![s] = reg],
           \A v \in DOMAIN reg : reg[v] # {}
    PROVE  Filled'
BY DEF Filled, TypeOK

(* disconnect() of the dead sockets, or of the one that hung up. *)
LEMMA FilledUnregister ==
    ASSUME TypeOK, Filled, NEW t \in Tasks, NEW u, NEW ws, Unregister(t, u, ws)
    PROVE  Filled'
<1>1. Home(t) \in Servers
    BY LiveType
<1>2. connections[Home(t)] \in Registry
    BY <1>1 DEF TypeOK
<1>3. \A v \in DOMAIN connections[Home(t)] : connections[Home(t)][v] # {}
    BY <1>1 DEF Filled
<1> DEFINE reg == Disconnected(connections[Home(t)], u, ws)
<1>4. \A v \in DOMAIN reg : reg[v] # {}
    BY <1>2, <1>3, DisconnectedFilled
<1>5. connections' = [connections EXCEPT ![Home(t)] = reg]
    BY DEF Unregister
<1> HIDE DEF reg
<1>6. QED
    BY <1>1, <1>4, <1>5, FilledChange

(* Only connect and disconnect change a registry. *)
LEMMA FilledStep ==
    ASSUME TypeOK, Filled, [Next]_vars
    PROVE  Filled'
<1>1. ASSUME UNCHANGED connections PROVE Filled'
    BY <1>1 DEF Filled
<1>2. ASSUME NEW t \in Tasks, SendNext(t) \/ SendRaises(t) PROVE Filled'
    <2>1. UNCHANGED connections
        <3>1. CASE SendNext(t)
            BY <3>1 DEF SendNext
        <3>2. CASE SendRaises(t)
            BY <3>2 DEF SendRaises
        <3>3. QED
            BY <1>2, <3>1, <3>2
    <2>2. QED
        BY <1>1, <2>1
<1>3. ASSUME NEW t \in Tasks, SendEnd(t) PROVE Filled'
    BY <1>3, FilledUnregister DEF SendEnd
<1>4. ASSUME NEW s \in Servers, SubscriberNext(s) PROVE Filled'
    <2>1. CASE Take(s) \/ \E u \in Users : SkipAbsent(s, u)
        BY <1>1, <2>1 DEF Take, SkipAbsent, registryVars
    <2>2. CASE \E u \in Users : Dispatch(s, u)
        BY <1>1, <2>2 DEF Dispatch, SendFirst
    <2>3. QED
        BY <1>2, <1>3, <1>4, <2>1, <2>2 DEF SubscriberNext, Tasks
<1>5. ASSUME NEW w \in Sockets, EndpointNext(w) PROVE Filled'
    <2>1. CASE AnnounceOnline(w) \/ EnterLoop(w) \/ Receive(w) \/ AnnounceOffline(w)
        BY <1>1, <2>1
        DEF AnnounceOnline, EnterLoop, Receive, AnnounceOffline, registryVars
    <2>2. CASE Greet(w) \/ Reply(w)
        BY <1>1, <2>2 DEF Greet, Reply, SendFirst
    <2>3. CASE HangUp(w)
        BY <2>3, FilledUnregister DEF HangUp, Tasks
    <2>4. QED
        BY <1>2, <1>3, <1>5, <2>1, <2>2, <2>3 DEF EndpointNext, Tasks
<1>6. ASSUME NEW w \in Sockets, Connect(w) PROVE Filled'
    <2>1. Host[w] \in Servers /\ connections[Host[w]] \in Registry
        BY DeliveryAssumption DEF TypeOK
    <2> DEFINE reg == Connected(connections[Host[w]], Owner[w], w)
    <2>2. \A v \in DOMAIN reg : reg[v] # {}
        BY <2>1, ConnectedFilled DEF Filled
    <2>3. connections' = [connections EXCEPT ![Host[w]] = reg]
        BY <1>6 DEF Connect
    <2> HIDE DEF reg
    <2>4. QED
        BY <2>1, <2>2, <2>3, FilledChange
<1>7. CASE \E s \in Servers : LoseGap(s) \/ ListenRaises(s)
    BY <1>1, <1>7 DEF LoseGap, ListenRaises, registryVars
<1>8. CASE (\E w \in Sockets : HandlerRaises(w) \/ Drop(w)) \/ UNCHANGED vars
    BY <1>1, <1>8 DEF HandlerRaises, Drop, vars, registryVars
<1>9. QED
    BY <1>4, <1>5, <1>6, <1>7, <1>8 DEF Next, Environment

(* The registries have every socket that is up, in its own place, and no   *)
(* empty entry: whatever sends fail while others connect and hang up,      *)
(* cleaning up never removes a working socket.                             *)
THEOREM RegistryExactness == Spec => []RegistryExact
<1>1. Init => Filled
    BY DEF Init, Filled, EmptyRegistry
<1>2. TypeOK /\ Filled /\ [Next]_vars => Filled'
    BY FilledStep
<1>3. TypeOK /\ Position /\ Coverage /\ Filled => RegistryExact
    <2> SUFFICES ASSUME TypeOK, Position, Coverage, Filled PROVE RegistryExact
        OBVIOUS
    <2>1. \A w \in open : w \in Live(Host[w], Owner[w])
        BY DEF Coverage
    <2>2. ASSUME NEW s \in Servers, NEW u \in DOMAIN connections[s],
                 NEW w \in connections[s][u]
          PROVE  Host[w] = s /\ Owner[w] = u
        <3>1. connections[s] \in Registry
            BY DEF TypeOK
        <3>2. u \in Users
            BY <3>1 DEF Registry
        <3>3. w \in Live(s, u)
            BY DEF Live, SocketsOf, IsOnline
        <3>4. QED
            BY <3>2, <3>3 DEF Position
    <2>3. QED
        BY <2>1, <2>2 DEF RegistryExact, Filled
<1>4. QED
    BY <1>1, <1>2, <1>3, TypeInvariant, PositionInvariant, CoverageInvariant, PTL
    DEF Spec
=============================================================================
