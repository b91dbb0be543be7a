------------------------------- MODULE TabProofs -------------------------------
(* Proofs about one tab.  Of its connection (ClientConnection), for any    *)
(* interval, timeout and number of pongs that may be missed: types, one    *)
(* attempt at a time, and the two bounds of the heartbeat.  Of its input   *)
(* line (Composer), for any rooms and bounds: types, that a loss is told,  *)
(* that the indicator comes right.                                         *)
EXTENDS ClientConnection, Composer, SequenceTheorems, TLAPS

(* What the heartbeat of an open socket adds up to: the watchdog belongs   *)
(* to the last ping, and the silence is as long as the pongs missed say.   *)
Watched ==
    watchdog # None =>
        /\ socket = "open" /\ ping # None /\ missed < MAX_MISSED_PONGS
        /\ ping - watchdog = PING_INTERVAL - PONG_TIMEOUT
        /\ quiet <= missed * PING_INTERVAL + PING_INTERVAL + PONG_TIMEOUT - watchdog
        /\ quiet >= missed * PING_INTERVAL + PONG_TIMEOUT - watchdog

Unwatched ==
    watchdog = None /\ socket = "open" /\ ping # None =>
        /\ missed < MAX_MISSED_PONGS
        /\ quiet <= missed * PING_INTERVAL + PING_INTERVAL - ping
        /\ missed > 0 => /\ quiet >= missed * PING_INTERVAL - ping
                         /\ ping <= PING_INTERVAL - PONG_TIMEOUT

(* The inductive invariant.  TypeOK is not inductive: that missed stays in *)
(* its range is a matter of the watchdog being set on an open socket only. *)
IInv ==
    /\ TypeOK /\ OneAttempt /\ Watched /\ Unwatched
    /\ socket = "open" /\ ~robbed => ping # None
    /\ mounted /\ socket \in {"open", "closing"} => once

(* The little multiplication the bounds need. *)
LEMMA Product ==
    ASSUME NEW m \in Nat, NEW n \in Nat, NEW p \in Nat
    PROVE  /\ m * p \in Nat
           /\ (m + 1) * p = m * p + p
           /\ 0 * p = 0
           /\ m < n => m * p + p <= n * p
<1>1. m * p \in Nat /\ (m + 1) * p = m * p + p /\ 0 * p = 0
    OBVIOUS
<1>2. ASSUME m < n PROVE m * p + p <= n * p
    <2>1. PICK d \in Nat : n = m + 1 + d
        <3>1. n - m - 1 \in Nat /\ n = m + 1 + (n - m - 1)
            BY <1>2
        <3>2. QED
            BY <3>1
    <2>2. n * p = m * p + p + d * p /\ d * p \in Nat
        BY <2>1
    <2>3. QED
        BY <2>2, <1>1
<1>3. QED
    BY <1>1, <1>2

(* The effect's first run establishes the invariant. *)
LEMMA InitInvariant == Init => IInv
<1>1. SUFFICES ASSUME Init PROVE IInv
    OBVIOUS
<1>2. Patience \in Nat
    BY ConnectionAssumption, Product DEF Patience
<1>3. TypeOK
    <2>1. /\ 0 \in 0..MaxRetries /\ 0 \in 0..MAX_MISSED_PONGS
          /\ 0 \in 0..(Patience + 1)
        BY <1>2, ConnectionAssumption
    <2>2. QED
        BY <1>1, <2>1 DEF Init, TypeOK
<1>4. OneAttempt /\ Watched /\ Unwatched
    BY <1>1 DEF Init, OneAttempt, Watched, Unwatched, None
<1>5. QED
    BY <1>1, <1>3, <1>4 DEF IInv, Init

(* Ranges, and the products as numbers the solvers take as they are. *)
LEMMA Numbers ==
    ASSUME TypeOK
    PROVE  /\ PING_INTERVAL \in Nat /\ PONG_TIMEOUT \in Nat \ {0}
           /\ PONG_TIMEOUT < PING_INTERVAL
           /\ MAX_MISSED_PONGS \in Nat \ {0} /\ MaxRetries \in Nat \ {0}
           /\ Patience \in Nat
           /\ missed \in Nat /\ missed <= MAX_MISSED_PONGS
           /\ retryCount \in Nat /\ retryCount <= MaxRetries
           /\ ping \in Int /\ watchdog \in Int /\ quiet \in Nat
           /\ ping # None => ping >= 0 /\ ping <= PING_INTERVAL
           /\ watchdog # None => watchdog >= 0 /\ watchdog <= PONG_TIMEOUT
           /\ quiet <= Patience + 1
           /\ missed * PING_INTERVAL \in Nat
           /\ (missed + 1) * PING_INTERVAL = missed * PING_INTERVAL + PING_INTERVAL
           /\ missed < MAX_MISSED_PONGS =>
                 missed * PING_INTERVAL + PING_INTERVAL + PONG_TIMEOUT <= Patience
           /\ 0 * PING_INTERVAL = 0
<1>1. Patience \in Nat
    BY ConnectionAssumption, Product DEF Patience
<1>2. missed \in Nat /\ MAX_MISSED_PONGS \in Nat /\ PING_INTERVAL \in Nat
    BY ConnectionAssumption DEF TypeOK
<1>3. /\ missed * PING_INTERVAL \in Nat
      /\ (missed + 1) * PING_INTERVAL = missed * PING_INTERVAL + PING_INTERVAL
      /\ 0 * PING_INTERVAL = 0
      /\ missed < MAX_MISSED_PONGS =>
            missed * PING_INTERVAL + PING_INTERVAL <= MAX_MISSED_PONGS * PING_INTERVAL
    BY <1>2, Product
<1>4. missed < MAX_MISSED_PONGS =>
          missed * PING_INTERVAL + PING_INTERVAL + PONG_TIMEOUT <= Patience
    BY <1>2, <1>3, ConnectionAssumption, Product DEF Patience
<1>5. QED
    BY <1>1, <1>2, <1>3, <1>4, ConnectionAssumption DEF TypeOK, None

(* Every callback, timer and user action keeps the invariant. *)
LEMMA StepInvariant == IInv /\ [Next]_vars => IInv'
<1> SUFFICES ASSUME IInv, [Next]_vars PROVE IInv'
    OBVIOUS
<1> USE Numbers DEF IInv
<1>1. CASE Open
    <2>1. TypeOK'
        <3>1. behind' \in BOOLEAN
            BY <1>1 DEF Open
        <3>2. quiet' \in 0..(Patience + 1) /\ retryCount' \in 0..MaxRetries
              /\ missed' \in 0..MAX_MISSED_PONGS /\ ping' \in {None} \cup 0..PING_INTERVAL
            BY <1>1 DEF Open, TypeOK
        <3>3. QED
            BY <1>1, <3>1, <3>2 DEF Open, TypeOK
    <2>2. OneAttempt'
        BY <1>1 DEF Open, OneAttempt
    <2>3. Watched'
        BY <1>1 DEF Open, Watched
    <2>4. Unwatched'
        BY <1>1 DEF Open, Unwatched
    <2>5. (socket = "open" /\ ~robbed => ping # None)'
        BY <1>1 DEF Open, None
    <2>6. (mounted /\ socket \in {"open", "closing"} => once)'
        BY <1>1 DEF Open
    <2>7. QED
        BY <2>1, <2>2, <2>3, <2>4, <2>5, <2>6
<1>2. CASE PingDue
    <2>1. TypeOK'
        BY <1>2 DEF PingDue, TypeOK
    <2>2. OneAttempt'
        BY <1>2 DEF PingDue, OneAttempt, None
    <2>3. Watched'
        BY <1>2 DEF PingDue, OneAttempt, Watched, Unwatched, None
    <2>4. Unwatched'
        BY <1>2 DEF PingDue, Unwatched, None
    <2>5. (socket = "open" /\ ~robbed => ping # None)'
        BY <1>2 DEF PingDue, None
    <2>6. (mounted /\ socket \in {"open", "closing"} => once)'
        BY <1>2 DEF PingDue
    <2>7. QED
        BY <2>1, <2>2, <2>3, <2>4, <2>5, <2>6
<1>3. CASE WatchdogDue
    <2>1. TypeOK'
        BY <1>3 DEF WatchdogDue, Closing, TypeOK, Watched, None
    <2>2. OneAttempt'
        BY <1>3 DEF WatchdogDue, Closing, OneAttempt, None
    <2>3. Watched'
        BY <1>3 DEF WatchdogDue, Closing, Watched
    <2>4. Unwatched'
        BY <1>3 DEF WatchdogDue, Closing, Watched, Unwatched, None
    <2>5. (socket = "open" /\ ~robbed => ping # None)'
        BY <1>3 DEF WatchdogDue, Closing
    <2>6. (mounted /\ socket \in {"open", "closing"} => once)'
        BY <1>3 DEF WatchdogDue, Closing, Watched, None
    <2>7. QED
        BY <2>1, <2>2, <2>3, <2>4, <2>5, <2>6
<1>4. CASE Pong
    <2>1. TypeOK'
        BY <1>4 DEF Pong, TypeOK
    <2>2. OneAttempt'
        BY <1>4 DEF Pong, OneAttempt
    <2>3. Watched'
        BY <1>4 DEF Pong, Watched
    <2>4. Unwatched'
        BY <1>4 DEF Pong, Unwatched
    <2>5. (socket = "open" /\ ~robbed => ping # None)'
        BY <1>4 DEF Pong
    <2>6. (mounted /\ socket \in {"open", "closing"} => once)'
        BY <1>4 DEF Pong
    <2>7. QED
        BY <2>1, <2>2, <2>3, <2>4, <2>5, <2>6
<1>5. CASE Close
    <2>1. TypeOK'
        <3>1. behind' \in BOOLEAN
            BY <1>5 DEF Close
        <3>2. retryCount' \in 0..MaxRetries
            BY <1>5 DEF Close, TypeOK
        <3>3. status' \in {"connecting", "connected", "reconnecting"}
              /\ reconnect' \in BOOLEAN
            BY <1>5 DEF Close, TypeOK
        <3>4. QED
            BY <1>5, <3>1, <3>2, <3>3 DEF Close, StopHeartbeat, TypeOK
    <2>2. OneAttempt'
        <3>1. CASE mounted
            <4>1. status' = IF once THEN "reconnecting" ELSE "connecting"
                BY <1>5, <3>1 DEF Close, OneAttempt, TypeOK
            <4>2. QED
                BY <1>5, <3>1, <4>1 DEF Close, StopHeartbeat, OneAttempt
        <3>2. CASE ~mounted
            BY <1>5, <3>2 DEF Close, StopHeartbeat, OneAttempt
        <3>3. QED
            BY <3>1, <3>2
    <2>3. Watched'
        BY <1>5 DEF Close, StopHeartbeat, Watched
    <2>4. Unwatched'
        BY <1>5 DEF Close, StopHeartbeat, Unwatched
    <2>5. (socket = "open" /\ ~robbed => ping # None)'
        BY <1>5 DEF Close, StopHeartbeat
    <2>6. (mounted /\ socket \in {"open", "closing"} => once)'
        BY <1>5 DEF Close, StopHeartbeat
    <2>7. QED
        BY <2>1, <2>2, <2>3, <2>4, <2>5, <2>6
<1>6. CASE CloseFirst
    <2>1. TypeOK'
        BY <1>6 DEF CloseFirst, StopHeartbeat, TypeOK
    <2>2. OneAttempt'
        BY <1>6 DEF CloseFirst, StopHeartbeat, OneAttempt
    <2>3. Watched'
        BY <1>6 DEF CloseFirst, StopHeartbeat, Watched
    <2>4. Unwatched'
        BY <1>6 DEF CloseFirst, StopHeartbeat, Unwatched
    <2>5. (socket = "open" /\ ~robbed => ping # None)'
        BY <1>6 DEF CloseFirst, StopHeartbeat
    <2>6. (mounted /\ socket \in {"open", "closing"} => once)'
        BY <1>6 DEF CloseFirst, StopHeartbeat
    <2>7. QED
        BY <2>1, <2>2, <2>3, <2>4, <2>5, <2>6
<1>7. CASE Reconnect
    <2>1. TypeOK'
        BY <1>7 DEF Reconnect, heartbeat, TypeOK
    <2>2. OneAttempt'
        BY <1>7 DEF Reconnect, heartbeat, OneAttempt
    <2>3. Watched'
        BY <1>7 DEF Reconnect, heartbeat, OneAttempt, Watched, None
    <2>4. Unwatched'
        BY <1>7 DEF Reconnect, heartbeat, Unwatched
    <2>5. (socket = "open" /\ ~robbed => ping # None)'
        BY <1>7 DEF Reconnect, heartbeat
    <2>6. (mounted /\ socket \in {"open", "closing"} => once)'
        BY <1>7 DEF Reconnect, heartbeat
    <2>7. QED
        BY <2>1, <2>2, <2>3, <2>4, <2>5, <2>6
<1>8. CASE Logout
    <2>1. TypeOK'
        BY <1>8 DEF Logout, Cleanup, StopHeartbeat, Closing, TypeOK
    <2>2. OneAttempt'
        BY <1>8 DEF Logout, Cleanup, StopHeartbeat, Closing, TypeOK, OneAttempt, None
    <2>3. Watched'
        BY <1>8 DEF Logout, Cleanup, StopHeartbeat, Closing, Watched
    <2>4. Unwatched'
        BY <1>8 DEF Logout, Cleanup, StopHeartbeat, Closing, Unwatched
    <2>5. (socket = "open" /\ ~robbed => ping # None)'
        BY <1>8 DEF Logout, Cleanup, StopHeartbeat, Closing
    <2>6. (mounted /\ socket \in {"open", "closing"} => once)'
        BY <1>8 DEF Logout, Cleanup, StopHeartbeat, Closing
    <2>7. QED
        BY <2>1, <2>2, <2>3, <2>4, <2>5, <2>6
<1>9. CASE EnterRoom
    <2>1. TypeOK'
        BY <1>9 DEF EnterRoom, Cleanup, StopHeartbeat, Closing, TypeOK
    <2>2. OneAttempt'
        BY <1>9 DEF EnterRoom, Cleanup, StopHeartbeat, Closing, OneAttempt
    <2>3. Watched'
        BY <1>9 DEF EnterRoom, Cleanup, StopHeartbeat, Closing, Watched
    <2>4. Unwatched'
        BY <1>9 DEF EnterRoom, Cleanup, StopHeartbeat, Closing, Unwatched
    <2>5. (socket = "open" /\ ~robbed => ping # None)'
        BY <1>9 DEF EnterRoom, Cleanup, StopHeartbeat, Closing
    <2>6. (mounted /\ socket \in {"open", "closing"} => once)'
        BY <1>9 DEF EnterRoom, Cleanup, StopHeartbeat, Closing
    <2>7. QED
        BY <2>1, <2>2, <2>3, <2>4, <2>5, <2>6
<1>10. CASE FallSilent
    <2>1. TypeOK'
        BY <1>10 DEF FallSilent, heartbeat, TypeOK
    <2>2. OneAttempt'
        BY <1>10 DEF FallSilent, heartbeat, OneAttempt
    <2>3. Watched'
        BY <1>10 DEF FallSilent, heartbeat, Watched
    <2>4. Unwatched'
        BY <1>10 DEF FallSilent, heartbeat, Unwatched
    <2>5. (socket = "open" /\ ~robbed => ping # None)'
        BY <1>10 DEF FallSilent, heartbeat
    <2>6. (mounted /\ socket \in {"open", "closing"} => once)'
        BY <1>10 DEF FallSilent, heartbeat
    <2>7. QED
        BY <2>1, <2>2, <2>3, <2>4, <2>5, <2>6
<1>11. CASE Tick
    <2>1. TypeOK'
        BY <1>11 DEF Tick, TypeOK
    <2>2. OneAttempt'
        BY <1>11 DEF Tick, OneAttempt
    <2>3. Watched'
        BY <1>11 DEF Tick, Watched, None
    <2>4. Unwatched'
        BY <1>11 DEF Tick, TypeOK, Unwatched, None
    <2>5. (socket = "open" /\ ~robbed => ping # None)'
        BY <1>11 DEF Tick, None
    <2>6. (mounted /\ socket \in {"open", "closing"} => once)'
        BY <1>11 DEF Tick
    <2>7. QED
        BY <2>1, <2>2, <2>3, <2>4, <2>5, <2>6
<1>12. CASE UNCHANGED vars
    BY <1>12 DEF vars, heartbeat, TypeOK, OneAttempt, Watched, Unwatched
<1>13. QED
    BY <1>1, <1>2, <1>3, <1>4, <1>5, <1>6, <1>7, <1>8, <1>9, <1>10, <1>11, <1>12 DEF Next
-----------------------------------------------------------------------------
(* The invariant holds throughout. *)
THEOREM HeartbeatInvariant == Spec => []IInv
<1>1. QED
    BY InitInvariant, StepInvariant, PTL DEF Spec

(* Every variable of useWebSocket stays in its range, the count of missed  *)
(* pongs included. *)
THEOREM TypeInvariant == Spec => []TypeOK
<1>1. IInv => TypeOK
    BY DEF IInv
<1>2. QED
    BY <1>1, HeartbeatInvariant, PTL

(* One attempt to be connected at a time while the tab is there, none      *)
(* after a logout (connect, onclose and the cleanup of the effect). *)
THEOREM AlwaysOneAttempt == Spec => []OneAttempt
<1>1. IInv => OneAttempt
    BY DEF IInv
<1>2. QED
    BY <1>1, HeartbeatInvariant, PTL

(* A dead socket is closed in time, whatever the interval, the timeout and *)
(* the number of pongs that may be missed (startHeartbeat). *)
THEOREM DeadSocketGivenUp == Spec => []GivenUpInTime
<1>1. IInv => GivenUpInTime
    <2>1. SUFFICES ASSUME IInv, socket = "open", ~robbed PROVE quiet <= Patience
        BY DEF GivenUpInTime
    <2>2. TypeOK /\ Watched /\ Unwatched /\ ping # None
        BY <2>1 DEF IInv
    <2>3. CASE watchdog = None
        BY <2>1, <2>2, <2>3, Numbers DEF Unwatched
    <2>4. CASE watchdog # None
        BY <2>1, <2>2, <2>4, Numbers DEF Watched
    <2>5. QED
        BY <2>3, <2>4
<1>2. QED
    BY <1>1, HeartbeatInvariant, PTL

(* No live socket is closed for a pong that was merely late (startHeartbeat *)
(* and the pong branch of onmessage). *)
THEOREM LiveSocketKept == Spec => ClosedOnlyWhenQuiet
<1> DEFINE Kept == socket = "open" /\ socket' = "closing" /\ mounted' =>
                     quiet >= (MAX_MISSED_PONGS - 1) * PING_INTERVAL + PONG_TIMEOUT
<1>1. IInv /\ [Next]_vars => [Kept]_vars
    <2>1. SUFFICES ASSUME IInv, [Next]_vars, socket = "open", socket' = "closing",
                          mounted'
                   PROVE quiet >= (MAX_MISSED_PONGS - 1) * PING_INTERVAL + PONG_TIMEOUT
        OBVIOUS
    <2>2. WatchdogDue
        BY <2>1 DEF Next, vars, Open, PingDue, Pong, Close, CloseFirst, Reconnect,
                    Logout, EnterRoom, Cleanup, FallSilent, Tick
    <2>3. watchdog = 0 /\ missed + 1 >= MAX_MISSED_PONGS
        BY <2>1, <2>2 DEF WatchdogDue
    <2>4. TypeOK /\ missed < MAX_MISSED_PONGS
          /\ quiet >= missed * PING_INTERVAL + PONG_TIMEOUT
        BY <2>1, <2>3, Numbers DEF IInv, Watched, None
    <2>5. missed = MAX_MISSED_PONGS - 1
        BY <2>3, <2>4, Numbers
    <2>6. QED
        BY <2>4, <2>5
<1>2. QED
    BY <1>1, HeartbeatInvariant, PTL DEF Spec, ClosedOnlyWhenQuiet
-----------------------------------------------------------------------------
(* The input line.  The frame the endpoint reads next is one.              *)
LEMMA HeadFrame ==
    ASSUME LineTypeOK, wire # <<>>
    PROVE  /\ Head(wire) \in Frame /\ Tail(wire) \in Seq(Frame)
           /\ Head(wire).room \in Rooms
           /\ Head(wire).type \in {"typing.start", "typing.stop", "message.send"}
           /\ Head(wire).type = "message.send" => Head(wire).id \in 1..MaxSends
BY DEF LineTypeOK, Frame

(* A push keeps the frames on the wire frames.                             *)
LEMMA PushTyped ==
    ASSUME LineTypeOK, NEW fs \in Seq(Frame), Push(fs)
    PROVE  wire' \in Seq(Frame)
BY DEF LineTypeOK, Push

LEMMA FramesTyped ==
    /\ \A r \in Rooms : <<Start(r)>> \in Seq(Frame) /\ <<Stop(r)>> \in Seq(Frame)
    /\ \A r \in Rooms, m \in 1..MaxSends :
          <<[type |-> "message.send", room |-> r, id |-> m]>> \in Seq(Frame)
<1>1. \A r \in Rooms : Start(r) \in Frame /\ Stop(r) \in Frame
    BY DEF Start, Stop, Frame
<1>2. \A r \in Rooms, m \in 1..MaxSends :
          [type |-> "message.send", room |-> r, id |-> m] \in Frame
    BY DEF Frame
<1> HIDE DEF Frame, Start, Stop
<1>3. QED
    BY <1>1, <1>2

(* What is lost without a sign stays a set of messages.                    *)
LEMMA LoseTyped ==
    ASSUME LineTypeOK, NEW lost \in SUBSET (1..MaxSends), NEW due, Lose(lost, due)
    PROVE  untold' \subseteq 1..MaxSends /\ hidden' \subseteq untold'
BY DEF LineTypeOK, Lose

LEMMA LineTypeInit == LineInit => LineTypeOK
<1> SUFFICES ASSUME LineInit PROVE LineTypeOK
    OBVIOUS
<1>1. <<>> \in Seq(Rooms) /\ <<>> \in Seq(Frame) /\ <<>> \in Seq(Indicator)
    OBVIOUS
<1>2. 0 \in 0..Limit /\ 0 \in 0..MaxSends /\ 0 \in 0..MaxKeys /\ 0 \in 0..MaxMoves
      /\ 0 \in 0..MaxDrops
    BY ComposerAssumption
<1>3. QED
    BY <1>1, <1>2 DEF LineInit, LineTypeOK

LEMMA LineTyped ==
    ASSUME LineTypeOK, \/ \E c \in {"blank", "text"} : HandleChange(c)
                   \/ HandleSubmit \/ TimerFires \/ StrayFires
    PROVE  LineTypeOK'
<1>1. ASSUME NEW c \in {"blank", "text"}, HandleChange(c) PROVE LineTypeOK'
    <2>1. room \in Rooms /\ keys + 1 \in 0..MaxKeys /\ timer' \in Rooms \cup {NoRoom}
        BY <1>1, ComposerAssumption DEF LineTypeOK, HandleChange
    <2>2. wire' \in Seq(Frame)
        BY <1>1, <2>1, FramesTyped, PushTyped DEF HandleChange, LineTypeOK
    <2>3. spoiled' \subseteq Rooms
        BY <1>1, <2>1 DEF HandleChange, LineTypeOK, Sends
    <2>4. QED
        BY <1>1, <2>1, <2>2, <2>3
           DEF HandleChange, LineTypeOK, netVars, otherVars
<1>2. CASE HandleSubmit
    <2>1. room \in Rooms /\ sent + 1 \in 1..MaxSends /\ sent + 1 \in 0..MaxSends
        BY <1>2, ComposerAssumption DEF LineTypeOK, HandleSubmit
    <2>2. wire' \in Seq(Frame)
        <3>1. PICK message : message = [type |-> "message.send", room |-> room,
                                        id |-> sent + 1]
            OBVIOUS
        <3>2. /\ <<message>> \in Seq(Frame) /\ <<Stop(room)>> \in Seq(Frame)
              /\ <<>> \in Seq(Frame)
            BY <2>1, <3>1, FramesTyped, EmptySeq
        <3>3. /\ <<message>> \o <<Stop(room)>> \in Seq(Frame)
              /\ <<message>> \o <<>> \in Seq(Frame)
            BY <3>2, ConcatProperties
        <3>4. Push(<<message>> \o IF isTyping THEN <<Stop(room)>> ELSE <<>>)
            BY <1>2, <3>1 DEF HandleSubmit
        <3>5. CASE isTyping
            BY <3>3, <3>4, <3>5, PushTyped
        <3>6. CASE ~isTyping
            BY <3>3, <3>4, <3>6, PushTyped
        <3>7. QED
            BY <3>5, <3>6
    <2>3. spoiled' \subseteq Rooms
        BY <1>2, <2>1 DEF HandleSubmit, LineTypeOK, Sends
    <2>4. untold' \subseteq 1..MaxSends /\ hidden' \subseteq untold'
        BY <1>2, <2>1, LoseTyped DEF HandleSubmit
    <2>5. QED
        BY <1>2, <2>1, <2>2, <2>3, <2>4 DEF HandleSubmit, LineTypeOK, netVars, otherVars
<1>3. CASE TimerFires
    <2>1. timer \in Rooms
        BY <1>3 DEF TimerFires, LineTypeOK
    <2>2. wire' \in Seq(Frame)
        BY <1>3, <2>1, FramesTyped, PushTyped DEF TimerFires
    <2>3. QED
        BY <1>3, <2>1, <2>2
           DEF TimerFires, LineTypeOK, Sends, netVars, otherVars, counters
<1>4. CASE StrayFires
    <2>1. Head(strays) \in Rooms /\ Tail(strays) \in Seq(Rooms)
        BY <1>4 DEF StrayFires, LineTypeOK
    <2>2. wire' \in Seq(Frame)
        BY <1>4, <2>1, FramesTyped, PushTyped DEF StrayFires
    <2>3. spoiled' \subseteq Rooms
        BY <1>4, <2>1 DEF StrayFires, LineTypeOK, Sends
    <2>4. QED
        BY <1>4, <2>1, <2>2, <2>3 DEF StrayFires, LineTypeOK, netVars, otherVars, counters
<1>5. QED
    BY <1>1, <1>2, <1>3, <1>4

LEMMA PageTyped ==
    ASSUME LineTypeOK, \/ \E r \in Rooms : SelectRoom(r) \/ LeaveElsewhere(r)
                   \/ CloseRoom \/ Resize \/ Connected \/ ConnectionLost \/ Retry
    PROVE  LineTypeOK'
<1>1. ASSUME NEW r \in Rooms, SelectRoom(r) PROVE LineTypeOK'
    <2>1. moves + 1 \in 0..MaxMoves
        BY <1>1, ComposerAssumption DEF LineTypeOK, SelectRoom
    <2>2. untold' \subseteq 1..MaxSends /\ hidden' \subseteq untold'
        BY <1>1, LoseTyped DEF SelectRoom
    <2>3. QED
        BY <1>1, <2>1, <2>2 DEF SelectRoom, LineTypeOK, netVars, serverVars, otherVars
<1>2. ASSUME NEW r \in Rooms, LeaveElsewhere(r) PROVE LineTypeOK'
    <2>1. moves + 1 \in 0..MaxMoves
        BY <1>2, ComposerAssumption DEF LineTypeOK, LeaveElsewhere
    <2>2. QED
        BY <1>2, <2>1 DEF LeaveElsewhere, LineTypeOK, lineVars, netVars, otherVars
<1>3. CASE CloseRoom
    <2>1. strays' \in Seq(Rooms)
        BY <1>3 DEF CloseRoom, LineTypeOK
    <2>2. QED
        BY <1>3, <2>1 DEF CloseRoom, LineTypeOK, netVars, serverVars, otherVars, counters
<1>4. CASE Resize
    <2>1. moves + 1 \in 0..MaxMoves
        BY <1>4, ComposerAssumption DEF LineTypeOK, Resize
    <2>2. QED
        BY <1>4, <2>1 DEF Resize, LineTypeOK, lineVars, netVars, serverVars, otherVars
<1>5. CASE Connected \/ Retry
    BY <1>5 DEF Connected, Retry, LineTypeOK, lineVars, serverVars, otherVars, counters
<1>6. CASE ConnectionLost
    <2>1. drops + 1 \in 0..MaxDrops
        BY <1>6, ComposerAssumption DEF LineTypeOK, ConnectionLost
    <2>2. TypingRooms(wire) \subseteq Rooms
          /\ {f.id : f \in {g \in Range(wire) : g.type = "message.send"}} \subseteq 1..MaxSends
        <3>1. Range(wire) \subseteq Frame
            BY DEF LineTypeOK, Range
        <3>2. QED
            BY <3>1 DEF TypingRooms, Frame
    <2>3. untold' \subseteq 1..MaxSends /\ hidden' \subseteq untold'
        <3>1. PICK lost : lost = errors \cup {f.id : f \in {g \in Range(wire) :
                                                        g.type = "message.send"}}
            OBVIOUS
        <3>2. lost \in SUBSET (1..MaxSends) /\ Lose(lost, seen)
            BY <1>6, <2>2, <3>1 DEF ConnectionLost, LineTypeOK
        <3>3. QED
            BY <3>2, LoseTyped
    <2>4. <<>> \in Seq(Frame)
        OBVIOUS
    <2>5. QED
        BY <1>6, <2>1, <2>2, <2>3, <2>4
           DEF ConnectionLost, LineTypeOK, lineVars, otherVars
<1>7. QED
    BY <1>1, <1>2, <1>3, <1>4, <1>5, <1>6

LEMMA EndpointTyped ==
    ASSUME LineTypeOK, \/ HandleTyping \/ HandleSend \/ WindowEnds \/ ToastEnds
                   \/ \E m \in 1..MaxSends : OnError(m)
    PROVE  LineTypeOK'
<1>1. CASE HandleTyping
    <2>1. PICK f \in Frame : f = Head(wire) /\ f.room \in Rooms /\ wire' \in Seq(Frame)
        BY <1>1, HeadFrame DEF HandleTyping
    <2>2. [room |-> f.room, is_typing |-> f.type = "typing.start"] \in Indicator
        BY <2>1 DEF Indicator
    <2>3. feed' \in Seq(Indicator) /\ spoiled' \subseteq Rooms
        <3>1. PICK n \in Indicator :
                 n = [room |-> f.room, is_typing |-> f.type = "typing.start"]
            BY <2>2
        <3>2. \/ watching /\ feed' = Append(feed, n) /\ spoiled' = spoiled
              \/ ~watching /\ feed' = feed /\ spoiled' = spoiled \cup {f.room}
            BY <1>1, <2>1, <3>1 DEF HandleTyping
        <3>3. feed \in Seq(Indicator) /\ spoiled \subseteq Rooms
            BY DEF LineTypeOK
        <3>4. Append(feed, n) \in Seq(Indicator)
            <4>1. \A S : \A q \in Seq(S), e \in S : Append(q, e) \in Seq(S)
                OBVIOUS
            <4>2. QED
                BY <3>3, <4>1
        <3>5. spoiled \cup {f.room} \subseteq Rooms
            BY <2>1, <3>3
        <3>6. QED
            BY <3>2, <3>3, <3>4, <3>5
    <2>4. QED
        BY <1>1, <2>1, <2>3 DEF HandleTyping, LineTypeOK, lineVars, netVars, counters
<1>2. CASE HandleSend
    <2>1. PICK f \in Frame : /\ f = Head(wire) /\ f.room \in Rooms /\ wire' \in Seq(Frame)
                             /\ f.id \in 1..MaxSends
        BY <1>2, HeadFrame DEF HandleSend
    <2>2. CASE hits < Limit
        <3>1. Accept(f) /\ hits + 1 \in 0..Limit
            <4>1. Accept(f)
                BY <1>2, <2>1, <2>2 DEF HandleSend
            <4>2. hits \in Nat /\ Limit \in Nat
                BY ComposerAssumption DEF LineTypeOK
            <4>3. QED
                BY <2>2, <4>1, <4>2
        <3>2. (IF f.room \in left THEN {f.id} ELSE {}) \in SUBSET (1..MaxSends)
            BY <2>1
        <3>3. untold' \subseteq 1..MaxSends /\ hidden' \subseteq untold'
            BY <3>1, <3>2, LoseTyped DEF Accept
        <3>4. QED
            BY <1>2, <2>1, <3>1, <3>3
               DEF HandleSend, Accept, LineTypeOK, lineVars, netVars, otherVars, counters
    <2>3. CASE ~(hits < Limit)
        <3>1. untold' \subseteq 1..MaxSends /\ hidden' \subseteq untold'
            BY <1>2, <2>3, LoseTyped DEF HandleSend
        <3>2. errors' \subseteq 1..MaxSends /\ hits' = hits /\ stored' = stored
            BY <1>2, <2>1, <2>3 DEF HandleSend, LineTypeOK
        <3>3. QED
            BY <1>2, <2>1, <3>1, <3>2
               DEF HandleSend, LineTypeOK, lineVars, netVars, otherVars, counters
    <2>4. QED
        BY <2>2, <2>3
<1>3. CASE WindowEnds
    BY <1>3, ComposerAssumption
       DEF WindowEnds, LineTypeOK, lineVars, netVars, otherVars, counters
<1>4. CASE ToastEnds
    <2>1. untold' \subseteq 1..MaxSends /\ hidden' \subseteq untold'
        BY <1>4, LoseTyped DEF ToastEnds, LineTypeOK
    <2>2. QED
        BY <1>4, <2>1
           DEF ToastEnds, LineTypeOK, lineVars, netVars, serverVars, otherVars, counters
<1>5. ASSUME NEW m \in 1..MaxSends, OnError(m) PROVE LineTypeOK'
    <2>1. untold' \subseteq 1..MaxSends /\ hidden' \subseteq untold'
        BY <1>5, LoseTyped DEF OnError
    <2>2. QED
        BY <1>5, <2>1 DEF OnError, LineTypeOK, lineVars, netVars, otherVars, counters
<1>6. QED
    BY <1>1, <1>2, <1>3, <1>4, <1>5

LEMMA WatcherTyped ==
    ASSUME LineTypeOK, SetTyping \/ WatcherDrops \/ WatcherReturns
    PROVE  LineTypeOK'
<1>1. CASE SetTyping
    <2>1. Head(feed) \in Indicator /\ Tail(feed) \in Seq(Indicator)
        BY <1>1 DEF SetTyping, LineTypeOK
    <2>2. shown' \subseteq Rooms
        BY <1>1, <2>1 DEF SetTyping, LineTypeOK, Indicator
    <2>3. QED
        BY <1>1, <2>1, <2>2
           DEF SetTyping, LineTypeOK, lineVars, netVars, serverVars, counters
<1>2. CASE WatcherDrops
    <2>1. drops + 1 \in 0..MaxDrops /\ <<>> \in Seq(Indicator)
        BY <1>2, ComposerAssumption DEF LineTypeOK, WatcherDrops
    <2>2. {p.room : p \in Range(feed)} \subseteq Rooms
        <3>1. Range(feed) \subseteq Indicator
            BY DEF LineTypeOK, Range
        <3>2. QED
            BY <3>1 DEF Indicator
    <2>3. QED
        BY <1>2, <2>1, <2>2 DEF WatcherDrops, LineTypeOK, lineVars, netVars, serverVars
<1>3. CASE WatcherReturns
    BY <1>3 DEF WatcherReturns, LineTypeOK, lineVars, netVars, serverVars, counters
<1>4. QED
    BY <1>1, <1>2, <1>3

LEMMA LineTypeStep == LineTypeOK /\ [LineNext]_allVars => LineTypeOK'
<1> SUFFICES ASSUME LineTypeOK, [LineNext]_allVars PROVE LineTypeOK'
    OBVIOUS
<1>1. CASE UNCHANGED allVars
    BY <1>1 DEF allVars, lineVars, netVars, serverVars, otherVars, counters, LineTypeOK
<1>2. CASE LineNext
    BY <1>2, LineTyped, PageTyped, EndpointTyped, WatcherTyped DEF LineNext
<1>3. QED
    BY <1>1, <1>2

(* The input line, the endpoint and the watching tab keep their types: in  *)
(* particular the window counts no more than its limit (core/limiter.py).  *)
THEOREM LineTypeInvariant == LineSpec => []LineTypeOK
BY LineTypeInit, LineTypeStep, PTL DEF LineSpec
-----------------------------------------------------------------------------
(* What is lost without a sign is hidden or told by the toast: Lose leaves *)
(* nothing untold that it does not hide when no sign is due.               *)
LEMMA ToldStep == LineTypeOK /\ LossIsTold /\ [LineNext]_allVars => LossIsTold'
<1> SUFFICES ASSUME LineTypeOK, LossIsTold, [LineNext]_allVars PROVE LossIsTold'
    OBVIOUS
<1>1. CASE UNCHANGED <<untold, hidden, toast>>
    BY <1>1 DEF LossIsTold
<1>2. CASE HandleSubmit
    <2>1. Lose(IF ws = "open" THEN {} ELSE {sent + 1}, seen) /\ ~Raises
          /\ UNCHANGED <<ws, seen, toast>>
        BY <1>2 DEF HandleSubmit, netVars
    <2>2. ws # "open" /\ seen => Noticed'
        BY <2>1 DEF Noticed, Banner
    <2>3. QED
        BY <2>1, <2>2 DEF Lose, LossIsTold
<1>3. ASSUME NEW lost, Lose(lost, FALSE), toast' = toast \/ untold \subseteq lost
      PROVE  LossIsTold'
    BY <1>3 DEF Lose, LossIsTold
<1>4. ASSUME NEW due, Lose({}, due), toast' = toast PROVE LossIsTold'
    BY <1>4 DEF Lose, LossIsTold
<1>5. ASSUME NEW r \in Rooms, SelectRoom(r) PROVE LossIsTold'
    BY <1>4, <1>5 DEF SelectRoom
<1>6. CASE ConnectionLost
    <2>1. PICK lost : Lose(lost, seen) /\ seen' = seen /\ ws' = "closed" /\ toast' = toast
        BY <1>6 DEF ConnectionLost
    <2>2. seen => Noticed'
        BY <2>1 DEF Noticed, Banner
    <2>3. QED
        BY <2>1, <2>2 DEF Lose, LossIsTold
<1>7. CASE HandleSend
    <2>1. CASE hits < Limit
        BY <1>3, <1>7, <2>1 DEF HandleSend, Accept
    <2>2. CASE ~(hits < Limit)
        BY <1>4, <1>7, <2>2 DEF HandleSend
    <2>3. QED
        BY <2>1, <2>2
<1>8. ASSUME NEW m \in 1..MaxSends, OnError(m) PROVE LossIsTold'
    BY <1>8 DEF OnError, LossIsTold
<1>9. CASE ToastEnds
    BY <1>3, <1>9 DEF ToastEnds
<1>10. QED
    BY <1>1, <1>2, <1>5, <1>6, <1>7, <1>8, <1>9
       DEF LineNext, HandleChange, TimerFires, StrayFires, LeaveElsewhere, CloseRoom,
           Resize, Connected,
           Retry, HandleTyping, WindowEnds, SetTyping, WatcherDrops, WatcherReturns, allVars

(* A text that was sent and lost (handleSubmit on a closed socket, frames  *)
(* on a connection that breaks, the limit) has a sign on the screen, but   *)
(* where none is due.                                                      *)
THEOREM LossesAreTold == LineSpec => []LossIsTold
<1>1. LineInit => LossIsTold
    BY DEF LineInit, LossIsTold
<1>2. QED
    BY <1>1, LineTypeInit, LineTypeStep, ToldStep, PTL DEF LineSpec
-----------------------------------------------------------------------------
(* What the other tab will show of room r once it has what is on its way:  *)
(* the last word on r in the frames w, else in the payloads f, else what   *)
(* it shows already, s.                                                    *)
Typing(w, r) == {k \in DOMAIN w : w[k].type # "message.send" /\ w[k].room = r}
About(f, r) == {k \in DOMAIN f : f[k].room = r}
LastOf(K, k) == k \in K /\ \A j \in K : j <= k
Ends(w, f, s, r) ==
    \/ \E k \in Typing(w, r) : LastOf(Typing(w, r), k) /\ w[k].type = "typing.start"
    \/ /\ Typing(w, r) = {}
       /\ \E k \in About(f, r) : LastOf(About(f, r), k) /\ f[k].is_typing
    \/ Typing(w, r) = {} /\ About(f, r) = {} /\ r \in s

LEMMA LastAdded ==
    ASSUME NEW L \in Nat, NEW K \in SUBSET (1..L)
    PROVE  \A k : LastOf(K \cup {L + 1}, k) <=> k = L + 1
<1>1. \A j \in K : j <= L /\ j \in Nat
    OBVIOUS
<1>2. \A j \in K : j <= L + 1 /\ ~(L + 1 <= j)
    BY <1>1
<1>3. ASSUME NEW k, LastOf(K \cup {L + 1}, k) PROVE k = L + 1
    BY <1>2, <1>3 DEF LastOf
<1>4. L + 1 <= L + 1
    OBVIOUS
<1>5. LastOf(K \cup {L + 1}, L + 1)
    BY <1>2, <1>4 DEF LastOf
<1>6. QED
    BY <1>3, <1>5

(* A frame is sent: it has the last word if it is about the room.          *)
LEMMA Sent ==
    ASSUME NEW w \in Seq(Frame), NEW f, NEW s, NEW r, NEW n \in Frame, NEW x,
           x = Append(w, n)
    PROVE  /\ n.type = "message.send" \/ n.room # r => (Ends(x, f, s, r) <=> Ends(w, f, s, r))
           /\ n.type = "typing.start" /\ n.room = r => Ends(x, f, s, r)
           /\ n.type = "typing.stop" /\ n.room = r => ~Ends(x, f, s, r)
<1>1. PICK L \in Nat : L = Len(w) /\ DOMAIN w = 1..L
    OBVIOUS
<1>2. DOMAIN x = 1..(L + 1) /\ x[L + 1] = n /\ \A k \in 1..L : x[k] = w[k]
    BY <1>1
<1>3. \A k \in 1..(L + 1) : k \in 1..L \/ k = L + 1
    OBVIOUS
<1>4. L + 1 \in 1..(L + 1) /\ \A k \in 1..L : k \in 1..(L + 1)
    OBVIOUS
<1>5. CASE n.type = "message.send" \/ n.room # r
    <2>1. Typing(x, r) = Typing(w, r) /\ Typing(w, r) \subseteq 1..L
        BY <1>1, <1>2, <1>3, <1>4, <1>5 DEF Typing
    <2>2. \A k \in Typing(w, r) : x[k] = w[k]
        BY <1>2, <2>1
    <2>3. Ends(x, f, s, r) <=> Ends(w, f, s, r)
        BY <2>1, <2>2 DEF Ends
    <2>4. QED
        BY <1>5, <2>3
<1>6. CASE n.type # "message.send" /\ n.room = r
    <2>1. Typing(x, r) = Typing(w, r) \cup {L + 1} /\ Typing(w, r) \subseteq 1..L
        BY <1>1, <1>2, <1>3, <1>4, <1>6 DEF Typing
    <2>2. \A k : LastOf(Typing(x, r), k) <=> k = L + 1
        <3>1. PICK K \in SUBSET (1..L) : K = Typing(w, r)
            BY <2>1
        <3>2. \A k : LastOf(K \cup {L + 1}, k) <=> k = L + 1
            BY LastAdded
        <3>3. Typing(x, r) = K \cup {L + 1}
            BY <2>1, <3>1
        <3>4. QED
            BY <3>2, <3>3, Zenon
    <2>3. Ends(x, f, s, r) <=> n.type = "typing.start"
        BY <1>2, <2>1, <2>2 DEF Ends
    <2>4. QED
        BY <1>6, <2>3
<1>7. QED
    BY <1>5, <1>6

(* The tail of a queue, as indices                                         *)
LEMMA TailIndices ==
    ASSUME NEW S, NEW q \in Seq(S), q # <<>>
    PROVE  \E L \in Nat :
              /\ DOMAIN q = 1..(L + 1) /\ DOMAIN Tail(q) = 1..L
              /\ \A k \in 1..L : Tail(q)[k] = q[k + 1] /\ k + 1 \in 1..(L + 1) /\ k + 1 # 1
              /\ \A j \in 1..(L + 1) : j = 1 \/ \E k \in 1..L : j = k + 1
              /\ 1 \in 1..(L + 1) /\ q[1] = Head(q)
<1>1. Len(q) \in Nat /\ Len(q) # 0
    OBVIOUS
<1>2. PICK L \in Nat : Len(q) = L + 1
    <2>1. Len(q) - 1 \in Nat /\ Len(q) = (Len(q) - 1) + 1
        BY <1>1
    <2>2. QED
        BY <2>1
<1>3. \A j \in 1..(L + 1) : j = 1 \/ \E k \in 1..L : j = k + 1
    <2>1. \A j \in 1..(L + 1) : j = 1 \/ (j - 1 \in 1..L /\ j = (j - 1) + 1)
        OBVIOUS
    <2>2. QED
        BY <2>1
<1>4. \A k \in 1..L : k + 1 \in 1..(L + 1) /\ k + 1 # 1
    OBVIOUS
<1>5. DOMAIN q = 1..(L + 1) /\ DOMAIN Tail(q) = 1..L /\ \A k \in 1..L : Tail(q)[k] = q[k + 1]
    BY <1>2
<1>6. 1 \in 1..(L + 1) /\ q[1] = Head(q)
    OBVIOUS
<1>7. QED
    BY <1>3, <1>4, <1>5, <1>6

(* The last of a set of indices, when all are moved by one                 *)
LEMMA LastMoved ==
    ASSUME NEW L \in Nat, NEW K \in SUBSET (1..L), NEW J \in SUBSET (1..(L + 1)),
           \A k \in 1..L : k \in K <=> k + 1 \in J, K # {} \/ 1 \notin J
    PROVE  /\ \A k \in 1..L : LastOf(K, k) <=> LastOf(J, k + 1)
           /\ ~LastOf(J, 1)
           /\ J = {} <=> K = {}
<1>1. \A j \in 1..(L + 1) : j = 1 \/ \E k \in 1..L : j = k + 1
    <2>1. \A j \in 1..(L + 1) : j = 1 \/ (j - 1 \in 1..L /\ j = (j - 1) + 1)
        OBVIOUS
    <2>2. QED
        BY <2>1
<1>2. \A k, j \in 1..L : j <= k <=> j + 1 <= k + 1
    OBVIOUS
<1>3. \A k \in 1..L : 1 <= k + 1 /\ ~(k + 1 <= 1)
    OBVIOUS
<1>4. \A k \in 1..L : LastOf(K, k) <=> LastOf(J, k + 1)
    BY <1>1, <1>2, <1>3 DEF LastOf
<1>5. K # {} => \E k \in 1..L : k \in K /\ k + 1 \in J
    OBVIOUS
<1>6. 1 \notin J => \A j \in J : \E k \in 1..L : j = k + 1 /\ k \in K
    BY <1>1
<1>7. K # {} => ~LastOf(J, 1)
    BY <1>3, <1>5 DEF LastOf
<1>8. 1 \notin J => ~LastOf(J, 1)
    BY DEF LastOf
<1>9. J = {} <=> K = {}
    <2>1. J = {} => K = {}
        BY <1>5
    <2>2. ASSUME K = {} PROVE J = {}
        BY <1>6, <2>2
    <2>3. QED
        BY <2>1, <2>2
<1>10. QED
    BY <1>4, <1>7, <1>8, <1>9

(* The first frame is taken and was not about the room, or not the last    *)
(* word.                                                                   *)
LEMMA Skipped ==
    ASSUME NEW w \in Seq(Frame), w # <<>>, NEW f, NEW s, NEW r, NEW x, x = Tail(w),
           \/ Head(w).type = "message.send" \/ Head(w).room # r
           \/ Typing(x, r) # {}
    PROVE  Ends(x, f, s, r) <=> Ends(w, f, s, r)
<1>1. PICK L \in Nat :
        /\ DOMAIN w = 1..(L + 1) /\ DOMAIN x = 1..L
        /\ \A k \in 1..L : x[k] = w[k + 1] /\ k + 1 \in 1..(L + 1) /\ k + 1 # 1
        /\ \A j \in 1..(L + 1) : j = 1 \/ \E k \in 1..L : j = k + 1
        /\ 1 \in 1..(L + 1) /\ w[1] = Head(w)
    BY TailIndices
<1>2. PICK K \in SUBSET (1..L) : K = Typing(x, r)
    BY <1>1 DEF Typing
<1>3. PICK J \in SUBSET (1..(L + 1)) : J = Typing(w, r)
    BY <1>1 DEF Typing
<1>4. \A k \in 1..L : k \in K <=> k + 1 \in J
    BY <1>1, <1>2, <1>3 DEF Typing
<1>5. K # {} \/ 1 \notin J
    BY <1>1, <1>2, <1>3 DEF Typing
<1>6. /\ \A k \in 1..L : LastOf(K, k) <=> LastOf(J, k + 1)
      /\ ~LastOf(J, 1)
      /\ J = {} <=> K = {}
    BY <1>4, <1>5, LastMoved
<1>7. (\E k \in K : LastOf(K, k) /\ x[k].type = "typing.start")
      <=> (\E j \in J : LastOf(J, j) /\ w[j].type = "typing.start")
    <2>1. ASSUME NEW k \in K, LastOf(K, k), x[k].type = "typing.start"
          PROVE  k + 1 \in J /\ LastOf(J, k + 1) /\ w[k + 1].type = "typing.start"
        BY <1>1, <1>4, <1>6, <2>1
    <2>2. ASSUME NEW j \in J, LastOf(J, j), w[j].type = "typing.start"
          PROVE  \E k \in K : LastOf(K, k) /\ x[k].type = "typing.start"
        <3>1. PICK k \in 1..L : j = k + 1
            BY <1>1, <1>6, <2>2
        <3>2. k \in K /\ LastOf(K, k) /\ x[k] = w[j]
            BY <1>1, <1>4, <1>6, <2>2, <3>1
        <3>3. QED
            BY <2>2, <3>2, Zenon
    <2>3. QED
        BY <2>1, <2>2
<1>8. QED
    BY <1>2, <1>3, <1>6, <1>7 DEF Ends

(* A payload about the room goes to the end of the feed, when no frame has *)
(* a later word.                                                           *)
LEMMA Fed ==
    ASSUME NEW w, NEW f \in Seq(Indicator), NEW s, NEW r, NEW n \in Indicator, NEW x,
           x = Append(f, n)
    PROVE  /\ n.room # r => (Ends(w, x, s, r) <=> Ends(w, f, s, r))
           /\ n.room = r /\ Typing(w, r) = {} => (Ends(w, x, s, r) <=> n.is_typing)
<1>1. PICK L \in Nat : L = Len(f) /\ DOMAIN f = 1..L
    OBVIOUS
<1>2. DOMAIN x = 1..(L + 1) /\ x[L + 1] = n /\ \A k \in 1..L : x[k] = f[k]
    BY <1>1
<1>3. \A k \in 1..(L + 1) : k \in 1..L \/ k = L + 1
    OBVIOUS
<1>4. L + 1 \in 1..(L + 1) /\ \A k \in 1..L : k \in 1..(L + 1)
    OBVIOUS
<1>5. PICK K \in SUBSET (1..L) : K = About(f, r)
    BY <1>1 DEF About
<1>6. CASE n.room # r
    <2>1. About(x, r) = K
        BY <1>1, <1>2, <1>3, <1>4, <1>5, <1>6 DEF About
    <2>2. \A k \in K : x[k] = f[k]
        BY <1>2
    <2>3. Ends(w, x, s, r) <=> Ends(w, f, s, r)
        BY <1>5, <2>1, <2>2 DEF Ends
    <2>4. QED
        BY <1>6, <2>3
<1>7. CASE n.room = r
    <2>1. About(x, r) = K \cup {L + 1}
        BY <1>1, <1>2, <1>3, <1>4, <1>5, <1>7 DEF About
    <2>2. \A k : LastOf(K \cup {L + 1}, k) <=> k = L + 1
        BY LastAdded
    <2>3. (\E k \in About(x, r) : LastOf(About(x, r), k) /\ x[k].is_typing) <=> n.is_typing
        BY <1>2, <2>1, <2>2, Zenon
    <2>4. Typing(w, r) = {} => (Ends(w, x, s, r) <=> n.is_typing)
        <3>1. About(x, r) # {}
            BY <2>1
        <3>2. QED
            BY <2>3, <3>1, Zenon DEF Ends
    <2>5. QED
        BY <1>7, <2>4
<1>8. QED
    BY <1>6, <1>7

(* The endpoint turns a frame into a payload, and with it the last word.   *)
LEMMA Published ==
    ASSUME NEW w \in Seq(Frame), w # <<>>, NEW f \in Seq(Indicator), NEW s, NEW r,
           Head(w).type # "message.send",
           NEW n \in Indicator, n.room = Head(w).room,
           n.is_typing <=> Head(w).type = "typing.start"
    PROVE  Ends(Tail(w), Append(f, n), s, r) <=> Ends(w, f, s, r)
<1>1. PICK x : x = Tail(w)
    OBVIOUS
<1>2. PICK y : y = Append(f, n)
    OBVIOUS
<1>3. CASE n.room # r \/ Typing(x, r) # {}
    <2>1. Ends(x, f, s, r) <=> Ends(w, f, s, r)
        BY <1>1, <1>3, Skipped
    <2>2. Ends(x, y, s, r) <=> Ends(x, f, s, r)
        <3>1. CASE n.room # r
            BY <1>2, <3>1, Fed
        <3>2. CASE Typing(x, r) # {}
            BY <3>2 DEF Ends
        <3>3. QED
            BY <1>3, <3>1, <3>2
    <2>3. QED
        BY <1>1, <1>2, <2>1, <2>2
<1>4. CASE n.room = r /\ Typing(x, r) = {}
    <2>1. Ends(x, y, s, r) <=> Head(w).type = "typing.start"
        BY <1>2, <1>4, Fed, Zenon
    <2>2. PICK L \in Nat :
            /\ DOMAIN w = 1..(L + 1) /\ DOMAIN x = 1..L
            /\ \A k \in 1..L : x[k] = w[k + 1] /\ k + 1 \in 1..(L + 1) /\ k + 1 # 1
            /\ \A j \in 1..(L + 1) : j = 1 \/ \E k \in 1..L : j = k + 1
            /\ 1 \in 1..(L + 1) /\ w[1] = Head(w)
        BY <1>1, TailIndices
    <2>3. Typing(w, r) = {1}
        <3>1. 1 \in Typing(w, r)
            BY <1>4, <2>2 DEF Typing
        <3>2. ASSUME NEW k \in 1..L PROVE k + 1 \notin Typing(w, r)
            BY <1>4, <2>2, <3>2 DEF Typing
        <3>3. ASSUME NEW j \in Typing(w, r) PROVE j = 1
            <4>1. j \in 1..(L + 1)
                BY <2>2 DEF Typing
            <4>2. QED
                BY <2>2, <3>2, <3>3, <4>1
        <3>4. QED
            BY <3>1, <3>3
    <2>4. \A k : LastOf({1}, k) <=> k = 1
        BY DEF LastOf
    <2>5. Ends(w, f, s, r) <=> Head(w).type = "typing.start"
        BY <2>2, <2>3, <2>4 DEF Ends
    <2>6. QED
        BY <1>1, <1>2, <2>1, <2>5
<1>5. QED
    BY <1>3, <1>4

(* The other tab takes a payload, and shows its word when it was the last. *)
LEMMA Taken ==
    ASSUME NEW w, NEW f \in Seq(Indicator), f # <<>>, NEW s, NEW r, NEW t, NEW x, x = Tail(f),
           Head(f).room # r => (r \in t <=> r \in s),
           Head(f).room = r => (r \in t <=> Head(f).is_typing)
    PROVE  Ends(w, x, t, r) <=> Ends(w, f, s, r)
<1>1. PICK L \in Nat :
        /\ DOMAIN f = 1..(L + 1) /\ DOMAIN x = 1..L
        /\ \A k \in 1..L : x[k] = f[k + 1] /\ k + 1 \in 1..(L + 1) /\ k + 1 # 1
        /\ \A j \in 1..(L + 1) : j = 1 \/ \E k \in 1..L : j = k + 1
        /\ 1 \in 1..(L + 1) /\ f[1] = Head(f)
    BY TailIndices
<1>2. PICK K \in SUBSET (1..L) : K = About(x, r)
    BY <1>1 DEF About
<1>3. PICK J \in SUBSET (1..(L + 1)) : J = About(f, r)
    BY <1>1 DEF About
<1>4. \A k \in 1..L : k \in K <=> k + 1 \in J
    BY <1>1, <1>2, <1>3 DEF About
<1>5. 1 \in J <=> Head(f).room = r
    BY <1>1, <1>3 DEF About
<1>6. CASE K # {} \/ 1 \notin J
    <2>1. /\ \A k \in 1..L : LastOf(K, k) <=> LastOf(J, k + 1)
          /\ ~LastOf(J, 1)
          /\ J = {} <=> K = {}
        BY <1>4, <1>6, LastMoved
    <2>2. (\E k \in K : LastOf(K, k) /\ x[k].is_typing)
          <=> (\E j \in J : LastOf(J, j) /\ f[j].is_typing)
        <3>1. ASSUME NEW k \in K, LastOf(K, k), x[k].is_typing
              PROVE  \E j \in J : LastOf(J, j) /\ f[j].is_typing
            <4>1. k + 1 \in J /\ LastOf(J, k + 1) /\ f[k + 1] = x[k]
                BY <1>1, <1>4, <2>1, <3>1
            <4>2. QED
                BY <3>1, <4>1, Zenon
        <3>2. ASSUME NEW j \in J, LastOf(J, j), f[j].is_typing
              PROVE  \E k \in K : LastOf(K, k) /\ x[k].is_typing
            <4>1. PICK k \in 1..L : j = k + 1
                BY <1>1, <2>1, <3>2
            <4>2. k \in K /\ LastOf(K, k) /\ x[k] = f[j]
                BY <1>1, <1>4, <2>1, <3>2, <4>1
            <4>3. QED
                BY <3>2, <4>2, Zenon
        <3>3. QED
            BY <3>1, <3>2
    <2>3. K = {} => (r \in t <=> r \in s)
        BY <1>5, <1>6
    <2>4. QED
        BY <1>2, <1>3, <2>1, <2>2, <2>3, Zenon DEF Ends
<1>7. CASE K = {} /\ 1 \in J
    <2>1. J = {1}
        <3>1. ASSUME NEW j \in J PROVE j = 1
            BY <1>1, <1>4, <1>7, <3>1
        <3>2. QED
            BY <1>7, <3>1
    <2>2. \A k : LastOf({1}, k) <=> k = 1
        BY DEF LastOf
    <2>3. (\E j \in J : LastOf(J, j) /\ f[j].is_typing) <=> f[1].is_typing
        BY <2>1, <2>2, Zenon
    <2>4. r \in t <=> f[1].is_typing
        BY <1>1, <1>5, <1>7, Zenon
    <2>5. ~(\E j \in K : LastOf(K, j) /\ x[j].is_typing) /\ J # {}
        BY <1>7
    <2>6. QED
        BY <1>2, <1>3, <1>7, <2>3, <2>4, <2>5, Zenon DEF Ends
<1>8. QED
    BY <1>6, <1>7

(* A connection is lost, and with it what was not about the room.          *)
LEMMA Lost ==
    ASSUME NEW w, NEW f, NEW s, NEW r
    PROVE  /\ Typing(w, r) = {} => (Ends(<<>>, f, s, r) <=> Ends(w, f, s, r))
           /\ About(f, r) = {} => (Ends(w, <<>>, s, r) <=> Ends(w, f, s, r))
<1>1. Typing(<<>>, r) = {} /\ About(<<>>, r) = {}
    BY DEF Typing, About
<1>2. QED
    BY <1>1 DEF Ends
-----------------------------------------------------------------------------
(* Once what is on its way has come, the other tab will show the user in   *)
(* room r while the line has a timer for it, and else at most until the    *)
(* timer of a line that is gone has run.                                   *)
Here(r) == isTyping /\ timer = r
Shows(r) == Ends(wire, feed, shown, r)
Right(r) == /\ Here(r) => Shows(r)
            /\ Shows(r) => Here(r) \/ r \in Range(strays)

(* The flag goes with its timer.                                           *)
Flagged == timer # NoRoom => isTyping

AllRight == Flagged /\ \A r \in Rooms \ spoiled : Right(r)

LEMMA RightKept ==
    ASSUME NEW r, Right(r), Shows(r)' <=> Shows(r), Here(r)' <=> Here(r),
           r \in Range(strays) => r \in Range(strays')
    PROVE  Right(r)'
BY DEF Right

LEMMA RightInit == LineInit => AllRight
<1> SUFFICES ASSUME LineInit PROVE AllRight
    OBVIOUS
<1>1. ASSUME NEW r \in Rooms PROVE Right(r)
    <2>1. Typing(wire, r) = {} /\ About(feed, r) = {}
        BY DEF LineInit, Typing, About
    <2>2. QED
        BY <2>1 DEF LineInit, Right, Here, Shows, Ends
<1>2. QED
    BY <1>1 DEF AllRight, LineInit, Flagged

(* A frame is pushed, or lost on a socket that is not open.                *)
LEMMA Pushed ==
    ASSUME LineTypeOK, NEW n \in Frame, Push(<<n>>)
    PROVE  \/ ws = "open" /\ wire' = Append(wire, n)
           \/ ws # "open" /\ wire' = wire
<1>1. wire \in Seq(Frame)
    BY DEF LineTypeOK
<1>2. wire \o <<n>> = Append(wire, n)
    BY <1>1, AppendIsConcat
<1>3. QED
    BY <1>2 DEF Push

LEMMA PushedShows ==
    ASSUME LineTypeOK, NEW n \in Frame, wire' = Append(wire, n), UNCHANGED <<feed, shown>>,
           NEW r
    PROVE  /\ n.type = "message.send" \/ n.room # r => (Shows(r)' <=> Shows(r))
           /\ n.type = "typing.start" /\ n.room = r => Shows(r)'
           /\ n.type = "typing.stop" /\ n.room = r => ~Shows(r)'
<1>1. PICK w \in Seq(Frame) : w = wire
    BY DEF LineTypeOK
<1>2. PICK x : x = Append(w, n)
    OBVIOUS
<1>3. (Shows(r) <=> Ends(w, feed, shown, r)) /\ (Shows(r)' <=> Ends(x, feed, shown, r))
    BY <1>1, <1>2 DEF Shows
<1>4. QED
    BY <1>2, <1>3, Sent

LEMMA StartAndStop ==
    ASSUME NEW r \in Rooms
    PROVE  /\ Start(r) \in Frame /\ Start(r).type = "typing.start" /\ Start(r).room = r
           /\ Stop(r) \in Frame /\ Stop(r).type = "typing.stop" /\ Stop(r).room = r
BY DEF Start, Stop, Frame

LEMMA ChangeRight ==
    ASSUME LineTypeOK, AllRight, NEW c \in {"blank", "text"}, HandleChange(c)
    PROVE  AllRight'
<1>1. room \in Rooms /\ room # NoRoom /\ wire \in Seq(Frame) /\ NoRoom \notin Rooms
    BY ComposerAssumption DEF HandleChange, LineTypeOK
<1>2. UNCHANGED <<feed, shown, strays>> /\ isTyping' = TRUE
    BY DEF HandleChange, otherVars
<1>3. Flagged'
    BY <1>2 DEF Flagged
<1>4. ASSUME NEW r \in Rooms \ spoiled' PROVE Right(r)'
    <2>1. CASE isTyping /\ timer = room
        <3>1. timer' = timer /\ wire' = wire /\ spoiled' = spoiled
            BY <2>1 DEF HandleChange
        <3>2. QED
            BY <1>2, <1>4, <2>1, <3>1 DEF AllRight, Right, Here, Shows
    <2>2. CASE isTyping /\ timer # room
        <3>1. timer' = room /\ wire' = wire /\ spoiled' = spoiled \cup ({room, timer} \ {NoRoom})
            BY <2>2 DEF HandleChange
        <3>2. r # room /\ r # timer /\ r \notin spoiled
            BY <1>1, <1>4, <3>1
        <3>3. QED
            BY <1>2, <1>4, <3>1, <3>2 DEF AllRight, Right, Here, Shows
    <2>3. CASE ~isTyping
        <3>1. timer = NoRoom /\ spoiled' = Sends(room)
            BY <2>3 DEF AllRight, Flagged, HandleChange
        <3>2. CASE ws = "open"
            <4>1. timer' = room /\ wire' = Append(wire, Start(room))
                BY <1>1, <2>3, <3>2, StartAndStop, Pushed DEF HandleChange, Raises
            <4>2. CASE r = room
                <5>1. Shows(r)'
                    BY <1>1, <1>2, <4>1, <4>2, StartAndStop, PushedShows
                <5>2. QED
                    BY <1>2, <4>1, <4>2, <5>1 DEF Right, Here
            <4>3. CASE r # room
                <5>1. r \notin spoiled
                    BY <1>4, <3>1, <3>2, <4>3 DEF Sends
                <5>2. Shows(r)' <=> Shows(r)
                    BY <1>1, <1>2, <4>1, <4>3, StartAndStop, PushedShows
                <5>3. QED
                    BY <1>2, <1>4, <2>3, <4>1, <4>3, <5>1, <5>2, RightKept
                       DEF AllRight, Here
            <4>4. QED
                BY <4>2, <4>3
        <3>3. CASE ws # "open"
            <4>1. wire' = wire /\ timer' \in {timer, room}
                BY <2>3, <3>3 DEF HandleChange, Push
            <4>2. r # room /\ r \notin spoiled /\ r # NoRoom
                BY <1>1, <1>4, <3>1, <3>3 DEF Sends
            <4>3. QED
                BY <1>2, <1>4, <2>3, <3>1, <4>1, <4>2, RightKept DEF AllRight, Here, Shows
        <3>4. QED
            BY <3>2, <3>3
    <2>4. QED
        BY <2>1, <2>2, <2>3
<1>5. QED
    BY <1>3, <1>4 DEF AllRight

LEMMA TimerRight ==
    ASSUME LineTypeOK, AllRight, TimerFires
    PROVE  AllRight'
<1>1. timer \in Rooms /\ timer # NoRoom /\ wire \in Seq(Frame)
    BY DEF TimerFires, LineTypeOK
<1>2. UNCHANGED <<feed, shown, strays>> /\ isTyping' = FALSE /\ timer' = NoRoom
      /\ spoiled' = Sends(timer)
    BY DEF TimerFires, otherVars
<1>3. ASSUME NEW r \in Rooms \ spoiled' PROVE Right(r)'
    <2>1. CASE r = timer
        <3>1. ws = "open"
            BY <1>2, <1>3, <2>1 DEF Sends
        <3>2. wire' = Append(wire, Stop(timer))
            BY <1>1, <3>1, StartAndStop, Pushed DEF TimerFires
        <3>3. ~Shows(r)'
            BY <1>1, <1>2, <2>1, <3>2, StartAndStop, PushedShows
        <3>4. QED
            BY <1>2, <3>3 DEF Right, Here
    <2>2. CASE r # timer
        <3>1. r \notin spoiled
            BY <1>2, <1>3, <2>2 DEF Sends
        <3>2. wire' = wire \/ wire' = Append(wire, Stop(timer))
            BY <1>1, StartAndStop, Pushed DEF TimerFires
        <3>3. Shows(r)' <=> Shows(r)
            BY <1>1, <1>2, <2>2, <3>2, StartAndStop, PushedShows DEF Shows
        <3>4. QED
            BY <1>2, <1>3, <2>2, <3>1, <3>3, RightKept DEF AllRight, Here
    <2>3. QED
        BY <2>1, <2>2
<1>4. QED
    BY <1>2, <1>3 DEF AllRight, Flagged

LEMMA StrayRight ==
    ASSUME LineTypeOK, AllRight, StrayFires
    PROVE  AllRight'
<1>1. PICK h \in Rooms : /\ h = Head(strays)
                         /\ \A x \in Range(strays) : x = h \/ x \in Range(Tail(strays))
    <2>1. strays \in Seq(Rooms) /\ strays # <<>>
        BY DEF StrayFires, LineTypeOK
    <2>2. PICK L \in Nat :
            /\ DOMAIN strays = 1..(L + 1) /\ DOMAIN Tail(strays) = 1..L
            /\ \A k \in 1..L : Tail(strays)[k] = strays[k + 1]
            /\ \A j \in 1..(L + 1) : j = 1 \/ \E k \in 1..L : j = k + 1
            /\ strays[1] = Head(strays)
        BY <2>1, TailIndices
    <2>3. \A j \in DOMAIN strays :
             strays[j] = Head(strays) \/ strays[j] \in Range(Tail(strays))
        <3>1. ASSUME NEW k \in 1..L PROVE strays[k + 1] \in Range(Tail(strays))
            BY <2>2 DEF Range
        <3>2. QED
            BY <2>2, <3>1
    <2>4. Head(strays) \in Rooms
        BY <2>1
    <2>5. QED
        BY <2>3, <2>4 DEF Range
<1>2. /\ UNCHANGED <<feed, shown, isTyping, timer>> /\ strays' = Tail(strays)
      /\ Push(<<Stop(h)>>)
      /\ spoiled' = IF isTyping /\ timer = h THEN spoiled \cup {timer} ELSE Sends(h)
    BY <1>1 DEF StrayFires, otherVars
<1>3. wire \in Seq(Frame)
    BY DEF LineTypeOK
<1>4. \/ ws = "open" /\ wire' = Append(wire, Stop(h))
      \/ ws # "open" /\ wire' = wire
    BY <1>2, StartAndStop, Pushed
<1>5. ASSUME NEW r \in Rooms \ spoiled' PROVE Right(r)'
    <2>1. CASE r = h
        <3>1. ~Here(r) /\ ws = "open"
            BY <1>2, <1>5, <2>1 DEF Sends, Here
        <3>2. ~Shows(r)'
            BY <1>2, <1>4, <2>1, <3>1, StartAndStop, PushedShows
        <3>3. QED
            BY <1>2, <3>1, <3>2 DEF Right, Here
    <2>2. CASE r # h
        <3>1. r \notin spoiled
            BY <1>2, <1>5, <2>2 DEF Sends
        <3>2. Shows(r)' <=> Shows(r)
            BY <1>2, <1>4, <2>2, StartAndStop, PushedShows DEF Shows
        <3>3. QED
            BY <1>1, <1>2, <1>5, <2>2, <3>1, <3>2, RightKept DEF AllRight, Here
    <2>3. QED
        BY <2>1, <2>2
<1>6. QED
    BY <1>2, <1>5 DEF AllRight, Flagged

LEMMA SubmitRight ==
    ASSUME LineTypeOK, AllRight, HandleSubmit
    PROVE  AllRight'
<1>1. room \in Rooms /\ NoRoom \notin Rooms /\ sent + 1 \in 1..MaxSends
    BY ComposerAssumption DEF HandleSubmit, LineTypeOK
<1>2. /\ UNCHANGED <<feed, shown, strays>> /\ isTyping' = FALSE /\ timer' = NoRoom
      /\ spoiled' = (IF isTyping THEN Sends(room) ELSE spoiled)
                    \cup IF timer \in {NoRoom, room} THEN {} ELSE {timer}
    BY DEF HandleSubmit, otherVars
<1>3. PICK n \in Frame : /\ n.type = "message.send"
                         /\ Push(<<n>> \o IF isTyping THEN <<Stop(room)>> ELSE <<>>)
    <2>1. [type |-> "message.send", room |-> room, id |-> sent + 1] \in Frame
        BY <1>1 DEF Frame
    <2>2. QED
        BY <2>1 DEF HandleSubmit
<1>4. PICK z \in Frame : z = Stop(room) /\ z.type = "typing.stop" /\ z.room = room
    BY <1>1, StartAndStop
<1>5. PICK w \in Seq(Frame) : w = wire
    BY DEF LineTypeOK
<1>6. PICK x \in Seq(Frame) : x = Append(w, n)
    BY AppendProperties
<1>7. PICK y \in Seq(Frame) : y = Append(x, z)
    BY AppendProperties
<1>8. \/ ws = "open" /\ wire' = IF isTyping THEN y ELSE x
      \/ ws # "open" /\ wire' = w
    <2>1. w \o (<<n>> \o <<>>) = x
        BY <1>6, AppendIsConcat, ConcatEmptySeq
    <2>2. w \o (<<n>> \o <<z>>) = y
        <3>1. <<n>> \in Seq(Frame) /\ <<z>> \in Seq(Frame)
            OBVIOUS
        <3>2. w \o (<<n>> \o <<z>>) = (w \o <<n>>) \o <<z>>
            BY <3>1, ConcatAssociative
        <3>3. w \o <<n>> = x /\ x \o <<z>> = y
            BY <1>6, <1>7, AppendIsConcat
        <3>4. QED
            BY <3>2, <3>3
    <2>3. wire' = IF ws = "open"
                  THEN w \o (<<n>> \o IF isTyping THEN <<z>> ELSE <<>>) ELSE w
        BY <1>3, <1>4, <1>5 DEF Push
    <2>4. QED
        BY <2>1, <2>2, <2>3
<1>9. ASSUME NEW r \in Rooms \ spoiled' PROVE Right(r)'
    <2>1. Ends(x, feed, shown, r) <=> Ends(w, feed, shown, r)
        BY <1>3, <1>6, Sent
    <2>2. CASE isTyping /\ r = room
        <3>1. ws = "open" /\ wire' = y
            BY <1>2, <1>8, <1>9, <2>2 DEF Sends
        <3>2. ~Ends(y, feed, shown, r)
            BY <1>4, <1>7, <2>2, Sent
        <3>3. ~Shows(r)'
            BY <1>2, <3>1, <3>2 DEF Shows
        <3>4. QED
            BY <1>1, <1>2, <3>3 DEF Right, Here
    <2>3. CASE ~(isTyping /\ r = room)
        <3>1. r \notin spoiled /\ ~Here(r)
            BY <1>1, <1>2, <1>9, <2>3 DEF Sends, Here
        <3>2. isTyping => (Ends(y, feed, shown, r) <=> Ends(x, feed, shown, r))
            BY <1>4, <1>7, <2>3, Sent
        <3>3. Shows(r)' <=> Shows(r)
            <4>1. Shows(r) <=> Ends(w, feed, shown, r)
                BY <1>5 DEF Shows
            <4>2. ASSUME NEW v, wire' = v PROVE Shows(r)' <=> Ends(v, feed, shown, r)
                BY <1>2, <4>2 DEF Shows
            <4>3. QED
                BY <1>8, <2>1, <3>2, <4>1, <4>2
        <3>4. ~Here(r)'
            BY <1>2 DEF Here
        <3>5. QED
            BY <1>2, <1>9, <3>1, <3>3, <3>4, RightKept DEF AllRight
    <2>4. QED
        BY <2>2, <2>3
<1>10. QED
    BY <1>2, <1>9 DEF AllRight, Flagged

LEMMA CloseRoomRight ==
    ASSUME LineTypeOK, AllRight, CloseRoom
    PROVE  AllRight'
<1>1. /\ UNCHANGED <<wire, feed, shown, spoiled>> /\ isTyping' = FALSE /\ timer' = NoRoom
      /\ strays' = IF timer = NoRoom THEN strays ELSE Append(strays, timer)
    BY DEF CloseRoom, serverVars, otherVars
<1>2. strays \in Seq(Rooms) /\ timer \in Rooms \cup {NoRoom} /\ NoRoom \notin Rooms
    BY ComposerAssumption DEF LineTypeOK
<1>3. ASSUME NEW r \in Rooms, r \in Range(strays) \/ r = timer
      PROVE  r \in Range(strays')
    <2>1. CASE timer = NoRoom
        BY <1>1, <1>2, <1>3, <2>1
    <2>2. CASE timer # NoRoom
        <3>1. PICK L \in Nat : L = Len(strays) /\ DOMAIN strays = 1..L
            BY <1>2
        <3>2. /\ DOMAIN strays' = 1..(L + 1) /\ strays'[L + 1] = timer
              /\ \A k \in 1..L : strays'[k] = strays[k] /\ k \in 1..(L + 1)
              /\ L + 1 \in 1..(L + 1)
            BY <1>1, <1>2, <2>2, <3>1
        <3>3. QED
            BY <1>3, <3>1, <3>2 DEF Range
    <2>3. QED
        BY <2>1, <2>2
<1>4. ASSUME NEW r \in Rooms \ spoiled' PROVE Right(r)'
    <2>1. Right(r) /\ (Shows(r)' <=> Shows(r))
        BY <1>1, <1>4 DEF AllRight, Shows
    <2>2. ~Here(r)'
        BY <1>1 DEF Here
    <2>3. QED
        BY <1>3, <1>4, <2>1, <2>2 DEF Right, Here
<1>5. QED
    BY <1>1, <1>4 DEF AllRight, Flagged

(* A connection is lost.                                                   *)
LEMMA DropsRight ==
    ASSUME LineTypeOK, AllRight, ConnectionLost \/ WatcherDrops
    PROVE  AllRight'
<1>1. UNCHANGED <<isTyping, timer, strays, shown>> /\ spoiled \subseteq spoiled'
    BY DEF ConnectionLost, WatcherDrops, lineVars, otherVars
<1>2. ASSUME NEW r \in Rooms \ spoiled' PROVE Shows(r)' <=> Shows(r)
    <2>1. CASE ConnectionLost
        <3>1. wire' = <<>> /\ feed' = feed /\ r \notin TypingRooms(wire)
            BY <1>2, <2>1 DEF ConnectionLost, otherVars
        <3>2. Typing(wire, r) = {}
            BY <3>1 DEF Typing, TypingRooms, Range
        <3>3. QED
            BY <1>1, <3>1, <3>2, Lost DEF Shows
    <2>2. CASE WatcherDrops
        <3>1. feed' = <<>> /\ wire' = wire /\ r \notin {p.room : p \in Range(feed)}
            BY <1>2, <2>2 DEF WatcherDrops, serverVars
        <3>2. About(feed, r) = {}
            BY <3>1 DEF About, Range
        <3>3. QED
            BY <1>1, <3>1, <3>2, Lost DEF Shows
    <2>3. QED
        BY <2>1, <2>2
<1>3. ASSUME NEW r \in Rooms \ spoiled' PROVE Right(r)'
    BY <1>1, <1>2, <1>3, RightKept DEF AllRight, Here
<1>4. QED
    BY <1>1, <1>3 DEF AllRight, Flagged

(* What was sent goes on its way: the last word on a room stays it.        *)
LEMMA WayRight ==
    ASSUME LineTypeOK, AllRight, HandleTyping \/ HandleSend \/ SetTyping
    PROVE  AllRight'
<1>1. UNCHANGED <<isTyping, timer, strays>> /\ spoiled \subseteq spoiled'
    BY DEF HandleTyping, HandleSend, SetTyping, lineVars
<1>2. PICK w \in Seq(Frame), f \in Seq(Indicator) : w = wire /\ f = feed
    BY DEF LineTypeOK
<1>3. ASSUME NEW r \in Rooms \ spoiled' PROVE Shows(r)' <=> Shows(r)
    <2>1. CASE HandleTyping /\ watching
        <3>1. w # <<>> /\ wire' = Tail(w) /\ shown' = shown /\ Head(w).type # "message.send"
            BY <1>2, <2>1 DEF HandleTyping
        <3>2. PICK n \in Indicator :
                /\ n.room = Head(w).room
                /\ n.is_typing <=> Head(w).type = "typing.start"
                /\ feed' = Append(f, n)
            <4>1. PICK n : n = [room |-> Head(w).room,
                                is_typing |-> Head(w).type = "typing.start"]
                OBVIOUS
            <4>2. n \in Indicator
                BY <1>2, <3>1, <4>1, HeadFrame DEF Indicator
            <4>3. feed' = Append(f, n)
                BY <1>2, <2>1, <4>1 DEF HandleTyping
            <4>4. QED
                BY <4>1, <4>2, <4>3
        <3>3. Ends(Tail(w), Append(f, n), shown, r) <=> Ends(w, f, shown, r)
            BY <3>1, <3>2, Published
        <3>4. QED
            BY <1>2, <3>1, <3>2, <3>3 DEF Shows
    <2>2. CASE (HandleTyping /\ ~watching) \/ HandleSend
        <3>1. /\ w # <<>> /\ wire' = Tail(w) /\ UNCHANGED <<feed, shown>>
              /\ Head(w).type = "message.send" \/ Head(w).room # r
            BY <1>2, <1>3, <2>2 DEF HandleTyping, HandleSend, otherVars
        <3>2. Ends(Tail(w), feed, shown, r) <=> Ends(w, feed, shown, r)
            BY <3>1, Skipped
        <3>3. QED
            BY <1>2, <3>1, <3>2 DEF Shows
    <2>3. CASE SetTyping
        <3>1. f # <<>> /\ feed' = Tail(f) /\ wire' = wire
            BY <1>2, <2>3 DEF SetTyping, serverVars
        <3>2. shown' = IF Head(f).is_typing THEN shown \cup {Head(f).room}
                       ELSE shown \ {Head(f).room}
            BY <1>2, <2>3 DEF SetTyping
        <3>3. PICK t : t = shown'
            OBVIOUS
        <3>4. Ends(wire, Tail(f), t, r) <=> Ends(wire, f, shown, r)
            <4>1. /\ Head(f).room # r => (r \in t <=> r \in shown)
                  /\ Head(f).room = r => (r \in t <=> Head(f).is_typing)
                BY <3>2, <3>3
            <4>2. PICK x : x = Tail(f)
                OBVIOUS
            <4>3. QED
                BY <3>1, <4>1, <4>2, Taken
        <3>5. QED
            BY <1>2, <3>1, <3>3, <3>4 DEF Shows
    <2>4. QED
        BY <2>1, <2>2, <2>3
<1>4. ASSUME NEW r \in Rooms \ spoiled' PROVE Right(r)'
    BY <1>1, <1>3, <1>4, RightKept DEF AllRight, Here
<1>5. QED
    BY <1>1, <1>4 DEF AllRight, Flagged

LEMMA RightStep == LineTypeOK /\ AllRight /\ [LineNext]_allVars => AllRight'
<1> SUFFICES ASSUME LineTypeOK, AllRight, [LineNext]_allVars PROVE AllRight'
    OBVIOUS
<1>1. CASE UNCHANGED <<wire, feed, shown, isTyping, timer, strays, spoiled>>
    <2>1. ASSUME NEW r \in Rooms \ spoiled' PROVE Right(r)'
        BY <1>1, <2>1, RightKept DEF AllRight, Here, Shows
    <2>2. QED
        BY <1>1, <2>1 DEF AllRight, Flagged
<1>2. CASE \/ \E c \in {"blank", "text"} : HandleChange(c)
           \/ HandleSubmit \/ TimerFires \/ StrayFires \/ CloseRoom \/ ConnectionLost
           \/ HandleTyping \/ HandleSend \/ SetTyping \/ WatcherDrops
    BY <1>2, ChangeRight, SubmitRight, TimerRight, StrayRight, CloseRoomRight, DropsRight,
       WayRight
<1>3. QED
    BY <1>1, <1>2
       DEF LineNext, SelectRoom, LeaveElsewhere, Resize, Connected, Retry, WindowEnds,
           OnError,
           ToastEnds, WatcherReturns, allVars, lineVars, serverVars, otherVars

(* When nothing is on its way, the other tab shows the user where the line *)
(* has a timer (handleChange, setTyping), and nowhere else but in a room   *)
(* closed a moment ago, unless the indicator was spoiled; for any number   *)
(* of rooms, keys, changes of the room and lost connections.               *)
THEOREM IndicatorSettles == LineSpec => []IndicatorRight
<1>1. LineTypeOK /\ AllRight => IndicatorRight
    <2> SUFFICES ASSUME AllRight, wire = <<>>, feed = <<>>, NEW r \in Rooms \ spoiled
                 PROVE  /\ isTyping /\ timer = r => r \in shown
                        /\ r \in shown => (isTyping /\ timer = r) \/ r \in Range(strays)
        BY DEF IndicatorRight
    <2>1. Typing(wire, r) = {} /\ About(feed, r) = {}
        BY DEF Typing, About
    <2>2. Shows(r) <=> r \in shown
        BY <2>1 DEF Shows, Ends
    <2>3. QED
        BY <2>2 DEF AllRight, Right, Here
<1>2. QED
    BY <1>1, LineTypeInit, LineTypeStep, RightInit, RightStep, PTL DEF LineSpec
=============================================================================
