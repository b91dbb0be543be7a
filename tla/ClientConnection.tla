-------------------------- MODULE ClientConnection --------------------------
(* The connection of one browser tab (hooks/useWebSocket.ts): one mount of *)
(* ChatLayout, its current socket, the timers of the heartbeat and of the  *)
(* reconnection, and what the network and the user do to them.  Time       *)
(* passes in ticks of ten seconds; a timer runs before the tick after the  *)
(* one it is due.  The delay of a reconnection is any.                     *)
EXTENDS Integers

CONSTANTS
    PING_INTERVAL, PONG_TIMEOUT,    \* in ticks
    MAX_MISSED_PONGS,
    MaxRetries                      \* bound: where retryCount stops counting

ASSUME ConnectionAssumption ==
    /\ PING_INTERVAL \in Nat /\ PONG_TIMEOUT \in Nat \ {0}
    /\ PONG_TIMEOUT < PING_INTERVAL
    /\ MAX_MISSED_PONGS \in Nat \ {0} /\ MaxRetries \in Nat \ {0}

VARIABLES
    mounted,        \* the effect is in force: not cancelled
    socket,         \* readyState of the current socket
    first,          \* the socket of a first mount is still to close
    once,           \* hasConnectedOnce
    retryCount,
    reconnect,      \* the timer that calls connect is set
    ping,           \* ticks to the next ping, or None
    watchdog,       \* ticks left of the last pong timeout, or None
    missed,         \* missedPongCountRef
    status,         \* connectionStatus
    silent,         \* the network of the open socket is dead, unnoticed
    quiet,          \* history: ticks since the socket opened or a pong came
    behind,         \* history: payloads may have been missed
    robbed          \* history: the heartbeat was stopped by the first socket

heartbeat == <<ping, watchdog, missed>>
vars == <<mounted, socket, first, once, retryCount, reconnect, heartbeat,
          status, silent, quiet, behind, robbed>>

None == -1
Patience == MAX_MISSED_PONGS * PING_INTERVAL + PONG_TIMEOUT

TypeOK ==
    /\ mounted \in BOOLEAN /\ first \in BOOLEAN /\ once \in BOOLEAN
    /\ reconnect \in BOOLEAN /\ silent \in BOOLEAN
    /\ behind \in BOOLEAN /\ robbed \in BOOLEAN
    /\ socket \in {"connecting", "open", "closing", "closed"}
    /\ retryCount \in 0..MaxRetries
    /\ ping \in {None} \cup 0..PING_INTERVAL
    /\ watchdog \in {None} \cup 0..PONG_TIMEOUT
    /\ missed \in 0..MAX_MISSED_PONGS
    /\ status \in {"connecting", "connected", "reconnecting"}
    /\ quiet \in 0..(Patience + 1)

(* The effect ran and called connect.  In a development build it ran, was  *)
(* cleaned up and ran again, with the same refs: the socket of the first   *)
(* time closes later. *)
Init ==
    /\ mounted = TRUE /\ socket = "connecting" /\ first \in BOOLEAN
    /\ once = FALSE /\ retryCount = 0 /\ reconnect = FALSE
    /\ ping = None /\ watchdog = None /\ missed = 0
    /\ status = "connecting"
    /\ silent = FALSE /\ quiet = 0 /\ behind = FALSE /\ robbed = FALSE
-----------------------------------------------------------------------------
StopHeartbeat == ping' = None /\ watchdog' = None /\ UNCHANGED missed

(* ws.close() *)
Closing == IF socket \in {"connecting", "open"} THEN "closing" ELSE socket

(* onopen *)
Open ==
    /\ socket = "connecting"
    /\ socket' = "open" /\ status' = "connected" /\ once' = TRUE
    /\ missed' = 0 /\ ping' = PING_INTERVAL
    /\ behind' = (behind /\ retryCount = 0)
    /\ retryCount' = 0
    /\ silent' = FALSE /\ quiet' = 0 /\ robbed' = FALSE
    /\ UNCHANGED <<mounted, first, reconnect, watchdog>>

PingDue ==
    /\ ping = 0
    /\ ping' = PING_INTERVAL
    /\ watchdog' = IF socket = "open" THEN PONG_TIMEOUT ELSE watchdog
    /\ UNCHANGED <<mounted, socket, first, once, retryCount, reconnect, missed,
                   status, silent, quiet, behind, robbed>>

(* Mutant of WatchdogDue: one more pong may be missed. *)
WatchdogOneMore ==
    /\ watchdog = 0
    /\ watchdog' = None
    /\ missed' = missed + 1
    /\ socket' = IF missed + 1 > MAX_MISSED_PONGS THEN Closing ELSE socket
    /\ UNCHANGED <<mounted, first, once, retryCount, reconnect, ping, status,
                   silent, quiet, behind, robbed>>

WatchdogDue ==
    /\ watchdog = 0
    /\ watchdog' = None
    /\ missed' = missed + 1
    /\ socket' = IF missed + 1 >= MAX_MISSED_PONGS THEN Closing ELSE socket
    /\ UNCHANGED <<mounted, first, once, retryCount, reconnect, ping, status,
                   silent, quiet, behind, robbed>>

(* Mutant of Pong: missed pongs need not be consecutive. *)
PongKeepsCount ==
    /\ socket = "open" /\ ~silent
    /\ watchdog' = None /\ quiet' = 0
    /\ UNCHANGED <<mounted, socket, first, once, retryCount, reconnect, ping, missed,
                   status, silent, behind, robbed>>

(* onmessage of a pong, which another tab of the user may have asked for *)
Pong ==
    /\ socket = "open" /\ ~silent
    /\ missed' = 0 /\ watchdog' = None /\ quiet' = 0
    /\ UNCHANGED <<mounted, socket, first, once, retryCount, reconnect, ping,
                   status, silent, behind, robbed>>

(* Mutant of Close: not cancelled after a cleanup. *)
CloseAnyway ==
    /\ socket # "closed"
    /\ socket' = "closed"
    /\ StopHeartbeat
    /\ status' = IF once THEN "reconnecting" ELSE status
    /\ retryCount' = IF retryCount < MaxRetries THEN retryCount + 1 ELSE MaxRetries
    /\ reconnect' = TRUE
    /\ behind' = (behind \/ once)
    /\ UNCHANGED <<mounted, first, once, silent, quiet, robbed>>

(* onclose: the network, the server or ws.close() ended the socket, or it  *)
(* was refused. *)
Close ==
    /\ socket # "closed"
    /\ socket' = "closed"
    /\ StopHeartbeat
    /\ IF mounted
       THEN /\ status' = IF once THEN "reconnecting" ELSE status
            /\ retryCount' = IF retryCount < MaxRetries THEN retryCount + 1
                             ELSE MaxRetries
            /\ reconnect' = TRUE
       ELSE UNCHANGED <<status, retryCount, reconnect>>
    /\ behind' = (behind \/ once)
    /\ UNCHANGED <<mounted, first, once, silent, quiet, robbed>>

(* onclose of the first socket: its effect is cancelled, the refs are not. *)
CloseFirst ==
    /\ first
    /\ first' = FALSE
    /\ StopHeartbeat
    /\ robbed' = (robbed \/ socket = "open")
    /\ UNCHANGED <<mounted, socket, once, retryCount, reconnect, status, silent,
                   quiet, behind>>

(* Mutant of Reconnect: the count starts anew with each attempt. *)
ReconnectResets ==
    /\ reconnect /\ mounted
    /\ reconnect' = FALSE
    /\ socket' = "connecting" /\ retryCount' = 0
    /\ UNCHANGED <<mounted, first, once, heartbeat, status, silent,
                   quiet, behind, robbed>>

(* The timer calls connect. *)
Reconnect ==
    /\ reconnect /\ mounted
    /\ reconnect' = FALSE
    /\ socket' = "connecting"
    /\ UNCHANGED <<mounted, first, once, retryCount, heartbeat, status, silent,
                   quiet, behind, robbed>>
-----------------------------------------------------------------------------
Cleanup ==
    /\ mounted' = FALSE
    /\ StopHeartbeat
    /\ reconnect' = FALSE
    /\ socket' = Closing
    /\ UNCHANGED <<first, once, retryCount, status, silent, quiet, behind, robbed>>

Logout == mounted /\ Cleanup

(* ChatWindow's effect sends read.update when a room is entered or left:   *)
(* on a socket that still connects send raises, and React unmounts the     *)
(* whole tree; on one that closes or closed nothing happens.               *)
EnterRoom == mounted /\ socket = "connecting" /\ Cleanup

FallSilent ==
    /\ socket = "open" /\ ~silent
    /\ silent' = TRUE
    /\ UNCHANGED <<mounted, socket, first, once, retryCount, reconnect, heartbeat,
                   status, quiet, behind, robbed>>

Tick ==
    /\ ping # 0 /\ watchdog # 0
    /\ ping' = IF ping = None THEN None ELSE ping - 1
    /\ watchdog' = IF watchdog = None THEN None ELSE watchdog - 1
    /\ quiet' = IF socket = "open" /\ quiet <= Patience THEN quiet + 1 ELSE quiet
    /\ UNCHANGED <<mounted, socket, first, once, retryCount, reconnect, missed,
                   status, silent, behind, robbed>>

Next == \/ Open \/ PingDue \/ WatchdogDue \/ Pong \/ Close \/ CloseFirst \/ Reconnect
        \/ Logout \/ EnterRoom \/ FallSilent \/ Tick

(* Timers run and time goes on; a socket that is closing closes; the       *)
(* server, tried again and again, answers in the end.                      *)
Fairness ==
    /\ WF_vars(PingDue) /\ WF_vars(WatchdogDue) /\ WF_vars(Reconnect) /\ WF_vars(Tick)
    /\ WF_vars(socket = "closing" /\ Close) /\ SF_vars(Open)

Spec == Init /\ [][Next]_vars /\ Fairness
-----------------------------------------------------------------------------
(* A socket the tab believes open heard a pong within MAX_MISSED_PONGS     *)
(* intervals and a timeout: a dead one is closed by then, also when pongs  *)
(* came late and cleared the watchdog of a later ping.  Not so when the    *)
(* late onclose of a first mount took the heartbeat. *)
GivenUpInTime == socket = "open" /\ ~robbed => quiet <= Patience

(* One late pong ends no connection (docs/superpowers/specs/               *)
(* 2026-07-28-ws-connection-hardening-design.md:53): while the tab is      *)
(* there, it closes only a socket that gave no sign of life from a ping    *)
(* over MAX_MISSED_PONGS - 1 more to the last timeout. *)
ClosedOnlyWhenQuiet ==
    [][socket = "open" /\ socket' = "closing" /\ mounted' =>
          quiet >= (MAX_MISSED_PONGS - 1) * PING_INTERVAL + PONG_TIMEOUT]_vars

(* A tab always has one attempt going, and never two: a socket that is not *)
(* closed, or the timer of the next.  After a logout nothing is left that  *)
(* could start again, and no timer ever outlives its socket.  The banner   *)
(* is there just while a connection that once was is not. *)
OneAttempt ==
    /\ mounted => ((socket # "closed") # reconnect)
    /\ ~mounted => /\ ~reconnect /\ socket \in {"closing", "closed"}
                   /\ ping = None /\ watchdog = None
    /\ socket \in {"connecting", "closed"} => ping = None /\ watchdog = None
    /\ mounted /\ socket \in {"open", "closing"} => status = "connected"
    /\ mounted /\ socket \in {"connecting", "closed"} =>
          status = IF once THEN "reconnecting" ELSE "connecting"

(* A connection that was lost or is dead is replaced, and what was missed  *)
(* meanwhile is fetched, unless the tab is unmounted or robbed of its      *)
(* heartbeat. *)
Replaced == (mounted /\ (silent \/ behind)) ~>
                (~mounted \/ robbed \/ (socket = "open" /\ ~silent /\ ~behind))
=============================================================================
