------------------------- MODULE ConnectionManager -------------------------
(* The registry a server process keeps of its open sockets                 *)
(* (managers/connection.py): a dict from users to non-empty sets of        *)
(* sockets.  The operators are the synchronous methods of the class; the   *)
(* suspending ones, send_to_user and broadcast_to_users, are actions of    *)
(* Delivery, because other coroutines run while they wait.                 *)

EmptyRegistry == [u \in {} |-> {}]

(* user_id in self.connections *)
IsOnline(reg, u) == u \in DOMAIN reg

(* self.connections.get(user_id), with no entry read as no sockets *)
SocketsOf(reg, u) == IF IsOnline(reg, u) THEN reg[u] ELSE {}

Connected(reg, u, w) ==
    [v \in DOMAIN reg \cup {u} |->
        IF v = u THEN SocketsOf(reg, u) \cup {w} ELSE reg[v]]

(* Mutant of Disconnected: the entry stays when its last socket goes.      *)
DisconnectedKeepsEntry(reg, u, ws) ==
    [v \in DOMAIN reg |-> IF v = u THEN reg[u] \ ws ELSE reg[v]]

(* disconnect(u, w) called for every w in ws: the entry goes with the last *)
(* socket, so IsOnline is "has a socket".                                  *)
Disconnected(reg, u, ws) ==
    LET rest == SocketsOf(reg, u) \ ws
    IN  [v \in {x \in DOMAIN reg : x # u \/ rest # {}} |->
            IF v = u THEN rest ELSE reg[v]]
=============================================================================
