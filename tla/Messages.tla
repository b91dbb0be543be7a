------------------------------ MODULE Messages ------------------------------
(* The server's side of one room: sending a message and toggling a         *)
(* reaction (api/websocket.py, crud/message.py, crud/reaction.py), and the *)
(* page of the history a GET reads (services/message.py).  Every send and  *)
(* toggle is a transaction of its own, its payload goes out before its     *)
(* commit, and payloads reach a tab in the order they were published       *)
(* (Delivery).  The members of the room stay the same; what somebody else  *)
(* asks for is refused and changes nothing.                                *)
EXTENDS Naturals, Sequences, FiniteSets

CONSTANTS
    Users,
    Olds,           \* bound: messages that are there at first...
    News,           \* ... and messages sent
    Toggles,        \* bound: toggles of one emoji on the message Target
    By,             \* By[t] is the user who toggles
    Target,
    PageSize

Old == 1..Olds
New == (Olds + 1)..(Olds + News)
Message == Old \cup New

ASSUME MessagesAssumption ==
    /\ Olds \in Nat /\ News \in Nat /\ PageSize \in Nat \ {0}
    /\ Target \in Old
    /\ By \in [Toggles -> Users]

VARIABLES
    stored,         \* messages committed
    created_at,     \* created_at[m], 0 when there is no m yet
    clock,
    sending,        \* sending[m]: where the send of m stands
    reacted,        \* users with a committed reaction
    toggling,       \* toggling[t]: where the toggle t stands
    plan,           \* plan[t]: what t does to the row
    snapshot,       \* snapshot[t]: the reactions t read after its write
    link,           \* a member's socket: "down", "accepted" or, registered, "up"
    feed            \* payloads on their way to that socket, oldest first

serverVars == <<stored, created_at, clock, sending, reacted, toggling, plan,
                snapshot, link, feed>>
sendVars == <<stored, created_at, clock, sending>>
toggleVars == <<reacted, toggling, plan, snapshot>>

Payload == [type : {"message.new"}, id : New]
           \cup [type : {"reaction.update"}, by : SUBSET Users]

ServerTypeOK ==
    /\ stored \in SUBSET Message
    /\ created_at \in [Message -> 0..(Olds + News)]
    /\ clock \in 0..(Olds + News)
    /\ sending \in [New -> {"new", "flushed", "published", "ended"}]
    /\ reacted \in SUBSET Users
    /\ toggling \in [Toggles -> {"new", "flush", "read", "publish", "commit",
                                 "ended"}]
    /\ plan \in [Toggles -> {"none", "add", "remove"}]
    /\ snapshot \in [Toggles -> SUBSET Users]
    /\ link \in {"down", "accepted", "up"}
    /\ feed \in Seq(Payload)
    /\ feed # <<>> => link = "up"

ServerInit ==
    /\ stored = Old
    /\ created_at = [m \in Message |-> IF m \in Old THEN m ELSE 0]
    /\ clock = Olds
    /\ sending = [m \in New |-> "new"]
    /\ reacted \in SUBSET Users
    /\ toggling = [t \in Toggles |-> "new"]
    /\ plan = [t \in Toggles |-> "none"]
    /\ snapshot = [t \in Toggles |-> {}]
    /\ link = "up"
    /\ feed = <<>>
-----------------------------------------------------------------------------
(* What is published while the socket is not registered is for others. *)
Publish(n) == feed' = IF link = "up" THEN Append(feed, n) ELSE feed

(* message.send *)
SendTo(m, l) == sending' = [sending EXCEPT ![m] = l]

(* The row is made with the time of the clock; two may get the same time. *)
Flush(m) ==
    /\ sending[m] = "new"
    /\ \E now \in {clock, clock + 1} :
        /\ clock' = now
        /\ created_at' = [created_at EXCEPT ![m] = now]
    /\ SendTo(m, "flushed")
    /\ UNCHANGED <<stored, toggleVars, link, feed>>

PublishMessage(m) ==
    /\ sending[m] = "flushed"
    /\ Publish([type |-> "message.new", id |-> m])
    /\ SendTo(m, "published")
    /\ UNCHANGED <<stored, created_at, clock, toggleVars, link>>

Store(m) ==
    /\ sending[m] = "published"
    /\ stored' = stored \cup {m}
    /\ SendTo(m, "ended")
    /\ UNCHANGED <<created_at, clock, toggleVars, link, feed>>

(* The database or Redis fails and the transaction is rolled back. *)
AbortSend(m) ==
    /\ sending[m] \in {"flushed", "published"}
    /\ SendTo(m, "ended")
    /\ UNCHANGED <<stored, created_at, clock, toggleVars, link, feed>>
-----------------------------------------------------------------------------
(* reaction.toggle *)
ToggleTo(t, l) == toggling' = [toggling EXCEPT ![t] = l]

EndToggle(t) ==
    /\ ToggleTo(t, "ended")
    /\ plan' = [plan EXCEPT ![t] = "none"]
    /\ snapshot' = [snapshot EXCEPT ![t] = {}]

Applied(t) == CASE plan[t] = "add" -> reacted \cup {By[t]}
                [] plan[t] = "remove" -> reacted \ {By[t]}
                [] plan[t] = "none" -> reacted

(* Another toggle of the user wrote the row and has not ended. *)
RowHeld(t) ==
    \E o \in Toggles \ {t} : /\ By[o] = By[t] /\ plan[o] # "none"
                             /\ toggling[o] \in {"read", "publish", "commit"}

Look(t) ==
    /\ toggling[t] = "new"
    /\ plan' = [plan EXCEPT ![t] = IF By[t] \in reacted THEN "remove" ELSE "add"]
    /\ ToggleTo(t, "flush")
    /\ UNCHANGED <<sendVars, reacted, snapshot, link, feed>>

(* The INSERT or DELETE, made before the next SELECT: an INSERT fails when *)
(* the row is there by now, a DELETE finds nothing when it is gone.        *)
FlushToggle(t) ==
    /\ toggling[t] = "flush"
    /\ ~RowHeld(t)
    /\ \/ plan[t] = "add" /\ By[t] \in reacted /\ EndToggle(t)
       \/ /\ (plan[t] = "add") # (By[t] \in reacted)
          /\ ToggleTo(t, "read") /\ UNCHANGED <<plan, snapshot>>
       \/ /\ plan[t] = "remove" /\ By[t] \notin reacted
          /\ plan' = [plan EXCEPT ![t] = "none"]
          /\ ToggleTo(t, "read") /\ UNCHANGED snapshot
    /\ UNCHANGED <<sendVars, reacted, link, feed>>

(* All reactions of the message as this transaction sees them *)
ReadBack(t) ==
    /\ toggling[t] = "read"
    /\ snapshot' = [snapshot EXCEPT ![t] = Applied(t)]
    /\ ToggleTo(t, "publish")
    /\ UNCHANGED <<sendVars, reacted, plan, link, feed>>

PublishReactions(t) ==
    /\ toggling[t] = "publish"
    /\ Publish([type |-> "reaction.update", by |-> snapshot[t]])
    /\ ToggleTo(t, "commit")
    /\ UNCHANGED <<sendVars, reacted, plan, snapshot, link>>

CommitToggle(t) ==
    /\ toggling[t] = "commit"
    /\ reacted' = Applied(t)
    /\ EndToggle(t)
    /\ UNCHANGED <<sendVars, link, feed>>

AbortToggle(t) ==
    /\ toggling[t] \in {"flush", "read", "publish", "commit"}
    /\ EndToggle(t)
    /\ UNCHANGED <<sendVars, reacted, link, feed>>
-----------------------------------------------------------------------------
(* GET messages: the newest PageSize messages, or those strictly older     *)
(* than the message the client names, oldest first.  The order of messages *)
(* of one time is the database's choice.  A message it does not have has   *)
(* no time, and nothing is older. *)
Latest == 0

(* Mutant of OlderThan: not strictly older *)
NotNewerThan(m) ==
    CASE m = Latest -> stored
      [] m \in stored -> {x \in stored : created_at[x] <= created_at[m]}
      [] OTHER -> {}

OlderThan(m) ==
    CASE m = Latest -> stored
      [] m \in stored -> {x \in stored : created_at[x] < created_at[m]}
      [] OTHER -> {}

Pages(m) ==
    LET found == OlderThan(m)
        size == IF Cardinality(found) < PageSize THEN Cardinality(found)
                ELSE PageSize
    IN  {p \in [1..size -> found] :
            LET shown == {p[i] : i \in 1..size} IN
            /\ \A i, j \in 1..size : i < j =>
                  p[i] # p[j] /\ created_at[p[i]] <= created_at[p[j]]
            /\ \A x \in found \ shown, y \in shown : created_at[x] <= created_at[y]}
=============================================================================
