-------------------------- MODULE OrderedBroadcast --------------------------
(* What the delivery of channel payloads promises, whatever sockets come   *)
(* and go and however many servers there are: payloads are published in    *)
(* one order, and a socket is written, in that order and without           *)
(* repetition, some of the payloads for its owner.                         *)
EXTENDS Naturals, Sequences

CONSTANTS Users, Sockets, Owner

VARIABLES
    log,        \* log[m]: the addressees of the m-th payload
    received    \* received[w]: numbers of the payloads written to w

Init ==
    /\ log = <<>>
    /\ received = [w \in Sockets |-> <<>>]

Publish ==
    /\ \E to \in SUBSET Users : log' = Append(log, to)
    /\ UNCHANGED received

Deliver(w) ==
    /\ \E m \in 1..Len(log) :
        /\ Owner[w] \in log[m]
        /\ \A i \in 1..Len(received[w]) : received[w][i] < m
        /\ received' = [received EXCEPT ![w] = Append(@, m)]
    /\ UNCHANGED log

Next == Publish \/ \E w \in Sockets : Deliver(w)

Spec == Init /\ [][Next]_<<log, received>>
=============================================================================
