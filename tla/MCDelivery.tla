----------------------------- MODULE MCDelivery -----------------------------
(* A small instance of Delivery: one server and two tabs of one user, so   *)
(* everything that can happen to one set of sockets.                       *)
EXTENDS Delivery

CONSTANTS A, w1, w2, s1

TabsUsers  == {A}
TabsOwner  == [w \in Sockets |-> A]
TabsHost   == [w \in Sockets |-> s1]
=============================================================================
