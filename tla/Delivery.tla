------------------------------- MODULE Delivery -------------------------------
(***************************************************************************)
(* What a connection of peerd is to the one who sends over it: messages,   *)
(* numbered in the order they are sent, are handed over at least once, the *)
(* first time in that order.                                               *)
(***************************************************************************)
EXTENDS Integers

VARIABLES sent, got

deliveryVars == <<sent, got>>

DeliveryInit == sent = 0 /\ got = {}

Send == sent' = sent + 1 /\ got' = got

Deliver == \E n \in 1..sent :
    /\ 1..(n - 1) \subseteq got
    /\ got' = got \cup {n}
    /\ sent' = sent

DeliverySpec == DeliveryInit /\ [][Send \/ Deliver]_deliveryVars

===============================================================================
