-------------------------- MODULE PeerLinkProperties --------------------------
(***************************************************************************)
(* What two peerd daemons promise each other and their swaps.              *)
(***************************************************************************)
EXTENDS PeerLink

Elements(q) == {q[i] : i \in DOMAIN q}

Sent == 1..sent.taker
Replied == 1..sent.maker
Packet(msgs) == [kind : {"msg"}, n : msgs] \cup [kind : {"receipt", "down"}, n : Nat]
Process == {"gone", "starting", "up", "told"}

(***************************************************************************)
(* The type invariant: a process that is gone leaves nothing behind, a     *)
(* message is in hand only between a failed send and the next one, what is *)
(* sent again is sent while reconnecting, and farcasterd hears of peerds   *)
(* only.                                                                   *)
(***************************************************************************)
SentOK == sent \in [taker : Nat, maker : Nat]
TakerOK ==
    /\ taker \in [pc : {"loop", "reconnect", "resend", "send"}, hand : {0} \cup Sent,
                  again : Seq(Sent), inbox : Seq(Sent), cache : Seq(Sent),
                  bridge : Seq(Packet(Replied)), conn : Conn, reads : BOOLEAN]
    /\ taker.pc = "loop" => taker.hand = 0
    /\ taker.pc # "resend" => taker.again = <<>>
MakerOK == maker \in [Conn -> [st : Process, inbox : Seq(Replied), cache : Seq(Replied),
                              bridge : Seq(Packet(Sent)), reads : BOOLEAN]]
LinkOK == link \in [Conn -> [alive : BOOLEAN, toM : Seq(Packet(Sent)),
                            toT : Seq(Packet(Replied))]]
GoneOK == \A c \in Conn : maker[c].st = "gone" =>
              maker[c] = Gone /\ ~link[c].alive /\ link[c].toM = <<>>
QueueOK == fd \in Seq([msg : {"Hello", "PeerdTerminated"}, conn : Conn])
SwapOK == swap \in [peer : Conn, pending : Seq(Replied)]
GotOK == /\ handed \subseteq Sent /\ got.maker \subseteq handed
         /\ got \in [taker : SUBSET Replied, maker : SUBSET Sent]
EnvOK == env \in [msgs : Nat, replies : Nat, conns : 1..MaxConns,
                 breaks : Nat, write_fails : BOOLEAN]
TypeOK == SentOK /\ TakerOK /\ MakerOK /\ LinkOK /\ GoneOK /\ QueueOK /\ SwapOK /\ GotOK /\ EnvOK

(***************************************************************************)
(* "re-emitting cached message after reconnect" (reconnect_peer): whatever *)
(* breaks, and however often, a message the taker's swapd has sent is with *)
(* its peerd until a peerd of the maker has handed it on.                  *)
(***************************************************************************)
Kept == \A n \in 1..sent.taker :
    \/ n \in Elements(taker.inbox) \cup Elements(taker.cache) \/ n = taker.hand
    \/ n \in handed

\* The receipts in a queue are of messages in H.
Confirmed(q, H) == \A i \in DOMAIN q : q[i].kind = "receipt" => q[i].n \in H

(***************************************************************************)
(* A receipt on its way to the taker, or read and not yet handled, is of a *)
(* message that was handed on: unchecked_msg_cache forgets no other.       *)
(***************************************************************************)
ReceiptsTrue == /\ Confirmed(taker.bridge, handed)
                /\ \A c \in Conn : Confirmed(link[c].toT, handed)

(***************************************************************************)
(* The two peerds and all connections between them are one connection that *)
(* hands over every message at least once, the first time in the order in  *)
(* which they were sent.                                                   *)
(***************************************************************************)
Connection == INSTANCE Delivery WITH sent <- sent.taker, got <- handed
Delivered == Connection!DeliverySpec

-------------------------------------------------------------------------------
(***************************************************************************)
(* Every loop goes on: the main loop of a peerd serves each of its sockets *)
(* in turn, a thread that reads does read, farcasterd serves its queue. A  *)
(* swapd need not send, the network need not break anything, and a write   *)
(* need not fail.                                                          *)
(***************************************************************************)
Fairness ==
    /\ WF_vars(taker_handle_msg) /\ WF_vars(taker_handle_bridge)
    /\ WF_vars(reconnect_peer) /\ WF_vars(resend_cached) /\ WF_vars(reconnected)
    /\ WF_vars(taker_reads) /\ WF_vars(taker_reader_ends)
    /\ WF_vars(farcasterd_handles)
    /\ \A c \in Conn :
          /\ WF_vars(maker_starts(c)) /\ WF_vars(maker_handle_msg(c))
          /\ WF_vars(maker_handle_bridge(c)) /\ WF_vars(maker_terminates(c))
          /\ WF_vars(maker_reads(c)) /\ WF_vars(maker_reader_ends(c))
FairSpec == Spec /\ Fairness

(***************************************************************************)
(* All that the taker's swapd has sent is handed to the maker's bus, once  *)
(* it sends no more and the network breaks no more connections; and then   *)
(* the main loop of the taker's peerd is back (reconnect_peer: "This       *)
(* blocks until reconnected successfully"). Both are so as long as it is   *)
(* the receiver that notices broken connections: the error of a write sets *)
(* the main loop on waiting for the receiver of the next, working one.     *)
(***************************************************************************)
AllHanded == ~env.write_fails => <>[](handed = 1..sent.taker /\ taker.pc = "loop")

(***************************************************************************)
(* "If this is the listener-forked peerd, i.e. the maker's peerd,          *)
(* terminate it": no process outlives its connection for ever.             *)
(***************************************************************************)
NoOrphans == \A c \in Conn :
    (maker[c].st # "gone" /\ ~link[c].alive) ~> (maker[c].st = "gone" \/ link[c].alive)

===============================================================================
