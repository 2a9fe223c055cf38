------------------------------ MODULE MCPeerLink ------------------------------
(***************************************************************************)
(* Losses that only the receivers notice: of one connection, with messages *)
(* both ways, and of two, with a peerd of the maker for each of three; and *)
(* two connections whose writes may also fail, the writes that repeat what *)
(* the first connection lost among them.                                   *)
(***************************************************************************)
EXTENDS PeerLinkProperties

Losses   == [msgs |-> 2, replies |-> 1, conns |-> 2, breaks |-> 1, write_fails |-> FALSE]
Thrice   == [msgs |-> 1, replies |-> 0, conns |-> 3, breaks |-> 2, write_fails |-> FALSE]
Errors   == [msgs |-> 1, replies |-> 1, conns |-> 2, breaks |-> 1, write_fails |-> TRUE]
Ordered  == [msgs |-> 2, replies |-> 0, conns |-> 2, breaks |-> 1, write_fails |-> TRUE]
Twice    == [msgs |-> 1, replies |-> 0, conns |-> 2, breaks |-> 2, write_fails |-> TRUE]
LossesAndErrors == {Losses, Thrice, Errors, Ordered, Twice}
===============================================================================
