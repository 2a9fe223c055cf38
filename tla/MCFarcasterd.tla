---------------------------- MODULE MCFarcasterd ----------------------------
(***************************************************************************)
(* A node that takes d1 and d3 from the node n1 and makes d2, which n2     *)
(* takes, in seven worlds.                                                 *)
(***************************************************************************)
EXTENDS FarcasterdProperties

CONSTANTS d1, d2, d3, n0, n1, n2

ThreeNodes == [d \in Deals |-> IF d = d2 THEN n2 ELSE n1]

Saved(ds) == [d \in Deals |-> IF d \in ds THEN [saved |-> TRUE, expected |-> {Counterparty[d]}]
                              ELSE NoCheckpoint]

\* A deal of each kind is traded, with a request for a syncer and a Connect beside.
Trading    == [stored |-> Saved({}), auto |-> FALSE, clients |-> {"cli"}, open |-> {d1, d2},
               trades |-> 2, links |-> 2, jobs |-> 1, connects |-> 1,
               mortal |-> {}, faults |-> 0]
\* Two requests are made beside one deal.
Asking     == [Trading EXCEPT !.open = {d1}, !.jobs = 2]
\* Two deals are taken from one node.
Rivals     == [Trading EXCEPT !.open = {d1, d3}, !.connects = 0]
\* A deal is taken while a checkpoint is restored, on request and at the start,
\* and the user connects it: then without Connect, but a process dies.
Restoring  == [Trading EXCEPT !.stored = Saved({d2}), !.auto = TRUE, !.open = {d1},
                              !.trades = 1, !.jobs = 0]
Dying      == [Restoring EXCEPT !.connects = 0,
                                !.mortal = {"swap", "peer", "client"}, !.faults = 1]
\* Two checkpoints are restored while others call, and the node restarts: of
\* deals of different nodes, and of one.
Restarting == [Trading EXCEPT !.stored = Saved({d1, d2}), !.auto = TRUE, !.clients = {},
                              !.links = 3, !.jobs = 0, !.connects = 0, !.faults = 1]
Returning  == [Restarting EXCEPT !.stored = Saved({d1, d3})]

NodeEnvironments == {Trading, Asking, Rivals, Restoring, Dying, Restarting, Returning}
=============================================================================
