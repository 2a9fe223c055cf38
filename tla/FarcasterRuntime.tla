-------------------------- MODULE FarcasterRuntime --------------------------
(***************************************************************************)
(* The parts of farcasterd's Runtime its state machines work on            *)
(* (src/src/farcasterd/runtime.rs): the services it knows, the connections *)
(* it asks for, the syncers it launches and what it terminates when they   *)
(* are no longer used.                                                     *)
(*                                                                         *)
(* A handler is an operator on a result r: the runtime so far (r.rt), what *)
(* it has sent and launched, and whether it goes on (r.ok).  Sending to a  *)
(* service that is not on the bus fails, and the ? behind every send ends  *)
(* the handler there: what was changed before stays changed, what was      *)
(* moved out of the runtime is lost.                                       *)
(***************************************************************************)
EXTENDS Naturals, FiniteSets, SequencesExt

CONSTANTS
  Deals,         \* the deals, each with its swap: a swap has the id of its deal
  MakerDeals,    \* those this node makes; it takes the others
  Nodes,         \* the nodes,
  Here,          \* this one,
  Counterparty   \* and the remote node of a deal

ASSUME DealsAssumption ==
  /\ IsFiniteSet(Deals)
  /\ MakerDeals \subseteq Deals
  /\ Here \in Nodes /\ Counterparty \in [Deals -> Nodes]

---------------------------------------------------------------------------
(* The services on the bus.  A connecting peerd has the address of the      *)
(* remote node, one forked by the listener that node's id with the address *)
(* it is bound to; each process has an id of its own, 0 for none yet.       *)

Chains == {"btc", "xmr"}

None      == [kind |-> "none"]
Database  == [kind |-> "database"]
Wallet    == [kind |-> "wallet"]
Swap(d)   == [kind |-> "swap", deal |-> d]
Syncer(c) == [kind |-> "syncer", chain |-> c]
Peer(u, n, side) == [kind |-> "peer", uuid |-> u, node |-> n, side |-> side]

node_addr(s) == IF s.kind = "peer" THEN <<s.node, s.side>> ELSE <<>>
node_id(s)   == IF s.kind = "peer" THEN {s.node} ELSE {}
node_addr_from_deal(d) == IF d \in MakerDeals THEN Here ELSE Counterparty[d]
dummy_peer_service_id(n) == Peer(0, n, "out")

peers(services)   == {s \in services : s.kind = "peer"}
syncers(services) == {s \in services : s.kind = "syncer"}

---------------------------------------------------------------------------
(* The runtime at its start, and a trade state machine.                     *)

NewRuntime ==
  [registered |-> {}, spawning |-> {}, deals |-> {},
   tsms |-> <<>>, ssms |-> {}, counter |-> 0,
   keys |-> FALSE, listens |-> FALSE, auto_restored |-> FALSE]

Trade(st, d, peerd) ==
  [st |-> st, deal |-> d, peerd |-> peerd,
   up |-> {},               \* which of "btc", "xmr" and "swapd" have said hello
   expect |-> FALSE,        \* a restoring taker waits for its connection
   expected |-> {},         \* the counterparty a checkpoint names, if any
   reconnected |-> FALSE,   \* the connection changed before the swap ran
   client |-> None]         \* who is told that the deal is taken

\* The machine a swap is known by, the deals being traded, the connections
\* and the syncers that count as used.
has_swap_id(t) == t.st \in {"SwapdLaunched", "RestoringSwapd", "SwapdRunning"}

\* A deal on its way does not count.
consumed_deals_Running(rt) == {t.deal : t \in {u \in ToSet(rt.tsms) : u.st = "SwapdRunning"}}

consumed_deals(rt) == {t.deal : t \in {u \in ToSet(rt.tsms) : u.st # "MakeDeal"}}

get_connection(t) ==
  IF t.st \in {"TakeDeal", "TakerCommit", "SwapdLaunched", "SwapdRunning"}
  THEN t.peerd ELSE None

\* Only a launched swap holds its syncers.
syncers_of_Launched(t) == IF t.st = "SwapdLaunched" THEN t.up \cap Chains ELSE {}

syncers_of(t) ==
  CASE t.st = "SwapdLaunched" -> t.up \cap Chains
    [] t.st = "SwapdRunning"  -> Chains
    [] OTHER                  -> {}

awaiting_connect_from(t) ==
  IF /\ t.deal \notin MakerDeals
     /\ \/ t.st = "TakerConnect"
        \/ t.st = "RestoringSwapd" /\ t.expect
        \/ t.st = "SwapdRunning" /\ t.peerd = None
  THEN <<Counterparty[t.deal], "out">> ELSE <<>>

---------------------------------------------------------------------------
(* Running a handler.                                                       *)

Begin(rt, reach, uuid) ==
  [rt |-> rt, reach |-> reach, uuid |-> uuid, ok |-> TRUE,
   sent |-> {}, launched |-> {}]

send(r, to, msg, arg) ==
  IF r.ok /\ to \in r.reach
  THEN [r EXCEPT !.sent = @ \cup {[to |-> to, msg |-> msg, arg |-> arg]}]
  ELSE [r EXCEPT !.ok = FALSE]

push(r, t) == IF r.ok THEN [r EXCEPT !.rt.tsms = Append(@, t)] ELSE r

services_ready(r)  == {Wallet, Database} \subseteq r.rt.registered
peer_keys_ready(r) == r.rt.keys

---------------------------------------------------------------------------
(* Connections.  A peerd counts as the connection to a node whichever side  *)
(* opened it; of several, any is taken.                                     *)

linked(services, n) == {s \in peers(services) : s.node = n}

connected(r, n) ==
  linked(r.rt.spawning, n) = {} /\ linked(r.rt.registered, n) # {}

connection(r, n) ==
  LET known == IF linked(r.rt.spawning, n) # {}
               THEN linked(r.rt.spawning, n) ELSE linked(r.rt.registered, n)
  IN  IF known = {} THEN dummy_peer_service_id(n) ELSE CHOOSE s \in known : TRUE

connect_peer(r, n) ==
  IF linked(r.rt.spawning, n) # {} \/ linked(r.rt.registered, n) # {} THEN r
  ELSE [r EXCEPT !.launched = @ \cup {Peer(r.uuid, n, "out")},
                 !.rt.spawning = @ \cup {dummy_peer_service_id(n)}]

handle_new_connection(r, p) ==
  [r EXCEPT !.rt.spawning = @ \ {Peer(0, p.node, p.side)},
            !.rt.registered = r.rt.registered \cup {p}]

handle_failed_connection(r, p) ==
  send([r EXCEPT !.rt.spawning = @ \ {Peer(0, p.node, p.side)},
                 !.rt.registered = r.rt.registered \ {p}], p, "Terminate", None)

---------------------------------------------------------------------------
(* Syncers, and what is terminated once nothing uses it: a machine that is  *)
(* being handled is not among those of the runtime.                         *)

syncer_up(r, c) ==
  IF Syncer(c) \in r.rt.registered \cup r.rt.spawning THEN r
  ELSE [r EXCEPT !.launched = @ \cup {Syncer(c)},
                 !.rt.spawning = @ \cup {Syncer(c)}]

syncers_up(r) == syncer_up(syncer_up(r, "btc"), "xmr")

registered_chains(r) == {c \in Chains : Syncer(c) \in r.rt.registered}

\* The syncer state machines are not looked at.
syncer_has_client_Swaps(r, s) == \E t \in ToSet(r.rt.tsms) : s.chain \in syncers_of(t)

syncer_has_client(r, s) ==
  \/ \E t \in ToSet(r.rt.tsms) : s.chain \in syncers_of(t)
  \/ \E m \in r.rt.ssms : m.chain = s.chain

\* Only a running swap holds its connection.
connection_has_swap_client_Running(r, p) ==
  \E t \in ToSet(r.rt.tsms) : t.st = "SwapdRunning" /\ t.peerd = p

connection_has_swap_client(r, p) ==
  \E t \in ToSet(r.rt.tsms) : get_connection(t) = p

\* A service that cannot be reached stays registered.
terminate(r, services) ==
  LET told == services \cap r.reach
  IN  [r EXCEPT !.sent = @ \cup {[to |-> s, msg |-> "Terminate", arg |-> None] : s \in told},
                !.rt.registered = @ \ told]

unused_syncers(r) == {s \in syncers(r.rt.registered) : ~syncer_has_client(r, s)}
unused_peers(r)   == {p \in peers(r.rt.registered) : ~connection_has_swap_client(r, p)}

clean_up_after_syncer_usage(r) ==
  IF r.ok THEN terminate(r, unused_syncers(r)) ELSE r

\* The syncers are left running.
clean_up_after_swap_Peers(r, d) ==
  LET told == send(send(r, Swap(d), "Terminate", None), Database, "RemoveCheckpoint", d)
  IN  IF told.ok THEN terminate(told, unused_peers(told)) ELSE told

clean_up_after_swap(r, d) ==
  LET told == send(send(r, Swap(d), "Terminate", None), Database, "RemoveCheckpoint", d)
  IN  IF told.ok THEN terminate(told, unused_syncers(told) \cup unused_peers(told)) ELSE told
=============================================================================
