--------------------------- MODULE FarcasterdProofs ---------------------------
(***************************************************************************)
(* What farcasterd promises, for any deals, nodes, clients and requests.   *)
(***************************************************************************)
EXTENDS FarcasterdProperties, SequenceTheorems, FiniteSetTheorems, WellFoundedInduction, TLAPS

-------------------------------------------------------------------------------
(***************************************************************************)
(* Types.                                                                  *)
(***************************************************************************)
Names      == UNION {e.clients : e \in Environments}
Connection == [kind : {"peer"}, uuid : Nat, node : Nodes, side : {"in", "out"}]
Service ==
    [kind : {"none", "database", "wallet"}] \cup [kind : {"swap"}, deal : Deals]
      \cup [kind : {"syncer"}, chain : Chains] \cup Connection
      \cup [kind : {"client"}, name : Names]

Machine ==
    [st : {"MakeDeal", "TakerConnect", "TakerCommit", "TakeDeal", "SwapdLaunched",
           "RestoringSwapd", "SwapdRunning"},
     deal : Deals, peerd : Connection \cup {None}, up : SUBSET (Chains \cup {"swapd"}),
     expect : BOOLEAN, expected : SUBSET Nodes, reconnected : BOOLEAN, client : Service]
Request == [task : Nat, chain : Chains, client : Service, given : BOOLEAN]
Runtime ==
    [registered : SUBSET Service, spawning : SUBSET Service, deals : SUBSET Deals,
     tsms : Seq(Machine), ssms : SUBSET Request, counter : Nat,
     keys : BOOLEAN, listens : BOOLEAN, auto_restored : BOOLEAN]

\* What is sent, about a connection and about anything.
Linking == {"InitSwap", "PeerdReconnected"}
Telling ==
    {"Terminate", "Failure", "SetDealStatus", "MadeDeal", "Revoked", "CreateSwapKeys", "TookDeal",
     "DealNotFound", "Restoring", "RestoreCheckpoint", "RemoveCheckpoint", "ConnectSuccess",
     "Task", "Answer"}
Msg ==
    [to : Service, msg : Linking, arg : Service]
      \cup [to : Service, msg : Telling, arg : Service \cup Deals \cup Nat]
Result ==
    [rt : Runtime, reach : SUBSET Service, uuid : Nat, ok : BOOLEAN,
     sent : SUBSET Msg, launched : SUBSET Service]

\* What a machine leaves alone when it hears a Hello: all but the machines and
\* what was sent.
Leaves(q, r) ==
    /\ q.reach = r.reach /\ q.uuid = r.uuid /\ q.launched = r.launched
    /\ q.rt.registered = r.rt.registered /\ q.rt.spawning = r.rt.spawning
    /\ q.rt.deals = r.rt.deals /\ q.rt.ssms = r.rt.ssms /\ q.rt.counter = r.rt.counter
    /\ q.rt.keys = r.rt.keys /\ q.rt.listens = r.rt.listens
    /\ q.rt.auto_restored = r.rt.auto_restored

\* Nothing is terminated and no checkpoint removed.
Quiet(q, r) ==
    /\ q.reach = r.reach
    /\ \A m \in q.sent : m \in r.sent \/ m.msg \notin {"Terminate", "RemoveCheckpoint"}

\* Something has been sent, or a sending failed.
Sends(q, r) ==
    /\ q \in Result
    /\ q.rt = r.rt /\ q.reach = r.reach /\ q.uuid = r.uuid /\ q.launched = r.launched
    /\ r.sent \subseteq q.sent
    /\ q.ok = r.ok \/ q.ok = FALSE

\* A machine has been pushed, unless a sending failed.
Pushed(q, r) ==
    /\ q \in Result /\ Leaves(q, r)
    /\ q.ok => r.ok /\ \E u \in Machine : q.rt.tsms = Append(r.rt.tsms, u)

TypeOK ==
    /\ env \in Environments
    /\ runtime \in Runtime
    /\ alive \in SUBSET Service /\ starting \in SUBSET Service
    /\ dialing \in SUBSET Connection
    /\ swapd \in [Deals -> [st : {"idle", "running", "ended"}, peer : Service]]
    /\ store \in [Deals -> [saved : BOOLEAN, expected : SUBSET Nodes]]
    /\ links \in Nat

-------------------------------------------------------------------------------
(***************************************************************************)
(* Services.                                                               *)
(***************************************************************************)

\* What the constructors make (ServiceId).
LEMMA Services ==
    /\ {None, Database, Wallet} \subseteq Service
    /\ \A d \in Deals : Swap(d) \in Service
    /\ \A c \in Chains : Syncer(c) \in Service
    /\ \A u \in Nat, n \in Nodes, side \in {"in", "out"} :
         Peer(u, n, side) \in Connection /\ Peer(u, n, side) \in Service
    /\ Connection \subseteq Service
    /\ \A S \in SUBSET Service : peers(S) \subseteq Connection /\ syncers(S) \subseteq Service
    /\ \A d \in Deals : Counterparty[d] \in Nodes /\ node_addr_from_deal(d) \in Nodes
BY DealsAssumption
   DEF node_addr_from_deal, Service, None, Database, Wallet, Swap, Syncer, Peer, Connection, peers, syncers

\* The clients of an environment (Clients).
LEMMA ClientsAreServices ==
    ASSUME env \in Environments
    PROVE  \A c \in Clients : client(c) \in Service
BY DEF Clients, client, Service, Names

\* A node id is a set of nodes (ServiceId::node_id).
LEMMA NodeIds == \A s \in Service : node_id(s) \subseteq Nodes
BY DEF Service, node_id, Connection

-------------------------------------------------------------------------------
(***************************************************************************)
(* Handlers keep the types: one lemma per operator.                        *)
(***************************************************************************)

\* The messages there are (CtlMsg, InfoMsg, SyncMsg).
LEMMA Messages ==
    /\ "InitSwap" \in Linking /\ "PeerdReconnected" \in Linking
    /\ "Terminate" \in Telling /\ "Failure" \in Telling /\ "SetDealStatus" \in Telling
    /\ "MadeDeal" \in Telling /\ "Revoked" \in Telling /\ "CreateSwapKeys" \in Telling
    /\ "TookDeal" \in Telling /\ "DealNotFound" \in Telling /\ "Restoring" \in Telling
    /\ "RestoreCheckpoint" \in Telling /\ "RemoveCheckpoint" \in Telling
    /\ "ConnectSuccess" \in Telling /\ "Task" \in Telling /\ "Answer" \in Telling
BY DEF Linking, Telling

\* complete_ctl_service and its like, with the ? behind it.
LEMMA SendType ==
    ASSUME NEW r \in Result, NEW to \in Service, NEW msg \in Linking \cup Telling,
           NEW arg \in Service \cup Deals \cup Nat, msg \in Telling \/ arg \in Service
    PROVE  LET q == send(r, to, msg, arg) IN
           /\ q \in Result /\ Sends(q, r)
           /\ msg \notin {"Terminate", "RemoveCheckpoint"} => Quiet(q, r)
           /\ r.ok /\ to \in r.reach => q.ok
           /\ q.sent \subseteq r.sent \cup {[to |-> to, msg |-> msg, arg |-> arg]}
<1>1. [to |-> to, msg |-> msg, arg |-> arg] \in Msg
  BY DEF Msg
<1>2. send(r, to, msg, arg) \in Result /\ Sends(send(r, to, msg, arg), r)
  BY <1>1 DEF send, Result, Sends
<1>3. r.ok /\ to \in r.reach => send(r, to, msg, arg).ok
  BY DEF send, Result
<1>4. /\ send(r, to, msg, arg).sent \subseteq r.sent \cup {[to |-> to, msg |-> msg, arg |-> arg]}
      /\ \A m \in send(r, to, msg, arg).sent : m \in r.sent \/ m.msg = msg
  BY DEF send, Result
<1> QED
  BY <1>2, <1>3, <1>4 DEF Quiet, Sends

\* Two sendings, or none.
LEMMA SendsOn ==
    ASSUME NEW r \in Result
    PROVE  /\ Sends(r, r)
           /\ Quiet(r, r)
           /\ \A q, s : Sends(q, r) /\ Sends(s, q) => Sends(s, r)
           /\ \A q, s : Quiet(q, r) /\ Quiet(s, q) => Quiet(s, r)
BY DEF Sends, Quiet

\* The machines of the runtime are exchanged (drain and push).
LEMMA MachinesType ==
    ASSUME NEW r \in Result, NEW q \in Seq(Machine)
    PROVE  /\ [r EXCEPT !.rt.tsms = q] \in Result
           /\ [r EXCEPT !.rt.tsms = q].rt = [r.rt EXCEPT !.tsms = q]
BY DEF Result, Runtime

\* Vec::push of a machine that was moved out.
LEMMA PushType ==
    ASSUME NEW r \in Result, NEW t \in Machine
    PROVE  /\ push(r, t) \in Result /\ Leaves(push(r, t), r)
           /\ push(r, t).ok = r.ok /\ push(r, t).sent = r.sent
           /\ push(r, t).rt.tsms = IF r.ok THEN Append(r.rt.tsms, t) ELSE r.rt.tsms
           /\ Pushed(push(r, t), r) /\ Quiet(push(r, t), r)
<1>1. r.rt.tsms \in Seq(Machine) /\ r.rt \in Runtime
  BY DEF Result, Runtime
<1>2. Append(r.rt.tsms, t) \in Seq(Machine)
  BY <1>1, AppendProperties
<1>3. push(r, t) \in Result
  BY <1>2, MachinesType DEF push
<1>4. Leaves(push(r, t), r)
  BY DEF push, Result, Runtime, Leaves
<1>5. /\ push(r, t).ok = r.ok /\ push(r, t).sent = r.sent
      /\ push(r, t).rt.tsms = IF r.ok THEN Append(r.rt.tsms, t) ELSE r.rt.tsms
  BY DEF push, Result, Runtime
<1> QED
  BY <1>3, <1>4, <1>5 DEF Pushed, Quiet, Leaves

\* Pushed after sendings.
LEMMA PushAfter ==
    ASSUME NEW r \in Result, NEW told, Sends(told, r), NEW t \in Machine
    PROVE  /\ Pushed(push(told, t), r)
           /\ push(told, t).ok = told.ok /\ push(told, t).sent = told.sent
           /\ told.ok => push(told, t).rt.tsms = Append(r.rt.tsms, t)
           /\ Quiet(told, r) => Quiet(push(told, t), r)
<1>1. /\ told \in Result /\ push(told, t) \in Result /\ Leaves(push(told, t), told)
      /\ push(told, t).ok = told.ok /\ push(told, t).sent = told.sent
      /\ push(told, t).rt.tsms = IF told.ok THEN Append(told.rt.tsms, t) ELSE told.rt.tsms
  BY PushType DEF Sends
<1>2. Leaves(push(told, t), r)
  BY <1>1 DEF Leaves, Sends
<1>3. told.ok => r.ok
  BY DEF Sends
<1> QED
  BY <1>1, <1>2, <1>3 DEF Pushed, Sends, Quiet, Leaves

\* A machine for a deal (TradeStateMachine's variants).
LEMMA TradeType ==
    ASSUME NEW st \in {"MakeDeal", "TakerConnect", "TakerCommit", "TakeDeal", "RestoringSwapd"},
           NEW d \in Deals, NEW p \in Connection \cup {None}
    PROVE  Trade(st, d, p) \in Machine
BY Services DEF Trade, Machine

\* connect_peer: launched, or there is one already.
LEMMA ConnectPeerType ==
    ASSUME NEW r \in Result, NEW n \in Nodes
    PROVE  /\ connect_peer(r, n) \in Result
           /\ connection(r, n) \in Connection
           /\ connect_peer(r, n).reach = r.reach /\ connect_peer(r, n).ok = r.ok
           /\ connect_peer(r, n).uuid = r.uuid /\ connect_peer(r, n).sent = r.sent
<1>1. r.rt \in Runtime /\ r.uuid \in Nat
  BY DEF Result
<1>2. /\ dummy_peer_service_id(n) \in Connection /\ dummy_peer_service_id(n) \in Service
      /\ Peer(r.uuid, n, "out") \in Service
  BY <1>1, Services DEF dummy_peer_service_id
<1>3. connect_peer(r, n) \in Result
  BY <1>2 DEF connect_peer, Result, Runtime
<1>4. linked(r.rt.spawning, n) \subseteq Connection /\ linked(r.rt.registered, n) \subseteq Connection
  BY <1>1, Services DEF linked, Runtime
<1>5. connection(r, n) \in Connection
  BY <1>2, <1>4 DEF connection
<1> QED
  BY <1>3, <1>5 DEF connect_peer, Result

\* What is spawning and what is registered change together.
Exchanged(r, S, T) == [r EXCEPT !.rt.spawning = S, !.rt.registered = T]

\* Such a change is well typed, and touches nothing else.
LEMMA RegistryType ==
    ASSUME NEW r \in Result, NEW S \in SUBSET Service, NEW T \in SUBSET Service
    PROVE  LET q == Exchanged(r, S, T) IN
           /\ q \in Result
           /\ q.rt.spawning = S /\ q.rt.registered = T
           /\ q.rt.tsms = r.rt.tsms /\ q.rt.ssms = r.rt.ssms /\ q.rt.deals = r.rt.deals
           /\ q.reach = r.reach /\ q.uuid = r.uuid /\ q.ok = r.ok
           /\ q.sent = r.sent /\ q.launched = r.launched
<1>1. Exchanged(r, S, T) = [r EXCEPT !.rt = [@ EXCEPT !.spawning = S, !.registered = T]]
  BY DEF Exchanged
<1>2. /\ [r EXCEPT !.rt = [@ EXCEPT !.spawning = S, !.registered = T]] \in Result
      /\ [r EXCEPT !.rt = [@ EXCEPT !.spawning = S, !.registered = T]].rt
           = [r.rt EXCEPT !.spawning = S, !.registered = T]
  BY DEF Result, Runtime
<1> QED
  BY <1>1, <1>2, ZenonT(60) DEF Result, Runtime

\* handle_new_connection, handle_failed_connection.
LEMMA ConnectionType ==
    ASSUME NEW r \in Result, NEW p \in Service
    PROVE  /\ handle_new_connection(r, p) \in Result
           /\ handle_new_connection(r, p).reach = r.reach
           /\ handle_new_connection(r, p).uuid = r.uuid
           /\ handle_new_connection(r, p).ok = r.ok
           /\ handle_new_connection(r, p).sent = r.sent
           /\ handle_failed_connection(r, p) \in Result
           /\ handle_failed_connection(r, p).reach = r.reach
           /\ handle_failed_connection(r, p).uuid = r.uuid
<1>1. p \in Service /\ r.rt \in Runtime
  BY Services DEF Result
<1> DEFINE fewer == r.rt.spawning \ {Peer(0, p.node, p.side)}
<1>2. /\ fewer \in SUBSET Service
      /\ r.rt.registered \cup {p} \in SUBSET Service
      /\ r.rt.registered \ {p} \in SUBSET Service
  BY <1>1 DEF Runtime
<1>3. handle_new_connection(r, p) = Exchanged(r, fewer, r.rt.registered \cup {p})
  BY DEF handle_new_connection, Exchanged
<1> DEFINE q == Exchanged(r, fewer, r.rt.registered \ {p})
<1>4. handle_failed_connection(r, p) = send(q, p, "Terminate", None)
  BY DEF handle_failed_connection, Exchanged
<1>5. q \in Result /\ q.reach = r.reach /\ q.uuid = r.uuid
  BY <1>2, RegistryType
<1> HIDE DEF q
<1>6. /\ handle_failed_connection(r, p) \in Result
      /\ handle_failed_connection(r, p).reach = r.reach
      /\ handle_failed_connection(r, p).uuid = r.uuid
  <2>1. None \in Service
    BY Services
  <2>2. /\ send(q, p, "Terminate", None) \in Result
        /\ Sends(send(q, p, "Terminate", None), q)
    BY <1>1, <1>5, <2>1, SendType, Messages
  <2> QED
    BY <1>4, <1>5, <2>2 DEF Sends
<1> HIDE DEF fewer
<1> QED
  BY <1>2, <1>3, <1>6, RegistryType

\* syncer_up, for one chain and for both.
LEMMA SyncerUpType ==
    ASSUME NEW r \in Result
    PROVE  /\ \A c \in Chains :
                /\ syncer_up(r, c) \in Result
                /\ syncer_up(r, c).reach = r.reach /\ syncer_up(r, c).ok = r.ok
                /\ syncer_up(r, c).uuid = r.uuid /\ syncer_up(r, c).sent = r.sent
           /\ syncers_up(r) \in Result
           /\ syncers_up(r).reach = r.reach /\ syncers_up(r).ok = r.ok
           /\ syncers_up(r).uuid = r.uuid /\ syncers_up(r).sent = r.sent
<1>1. ASSUME NEW q \in Result, NEW c \in Chains
      PROVE  /\ syncer_up(q, c) \in Result
             /\ syncer_up(q, c).reach = q.reach /\ syncer_up(q, c).ok = q.ok
             /\ syncer_up(q, c).uuid = q.uuid /\ syncer_up(q, c).sent = q.sent
  <2>1. Syncer(c) \in Service
    BY Services
  <2> QED
    BY <2>1 DEF syncer_up, Result, Runtime
<1>2. {"btc", "xmr"} = Chains
  BY DEF Chains
<1> QED
  BY <1>1, <1>2 DEF syncers_up

\* StartMaker on MakeDeal, MakeDeal on RevokeDeal and on TakerCommit.
LEMMA MakerType ==
    ASSUME NEW r \in Result, NEW d \in Deals, NEW c \in Service, NEW t \in Machine,
           NEW p \in Connection
    PROVE  /\ make_deal(r, d, c) \in Result /\ Quiet(make_deal(r, d, c), r)
           /\ revoke_deal(r, t, c) \in Result /\ Quiet(revoke_deal(r, t, c), r)
           /\ taker_commit(r, t, p) \in Result /\ Quiet(taker_commit(r, t, p), r)
<1>1. None \in Service /\ Database \in Service /\ Wallet \in Service /\ p \in Service
  BY Services
<1>2. t.deal \in Deals
  BY DEF Machine
<1>3. make_deal(r, d, c) \in Result /\ Quiet(make_deal(r, d, c), r)
  <2>1. CASE ~services_ready(r) \/ ~peer_keys_ready(r)
    BY <1>1, <2>1, SendType, Messages DEF make_deal
  <2>2. CASE ~(~services_ready(r) \/ ~peer_keys_ready(r))
    <3> DEFINE q    == [r EXCEPT !.rt.listens = TRUE]
               told == send(send(q, Database, "SetDealStatus", d), c, "MadeDeal", d)
               s    == [told EXCEPT !.rt.deals = @ \cup {d}]
    <3>1. q \in Result /\ q.sent = r.sent /\ q.reach = r.reach
      BY DEF Result, Runtime
    <3>2. told \in Result /\ Quiet(told, r)
      <4> HIDE DEF q
      <4> DEFINE once == send(q, Database, "SetDealStatus", d)
      <4>1. once \in Result /\ Quiet(once, q)
        BY <1>1, <3>1, SendType, Messages
      <4> HIDE DEF once
      <4>2. told \in Result /\ Quiet(told, once)
        BY <4>1, SendType, Messages DEF once
      <4> QED
        BY <3>1, <4>1, <4>2 DEF Quiet
    <3>3. make_deal(r, d, c)
            = IF told.ok THEN push(s, Trade("MakeDeal", d, None)) ELSE told
      BY <2>2 DEF make_deal
    <3> HIDE DEF told
    <3>4. s \in Result /\ s.sent = told.sent /\ s.reach = told.reach
      BY <3>2 DEF Result, Runtime
    <3>5. Trade("MakeDeal", d, None) \in Machine
      BY TradeType
    <3> HIDE DEF s
    <3>6. /\ push(s, Trade("MakeDeal", d, None)) \in Result
          /\ Quiet(push(s, Trade("MakeDeal", d, None)), s)
      BY <3>4, <3>5, PushType
    <3> QED
      BY <3>2, <3>3, <3>4, <3>6 DEF Quiet
  <2> QED
    BY <2>1, <2>2
<1>4. taker_commit(r, t, p) \in Result /\ Quiet(taker_commit(r, t, p), r)
  <2> DEFINE once == send(r, Wallet, "CreateSwapKeys", t.deal)
             told == send(once, Database, "SetDealStatus", t.deal)
             u    == [t EXCEPT !.st = "TakerCommit", !.peerd = p]
  <2>1. once \in Result /\ Quiet(once, r)
    BY <1>1, <1>2, SendType, Messages
  <2>2. told \in Result /\ Quiet(told, once)
    <3> HIDE DEF once
    <3> QED
      BY <1>1, <1>2, <2>1, SendType, Messages
  <2>3. u \in Machine
    BY DEF Machine
  <2>4. taker_commit(r, t, p) = push(told, u)
    BY DEF taker_commit
  <2> HIDE DEF told, once, u
  <2> QED
    BY <2>1, <2>2, <2>3, <2>4, PushType DEF Quiet
<1>5. revoke_deal(r, t, c) \in Result /\ Quiet(revoke_deal(r, t, c), r)
  BY <1>2, SendType, Messages DEF revoke_deal
<1> QED
  BY <1>3, <1>4, <1>5

\* StartTaker on TakeDeal, and what follows a connection.
LEMMA TakerType ==
    ASSUME NEW r \in Result, NEW d \in Deals, NEW c \in Service
    PROVE  /\ \A p \in Connection : take_over(r, d, p, c) \in Result /\ Quiet(take_over(r, d, p, c), r)
           /\ take_deal(r, d, c) \in Result /\ Quiet(take_deal(r, d, c), r)
<1>1. None \in Service /\ Wallet \in Service /\ Counterparty[d] \in Nodes
  BY Services
<1>2. ASSUME NEW p \in Connection
      PROVE  take_over(r, d, p, c) \in Result /\ Quiet(take_over(r, d, p, c), r)
  <2> DEFINE told == send(send(r, Wallet, "CreateSwapKeys", d), c, "TookDeal", d)
             s    == [told EXCEPT !.rt.deals = @ \cup {d}]
  <2>1. told \in Result /\ Quiet(told, r)
    <3> DEFINE once == send(r, Wallet, "CreateSwapKeys", d)
    <3>1. once \in Result /\ Quiet(once, r)
      BY <1>1, SendType, Messages
    <3> HIDE DEF once
    <3>2. told \in Result /\ Quiet(told, once)
      BY <3>1, SendType, Messages DEF once
    <3> QED
      BY <3>1, <3>2, SendsOn DEF Quiet
  <2>2. take_over(r, d, p, c) = IF told.ok THEN push(s, Trade("TakeDeal", d, p)) ELSE told
    BY DEF take_over
  <2> HIDE DEF told
  <2>3. s \in Result /\ s.sent = told.sent /\ s.reach = told.reach
    BY <2>1 DEF Result, Runtime
  <2>4. Trade("TakeDeal", d, p) \in Machine
    BY TradeType
  <2> HIDE DEF s
  <2>5. push(s, Trade("TakeDeal", d, p)) \in Result /\ Quiet(push(s, Trade("TakeDeal", d, p)), s)
    BY <2>3, <2>4, PushType
  <2> QED
    BY <2>1, <2>2, <2>3, <2>5 DEF Quiet
<1>3. send(r, c, "Failure", None) \in Result /\ Quiet(send(r, c, "Failure", None), r)
  BY <1>1, SendType, Messages
<1> DEFINE dialed == connect_peer(r, Counterparty[d])
<1>4. connection(r, Counterparty[d]) \in Connection /\ dialed \in Result
      /\ dialed.sent = r.sent /\ dialed.reach = r.reach
  BY <1>1, ConnectPeerType
<1>5. [Trade("TakerConnect", d, None) EXCEPT !.client = c] \in Machine
  <2>1. Trade("TakerConnect", d, None) \in Machine
    BY TradeType
  <2> QED
    BY <2>1 DEF Machine
<1> DEFINE waiting == push(dialed, [Trade("TakerConnect", d, None) EXCEPT !.client = c])
<1>6. waiting \in Result /\ Quiet(waiting, r)
  <2>1. waiting \in Result /\ Quiet(waiting, dialed)
    BY <1>4, <1>5, PushType
  <2> HIDE DEF waiting, dialed
  <2> QED
    BY <1>4, <2>1 DEF Quiet
<1> QED
  BY <1>2, <1>3, <1>4, <1>6 DEF take_deal

\* A machine changes what it has heard of and where it is (hears, follow).
LEMMA HearsType ==
    ASSUME NEW r \in Result, NEW t \in Machine
    PROVE  /\ \A src \in Service : hears(t, src) \in Machine
           /\ \A newest \in BOOLEAN : follow(r, t, newest) \in Machine
<1>1. \A src \in Service : hears(t, src) \in Machine
  BY DEF hears, Machine
<1>2. peers(r.rt.registered) \subseteq Connection
  BY Services DEF Result, Runtime
<1>3. ASSUME NEW newest \in BOOLEAN
      PROVE  follow(r, t, newest) \in Machine
  <2> DEFINE same   == {s \in peers(r.rt.registered) : node_addr(s) = node_addr(t.peerd)}
             others == same \ {t.peerd}
             next   == CHOOSE s \in others : TRUE
  <2>1. CASE same = {} \/ (t.peerd \in same /\ (~newest \/ others = {}))
    BY <2>1 DEF follow
  <2>2. CASE ~(same = {} \/ (t.peerd \in same /\ (~newest \/ others = {})))
    <3>1. others # {}
      BY <2>2
    <3>2. next \in Connection
      BY <1>2, <3>1
    <3>3. follow(r, t, newest) = [t EXCEPT !.peerd = next, !.reconnected = TRUE]
      BY <2>2 DEF follow
    <3> HIDE DEF next
    <3> QED
      BY <3>2, <3>3 DEF Machine
  <2> QED
    BY <2>1, <2>2
<1> QED
  BY <1>1, <1>3

\* Launching a swap and its syncers (swapd_launched, TakerCommit and TakeDeal on SwapKeys).
LEMMA LaunchType ==
    ASSUME NEW r \in Result, NEW t \in Machine
    PROVE  /\ swapd_launched(r, t) \in Result /\ Quiet(swapd_launched(r, t), r)
           /\ swap_keys(r, t) \in Result /\ Quiet(swap_keys(r, t), r)
<1> DEFINE s == syncers_up(r)
           q == [s EXCEPT !.launched = @ \cup {Swap(t.deal)}]
           u == [t EXCEPT !.st = "SwapdLaunched", !.up = registered_chains(s)]
<1>1. s \in Result /\ s.sent = r.sent /\ s.reach = r.reach
  BY SyncerUpType
<1>2. registered_chains(s) \in SUBSET (Chains \cup {"swapd"})
  BY DEF registered_chains
<1>3. swapd_launched(r, t) = push(q, u)
  BY DEF swapd_launched
<1> HIDE DEF s
<1>4. Swap(t.deal) \in Service
  BY Services DEF Machine
<1>5. q \in Result /\ q.sent = s.sent /\ q.reach = s.reach
  BY <1>1, <1>4 DEF Result
<1>6. u \in Machine
  BY <1>2 DEF Machine
<1> HIDE DEF q, u
<1>7. swapd_launched(r, t) \in Result /\ Quiet(swapd_launched(r, t), r)
  <2>1. push(q, u) \in Result /\ Quiet(push(q, u), q)
    BY <1>5, <1>6, PushType
  <2> QED
    BY <1>1, <1>3, <1>5, <2>1 DEF Quiet
<1>8. push(r, t) \in Result /\ Quiet(push(r, t), r)
  BY PushType
<1> QED
  BY <1>7, <1>8 DEF swap_keys

\* StartRestore on RestoreCheckpoint.
LEMMA RestoreType ==
    ASSUME NEW r \in Result, NEW d \in Deals, NEW expected \in SUBSET Nodes, NEW c \in Service
    PROVE  /\ restore_checkpoint(r, d, expected, c) \in Result
           /\ Quiet(restore_checkpoint(r, d, expected, c), r)
<1>1. None \in Service /\ Counterparty[d] \in Nodes /\ Swap(d) \in Service
  BY Services
<1>2. send(r, c, "Failure", None) \in Result /\ Quiet(send(r, c, "Failure", None), r)
  BY <1>1, SendType, Messages
<1> DEFINE expect == d \notin MakerDeals /\ peer_keys_ready(r)
           dialed == IF expect THEN connect_peer(r, Counterparty[d]) ELSE r
           heard  == IF d \in MakerDeals /\ peer_keys_ready(r)
                     THEN [dialed EXCEPT !.rt.listens = TRUE] ELSE dialed
           s      == syncers_up(heard)
           q      == [s EXCEPT !.launched = @ \cup {Swap(d)}]
           told   == send(q, c, "Restoring", d)
           trade  == Trade("RestoringSwapd", d, None)
           t      == [trade EXCEPT !.expect = expect, !.expected = expected,
                                   !.up = registered_chains(s)]
<1>3. dialed \in Result /\ dialed.sent = r.sent /\ dialed.reach = r.reach
  BY <1>1, ConnectPeerType
<1>4. heard \in Result /\ heard.sent = r.sent /\ heard.reach = r.reach
  <2> HIDE DEF dialed
  <2> QED
    BY <1>3 DEF Result, Runtime
<1>5. s \in Result /\ s.sent = r.sent /\ s.reach = r.reach
  <2> HIDE DEF heard
  <2> QED
    BY <1>4, SyncerUpType
<1>6. restore_checkpoint(r, d, expected, c)
        = IF ~services_ready(r) \/ Swap(d) \in r.reach THEN send(r, c, "Failure", None)
          ELSE push(told, t)
  BY DEF restore_checkpoint
<1> HIDE DEF s
<1>7. q \in Result /\ q.sent = r.sent /\ q.reach = r.reach
  BY <1>1, <1>5 DEF Result
<1>8. told \in Result /\ Quiet(told, r)
  <2> HIDE DEF q
  <2>1. told \in Result /\ Quiet(told, q)
    BY <1>7, SendType, Messages
  <2> HIDE DEF told
  <2> QED
    BY <1>7, <2>1 DEF Quiet
<1>9. t \in Machine
  <2>1. trade \in Machine
    BY TradeType
  <2>2. registered_chains(s) \in SUBSET (Chains \cup {"swapd"})
    BY DEF registered_chains
  <2>3. expect \in BOOLEAN
    OBVIOUS
  <2> HIDE DEF trade, expect
  <2> QED
    BY <2>1, <2>2, <2>3 DEF Machine
<1> HIDE DEF told, t
<1>10. push(told, t) \in Result /\ Quiet(push(told, t), told)
  BY <1>8, <1>9, PushType
<1> QED
  BY <1>2, <1>6, <1>8, <1>10 DEF Quiet

\* SwapdLaunched becomes SwapdRunning (init_swap), or waits on.
LEMMA LaunchedType ==
    ASSUME NEW r \in Result, NEW t \in Machine, NEW src \in Service, NEW newest \in BOOLEAN
    PROVE  Pushed(launched_on(r, t, src, newest), r) /\ Quiet(launched_on(r, t, src, newest), r)
<1> DEFINE u == follow(r, hears(t, src), newest)
<1>1. u \in Machine
  BY HearsType
<1>2. launched_on(r, t, src, newest)
        = IF u.up = Chains \cup {"swapd"} /\ launched_peerd_up(r, u)
          THEN init_swap(r, u) ELSE push(r, u)
  BY DEF launched_on
<1> HIDE DEF u
<1>3. Pushed(init_swap(r, u), r) /\ Quiet(init_swap(r, u), r)
  <2> DEFINE warned == IF u.reconnected
                       THEN send(r, Swap(u.deal), "PeerdReconnected", u.peerd) ELSE r
             told   == send(warned, Swap(u.deal), "InitSwap", u.peerd)
             v      == [u EXCEPT !.st = "SwapdRunning", !.expected = {}, !.reconnected = FALSE]
  <2>1. Swap(u.deal) \in Service /\ u.peerd \in Service
    BY <1>1, Services DEF Machine
  <2>2. warned \in Result /\ Sends(warned, r) /\ Quiet(warned, r)
    BY <2>1, SendType, SendsOn, Messages
  <2>3. Sends(told, r) /\ Quiet(told, r)
    <3> HIDE DEF warned
    <3>1. Sends(told, warned) /\ Quiet(told, warned)
      BY <2>1, <2>2, SendType, Messages
    <3> QED
      BY <2>2, <3>1, SendsOn
  <2>4. v \in Machine
    BY <1>1 DEF Machine
  <2>5. init_swap(r, u) = push(told, v)
    BY DEF init_swap
  <2> HIDE DEF told, v
  <2> QED
    BY <2>3, <2>4, <2>5, PushAfter
<1> QED
  BY <1>1, <1>2, <1>3, PushType

\* RestoringSwapd becomes SwapdRunning (restore_swap), or waits on.
LEMMA RestoringType ==
    ASSUME NEW r \in Result, NEW t \in Machine
    PROVE  /\ Pushed(restoring_goes_on(r, t), r) /\ Quiet(restoring_goes_on(r, t), r)
           /\ \A src \in Service :
                Pushed(restoring_hello(r, t, src), r) /\ Quiet(restoring_hello(r, t, src), r)
<1>1. ASSUME NEW u \in Machine
      PROVE  Pushed(restoring_goes_on(r, u), r) /\ Quiet(restoring_goes_on(r, u), r)
  <2> DEFINE warned == IF u.peerd # None
                       THEN send(r, Swap(u.deal), "PeerdReconnected", u.peerd) ELSE r
             told   == send(warned, Database, "RestoreCheckpoint", u.deal)
             v      == [u EXCEPT !.st = "SwapdRunning"]
  <2>1. Swap(u.deal) \in Service /\ u.peerd \in Service /\ Database \in Service /\ u.deal \in Deals
    BY Services DEF Machine
  <2>2. warned \in Result /\ Sends(warned, r) /\ Quiet(warned, r)
    BY <2>1, SendType, SendsOn, Messages
  <2>3. Sends(told, r) /\ Quiet(told, r)
    <3> HIDE DEF warned
    <3>1. Sends(told, warned) /\ Quiet(told, warned)
      BY <2>1, <2>2, SendType, Messages
    <3> QED
      BY <2>2, <3>1, SendsOn
  <2>4. v \in Machine
    BY DEF Machine
  <2>5. restoring_goes_on(r, u)
          = IF u.up = Chains \cup {"swapd"} /\ (u.expect => u.peerd # None)
            THEN push(told, v) ELSE push(r, u)
    BY DEF restoring_goes_on, restore_swap
  <2> HIDE DEF warned, told, v
  <2>6. Pushed(push(told, v), r) /\ Quiet(push(told, v), r)
    BY <2>3, <2>4, PushAfter
  <2>7. Pushed(push(r, u), r) /\ Quiet(push(r, u), r)
    BY <1>1, PushType
  <2> QED
    BY <2>5, <2>6, <2>7
<1>2. ASSUME NEW src \in Service
      PROVE  Pushed(restoring_hello(r, t, src), r) /\ Quiet(restoring_hello(r, t, src), r)
  <2> DEFINE u == hears(t, src)
             v == IF /\ t.deal \in MakerDeals /\ src.kind = "peer"
                     /\ src.side = "in" /\ src.node \in t.expected
                  THEN [u EXCEPT !.peerd = src] ELSE u
  <2>1. u \in Machine
    BY HearsType
  <2>2. src.kind = "peer" => src \in Connection
    BY DEF Service
  <2>3. restoring_hello(r, t, src) = restoring_goes_on(r, v)
    BY DEF restoring_hello
  <2> HIDE DEF u
  <2>4. v \in Machine
    BY <2>1, <2>2 DEF Machine
  <2> HIDE DEF v
  <2> QED
    BY <1>1, <2>3, <2>4
<1> QED
  BY <1>1, <1>2

\* SwapdRunning on Hello, and any machine on Hello (tsm_hello).
LEMMA HelloType ==
    ASSUME NEW r \in Result, NEW t \in Machine, NEW src \in Service, NEW newest \in BOOLEAN
    PROVE  /\ Pushed(running_hello(r, t, src), r) /\ Quiet(running_hello(r, t, src), r)
           /\ Pushed(tsm_hello(r, t, src, newest), r) /\ Quiet(tsm_hello(r, t, src, newest), r)
<1>1. Pushed(running_hello(r, t, src), r) /\ Quiet(running_hello(r, t, src), r)
  <2> DEFINE told == send(r, Swap(t.deal), "PeerdReconnected", src)
  <2>1. Swap(t.deal) \in Service
    BY Services DEF Machine
  <2>2. Sends(told, r) /\ Quiet(told, r)
    BY <2>1, SendType, Messages
  <2>3. running_hello(r, t, src) = IF reconnects(t, src) THEN push(told, t) ELSE push(r, t)
    BY DEF running_hello
  <2> HIDE DEF told
  <2> QED
    BY <2>2, <2>3, PushAfter, PushType
<1> QED
  BY <1>1, LaunchedType, RestoringType, PushType DEF tsm_hello

-------------------------------------------------------------------------------
(***************************************************************************)
(* Positions in the list of machines.                                      *)
(***************************************************************************)

\* A set of naturals that is not empty has a least element.
LEMMA LeastElement ==
    ASSUME NEW I \in SUBSET Nat, I # {}
    PROVE  \E m \in I : \A n \in I : m <= n
<1> DEFINE R == OpToRel(<, Nat)
<1>1. IsWellFoundedOn(R, Nat)
  BY NatLessThanWellFounded, ZenonT(120)
<1>2. \A m, n \in Nat : n < m => <<n, m>> \in R
  BY DEF OpToRel
<1> HIDE DEF R
<1>3. \E m \in I : \A n \in I : ~ (<<n, m>> \in R)
  BY <1>1, WFMin, Zenon
<1>4. PICK m \in I : \A n \in I : ~ (<<n, m>> \in R)
  BY <1>3
<1>5. \A n \in I : ~ (n < m)
  BY <1>2, <1>4
<1>6. \A n \in I : m <= n
  BY <1>5
<1> QED
  BY <1>4, <1>6

\* What SelectInSeq finds (position).
LEMMA FirstOf ==
    ASSUME NEW I \in SUBSET Nat, I # {}
    PROVE  Min(I) \in I
BY LeastElement DEF Min

\* An initial part of 1..n is counted by its elements.
LEMMA InitialPart ==
    ASSUME NEW n \in Nat, NEW I \in SUBSET (1..n), \A i \in I : \A j \in 1..i : j \in I
    PROVE  Cardinality(I) \in Nat /\ I = 1..Cardinality(I)
<1> DEFINE J == {i \in 1..(n + 1) : i \notin I}
<1>1. J \in SUBSET Nat /\ n + 1 \in J
  OBVIOUS
<1>2. \E m \in J : \A i \in J : m <= i
  <2> HIDE DEF J
  <2>1. J # {} /\ J \in SUBSET Nat
    BY <1>1
  <2> QED
    BY <2>1, LeastElement
<1>3. PICK m \in J : \A i \in J : m <= i
  BY <1>2
<1>4. m \in 1..(n + 1) /\ m \notin I
  BY <1>3
<1>5. \A i \in I : i < m
  BY <1>4
<1>6. \A i \in 1..(m - 1) : i \in I
  BY <1>3, <1>4
<1> HIDE DEF J
<1>7. \A i \in I : i \in 1..(m - 1)
  BY <1>4, <1>5
<1>8. I = 1..(m - 1)
  BY <1>6, <1>7
<1>9. Cardinality(1..(m - 1)) = m - 1
  BY <1>4, FS_Interval
<1> QED
  BY <1>4, <1>8, <1>9

\* A machine is taken out of the list (Vec::remove).
LEMMA Removal ==
    ASSUME NEW q \in Seq(Machine), NEW i \in 1..Len(q)
    PROVE  /\ RemoveAt(q, i) \in Seq(Machine)
           /\ Len(RemoveAt(q, i)) = Len(q) - 1
           /\ \A k \in 1..(Len(q) - 1) :
                RemoveAt(q, i)[k] = IF k < i THEN q[k] ELSE q[k + 1]
<1> DEFINE a == SubSeq(q, 1, i - 1)
           b == SubSeq(q, i + 1, Len(q))
<1>1. /\ a \in Seq(Machine) /\ Len(a) = i - 1 /\ \A k \in 1..(i - 1) : a[k] = q[k]
  BY SubSeqProperties
<1>2. /\ b \in Seq(Machine) /\ Len(b) = Len(q) - i
      /\ \A k \in 1..(Len(q) - i) : b[k] = q[i + k]
  BY SubSeqProperties
<1>3. RemoveAt(q, i) = a \o b
  BY DEF RemoveAt
<1> HIDE DEF a, b
<1>4. /\ a \o b \in Seq(Machine) /\ Len(a \o b) = Len(a) + Len(b)
      /\ \A k \in 1..(Len(a) + Len(b)) :
           (a \o b)[k] = IF k <= Len(a) THEN a[k] ELSE b[k - Len(a)]
  BY <1>1, <1>2, ConcatProperties
<1>5. ASSUME NEW k \in 1..(Len(q) - 1)
      PROVE  (a \o b)[k] = IF k < i THEN q[k] ELSE q[k + 1]
  <2>1. Len(q) \in Nat /\ k \in 1..(Len(a) + Len(b))
    BY <1>1, <1>2
  <2>2. CASE k < i
    BY <1>1, <1>4, <2>1, <2>2
  <2>3. CASE ~(k < i)
    <3>1. k - Len(a) \in 1..(Len(q) - i) /\ i + (k - Len(a)) = k + 1
      BY <1>1, <2>1, <2>3
    <3>2. (a \o b)[k] = b[k - Len(a)]
      BY <1>1, <1>4, <2>1, <2>3
    <3> QED
      BY <1>2, <2>3, <3>1, <3>2
  <2> QED
    BY <2>2, <2>3
<1> QED
  BY <1>1, <1>2, <1>3, <1>4, <1>5

\* The first machine a request concerns (process_request_with_state_machines).
MakesAt(d)  == position(LAMBDA t : t.st = "MakeDeal" /\ t.deal = d)
TradesAt(d) == position(LAMBDA t : t.st # "MakeDeal" /\ t.deal = d)
AwaitsAt(p) == position(LAMBDA t : awaiting_connect_from(t) = node_addr(p))

\* It is one of the runtime's machines, of the kind the request asks for.
LEMMA Positions ==
    ASSUME runtime.tsms \in Seq(Machine)
    PROVE  /\ \A d : MakesAt(d) # 0 =>
                /\ MakesAt(d) \in 1..Len(runtime.tsms)
                /\ runtime.tsms[MakesAt(d)].st = "MakeDeal" /\ runtime.tsms[MakesAt(d)].deal = d
           /\ \A d : TradesAt(d) # 0 =>
                /\ TradesAt(d) \in 1..Len(runtime.tsms)
                /\ runtime.tsms[TradesAt(d)].st # "MakeDeal" /\ runtime.tsms[TradesAt(d)].deal = d
           /\ \A d : by_swap_id(d) # 0 =>
                /\ by_swap_id(d) \in 1..Len(runtime.tsms)
                /\ has_swap_id(runtime.tsms[by_swap_id(d)])
                /\ runtime.tsms[by_swap_id(d)].deal = d
           /\ \A p : AwaitsAt(p) # 0 =>
                /\ AwaitsAt(p) \in 1..Len(runtime.tsms)
                /\ awaiting_connect_from(runtime.tsms[AwaitsAt(p)]) = node_addr(p)
<1>1. Len(runtime.tsms) \in Nat
  BY LenProperties
<1>2. \A I \in SUBSET (1..Len(runtime.tsms)) : I # {} => Min(I) \in I
  BY <1>1, FirstOf
<1> QED
  BY <1>2, ZenonT(120) DEF position, by_swap_id, SelectInSeq, MakesAt, TradesAt, AwaitsAt

-------------------------------------------------------------------------------
(***************************************************************************)
(* Every machine hears a Hello (tsms_hear, ssms_hear).                     *)
(***************************************************************************)
\* The runtime all machines were moved out of, and what the i-th of them does to it.
Alone(r) == [r EXCEPT !.rt.tsms = <<>>]
AnswerOf(r, s, newest, i) == tsm_hello(Alone(r), r.rt.tsms[i], s, newest)

\* The machines that were moved out are pushed again, up to the first error.
LEMMA HearType ==
    ASSUME NEW r \in Result, NEW s \in Service, NEW newest \in BOOLEAN
    PROVE  LET q == tsms_hear(r, s, newest) IN
           /\ q \in Result /\ Leaves(q, r)
           /\ q.ok => r.ok
           /\ q.ok => /\ Len(q.rt.tsms) = Len(r.rt.tsms)
                      /\ \A i \in 1..Len(r.rt.tsms) :
                           /\ AnswerOf(r, s, newest, i).ok
                           /\ AnswerOf(r, s, newest, i).rt.tsms = <<q.rt.tsms[i]>>
           /\ (r.ok /\ \A i \in 1..Len(r.rt.tsms) : AnswerOf(r, s, newest, i).ok) => q.ok
           /\ Quiet(q, r)
<1> DEFINE moved  == Alone(r)
           n      == Len(r.rt.tsms)
           answer == [i \in 1..n |-> AnswerOf(r, s, newest, i)]
           heard  == {i \in 1..n : \A j \in 1..(i - 1) : answer[j].ok}
           pushed == {i \in heard : answer[i].ok}
           list   == [i \in 1..Cardinality(pushed) |-> answer[i].rt.tsms[1]]
           all    == r.sent \cup UNION {answer[i].sent : i \in heard}
           fine   == r.ok /\ pushed = 1..n
           q      == [r EXCEPT !.rt.tsms = list, !.sent = all, !.ok = fine]
<1>1. r.rt \in Runtime /\ r.rt.tsms \in Seq(Machine) /\ n \in Nat /\ DOMAIN r.rt.tsms = 1..n
  BY LenProperties DEF Result, Runtime
<1>2. moved \in Result /\ moved.rt = [r.rt EXCEPT !.tsms = <<>>]
  BY <1>1, MachinesType, EmptySeq DEF Alone
<1>3. moved.ok = r.ok /\ moved.sent = r.sent /\ moved.reach = r.reach
  BY DEF Alone, Result
<1>4. tsms_hear(r, s, newest)
        = [moved EXCEPT !.rt.tsms = list, !.sent = @ \cup UNION {answer[i].sent : i \in heard},
                        !.ok = @ /\ pushed = DOMAIN answer]
  BY <1>1 DEF tsms_hear, AnswerOf, Alone
<1>5. tsms_hear(r, s, newest) = q
  <2> HIDE DEF list, heard, pushed
  <2> QED
    BY <1>3, <1>4 DEF Alone, Result, Runtime
<1>6. ASSUME NEW i \in 1..n
      PROVE  /\ answer[i] = AnswerOf(r, s, newest, i)
             /\ Pushed(answer[i], moved) /\ Quiet(answer[i], moved)
  <2>1. r.rt.tsms[i] \in Machine
    BY <1>1, ElementOfSeq
  <2>2. answer[i] = tsm_hello(moved, r.rt.tsms[i], s, newest)
    BY DEF AnswerOf
  <2> HIDE DEF moved, answer
  <2>3. /\ Pushed(tsm_hello(moved, r.rt.tsms[i], s, newest), moved)
        /\ Quiet(tsm_hello(moved, r.rt.tsms[i], s, newest), moved)
    BY <1>2, <2>1, HelloType
  <2> QED
    BY <2>2, <2>3 DEF answer
<1>7. ASSUME NEW i \in 1..n, answer[i].ok
      PROVE  /\ answer[i].rt.tsms[1] \in Machine
             /\ answer[i].rt.tsms = <<answer[i].rt.tsms[1]>>
  <2>1. moved.rt.tsms = <<>>
    BY <1>1, <1>2 DEF Runtime
  <2> HIDE DEF moved, answer
  <2>2. PICK u \in Machine : answer[i].rt.tsms = Append(<<>>, u)
    BY <1>6, <1>7, <2>1 DEF Pushed
  <2>3. answer[i].rt.tsms = <<u>>
    BY <2>2
  <2> QED
    BY <2>3
<1>9. \A i \in pushed : \A j \in 1..i : j \in pushed
  <2> SUFFICES ASSUME NEW i \in pushed, NEW j \in 1..i
               PROVE  j \in pushed
    OBVIOUS
  <2>1. i \in 1..n /\ answer[i].ok /\ \A k \in 1..(i - 1) : answer[k].ok
    OBVIOUS
  <2> HIDE DEF answer, n
  <2>2. j \in 1..n /\ (j = i \/ j \in 1..(i - 1)) /\ \A k \in 1..(j - 1) : k \in 1..(i - 1)
    BY <1>1, <2>1
  <2> QED
    BY <2>1, <2>2
<1>10. Cardinality(pushed) \in Nat /\ pushed = 1..Cardinality(pushed)
  <2>1. pushed \in SUBSET (1..n)
    OBVIOUS
  <2> HIDE DEF pushed, n
  <2> QED
    BY <1>1, <1>9, <2>1, InitialPart
<1>11. list \in Seq(Machine) /\ Len(list) = Cardinality(pushed)
  <2>1. \A i \in 1..Cardinality(pushed) : answer[i].rt.tsms[1] \in Machine
    BY <1>7, <1>10, ZenonT(120)
  <2> HIDE DEF pushed, answer
  <2> QED
    BY <1>10, <2>1, IsASeq
<1>12. all \in SUBSET Msg
  <2>1. r.sent \subseteq Msg
    BY DEF Result
  <2>2. ASSUME NEW i \in heard
        PROVE  answer[i].sent \subseteq Msg
    <3>1. i \in 1..n
      OBVIOUS
    <3> QED
      BY <1>6, <3>1 DEF Pushed, Result
  <2> HIDE DEF answer, heard
  <2> QED
    BY <2>1, <2>2
<1>13. fine \in BOOLEAN
  BY DEF Result
<1>14. ASSUME fine
       PROVE  /\ Cardinality(pushed) = n
              /\ \A i \in 1..n : answer[i].ok /\ answer[i].rt.tsms = <<list[i]>>
  <2>1. pushed = 1..n
    BY <1>14
  <2>2. \A i \in 1..n : answer[i].ok
    BY <2>1
  <2>3. Cardinality(pushed) = n
    <3> HIDE DEF pushed, n
    <3> QED
      BY <1>1, <2>1, FS_Interval
  <2> QED
    BY <1>7, <2>2, <2>3, ZenonT(120)
<1>15. ASSUME r.ok, \A i \in 1..n : AnswerOf(r, s, newest, i).ok
       PROVE  fine
  <2>1. \A i \in 1..n : answer[i].ok
    BY <1>6, <1>15
  <2> HIDE DEF answer
  <2>2. \A i \in 1..n : \A j \in 1..(i - 1) : j \in 1..n
    BY <1>1
  <2> QED
    BY <1>15, <2>1, <2>2
<1>16. \A m \in all : m \in r.sent \/ m.msg \notin {"Terminate", "RemoveCheckpoint"}
  <2>1. ASSUME NEW i \in heard, NEW m \in answer[i].sent
        PROVE  m \in r.sent \/ m.msg \notin {"Terminate", "RemoveCheckpoint"}
    <3>1. i \in 1..n
      OBVIOUS
    <3> QED
      BY <1>3, <1>6, <2>1, <3>1 DEF Quiet
  <2> HIDE DEF answer, heard
  <2> QED
    BY <2>1
<1> HIDE DEF list, all, fine, answer, pushed, heard, moved
<1>17. q \in Result /\ q.rt = [r.rt EXCEPT !.tsms = list] /\ q.sent = all /\ q.ok = fine
       /\ q.reach = r.reach /\ q.uuid = r.uuid /\ q.launched = r.launched
  BY <1>11, <1>12, <1>13 DEF Result, Runtime
<1>18. q.rt.tsms = list /\ Leaves(q, r)
  BY <1>1, <1>17 DEF Leaves, Runtime
<1>19. fine => r.ok
  BY DEF fine
<1>20. Quiet(q, r)
  BY <1>16, <1>17 DEF Quiet
<1> HIDE DEF q
<1> QED
  BY <1>5, <1>6, <1>11, <1>14, <1>15, <1>16, <1>17, <1>18, <1>19, <1>20

\* The requests to syncers are exchanged.
Tasked(r, S) == [r EXCEPT !.rt.ssms = S]

\* That changes nothing else.
LEMMA TaskedType ==
    ASSUME NEW r \in Result, NEW S \in SUBSET Request
    PROVE  LET q == Tasked(r, S) IN
           /\ q \in Result /\ q.rt.ssms = S
           /\ q.rt = [r.rt EXCEPT !.ssms = S]
           /\ q.rt.registered = r.rt.registered /\ q.rt.spawning = r.rt.spawning
           /\ q.rt.tsms = r.rt.tsms /\ q.rt.deals = r.rt.deals
           /\ q.reach = r.reach /\ q.uuid = r.uuid /\ q.ok = r.ok
           /\ q.sent = r.sent /\ q.launched = r.launched
<1>1. Tasked(r, S) = [r EXCEPT !.rt = [@ EXCEPT !.ssms = S]]
  BY DEF Tasked
<1>2. r.rt \in Runtime /\ [r.rt EXCEPT !.ssms = S] \in Runtime
  BY DEF Result, Runtime
<1>3. Tasked(r, S) \in Result /\ Tasked(r, S).rt = [r.rt EXCEPT !.ssms = S]
  BY <1>1, <1>2 DEF Result
<1>4. /\ Tasked(r, S).reach = r.reach /\ Tasked(r, S).uuid = r.uuid /\ Tasked(r, S).ok = r.ok
      /\ Tasked(r, S).sent = r.sent /\ Tasked(r, S).launched = r.launched
  BY <1>1 DEF Result
<1> QED
  BY <1>2, <1>3, <1>4 DEF Runtime

\* A request is given to its syncer (AwaitingSyncer).
Given(m) == [m EXCEPT !.given = TRUE]

\* The request stays well typed, and is given if its syncer is on the bus.
LEMMA GiveType ==
    ASSUME NEW r \in Result, NEW m \in Request
    PROVE  LET q == give_task(r, m) IN
           /\ Given(m) \in Request /\ q \in Result
           /\ q.rt.ssms \in {r.rt.ssms, r.rt.ssms \cup {Given(m)}}
           /\ q.rt = [r.rt EXCEPT !.ssms = q.rt.ssms]
           /\ q.reach = r.reach /\ q.uuid = r.uuid /\ q.launched = r.launched
           /\ (r.ok /\ Syncer(m.chain) \in r.reach) =>
                /\ q.ok /\ q.rt.ssms = r.rt.ssms \cup {Given(m)}
                /\ q.sent = r.sent \cup {[to |-> Syncer(m.chain), msg |-> "Task", arg |-> m.task]}
<1>1. Given(m) \in Request /\ m.task \in Nat /\ m.chain \in Chains
  BY DEF Given, Request
<1> DEFINE told == send(r, Syncer(m.chain), "Task", m.task)
           S    == told.rt.ssms \cup {Given(m)}
<1>2. told \in Result /\ Sends(told, r)
  BY <1>1, Services, SendType, Messages
<1>3. (r.ok /\ Syncer(m.chain) \in r.reach) =>
         /\ told.ok
         /\ told.sent = r.sent \cup {[to |-> Syncer(m.chain), msg |-> "Task", arg |-> m.task]}
  BY DEF send, Result
<1>4. give_task(r, m) = IF told.ok THEN Tasked(told, S) ELSE told
  BY DEF give_task, Tasked, Given
<1> HIDE DEF told
<1>5. told.rt = r.rt /\ told.reach = r.reach /\ told.uuid = r.uuid /\ told.launched = r.launched
      /\ (told.ok => r.ok)
  BY <1>2 DEF Sends
<1>6. S \in SUBSET Request /\ S = r.rt.ssms \cup {Given(m)}
  BY <1>1, <1>2, <1>5 DEF Result, Runtime
<1>7. r.rt = [r.rt EXCEPT !.ssms = r.rt.ssms]
  BY DEF Result, Runtime
<1> HIDE DEF S
<1>8. CASE told.ok
  <2> DEFINE q == Tasked(told, S)
  <2>1. /\ q \in Result /\ q.rt.ssms = S /\ q.rt = [told.rt EXCEPT !.ssms = S]
        /\ q.reach = told.reach /\ q.uuid = told.uuid /\ q.ok = told.ok
        /\ q.sent = told.sent /\ q.launched = told.launched
    BY <1>2, <1>6, TaskedType
  <2>2. give_task(r, m) = q
    BY <1>4, <1>8
  <2> HIDE DEF q
  <2> QED
    BY <1>1, <1>3, <1>5, <1>6, <1>8, <2>1, <2>2
<1>9. CASE ~told.ok
  BY <1>1, <1>2, <1>3, <1>4, <1>5, <1>7, <1>9
<1> QED
  BY <1>8, <1>9

\* Every request hears a Hello.
Heard(m, s) ==
    IF ~m.given /\ s = Syncer(m.chain) THEN Given(m) ELSE [m EXCEPT !.client = s]

\* No machine changes by it; each request whose syncer is on the bus is given.
LEMMA JobsHearType ==
    ASSUME NEW r \in Result, NEW s \in Service
    PROVE  LET q == ssms_hear(r, s) IN
           /\ q \in Result
           /\ q.rt = [r.rt EXCEPT !.ssms = q.rt.ssms]
           /\ q.reach = r.reach /\ q.uuid = r.uuid /\ q.launched = r.launched
           /\ q.ok => r.ok
           /\ r.ok /\ s \in r.reach =>
                /\ q.ok /\ q.rt.ssms = {Heard(m, s) : m \in r.rt.ssms}
                /\ \A m \in q.sent : m \in r.sent \/ m.msg = "Task"
<1> DEFINE none   == Tasked(r, {})
           A(m)   == ssm_hello(none, m, s)
           answer == {A(m) : m \in r.rt.ssms}
           S      == UNION {q.rt.ssms : q \in answer}
           all    == r.sent \cup UNION {q.sent : q \in answer}
           fine   == \A q \in answer : q.ok
           t      == [r EXCEPT !.rt.ssms = S, !.sent = all, !.ok = fine]
<1>1. /\ none \in Result /\ none.rt.ssms = {} /\ none.ok = r.ok /\ none.reach = r.reach
      /\ none.sent = r.sent
  BY TaskedType
<1>2. ssms_hear(r, s) = IF r.ok THEN t ELSE r
  BY DEF ssms_hear, Tasked
<1>3. ASSUME NEW m \in r.rt.ssms
      PROVE  /\ A(m) \in Result /\ Heard(m, s) \in Request
             /\ r.ok /\ s \in r.reach =>
                  /\ A(m).ok /\ A(m).rt.ssms = {Heard(m, s)}
                  /\ \A k \in A(m).sent : k \in r.sent \/ k.msg = "Task"
  <2>1. m \in Request
    BY DEF Result, Runtime
  <2> DEFINE other  == [m EXCEPT !.client = s]
             joined == Tasked(none, none.rt.ssms \cup {other})
  <2>2. A(m) = IF ~m.given /\ s = Syncer(m.chain) THEN give_task(none, m) ELSE joined
    BY DEF ssm_hello, Tasked
  <2> HIDE DEF none
  <2>3. /\ joined \in Result /\ joined.rt.ssms = {other} /\ joined.ok = r.ok
        /\ joined.sent = r.sent /\ other \in Request
    <3>1. other \in Request /\ none.rt.ssms \cup {other} \in SUBSET Request
      BY <1>1, <2>1 DEF Request
    <3>2. /\ joined \in Result /\ joined.rt.ssms = none.rt.ssms \cup {other}
          /\ joined.ok = none.ok /\ joined.sent = none.sent
      BY <1>1, <3>1, TaskedType
    <3> HIDE DEF joined
    <3> QED
      BY <1>1, <3>1, <3>2
  <2> HIDE DEF joined
  <2>4. CASE ~m.given /\ s = Syncer(m.chain)
    <3>1. A(m) = give_task(none, m) /\ Heard(m, s) = Given(m)
      BY <2>2, <2>4 DEF Heard
    <3>2. give_task(none, m) \in Result /\ Given(m) \in Request
      BY <1>1, <2>1, GiveType
    <3>3. r.ok /\ s \in r.reach =>
            /\ give_task(none, m).ok /\ give_task(none, m).rt.ssms = none.rt.ssms \cup {Given(m)}
            /\ give_task(none, m).sent
                 = none.sent \cup {[to |-> Syncer(m.chain), msg |-> "Task", arg |-> m.task]}
      BY <1>1, <2>1, <2>4, GiveType
    <3> HIDE DEF A
    <3> QED
      BY <1>1, <3>1, <3>2, <3>3
  <2>5. CASE ~(~m.given /\ s = Syncer(m.chain))
    BY <2>1, <2>2, <2>3, <2>5 DEF Heard
  <2> QED
    BY <2>4, <2>5
<1> HIDE DEF none, A
<1>4. S \in SUBSET Request /\ all \in SUBSET Msg /\ fine \in BOOLEAN
  BY <1>3 DEF Result, Runtime
<1>5. r.ok /\ s \in r.reach =>
        /\ fine /\ S = {Heard(m, s) : m \in r.rt.ssms}
        /\ \A k \in all : k \in r.sent \/ k.msg = "Task"
  BY <1>3
<1> HIDE DEF S, all, fine
<1>6. t \in Result /\ t.rt = [r.rt EXCEPT !.ssms = S] /\ t.sent = all /\ t.ok = fine
      /\ t.reach = r.reach /\ t.uuid = r.uuid /\ t.launched = r.launched
  BY <1>4 DEF Result, Runtime
<1>7. r.rt \in Runtime /\ r.rt = [r.rt EXCEPT !.ssms = r.rt.ssms] /\ t.rt.ssms = S
  BY <1>6 DEF Result, Runtime
<1> HIDE DEF t
<1> QED
  BY <1>2, <1>5, <1>6, <1>7

\* handle_hello's first part: the service is known from then on (register).
LEMMA RegisterType ==
    ASSUME NEW r \in Result, NEW s \in Service
    PROVE  LET q == register(r, s) IN
           /\ q \in Result
           /\ q.reach = r.reach /\ q.uuid = r.uuid /\ q.ok = r.ok /\ q.sent = r.sent
           /\ q.launched = r.launched /\ q.rt.tsms = r.rt.tsms
<1>1. r.rt \in Runtime /\ r.rt.registered \cup {s} \in SUBSET Service /\ r.rt.spawning \in SUBSET Service
      /\ r.rt.spawning \ {s} \in SUBSET Service
  BY DEF Result, Runtime
<1>2. CASE s.kind \in {"database", "wallet"}
  <2>1. register(r, s) = Exchanged(r, r.rt.spawning, r.rt.registered \cup {s})
    BY <1>2 DEF register, Exchanged, Result, Runtime
  <2> QED
    BY <1>1, <2>1, RegistryType
<1>3. CASE s.kind = "peer"
  <2>1. s \in Connection
    BY <1>3 DEF Service
  <2> DEFINE q == handle_new_connection(r, s)
  <2>2. /\ q \in Result
        /\ q.reach = r.reach /\ q.uuid = r.uuid /\ q.ok = r.ok /\ q.sent = r.sent
        /\ q.launched = r.launched /\ q.rt.tsms = r.rt.tsms
    <3> DEFINE fewer == r.rt.spawning \ {Peer(0, s.node, s.side)}
    <3>1. fewer \in SUBSET Service
      BY <1>1
    <3>2. q = Exchanged(r, fewer, r.rt.registered \cup {s})
      BY DEF handle_new_connection, Exchanged
    <3> HIDE DEF fewer, q
    <3> QED
      BY <1>1, <3>1, <3>2, RegistryType
  <2>3. register(r, s) \in {q, r}
    BY <1>3 DEF register
  <2> HIDE DEF q
  <2> QED
    BY <2>2, <2>3
<1>4. CASE s.kind = "syncer" /\ s \in r.rt.spawning
  <2>1. register(r, s) = Exchanged(r, r.rt.spawning \ {s}, r.rt.registered \cup {s})
    BY <1>4 DEF register, Exchanged, Result, Runtime
  <2> QED
    BY <1>1, <2>1, RegistryType
<1>5. CASE ~(s.kind \in {"database", "wallet"}) /\ s.kind # "peer"
           /\ ~(s.kind = "syncer" /\ s \in r.rt.spawning)
  BY <1>5 DEF register
<1> QED
  BY <1>2, <1>3, <1>4, <1>5

\* What auto_restore notes.
LEMMA AutoType ==
    ASSUME NEW r \in Result, AutoRestore \in BOOLEAN
    PROVE  /\ auto_restores(r) \in BOOLEAN
           /\ LET q == auto_restore(r) IN
              /\ q \in Result
              /\ q.reach = r.reach /\ q.uuid = r.uuid /\ q.ok = r.ok /\ q.sent = r.sent
              /\ q.launched = r.launched
              /\ q.rt.tsms = r.rt.tsms /\ q.rt.registered = r.rt.registered
              /\ q.rt.spawning = r.rt.spawning /\ q.rt.ssms = r.rt.ssms
              /\ q.rt.deals = r.rt.deals /\ q.rt.counter = r.rt.counter
<1>1. auto_restores(r) \in BOOLEAN
  BY DEF auto_restores
<1> HIDE DEF auto_restores
<1> QED
  BY <1>1 DEF auto_restore, Result, Runtime

-------------------------------------------------------------------------------
(***************************************************************************)
(* The other requests.                                                     *)
(***************************************************************************)

\* Only these await a connection (awaiting_connect_from).
LEMMA Awaiting ==
    ASSUME NEW t \in Machine, NEW p \in Connection, awaiting_connect_from(t) = node_addr(p)
    PROVE  /\ t.st \in {"TakerConnect", "RestoringSwapd", "SwapdRunning"}
           /\ t.deal \notin MakerDeals
           /\ t.st = "SwapdRunning" => t.peerd = None
<1>1. node_addr(p) = <<p.node, p.side>>
  BY DEF node_addr, Connection
<1>2. node_addr(p) # <<>>
  BY <1>1
<1> QED
  BY <1>2 DEF awaiting_connect_from

\* A peerd reports to a machine that awaits it (tsm_connected, tsm_not_connected).
LEMMA ReportType ==
    ASSUME NEW r \in Result, NEW t \in Machine, NEW p \in Connection,
           t.st \in {"TakerConnect", "RestoringSwapd", "SwapdRunning"}
    PROVE  /\ tsm_connected(r, t, p) \in Result /\ Quiet(tsm_connected(r, t, p), r)
           /\ tsm_not_connected(r, t, p) \in Result
<1>1. t.deal \in Deals /\ t.client \in Service
  BY DEF Machine
<1> DEFINE known == handle_new_connection(r, p)
           gone  == handle_failed_connection(r, p)
           u     == [t EXCEPT !.peerd = p]
           v     == [t EXCEPT !.expect = FALSE]
<1>2. u \in Machine /\ v \in Machine
  BY DEF Machine
<1>3. known \in Result /\ known.sent = r.sent /\ known.reach = r.reach /\ gone \in Result
  BY Services, ConnectionType
<1>4. /\ tsm_connected(r, t, p) =
           CASE t.st = "TakerConnect"   -> take_over(known, t.deal, p, t.client)
             [] t.st = "RestoringSwapd" -> restoring_goes_on(known, u)
             [] t.st = "SwapdRunning"   -> push(known, u)
      /\ tsm_not_connected(r, t, p) =
           CASE t.st = "TakerConnect"   -> send(gone, t.client, "Failure", None)
             [] t.st = "RestoringSwapd" -> restoring_goes_on(gone, v)
             [] t.st = "SwapdRunning"   -> push(gone, u)
  BY DEF tsm_connected, tsm_not_connected
<1> HIDE DEF known, gone, u, v
<1>5. /\ take_over(known, t.deal, p, t.client) \in Result
      /\ Quiet(take_over(known, t.deal, p, t.client), known)
  BY <1>1, <1>3, TakerType
<1>6. /\ restoring_goes_on(known, u) \in Result /\ Quiet(restoring_goes_on(known, u), known)
      /\ restoring_goes_on(gone, v) \in Result
  BY <1>2, <1>3, RestoringType DEF Pushed
<1>7. /\ push(known, u) \in Result /\ Quiet(push(known, u), known)
      /\ push(gone, u) \in Result
  BY <1>2, <1>3, PushType
<1>8. send(gone, t.client, "Failure", None) \in Result
  BY <1>1, <1>3, Services, SendType, Messages
<1>9. \A q : Quiet(q, known) => Quiet(q, r)
  BY <1>3 DEF Quiet
<1> QED
  BY <1>4, <1>5, <1>6, <1>7, <1>8, <1>9

\* A launched or restoring machine takes any request like a Hello (otherwise).
LEMMA OtherwiseType ==
    ASSUME NEW r \in Result, NEW t \in Machine, NEW newest \in BOOLEAN,
           has_swap_id(t), t.st # "SwapdRunning"
    PROVE  /\ otherwise(r, t, newest) \in Result /\ Quiet(otherwise(r, t, newest), r)
<1>1. t.st \in {"SwapdLaunched", "RestoringSwapd"}
  BY DEF has_swap_id
<1>2. None \in Service
  BY Services
<1>3. /\ launched_on(r, t, None, newest) \in Result /\ Quiet(launched_on(r, t, None, newest), r)
  BY <1>2, LaunchedType DEF Pushed
<1>4. restoring_goes_on(r, t) \in Result /\ Quiet(restoring_goes_on(r, t), r)
  BY RestoringType DEF Pushed
<1> QED
  BY <1>1, <1>3, <1>4 DEF otherwise

\* SwapdRunning on Connect and on PeerdUnreachable.
LEMMA RunningType ==
    ASSUME NEW r \in Result, NEW t \in Machine, NEW c \in Service, NEW p \in Service
    PROVE  /\ connect(r, t, c) \in Result /\ Quiet(connect(r, t, c), r)
           /\ peerd_unreachable(r, t, p) \in Result
<1> DEFINE n      == node_addr_from_deal(t.deal)
           dialed == connect_peer(r, n)
           told   == send(dialed, c, "ConnectSuccess", None)
           after  == IF connected(r, n) THEN told ELSE dialed
           u      == [t EXCEPT !.peerd = connection(r, n)]
           fails  == send(r, c, "Failure", None)
<1>1. n \in Nodes /\ None \in Service
  BY Services DEF Machine
<1>2. /\ dialed \in Result /\ dialed.sent = r.sent /\ dialed.reach = r.reach
      /\ connection(r, n) \in Connection
  BY <1>1, ConnectPeerType
<1>3. u \in Machine
  <2>1. \A p2 \in Connection : [t EXCEPT !.peerd = p2] \in Machine
    BY DEF Machine
  <2> QED
    BY <1>2, <2>1
<1>4. fails \in Result /\ Quiet(fails, r)
  BY <1>1, SendType, Messages
<1>5. after \in Result /\ Quiet(after, r)
  <2> HIDE DEF dialed
  <2>1. told \in Result /\ Quiet(told, dialed)
    BY <1>1, <1>2, SendType, Messages
  <2> HIDE DEF told
  <2> QED
    BY <1>2, <2>1 DEF Quiet
<1>6. connect(r, t, c)
        = IF t.peerd # None \/ ~services_ready(r) \/ ~peer_keys_ready(r)
          THEN push(fails, t) ELSE push(after, u)
  BY DEF connect
<1> HIDE DEF fails, after, u
<1>7. connect(r, t, c) \in Result /\ Quiet(connect(r, t, c), r)
  <2>1. push(fails, t) \in Result /\ Quiet(push(fails, t), fails)
    BY <1>4, PushType
  <2>2. push(after, u) \in Result /\ Quiet(push(after, u), after)
    BY <1>3, <1>5, PushType
  <2> QED
    BY <1>4, <1>5, <1>6, <2>1, <2>2, SendsOn DEF Quiet
<1>8. peerd_unreachable(r, t, p) \in Result
  <2>1. CASE p \in r.rt.registered
    <3> DEFINE gone == handle_failed_connection(r, p)
               stop == send(gone, p, "Terminate", None)
    <3>2. gone \in Result
      BY ConnectionType
    <3>3. stop \in Result
      <4> HIDE DEF gone
      <4> QED
        BY <1>1, <3>2, SendType, Messages
    <3>4. peerd_unreachable(r, t, p) = push(stop, t)
      BY <2>1 DEF peerd_unreachable
    <3> HIDE DEF stop
    <3> QED
      BY <3>3, <3>4, PushType
  <2>2. CASE p \notin r.rt.registered
    BY <2>2, PushType DEF peerd_unreachable
  <2> QED
    BY <2>1, <2>2
<1> QED
  BY <1>7, <1>8

\* Services are told to stop (terminate), and those that nothing uses
\* (clean_up_after_syncer_usage, clean_up_after_swap).
LEMMA TerminateType ==
    ASSUME NEW r \in Result, NEW S \in SUBSET Service
    PROVE  LET q == terminate(r, S) IN
           /\ q \in Result
           /\ q.rt.registered = r.rt.registered \ (S \cap r.reach)
           /\ q.rt = [r.rt EXCEPT !.registered = q.rt.registered]
           /\ q.reach = r.reach /\ q.uuid = r.uuid /\ q.ok = r.ok /\ q.launched = r.launched
           /\ \A m : m \in q.sent <=>
                \/ m \in r.sent
                \/ \E s \in S \cap r.reach : m = [to |-> s, msg |-> "Terminate", arg |-> None]
<1> DEFINE told == S \cap r.reach
           more == r.sent \cup {[to |-> s, msg |-> "Terminate", arg |-> None] : s \in told}
           left == r.rt.registered \ told
           q    == [r EXCEPT !.sent = more, !.rt.registered = left]
<1>1. terminate(r, S) = q
  BY DEF terminate
<1>2. more \in SUBSET Msg
  <2>1. ASSUME NEW s \in told
        PROVE  [to |-> s, msg |-> "Terminate", arg |-> None] \in Msg
    BY Services, Messages DEF Msg
  <2> QED
    BY <2>1 DEF Result
<1>3. left \in SUBSET Service
  BY DEF Result, Runtime
<1>4. \A m : m \in more <=>
         \/ m \in r.sent
         \/ \E s \in told : m = [to |-> s, msg |-> "Terminate", arg |-> None]
  OBVIOUS
<1>5. left = r.rt.registered \ (S \cap r.reach)
  OBVIOUS
<1> HIDE DEF more, left
<1>6. /\ q \in Result /\ q.rt = [r.rt EXCEPT !.registered = left] /\ q.sent = more
      /\ q.reach = r.reach /\ q.uuid = r.uuid /\ q.ok = r.ok /\ q.launched = r.launched
  BY <1>2, <1>3 DEF Result, Runtime
<1>7. q.rt.registered = left
  BY <1>3, <1>6 DEF Result, Runtime
<1> HIDE DEF q
<1> QED
  BY <1>1, <1>4, <1>5, <1>6, <1>7

\* The end of a request and of a swap.
Unused(r) == unused_syncers(r) \cup unused_peers(r)

\* Both are well typed, and say no more than they have to.
LEMMA EndType ==
    ASSUME NEW r \in Result
    PROVE  /\ Unused(r) \in SUBSET Service /\ unused_syncers(r) \in SUBSET Service
           /\ \A m \in Request : end_job(r, m) \in Result
           /\ \A t \in Machine : swap_outcome(r, t) \in Result
<1>1. Unused(r) \in SUBSET Service /\ unused_syncers(r) \in SUBSET Service
  BY DEF Unused, unused_syncers, unused_peers, syncers, peers, Result, Runtime
<1>2. ASSUME NEW m \in Request
      PROVE  end_job(r, m) \in Result
  <2> DEFINE told == send(r, m.client, "Answer", m.task)
  <2>1. told \in Result
    BY SendType, Messages DEF Request
  <2>2. end_job(r, m) = IF told.ok THEN terminate(told, unused_syncers(told)) ELSE told
    BY DEF end_job, clean_up_after_syncer_usage
  <2> HIDE DEF told
  <2>3. unused_syncers(told) \in SUBSET Service
    BY <2>1 DEF unused_syncers, syncers, Result, Runtime
  <2>4. terminate(told, unused_syncers(told)) \in Result
    BY <2>1, <2>3, TerminateType
  <2> QED
    BY <2>1, <2>2, <2>4
<1>3. ASSUME NEW t \in Machine
      PROVE  swap_outcome(r, t) \in Result
  <2> DEFINE a == send(r, Database, "SetDealStatus", t.deal)
             b == send(a, Swap(t.deal), "Terminate", None)
             c == send(b, Database, "RemoveCheckpoint", t.deal)
  <2>1. t.deal \in Deals /\ Swap(t.deal) \in Service /\ Database \in Service /\ None \in Service
    BY Services DEF Machine
  <2>2. a \in Result
    BY <2>1, SendType, Messages
  <2>3. b \in Result
    <3> HIDE DEF a
    <3> QED
      BY <2>1, <2>2, SendType, Messages
  <2>4. c \in Result
    <3> HIDE DEF b
    <3> QED
      BY <2>1, <2>3, SendType, Messages
  <2>5. swap_outcome(r, t) = IF c.ok THEN terminate(c, Unused(c)) ELSE c
    BY DEF swap_outcome, clean_up_after_swap, Unused
  <2> HIDE DEF c
  <2>6. Unused(c) \in SUBSET Service
    BY <2>4 DEF Unused, unused_syncers, unused_peers, syncers, peers, Result, Runtime
  <2>7. terminate(c, Unused(c)) \in Result
    BY <2>4, <2>6, TerminateType
  <2> QED
    BY <2>4, <2>5, <2>7
<1> QED
  BY <1>1, <1>2, <1>3

\* SweepAddress, GetBalance or HealthCheck (Start).
LEMMA StartType ==
    ASSUME NEW r \in Result, NEW c \in Chains, NEW client_ \in Service
    PROVE  start_job(r, c, client_) \in Result
<1> DEFINE m    == Job(r.rt.counter, c, client_, FALSE)
           more == [r EXCEPT !.rt.counter = @ + 1]
           s    == syncer_up(more, c)
           S    == s.rt.ssms \cup {m}
<1>1. m \in Request
  BY DEF Job, Request, Result, Runtime
<1>2. more \in Result
  <2>1. r.rt \in Runtime /\ r.rt.counter + 1 \in Nat
    BY DEF Result, Runtime
  <2>2. [r.rt EXCEPT !.counter = r.rt.counter + 1] \in Runtime
    BY <2>1 DEF Runtime
  <2>3. more = [r EXCEPT !.rt = [r.rt EXCEPT !.counter = r.rt.counter + 1]]
    OBVIOUS
  <2> HIDE DEF more
  <2> QED
    BY <2>2, <2>3 DEF Result
<1>3. s \in Result
  <2> HIDE DEF more
  <2> QED
    BY <1>2, SyncerUpType
<1>4. start_job(r, c, client_) = IF c \in registered_chains(s) THEN give_task(s, m) ELSE Tasked(s, S)
  BY DEF start_job, Tasked
<1> HIDE DEF s, m
<1>5. S \in SUBSET Request
  BY <1>1, <1>3 DEF Result, Runtime
<1> HIDE DEF S
<1>6. give_task(s, m) \in Result
  BY <1>1, <1>3, GiveType
<1>7. Tasked(s, S) \in Result
  BY <1>3, <1>5, TaskedType
<1> QED
  BY <1>4, <1>6, <1>7

-------------------------------------------------------------------------------
(***************************************************************************)
(* databased's list of checkpoints.                                        *)
(***************************************************************************)
\* One checkpoint of the list.
RestoreNext(r, d) ==
    IF r.ok THEN restore_checkpoint(r, d, store[d].expected, Database) ELSE r

\* What is done one checkpoint after the other comes to an end: the function that
\* ListRestores defines exists.  The least length for which it did not would have one before it.
LEMMA RestoresDefined ==
    ASSUME NEW list, Len(list) \in Nat
    PROVE  LET after == CHOOSE f : f = [i \in 0..Len(list) |->
                                          IF i = 0 THEN Now ELSE RestoreNext(f[i - 1], list[i])]
           IN  after = [i \in 0..Len(list) |->
                          IF i = 0 THEN Now ELSE RestoreNext(after[i - 1], list[i])]
<1> DEFINE Run(f, n) == f = [i \in 0..n |-> IF i = 0 THEN Now ELSE RestoreNext(f[i - 1], list[i])]
           Missing   == {n \in Nat : ~ \E f : Run(f, n)}
<1>1. 0 \notin Missing
  <2>1. Run([i \in 0..0 |-> Now], 0)
    OBVIOUS
  <2> QED
    BY <2>1
<1>2. ASSUME NEW n \in Nat, n \notin Missing
      PROVE  n + 1 \notin Missing
  <2>1. PICK f : Run(f, n)
    BY <1>2
  <2> DEFINE g == [i \in 0..(n + 1) |-> IF i = n + 1 THEN RestoreNext(f[n], list[n + 1]) ELSE f[i]]
  <2>2. \A i \in 0..(n + 1) : g[i] = IF i = 0 THEN Now ELSE RestoreNext(g[i - 1], list[i])
    <3> SUFFICES ASSUME NEW i \in 0..(n + 1)
                 PROVE  g[i] = IF i = 0 THEN Now ELSE RestoreNext(g[i - 1], list[i])
      OBVIOUS
    <3>1. CASE i = 0
      BY <2>1, <3>1
    <3>2. CASE i \in 1..n
      <4>1. i \in 0..n /\ i - 1 \in 0..n /\ i # n + 1 /\ i - 1 # n + 1 /\ i - 1 \in 0..(n + 1) /\ i # 0
        BY <3>2
      <4>2. g[i] = f[i] /\ g[i - 1] = f[i - 1]
        BY <4>1
      <4>3. f[i] = RestoreNext(f[i - 1], list[i])
        BY <2>1, <4>1
      <4> QED
        BY <4>1, <4>2, <4>3
    <3>3. CASE i = n + 1
      BY <3>3
    <3> QED
      BY <3>1, <3>2, <3>3
  <2>3. Run(g, n + 1)
    <3>1. g = [i \in 0..(n + 1) |-> g[i]]
      OBVIOUS
    <3> HIDE DEF g
    <3> QED
      BY <2>2, <3>1
  <2> QED
    BY <2>3
<1>3. Missing = {}
  <2> SUFFICES ASSUME Missing # {}
               PROVE  FALSE
    OBVIOUS
  <2>1. Missing \in SUBSET Nat
    OBVIOUS
  <2> HIDE DEF Missing
  <2>2. PICK m \in Missing : \A n \in Missing : m <= n
    BY <2>1, LeastElement
  <2>3. m - 1 \in Nat /\ m - 1 \notin Missing /\ (m - 1) + 1 = m
    BY <1>1, <2>1, <2>2
  <2> QED
    BY <1>2, <2>2, <2>3
<1>4. \E f : Run(f, Len(list))
  BY <1>3
<1> QED
  BY <1>4

\* A handler begins with what the node is.
LEMMA BeginType ==
    ASSUME TypeOK
    PROVE  /\ Now \in Result /\ Now.rt = runtime /\ Now.reach = alive /\ Now.ok /\ Now.sent = {}
           /\ Now.launched = {}
           /\ \A s \in Service :
                /\ Joining(s) \in Result /\ Joining(s).rt = runtime
                /\ Joining(s).reach = alive \cup {s} /\ Joining(s).ok /\ Joining(s).sent = {}
                /\ Joining(s).launched = {}
<1>1. links + 1 \in Nat /\ runtime \in Runtime /\ alive \in SUBSET Service
  BY DEF TypeOK
<1> QED
  BY <1>1 DEF Now, Joining, Begin, Result

\* The list, as the databases returns it.
LEMMA RestoresType ==
    ASSUME TypeOK, NEW n \in Nat, NEW list \in [1..n -> Deals], NEW f,
           f = [i \in 0..n |-> IF i = 0 THEN Now ELSE RestoreNext(f[i - 1], list[i])]
    PROVE  \A i \in 0..n : f[i] \in Result /\ Quiet(f[i], Now)
<1> DEFINE Bad == {i \in 0..n : ~(f[i] \in Result /\ Quiet(f[i], Now))}
<1> SUFFICES ASSUME Bad # {}
             PROVE  FALSE
  OBVIOUS
<1>1. Bad \in SUBSET Nat
  OBVIOUS
<1>2. PICK m \in Bad : \A i \in Bad : m <= i
  <2> HIDE DEF Bad
  <2> QED
    BY <1>1, LeastElement
<1>3. m \in 0..n /\ ~(f[m] \in Result /\ Quiet(f[m], Now))
  BY <1>2
<1>4. f[0] \in Result /\ Quiet(f[0], Now)
  <2>1. f[0] = Now
    OBVIOUS
  <2> QED
    BY <2>1, BeginType DEF Quiet
<1>5. m # 0
  BY <1>3, <1>4
<1>6. m - 1 \in 0..n /\ m \in 1..n
  BY <1>3, <1>5
<1>7. m - 1 \notin Bad
  <2> HIDE DEF Bad
  <2>1. ~(m <= m - 1)
    BY <1>3
  <2> QED
    BY <1>2, <2>1
<1>8. f[m - 1] \in Result /\ Quiet(f[m - 1], Now)
  BY <1>6, <1>7
<1>9. f[m] = RestoreNext(f[m - 1], list[m]) /\ list[m] \in Deals
  BY <1>5, <1>6
<1> DEFINE r == f[m - 1]
           e == store[list[m]].expected
<1>10. e \in SUBSET Nodes /\ Database \in Service
  BY <1>9, Services DEF TypeOK
<1> HIDE DEF e
<1>11. /\ restore_checkpoint(r, list[m], e, Database) \in Result
       /\ Quiet(restore_checkpoint(r, list[m], e, Database), r)
  BY <1>8, <1>9, <1>10, RestoreType
<1>12. f[m] \in {r, restore_checkpoint(r, list[m], e, Database)}
  BY <1>9, ZenonT(120) DEF RestoreNext, e
<1> QED
  BY <1>3, <1>8, <1>11, <1>12 DEF Quiet

-------------------------------------------------------------------------------
(***************************************************************************)
(* The types hold.                                                         *)
(***************************************************************************)

\* What the other processes make of it (ServeWith).
LEMMA ServeType ==
    ASSUME TypeOK, NEW r \in Result, NEW dial \in SUBSET Connection, NEW owed, NEW tasks,
           NEW before \in [Deals -> [st : {"idle", "running", "ended"}, peer : Service]],
           ServeWith(r, dial, owed, tasks, before)
    PROVE  TypeOK'
<1>1. runtime' \in Runtime /\ alive' \in SUBSET Service /\ starting' \in SUBSET Service
  BY DEF TypeOK, ServeWith, Result
<1>2. dialing' \in SUBSET Connection
  <2>1. peers(starting) \subseteq Connection
    BY Services DEF TypeOK
  <2> QED
    BY <2>1 DEF ServeWith
<1>3. swapd' \in [Deals -> [st : {"idle", "running", "ended"}, peer : Service]]
  <2>1. ASSUME NEW d \in Deals
        PROVE  swapd_after(r, before, d) \in [st : {"idle", "running", "ended"}, peer : Service]
    <3> DEFINE started   == sent(r, Swap(d), "InitSwap")
               linked_up == sent(r, Swap(d), "PeerdReconnected")
               told      == IF started # {} THEN started ELSE linked_up
               one       == CHOOSE m \in told : TRUE
    <3>1. \A m \in started \cup linked_up : m \in Msg /\ m.msg \in Linking
      BY Messages DEF sent, Result
    <3>2. \A m \in Msg : m.msg \in Linking => m.arg \in Service
      BY DEF Msg, Linking, Telling
    <3>3. \A m \in told : m.arg \in Service
      BY <3>1, <3>2
    <3>4. told # {} => one.arg \in Service
      <4> HIDE DEF told
      <4> QED
        BY <3>3
    <3>5. before[d].st \in {"idle", "running", "ended"} /\ before[d].peer \in Service
      OBVIOUS
    <3>6. NoSwapd \in [st : {"idle", "running", "ended"}, peer : Service]
      BY Services DEF NoSwapd
    <3> QED
      BY <3>4, <3>5, <3>6 DEF swapd_after
  <2> QED
    BY <2>1 DEF ServeWith
<1>4. store' \in [Deals -> [saved : BOOLEAN, expected : SUBSET Nodes]]
  BY DEF TypeOK, ServeWith, NoCheckpoint
<1>5. links' \in Nat
  BY DEF TypeOK, ServeWith, Result
<1> QED
  BY <1>1, <1>2, <1>3, <1>4, <1>5 DEF TypeOK, ServeWith

\* The same, when dialing, keys_owed, jobs and swapd are as they were.
LEMMA ServedType ==
    ASSUME TypeOK, NEW r \in Result, Serve(r)
    PROVE  TypeOK'
<1>1. /\ dialing \in SUBSET Connection
      /\ swapd \in [Deals -> [st : {"idle", "running", "ended"}, peer : Service]]
  BY DEF TypeOK
<1> QED
  BY <1>1, ServeType DEF Serve

\* A machine has been taken out (process_request_with_state_machines).
LEMMA TakenType ==
    ASSUME TypeOK, NEW i \in 1..Len(runtime.tsms)
    PROVE  /\ taken(Now, i) \in Result /\ runtime.tsms[i] \in Machine
           /\ taken(Now, i).rt = [runtime EXCEPT !.tsms = RemoveAt(runtime.tsms, i)]
           /\ taken(Now, i).rt.tsms = RemoveAt(runtime.tsms, i)
           /\ taken(Now, i).reach = alive /\ taken(Now, i).sent = {} /\ taken(Now, i).ok
           /\ taken(Now, i).launched = {}
<1>1. runtime \in Runtime /\ runtime.tsms \in Seq(Machine)
  BY DEF TypeOK, Runtime
<1>2. runtime.tsms[i] \in Machine /\ RemoveAt(runtime.tsms, i) \in Seq(Machine)
  BY <1>1, Removal, ElementOfSeq
<1>3. taken(Now, i) = [Now EXCEPT !.rt.tsms = RemoveAt(runtime.tsms, i)]
  BY BeginType DEF taken
<1>4. /\ taken(Now, i) \in Result
      /\ taken(Now, i).rt = [runtime EXCEPT !.tsms = RemoveAt(runtime.tsms, i)]
  BY <1>2, <1>3, BeginType, MachinesType
<1>5. taken(Now, i).rt.tsms = RemoveAt(runtime.tsms, i)
  BY <1>1, <1>4 DEF Runtime
<1>6. /\ taken(Now, i).reach = Now.reach /\ taken(Now, i).sent = Now.sent
      /\ taken(Now, i).ok = Now.ok /\ taken(Now, i).launched = Now.launched
  BY <1>3, BeginType DEF Result
<1> QED
  BY <1>2, <1>4, <1>5, <1>6, BeginType

\* What every service says first (handle_hello).
LEMMA HeardType ==
    ASSUME NEW r \in Result, NEW s \in Service, NEW newest \in BOOLEAN
    PROVE  machines_hear(r, s, newest) \in Result
<1>1. tsms_hear(r, s, newest) \in Result
  BY HearType
<1> QED
  BY <1>1, JobsHearType DEF machines_hear

\* The environment is one of those the assumption is about.
LEMMA Environment ==
    ASSUME env \in Environments
    PROVE  /\ AutoRestore \in BOOLEAN
           /\ Stored \in [Deals -> [saved : BOOLEAN, expected : SUBSET Nodes]]
BY FarcasterdAssumption DEF AutoRestore, Stored

\* The types hold when the node starts, for the first time and again.
LEMMA TypeInit == Init => TypeOK
<1> SUFFICES ASSUME Init
             PROVE  TypeOK
  OBVIOUS
<1>1. env \in Environments
  BY DEF Init
<1>2. NewRuntime \in Runtime
  <2>1. <<>> \in Seq(Machine)
    BY EmptySeq
  <2> QED
    BY <2>1 DEF NewRuntime, Runtime
<1>3. {client(c) : c \in Clients} \in SUBSET Service
  BY <1>1, ClientsAreServices
<1>4. {Wallet, Database} \in SUBSET Service /\ None \in Service
  BY Services
<1> QED
  BY <1>1, <1>2, <1>3, <1>4, Environment DEF Init, TypeOK, NoSwapd

\* The messages farcasterd has from its own processes.
LEMMA OwnType == TypeOK /\ Own => TypeOK'
<1> SUFFICES ASSUME TypeOK, Own
             PROVE  TypeOK'
  OBVIOUS
<1>1. /\ env \in Environments /\ AutoRestore \in BOOLEAN
      /\ runtime.tsms \in Seq(Machine) /\ runtime.ssms \subseteq Request
  BY Environment DEF TypeOK, Runtime
<1>2. ASSUME NEW s \in starting, SaysHello(s)
      PROVE  TypeOK'
  <2>1. s \in Service
    BY DEF TypeOK
  <2> DEFINE known    == register(Joining(s), s)
             restores == s = Database /\ auto_restores(known)
             r        == IF restores THEN auto_restore(known) ELSE known
  <2>2. known \in Result
    BY <2>1, BeginType, RegisterType
  <2>3. r \in Result
    <3> HIDE DEF known
    <3> QED
      BY <1>1, <2>2, AutoType
  <2>4. PICK newest \in BOOLEAN : Serve(machines_hear(r, s, newest))
    BY <1>2 DEF SaysHello
  <2> HIDE DEF r
  <2>5. machines_hear(r, s, newest) \in Result
    BY <2>1, <2>3, HeardType
  <2> QED
    BY <2>4, <2>5, ServedType
<1>3. CASE KeysArrive
  <2> DEFINE r == [Now EXCEPT !.rt.keys = TRUE]
  <2>1. r \in Result
    BY BeginType DEF Result, Runtime
  <2>2. Serve(auto_restore(r))
    BY <1>3 DEF KeysArrive
  <2> HIDE DEF r
  <2>3. auto_restore(r) \in Result
    BY <1>1, <2>1, AutoType
  <2> QED
    BY <2>2, <2>3, ServedType
<1>4. CASE ListRestores
  <2> DEFINE S == {d \in Deals : store[d].saved}
  <2>1. PICK list \in SetToSeqs(S) :
          LET after[i \in 0..Len(list)] ==
                IF i = 0 THEN Now
                ELSE IF after[i - 1].ok
                     THEN restore_checkpoint(after[i - 1], list[i], store[list[i]].expected, Database)
                     ELSE after[i - 1]
          IN  Serve(after[Len(list)])
    BY <1>4 DEF ListRestores
  <2>2. IsFiniteSet(S) /\ Cardinality(S) \in Nat
    <3>1. IsFiniteSet(S)
      BY DealsAssumption, FS_Subset
    <3> HIDE DEF S
    <3> QED
      BY <3>1, FS_CardinalityType
  <2>3. list \in [1..Cardinality(S) -> Deals] /\ Len(list) = Cardinality(S)
    <3>1. list \in [1..Cardinality(S) -> S]
      BY DEF SetToSeqs
    <3>2. S \subseteq Deals
      OBVIOUS
    <3> HIDE DEF S
    <3> QED
      BY <2>2, <3>1, <3>2
  <2> HIDE DEF S
  <2> DEFINE f == CHOOSE f : f = [i \in 0..Len(list) |->
                                   IF i = 0 THEN Now ELSE RestoreNext(f[i - 1], list[i])]
  <2>4. Serve(f[Len(list)])
    BY <2>1 DEF RestoreNext
  <2>5. f = [i \in 0..Len(list) |-> IF i = 0 THEN Now ELSE RestoreNext(f[i - 1], list[i])]
    BY <2>2, <2>3, RestoresDefined
  <2> HIDE DEF f
  <2>6. f[Len(list)] \in Result
    BY <2>2, <2>3, <2>5, RestoresType
  <2> QED
    BY <2>4, <2>6, ServedType
<1>5. ASSUME NEW d \in Deals, KeysCreated(d)
      PROVE  TypeOK'
  <2> DEFINE i == TradesAt(d)
             r == IF i # 0 THEN swap_keys(taken(Now, i), runtime.tsms[i]) ELSE Now
  <2>1. r \in Result
    <3>1. i # 0 => i \in 1..Len(runtime.tsms)
      BY <1>1, Positions
    <3> HIDE DEF i
    <3> QED
      BY <3>1, BeginType, TakenType, LaunchType
  <2>2. ServeWith(r, dialing, keys_owed \ {d}, jobs, swapd)
    BY <1>5 DEF KeysCreated, TradesAt
  <2> HIDE DEF r
  <2> QED
    BY <2>1, <2>2, ServeType DEF TypeOK
<1>6. ASSUME NEW p \in dialing, NEW success \in BOOLEAN, Reports(p, success)
      PROVE  TypeOK'
  <2> DEFINE i == AwaitsAt(p)
             r == IF i = 0 THEN Now
                  ELSE IF success THEN tsm_connected(taken(Now, i), runtime.tsms[i], p)
                  ELSE tsm_not_connected(taken(Now, i), runtime.tsms[i], p)
  <2>1. p \in Connection
    BY DEF TypeOK
  <2>2. r \in Result
    <3>1. i # 0 => /\ i \in 1..Len(runtime.tsms)
                   /\ awaiting_connect_from(runtime.tsms[i]) = node_addr(p)
      BY <1>1, Positions
    <3> HIDE DEF i
    <3> QED
      BY <2>1, <3>1, BeginType, TakenType, Awaiting, ReportType
  <2>3. ServeWith(r, dialing \ {p}, keys_owed, jobs, swapd)
    BY <1>6 DEF Reports, AwaitsAt
  <2> HIDE DEF r
  <2>4. dialing \ {p} \in SUBSET Connection
    BY DEF TypeOK
  <2> QED
    BY <2>2, <2>3, <2>4, ServeType DEF TypeOK
<1>7. ASSUME NEW j \in jobs, Answers(j)
      PROVE  TypeOK'
  <2> DEFINE asked == {m \in runtime.ssms : m.task = j.task /\ m.chain = j.chain /\ m.given}
  <2>1. CASE asked = {}
    <3>1. ServeWith(Now, dialing, keys_owed, jobs \ {j}, swapd)
      BY <1>7, <2>1 DEF Answers
    <3> QED
      BY <3>1, BeginType, ServeType DEF TypeOK
  <2>2. CASE asked # {}
    <3>1. PICK m \in asked : ServeWith(end_job([Now EXCEPT !.rt.ssms = @ \ {m}], m),
                                       dialing, keys_owed, jobs \ {j}, swapd)
      BY <1>7, <2>2 DEF Answers
    <3> DEFINE r == Tasked(Now, Now.rt.ssms \ {m})
    <3>2. m \in Request /\ Now.rt.ssms \ {m} \in SUBSET Request
      BY <1>1, BeginType
    <3>3. r \in Result
      BY <3>2, BeginType, TaskedType
    <3>4. ServeWith(end_job(r, m), dialing, keys_owed, jobs \ {j}, swapd)
      BY <3>1 DEF Tasked
    <3> HIDE DEF r
    <3>5. end_job(r, m) \in Result
      BY <3>2, <3>3, EndType
    <3> QED
      BY <3>4, <3>5, ServeType DEF TypeOK
  <2> QED
    BY <2>1, <2>2
<1> QED
  BY <1>2, <1>3, <1>4, <1>5, <1>6, <1>7 DEF Own

\* The requests of clients.
LEMMA AskedType == TypeOK /\ Asked => TypeOK'
<1> SUFFICES ASSUME TypeOK, Asked
             PROVE  TypeOK'
  OBVIOUS
<1>1. /\ env \in Environments /\ runtime.tsms \in Seq(Machine)
      /\ \A c \in Clients : client(c) \in Service
  BY ClientsAreServices DEF TypeOK, Runtime
<1>2. Now \in Result
  BY BeginType
<1>3. PICK c \in Clients :
        \/ \E d \in Deals : \/ MakesDeal(d, c) \/ RevokesDeal(d, c) \/ TakesDeal(d, c)
                            \/ Restores(d, c) \/ Connects(d, c)
        \/ \E chain \in Chains : AsksSyncer(chain, c)
  BY DEF Asked
<1>4. client(c) \in Service
  BY <1>1
<1>5. ASSUME NEW d \in Deals, MakesDeal(d, c)
      PROVE  TypeOK'
  <2>1. Serve(make_deal(Now, d, client(c)))
    BY <1>5 DEF MakesDeal
  <2>2. make_deal(Now, d, client(c)) \in Result
    <3> DEFINE t == Trade("MakeDeal", d, None)
               p == Peer(0, Counterparty[d], "out")
    <3>1. t \in Machine /\ p \in Connection
      BY TradeType, Services
    <3> HIDE DEF t, p
    <3> QED
      BY <1>2, <1>4, <3>1, MakerType
  <2> QED
    BY <2>1, <2>2, ServedType
<1>6. ASSUME NEW d \in Deals, RevokesDeal(d, c)
      PROVE  TypeOK'
  <2> DEFINE i == MakesAt(d)
             r == revoke_deal(taken(Now, i), runtime.tsms[i], client(c))
  <2>1. i # 0 /\ Serve(r)
    BY <1>6 DEF RevokesDeal, MakesAt
  <2>2. i \in 1..Len(runtime.tsms)
    BY <1>1, <2>1, Positions
  <2> HIDE DEF i
  <2>3. taken(Now, i) \in Result /\ runtime.tsms[i] \in Machine
    BY <2>2, TakenType
  <2>4. r \in Result
    <3> DEFINE p == Peer(0, Counterparty[d], "out")
    <3>1. p \in Connection
      BY Services
    <3> HIDE DEF p
    <3> QED
      BY <1>4, <2>3, <3>1, MakerType
  <2> QED
    BY <2>1, <2>4, ServedType
<1>7. ASSUME NEW d \in Deals, TakesDeal(d, c)
      PROVE  TypeOK'
  <2>1. Serve(take_deal(Now, d, client(c)))
    BY <1>7 DEF TakesDeal
  <2> QED
    BY <1>2, <1>4, <2>1, TakerType, ServedType
<1>8. ASSUME NEW d \in Deals, Restores(d, c)
      PROVE  TypeOK'
  <2> DEFINE e == store[d].expected
             r == restore_checkpoint(Now, d, e, client(c))
  <2>1. Serve(r)
    BY <1>8 DEF Restores
  <2>2. e \in SUBSET Nodes
    BY DEF TypeOK
  <2> HIDE DEF e
  <2>3. r \in Result
    BY <1>2, <1>4, <2>2, RestoreType
  <2> QED
    BY <2>1, <2>3, ServedType
<1>9. ASSUME NEW d \in Deals, Connects(d, c)
      PROVE  TypeOK'
  <2> DEFINE i == by_swap_id(d)
             t == runtime.tsms[i]
             u == taken(Now, i)
  <2>1. i # 0 /\ \E newest \in BOOLEAN :
                   Serve(IF t.st = "SwapdRunning" THEN connect(u, t, client(c))
                         ELSE otherwise(u, t, newest))
    BY <1>9 DEF Connects
  <2>2. i \in 1..Len(runtime.tsms) /\ has_swap_id(t)
    BY <1>1, <2>1, Positions
  <2> HIDE DEF i
  <2>3. u \in Result /\ t \in Machine
    BY <2>2, TakenType
  <2> HIDE DEF t, u
  <2>4. PICK newest \in BOOLEAN :
               Serve(IF t.st = "SwapdRunning" THEN connect(u, t, client(c))
                     ELSE otherwise(u, t, newest))
    BY <2>1
  <2>5. connect(u, t, client(c)) \in Result
    BY <1>4, <2>3, RunningType
  <2>6. t.st # "SwapdRunning" => otherwise(u, t, newest) \in Result
    BY <2>2, <2>3, OtherwiseType
  <2> QED
    BY <2>4, <2>5, <2>6, ServedType
<1>10. ASSUME NEW chain \in Chains, AsksSyncer(chain, c)
       PROVE  TypeOK'
  <2>1. Serve(start_job(Now, chain, client(c)))
    BY <1>10 DEF AsksSyncer
  <2> QED
    BY <1>2, <1>4, <2>1, StartType, ServedType
<1> QED
  BY <1>3, <1>5, <1>6, <1>7, <1>8, <1>9, <1>10

\* The messages of remote nodes.
LEMMA RemoteType == TypeOK /\ Remote => TypeOK'
<1> SUFFICES ASSUME TypeOK, Remote
             PROVE  TypeOK'
  OBVIOUS
<1>1. runtime.tsms \in Seq(Machine) /\ links \in Nat /\ peers(alive) \subseteq Connection
  BY Services DEF TypeOK, Runtime
<1>2. Now \in Result
  BY BeginType
<1>3. ASSUME NEW n \in Nodes, RemoteConnects(n)
      PROVE  TypeOK'
  <2> DEFINE p == Peer(links + 1, n, "in")
             r == register(Joining(p), p)
  <2>1. PICK newest \in BOOLEAN : Serve(machines_hear(r, p, newest))
    BY <1>3 DEF RemoteConnects
  <2>2. p \in Service
    BY <1>1, Services
  <2> HIDE DEF p
  <2>3. r \in Result
    BY <2>2, BeginType, RegisterType
  <2> HIDE DEF r
  <2>4. machines_hear(r, p, newest) \in Result
    BY <2>2, <2>3, HeardType
  <2> QED
    BY <2>1, <2>4, ServedType
<1>4. ASSUME NEW p \in peers(alive), NEW d \in Deals, TakerCommits(p, d)
      PROVE  TypeOK'
  <2> DEFINE i == MakesAt(d)
             r == IF i # 0 THEN taker_commit(taken(Now, i), runtime.tsms[i], p)
                  ELSE send(Now, p, "DealNotFound", d)
  <2>1. Serve(r)
    BY <1>4 DEF TakerCommits, MakesAt
  <2>2. i # 0 => i \in 1..Len(runtime.tsms)
    BY <1>1, Positions
  <2>3. p \in Connection /\ p \in Service
    BY <1>1, Services
  <2>4. r \in Result
    <3> HIDE DEF i
    <3>1. i # 0 => taken(Now, i) \in Result /\ runtime.tsms[i] \in Machine
      BY <2>2, TakenType
    <3>2. i # 0 => taker_commit(taken(Now, i), runtime.tsms[i], p) \in Result
      BY <2>3, <3>1, MakerType
    <3>3. send(Now, p, "DealNotFound", d) \in Result
      BY <1>2, <2>3, SendType, Messages
    <3> QED
      BY <3>2, <3>3
  <2> HIDE DEF r
  <2> QED
    BY <2>1, <2>4, ServedType
<1>5. ASSUME NEW p \in peers(alive), PeerdTerminated(p)
      PROVE  TypeOK'
  <2>1. Serve(handle_failed_connection(Now, p))
    BY <1>5 DEF PeerdTerminated
  <2>2. p \in Service
    BY <1>1, Services
  <2>3. handle_failed_connection(Now, p) \in Result
    BY <1>2, <2>2, ConnectionType
  <2> QED
    BY <2>1, <2>3, ServedType
<1> QED
  BY <1>3, <1>4, <1>5 DEF Remote

\* What swapds do.
LEMMA SwapsType == TypeOK /\ Swaps => TypeOK'
<1> SUFFICES ASSUME TypeOK, NEW d \in Deals, Checkpoints(d) \/ Unreachable(d) \/ Ends(d)
             PROVE  TypeOK'
  BY DEF Swaps
<1>1. runtime.tsms \in Seq(Machine)
  BY DEF TypeOK, Runtime
<1>2. Now \in Result
  BY BeginType
<1> DEFINE i == by_swap_id(d)
           t == runtime.tsms[i]
           u == taken(Now, i)
<1>3. i # 0 => i \in 1..Len(runtime.tsms) /\ has_swap_id(t)
  BY <1>1, Positions
<1>4. i # 0 => u \in Result /\ t \in Machine
  <2> HIDE DEF i
  <2> QED
    BY <1>3, TakenType
<1>5. \A newest \in BOOLEAN :
        i # 0 /\ t.st # "SwapdRunning" => otherwise(u, t, newest) \in Result
  <2> HIDE DEF i, t, u
  <2> QED
    BY <1>3, <1>4, OtherwiseType
<1>6. CASE Checkpoints(d)
  <2>1. swapd[d].peer \in Service
    BY DEF TypeOK
  <2>2. node_id(swapd[d].peer) \subseteq Nodes
    BY <2>1, NodeIds
  <2> QED
    BY <1>6, <2>2 DEF Checkpoints, TypeOK
<1>7. CASE Unreachable(d)
  <2>1. PICK newest \in BOOLEAN :
          Serve(IF t.st = "SwapdRunning" THEN peerd_unreachable(u, t, swapd[d].peer)
                ELSE otherwise(u, t, newest))
    BY <1>7 DEF Unreachable
  <2>2. i # 0
    BY <1>7 DEF Unreachable
  <2> DEFINE p == swapd[d].peer
  <2>3. p \in Service
    BY DEF TypeOK
  <2> HIDE DEF i, t, u, p
  <2>4. peerd_unreachable(u, t, p) \in Result
    BY <1>4, <2>2, <2>3, Services, RunningType
  <2> QED
    BY <1>5, <2>1, <2>2, <2>4, ServedType DEF p
<1>8. CASE Ends(d)
  <2> DEFINE ended == [swapd EXCEPT ![d].st = "ended"]
  <2>1. PICK newest \in BOOLEAN :
          ServeWith(IF i = 0 THEN Now ELSE IF t.st = "SwapdRunning" THEN swap_outcome(u, t)
                    ELSE otherwise(u, t, newest), dialing, keys_owed, jobs, ended)
    BY <1>8 DEF Ends
  <2>2. ended \in [Deals -> [st : {"idle", "running", "ended"}, peer : Service]]
    BY DEF TypeOK
  <2>3. i # 0 => swap_outcome(u, t) \in Result
    <3> HIDE DEF i, t, u
    <3> QED
      BY <1>4, EndType
  <2> DEFINE r == IF i = 0 THEN Now ELSE IF t.st = "SwapdRunning" THEN swap_outcome(u, t)
                  ELSE otherwise(u, t, newest)
  <2>4. r \in Result
    <3> HIDE DEF i, t, u
    <3> QED
      BY <1>2, <1>5, <2>3
  <2> HIDE DEF r, ended
  <2>5. ServeWith(r, dialing, keys_owed, jobs, ended)
    BY <2>1 DEF r, ended
  <2>6. dialing \in SUBSET Connection
    BY DEF TypeOK
  <2> QED
    BY <2>2, <2>4, <2>5, <2>6, ServeType
<1> QED
  BY <1>6, <1>7, <1>8

\* A process dies, or the node is started again.
LEMMA FaultsType == TypeOK /\ Faults => TypeOK'
<1> SUFFICES ASSUME TypeOK, Faults
             PROVE  TypeOK'
  OBVIOUS
<1>1. None \in Service /\ {Wallet, Database} \in SUBSET Service
  BY Services
<1>2. NoSwapd \in [st : {"idle", "running", "ended"}, peer : Service]
  BY <1>1 DEF NoSwapd
<1>3. ASSUME NEW s \in alive, Dies(s)
      PROVE  TypeOK'
  BY <1>2, <1>3 DEF Dies, TypeOK
<1>4. CASE Restarts
  <2>1. NewRuntime \in Runtime
    <3>1. <<>> \in Seq(Machine)
      BY EmptySeq
    <3> QED
      BY <3>1 DEF NewRuntime, Runtime
  <2>2. {client(c) : c \in Clients} \in SUBSET Service
    BY ClientsAreServices DEF TypeOK
  <2> QED
    BY <1>1, <1>2, <1>4, <2>1, <2>2 DEF Restarts, TypeOK
<1> QED
  BY <1>3, <1>4 DEF Faults

\* farcasterd's state has its types: the machines are those of trade_state_machine.rs, a
\* connection is what names a peerd, and what is sent about one names a service.
THEOREM TypeCorrect == Spec => []TypeOK
<1>1. TypeOK /\ [Next]_vars => TypeOK'
  <2>1. TypeOK /\ UNCHANGED vars => TypeOK'
    BY DEF TypeOK, vars
  <2> QED
    BY <2>1, OwnType, AskedType, RemoteType, SwapsType, FaultsType DEF Next
<1> QED
  BY <1>1, TypeInit, PTL DEF Spec

-------------------------------------------------------------------------------
(***************************************************************************)
(* What is terminated when a swap ends.                                    *)
(***************************************************************************)

\* Until it cleans up: its swapd has been told to stop, the checkpoint is removed.
Dismissed(r, t) ==
    send(send(send(r, Database, "SetDealStatus", t.deal), Swap(t.deal), "Terminate", None),
         Database, "RemoveCheckpoint", t.deal)

\* All of it can be sent when the database and the swapd are on the bus.
LEMMA DismissedType ==
    ASSUME NEW r \in Result, NEW t \in Machine
    PROVE  LET q == Dismissed(r, t) IN
           /\ q \in Result
           /\ q.rt = r.rt /\ q.reach = r.reach /\ q.launched = r.launched /\ q.uuid = r.uuid
           /\ \A m \in q.sent : m \in r.sent \/ m.msg # "Terminate" \/ m.to = Swap(t.deal)
           /\ swap_outcome(r, t) = IF q.ok THEN terminate(q, Unused(q)) ELSE q
           /\ r.ok /\ {Database, Swap(t.deal)} \subseteq r.reach =>
                /\ q.ok
                /\ \A m : m \in q.sent <=>
                     \/ m \in r.sent
                     \/ m = [to |-> Database, msg |-> "SetDealStatus", arg |-> t.deal]
                     \/ m = [to |-> Swap(t.deal), msg |-> "Terminate", arg |-> None]
                     \/ m = [to |-> Database, msg |-> "RemoveCheckpoint", arg |-> t.deal]
<1> DEFINE a == send(r, Database, "SetDealStatus", t.deal)
           b == send(a, Swap(t.deal), "Terminate", None)
           c == send(b, Database, "RemoveCheckpoint", t.deal)
<1>1. t.deal \in Deals /\ Swap(t.deal) \in Service /\ Database \in Service /\ None \in Service
  BY Services DEF Machine
<1>2. /\ a \in Result /\ Sends(a, r)
      /\ a.sent \subseteq r.sent \cup {[to |-> Database, msg |-> "SetDealStatus", arg |-> t.deal]}
  BY <1>1, SendType, Messages
<1>3. r.ok /\ Database \in r.reach =>
        a.ok /\ a.sent = r.sent \cup {[to |-> Database, msg |-> "SetDealStatus", arg |-> t.deal]}
  BY DEF send, Result
<1>4. c = Dismissed(r, t) /\ swap_outcome(r, t) = IF c.ok THEN terminate(c, Unused(c)) ELSE c
  BY DEF Dismissed, swap_outcome, clean_up_after_swap, Unused
<1> HIDE DEF a
<1>5. /\ b \in Result /\ Sends(b, a)
      /\ b.sent \subseteq a.sent \cup {[to |-> Swap(t.deal), msg |-> "Terminate", arg |-> None]}
  BY <1>1, <1>2, SendType, Messages
<1>6. a.ok /\ Swap(t.deal) \in a.reach =>
        b.ok /\ b.sent = a.sent \cup {[to |-> Swap(t.deal), msg |-> "Terminate", arg |-> None]}
  BY <1>2 DEF send, Result
<1> HIDE DEF b
<1>7. /\ c \in Result /\ Sends(c, b)
      /\ c.sent \subseteq b.sent \cup {[to |-> Database, msg |-> "RemoveCheckpoint", arg |-> t.deal]}
  BY <1>1, <1>5, SendType, Messages
<1>8. b.ok /\ Database \in b.reach =>
        c.ok /\ c.sent = b.sent \cup {[to |-> Database, msg |-> "RemoveCheckpoint", arg |-> t.deal]}
  BY <1>5 DEF send, Result
<1> HIDE DEF c
<1>9. /\ a.reach = r.reach /\ b.reach = r.reach
      /\ c.rt = r.rt /\ c.reach = r.reach /\ c.launched = r.launched /\ c.uuid = r.uuid
  BY <1>2, <1>5, <1>7 DEF Sends
<1>10. \A m \in c.sent : m \in r.sent \/ m.msg # "Terminate" \/ m.to = Swap(t.deal)
  BY <1>2, <1>5, <1>7
<1> QED
  BY <1>3, <1>4, <1>6, <1>7, <1>8, <1>9, <1>10

\* A swap whose end is cleaned up takes no connection from another: the machine that ends has
\* been moved out, and what any other counts as its own is not unused (clean_up_after_swap).
THEOREM LinksAreKept == Spec => OthersKeepLinks
<1>1. ASSUME TypeOK, NEW d \in Deals, Ends(d), NEW k \in DOMAIN runtime.tsms,
             runtime.tsms[k].deal # d, get_connection(runtime.tsms[k]) \in alive
      PROVE  get_connection(runtime.tsms[k]) \in alive'
  <2> DEFINE i == by_swap_id(d)
             t == runtime.tsms[i]
             u == taken(Now, i)
             s == runtime.tsms[k]
             p == get_connection(s)
             ended == [swapd EXCEPT ![d].st = "ended"]
  <2>1. /\ runtime.tsms \in Seq(Machine) /\ Now \in Result
        /\ DOMAIN runtime.tsms = 1..Len(runtime.tsms) /\ Len(runtime.tsms) \in Nat
    BY <1>1, BeginType, LenProperties DEF TypeOK, Runtime
  <2>2. PICK newest \in BOOLEAN :
          ServeWith(IF i = 0 THEN Now ELSE IF t.st = "SwapdRunning" THEN swap_outcome(u, t)
                    ELSE otherwise(u, t, newest), dialing, keys_owed, jobs, ended)
    BY <1>1 DEF Ends
  <2> DEFINE r == IF i = 0 THEN Now ELSE IF t.st = "SwapdRunning" THEN swap_outcome(u, t)
                  ELSE otherwise(u, t, newest)
  <2>3. alive' = r.reach \ told_to_stop(r)
    BY <2>2 DEF ServeWith
  <2>4. i # 0 => i \in 1..Len(runtime.tsms) /\ has_swap_id(t) /\ t.deal = d
    BY <2>1, Positions
  <2>5. p \in Connection \cup {None}
    <3>1. s \in Machine
      BY <2>1, ElementOfSeq
    <3> QED
      BY <3>1 DEF get_connection, Machine
  <2>6. p.kind \in {"peer", "none"}
    BY <2>5 DEF Connection, None
  <2>7. CASE i = 0
    <3>1. r = Now
      BY <2>7
    <3> HIDE DEF r, i
    <3>2. told_to_stop(r) = {} /\ r.reach = alive
      BY <1>1, <3>1, BeginType DEF told_to_stop
    <3> QED
      BY <1>1, <2>3, <3>2
  <2>8. CASE i # 0
    <3> HIDE DEF i
    <3>1. /\ u \in Result /\ t \in Machine /\ u.rt.tsms = RemoveAt(runtime.tsms, i)
          /\ u.reach = alive /\ u.sent = {}
      BY <1>1, <2>4, <2>8, TakenType
    <3>2. p \in {get_connection(runtime.tsms[j]) : j \in (DOMAIN runtime.tsms) \ {i}}
      BY <1>1, <2>4, <2>8
    <3>3. \E j \in DOMAIN u.rt.tsms : get_connection(u.rt.tsms[j]) = p
      <4>1. PICK j \in (1..Len(runtime.tsms)) \ {i} : p = get_connection(runtime.tsms[j])
        BY <2>1, <3>2
      <4>2. /\ u.rt.tsms \in Seq(Machine) /\ Len(u.rt.tsms) = Len(runtime.tsms) - 1
            /\ \A l \in 1..(Len(runtime.tsms) - 1) :
                 u.rt.tsms[l] = IF l < i THEN runtime.tsms[l] ELSE runtime.tsms[l + 1]
        <5>1. runtime.tsms \in Seq(Machine) /\ i \in 1..Len(runtime.tsms)
          BY <2>1, <2>4, <2>8
        <5> HIDE DEF u
        <5> QED
          BY <3>1, <5>1, Removal, ZenonT(300)
      <4>3. DOMAIN u.rt.tsms = 1..(Len(runtime.tsms) - 1)
        BY <4>2, LenProperties
      <4> HIDE DEF u, p
      <4>4. CASE j < i
        <5>1. j \in 1..(Len(runtime.tsms) - 1)
          BY <2>1, <2>4, <2>8, <4>4
        <5>2. u.rt.tsms[j] = runtime.tsms[j]
          BY <4>2, <4>4, <5>1
        <5> QED
          BY <4>1, <4>3, <5>1, <5>2
      <4>5. CASE ~(j < i)
        <5>1. j - 1 \in 1..(Len(runtime.tsms) - 1) /\ ~(j - 1 < i) /\ (j - 1) + 1 = j
          BY <2>1, <2>4, <2>8, <4>5
        <5>2. u.rt.tsms[j - 1] = runtime.tsms[j]
          BY <4>2, <5>1
        <5> QED
          BY <4>1, <4>3, <5>1, <5>2
      <4> QED
        BY <4>4, <4>5
    <3> HIDE DEF t, u, p, s
    <3>4. CASE t.st # "SwapdRunning"
      <4>1. r = otherwise(u, t, newest)
        BY <2>8, <3>4
      <4>2. Quiet(r, u)
        BY <2>4, <2>8, <3>1, <3>4, <4>1, OtherwiseType
      <4> HIDE DEF r
      <4>3. told_to_stop(r) = {} /\ r.reach = alive
        BY <3>1, <4>2 DEF Quiet, told_to_stop
      <4> QED
        BY <1>1, <2>3, <4>3 DEF p, s
    <3>5. CASE t.st = "SwapdRunning"
      <4> DEFINE q == Dismissed(u, t)
      <4>1. r = IF q.ok THEN terminate(q, Unused(q)) ELSE q
        BY <2>8, <3>1, <3>5, DismissedType
      <4>2. /\ q \in Result /\ q.rt = u.rt /\ q.reach = alive
            /\ \A m \in q.sent : m.msg # "Terminate" \/ m.to = Swap(t.deal)
        BY <3>1, DismissedType
      <4> HIDE DEF q, r
      <4>3. Swap(t.deal) # p
        BY <2>6 DEF Swap
      <4>4. p \notin Unused(q)
        <5>1. connection_has_swap_client(q, p)
          BY <3>3, <4>2 DEF connection_has_swap_client, ToSet
        <5>2. p \notin unused_syncers(q)
          BY <2>6 DEF unused_syncers, syncers
        <5> QED
          BY <5>1, <5>2 DEF Unused, unused_peers
      <4>5. r.reach = alive /\ \A m \in r.sent : m.msg = "Terminate" => m.to # p
        <5>1. CASE ~q.ok
          BY <4>1, <4>2, <4>3, <5>1
        <5>2. CASE q.ok
          <6> DEFINE U == Unused(q)
                     z == terminate(q, U)
          <6>1. U \in SUBSET Service
            BY <4>2, EndType
          <6> HIDE DEF U
          <6>2. /\ z.reach = q.reach
                /\ \A m : m \in z.sent <=>
                     \/ m \in q.sent
                     \/ \E x \in U \cap q.reach :
                          m = [to |-> x, msg |-> "Terminate", arg |-> None]
            BY <4>2, <6>1, TerminateType, ZenonT(60)
          <6>3. r = z
            BY <4>1, <5>2 DEF U
          <6> HIDE DEF z
          <6>4. ASSUME NEW m \in z.sent, m.msg = "Terminate"
                PROVE  m.to # p
            <7>1. CASE m \in q.sent
              BY <4>2, <4>3, <6>4, <7>1
            <7>2. CASE \E x \in U \cap q.reach :
                         m = [to |-> x, msg |-> "Terminate", arg |-> None]
              BY <4>4, <7>2 DEF U
            <7> QED
              BY <6>2, <7>1, <7>2
          <6> QED
            BY <4>2, <6>2, <6>3, <6>4
        <5> QED
          BY <5>1, <5>2
      <4>6. p \in alive
        BY <1>1 DEF p, s
      <4>7. p \in alive'
        BY <2>3, <4>5, <4>6 DEF told_to_stop
      <4> QED
        BY <4>7 DEF p, s
    <3> QED
      BY <3>4, <3>5
  <2> QED
    BY <2>7, <2>8
<1>2. TypeOK /\ [Next]_vars =>
        [\A d \in Deals : Ends(d) =>
           \A t \in machines : t.deal # d /\ get_connection(t) \in alive
             => get_connection(t) \in alive']_vars
  <2> SUFFICES ASSUME TypeOK, NEW d \in Deals, Ends(d), NEW t \in machines,
                      t.deal # d, get_connection(t) \in alive
               PROVE  get_connection(t) \in alive'
    OBVIOUS
  <2>1. PICK k \in DOMAIN runtime.tsms : t = runtime.tsms[k]
    BY DEF machines, ToSet
  <2> QED
    BY <1>1, <2>1
<1> QED
  BY <1>2, TypeCorrect, PTL DEF OthersKeepLinks, Spec

-------------------------------------------------------------------------------
(***************************************************************************)
(* A node on which no process dies and nothing is restored: every send     *)
(* succeeds, and what a machine waits for is on its way.                   *)
(***************************************************************************)
\* The clients, who are on the bus all the time.
Users == {client(c) : c \in Clients}

\* A machine has heard of what is there, and what it has not heard of is starting.
MachineOK(t, reg, deals, al, st) ==
    /\ t.st # "RestoringSwapd"
    /\ {Wallet, Database} \subseteq reg
    /\ t.st = "MakeDeal" => t.deal \in MakerDeals
    /\ t.deal \in MakerDeals => t.deal \in deals
    /\ t.st = "TakerConnect" => t.client \in Users
    /\ ~has_swap_id(t) => t.up = {}
    /\ t.st = "SwapdRunning" => t.up = Chains \cup {"swapd"}
    /\ has_swap_id(t) => \A c \in Chains : /\ c \in t.up => Syncer(c) \in reg
                                           /\ c \notin t.up => Syncer(c) \in st
    /\ has_swap_id(t) => /\ "swapd" \in t.up => Swap(t.deal) \in al
                         /\ "swapd" \notin t.up => Swap(t.deal) \in st

\* So has a request for a syncer.
JobOK(m, reg, st) ==
    /\ m.given => Syncer(m.chain) \in reg
    /\ ~m.given => Syncer(m.chain) \in st

\* A syncer is up or on its way for some swap or request, but for those of K, which may be
\* up for nothing; a swapd is there for its machine.
Tidy(K, rt, al, st) ==
    /\ rt.registered \subseteq al
    /\ \A s \in rt.registered : s.kind \in {"database", "wallet", "peer", "syncer"}
    /\ Users \subseteq al
    /\ \A c \in Chains : /\ Syncer(c) \in rt.spawning <=> Syncer(c) \in st
                         /\ Syncer(c) \in al => Syncer(c) \in rt.registered
                         /\ ~(Syncer(c) \in st /\ Syncer(c) \in al)
                         /\ Syncer(c) \in st \/ (Syncer(c) \in al /\ c \notin K) =>
                              \/ \E t \in ToSet(rt.tsms) : has_swap_id(t)
                              \/ \E m \in rt.ssms : m.chain = c
    /\ \A d \in Deals : /\ ~(Swap(d) \in st /\ Swap(d) \in al)
                        /\ Swap(d) \in al \cup st =>
                             \E t \in ToSet(rt.tsms) : has_swap_id(t) /\ t.deal = d

\* No two machines trade one deal.
Distinct(q) == \A i, j \in DOMAIN q : q[i].deal = q[j].deal => i = j

\* All of it, of a runtime with the services on the bus and those starting.
Calm(K, rt, al, st) ==
    /\ Distinct(rt.tsms)
    /\ \A t \in ToSet(rt.tsms) : MachineOK(t, rt.registered, rt.deals, al, st)
    /\ \A m \in rt.ssms : JobOK(m, rt.registered, st)
    /\ Tidy(K, rt, al, st)

\* The invariant.  A checkpoint is of a swap that runs, so that nothing can be restored.
CalmInv(K) ==
    /\ Calm(K, runtime, alive, starting)
    /\ dialing \subseteq alive
    /\ \A d \in Deals : store[d].saved => Swap(d) \in alive

\* What a step starts from.
World(K) == TypeOK /\ Undisturbed /\ CalmInv(K)

\* To exempt more asks less.
LEMMA WorldGrows ==
    ASSUME NEW K, NEW L, World(K)
    PROVE  World(K \cup L)
BY DEF World, CalmInv, Calm, Tidy

\* Services of different kinds differ, and so do those of different deals and chains.
LEMMA Kinds ==
    /\ None.kind = "none" /\ Database.kind = "database" /\ Wallet.kind = "wallet"
    /\ \A d : Swap(d).kind = "swap" /\ Swap(d).deal = d
    /\ \A c : Syncer(c).kind = "syncer" /\ Syncer(c).chain = c
    /\ \A p \in Connection : p.kind = "peer"
    /\ \A s \in Users : s.kind = "client"
    /\ \A s \in Service : s.kind = "syncer" => s = Syncer(s.chain) /\ s.chain \in Chains
    /\ \A s \in Service : s.kind = "peer" => s \in Connection
    /\ \A s \in Service : s.kind = "swap" => s = Swap(s.deal) /\ s.deal \in Deals
BY DEF None, Database, Wallet, Swap, Syncer, Connection, Users, client, Service

\* The list without one of its machines, and with another.
LEMMA RemovedList ==
    ASSUME NEW q \in Seq(Machine), Distinct(q), NEW i \in 1..Len(q)
    PROVE  /\ Distinct(RemoveAt(q, i))
           /\ ToSet(RemoveAt(q, i)) = ToSet(q) \ {q[i]}
           /\ \A t \in ToSet(RemoveAt(q, i)) : t.deal # q[i].deal
<1> DEFINE a == RemoveAt(q, i)
           n == Len(q)
           F(k) == IF k < i THEN k ELSE k + 1
<1>1. n \in Nat /\ DOMAIN q = 1..n
  BY LenProperties
<1>2. /\ a \in Seq(Machine) /\ Len(a) = n - 1
      /\ \A k \in 1..(n - 1) : a[k] = IF k < i THEN q[k] ELSE q[k + 1]
  BY Removal
<1>3. DOMAIN a = 1..(n - 1)
  BY <1>2, LenProperties
<1> HIDE DEF a, n
<1>4. \A k \in 1..(n - 1) : a[k] = q[F(k)] /\ F(k) \in 1..n /\ F(k) # i
  BY <1>1, <1>2 DEF n
<1>5. \A k \in (1..n) \ {i} : \E l \in 1..(n - 1) : F(l) = k
  <2> SUFFICES ASSUME NEW k \in (1..n) \ {i}
               PROVE  \E l \in 1..(n - 1) : F(l) = k
    OBVIOUS
  <2>1. i \in 1..n
    BY DEF n
  <2>2. CASE k < i
    <3>1. k \in 1..(n - 1) /\ F(k) = k
      BY <1>1, <2>1, <2>2
    <3> QED
      BY <3>1
  <2>3. CASE ~(k < i)
    <3>1. k - 1 \in 1..(n - 1) /\ F(k - 1) = k
      BY <1>1, <2>1, <2>3
    <3> QED
      BY <3>1
  <2> QED
    BY <2>2, <2>3
<1>6. \A k, l \in 1..(n - 1) : F(k) = F(l) => k = l
  BY <1>1 DEF n
<1> HIDE DEF F
<1>7. Distinct(a)
  BY <1>1, <1>3, <1>4, <1>6 DEF Distinct
<1>8. i \in 1..n
  BY DEF n
<1>9. \A t \in ToSet(a) : t \in ToSet(q) /\ t.deal # q[i].deal
  BY <1>1, <1>3, <1>4, <1>8 DEF Distinct, ToSet
<1>10. \A t \in ToSet(q) : t # q[i] => t \in ToSet(a)
  <2> SUFFICES ASSUME NEW k \in 1..n, q[k] # q[i]
               PROVE  q[k] \in ToSet(a)
    BY <1>1 DEF ToSet
  <2>1. PICK l \in 1..(n - 1) : F(l) = k
    BY <1>5
  <2>2. a[l] = q[k]
    BY <1>4, <2>1
  <2> QED
    BY <1>3, <2>2 DEF ToSet
<1>11. ToSet(a) = ToSet(q) \ {q[i]}
  BY <1>9, <1>10
<1> QED
  BY <1>7, <1>9, <1>11 DEF a

\* A machine more.
LEMMA AppendedList ==
    ASSUME NEW q \in Seq(Machine), NEW u \in Machine
    PROVE  /\ ToSet(Append(q, u)) = ToSet(q) \cup {u}
           /\ Distinct(q) /\ (\A t \in ToSet(q) : t.deal # u.deal) => Distinct(Append(q, u))
<1> DEFINE a == Append(q, u)
           n == Len(q)
<1>1. n \in Nat /\ DOMAIN q = 1..n
  BY LenProperties
<1>2. a \in Seq(Machine) /\ Len(a) = n + 1 /\ (\A k \in 1..n : a[k] = q[k]) /\ a[n + 1] = u
  BY AppendProperties
<1>3. DOMAIN a = 1..(n + 1)
  BY <1>2, LenProperties
<1> HIDE DEF a, n
<1>4. \A k \in 1..(n + 1) : k \in 1..n \/ k = n + 1
  BY <1>1
<1>5. \A k \in 1..n : k \in 1..(n + 1)
  BY <1>1
<1>6. n + 1 \in 1..(n + 1)
  BY <1>1
<1>7. ToSet(a) = ToSet(q) \cup {u}
  BY <1>1, <1>2, <1>3, <1>4, <1>5, <1>6 DEF ToSet
<1>8. ASSUME Distinct(q), \A t \in ToSet(q) : t.deal # u.deal
      PROVE  Distinct(a)
  <2>1. \A k \in 1..n : q[k].deal # u.deal
    BY <1>1, <1>8 DEF ToSet
  <2> QED
    BY <1>1, <1>2, <1>3, <1>4, <1>8, <2>1 DEF Distinct
<1> QED
  BY <1>7, <1>8 DEF a

\* A machine that waits for nothing else than before.
LEMMA MachineKept ==
    ASSUME NEW t \in Machine, NEW reg, NEW deals, NEW al, NEW st, NEW reg2, NEW deals2, NEW al2, NEW st2,
           MachineOK(t, reg, deals, al, st),
           deals \subseteq deals2,
           {Wallet, Database} \cap reg \subseteq reg2,
           \A c \in Chains : /\ Syncer(c) \in reg => Syncer(c) \in reg2
                             /\ Syncer(c) \in st => Syncer(c) \in st2,
           \A d \in Deals : /\ Swap(d) \in al => Swap(d) \in al2
                            /\ Swap(d) \in st => Swap(d) \in st2
    PROVE  MachineOK(t, reg2, deals2, al2, st2)
<1>1. t.deal \in Deals
  BY DEF Machine
<1>2. has_swap_id(t) =>
        \A c \in Chains : /\ c \in t.up => Syncer(c) \in reg2
                          /\ c \notin t.up => Syncer(c) \in st2
  BY DEF MachineOK
<1>3. has_swap_id(t) => /\ "swapd" \in t.up => Swap(t.deal) \in al2
                        /\ "swapd" \notin t.up => Swap(t.deal) \in st2
  BY <1>1 DEF MachineOK
<1>4. {Wallet, Database} \subseteq reg2
  BY DEF MachineOK
<1> QED
  BY <1>2, <1>3, <1>4 DEF MachineOK

\* What the invariant asks of a step that handles a request.
LEMMA ServeCalm ==
    ASSUME NEW K, World(K), NEW r \in Result, NEW dial, NEW owed, NEW tasks, NEW before,
           ServeWith(r, dial, owed, tasks, before), alive \subseteq r.reach, dial \subseteq r.reach,
           Calm(K, r.rt, r.reach \ told_to_stop(r), (starting \ r.reach) \cup r.launched),
           \A d \in Deals : Swap(d) \in told_to_stop(r) =>
                           \E m \in sent(r, Database, "RemoveCheckpoint") : m.arg = d
    PROVE  CalmInv(K)'
<1>1. /\ runtime' = r.rt
      /\ alive' = r.reach \ told_to_stop(r)
      /\ starting' = (starting \ r.reach) \cup r.launched
      /\ dialing' = (dial \cup (peers(starting) \cap r.reach)) \ told_to_stop(r)
      /\ store' = [d \in Deals |->
                     IF \E m \in sent(r, Database, "RemoveCheckpoint") : m.arg = d
                     THEN NoCheckpoint ELSE store[d]]
      /\ env' = env
  BY DEF ServeWith
<1>2. dialing' \subseteq alive'
  BY <1>1
<1>3. \A d \in Deals : store'[d].saved => Swap(d) \in alive'
  <2> SUFFICES ASSUME NEW d \in Deals, store'[d].saved
               PROVE  Swap(d) \in alive'
    OBVIOUS
  <2>1. ~ \E m \in sent(r, Database, "RemoveCheckpoint") : m.arg = d
    BY <1>1 DEF NoCheckpoint
  <2>2. store[d].saved
    BY <1>1, <2>1
  <2>3. Swap(d) \in alive
    BY <2>2 DEF World, CalmInv
  <2> QED
    BY <1>1, <2>1, <2>3
<1>4. Calm(K, runtime', alive', starting')
  BY <1>1
<1>5. Calm(K, runtime, alive, starting)' <=> Calm(K, runtime', alive', starting')
  BY <1>1 DEF Calm, Distinct, MachineOK, JobOK, Tidy, Users, client, Clients
<1> QED
  BY <1>2, <1>3, <1>4, <1>5 DEF CalmInv

-------------------------------------------------------------------------------
(***************************************************************************)
(* Requests that change no more than connections and one machine.          *)
(***************************************************************************)
\* Only peerds were terminated or launched; the other services are known as before.
Apart(r) ==
    /\ r.reach = alive
    /\ told_to_stop(r) \subseteq Connection /\ r.launched \subseteq Connection
    /\ r.rt.registered \subseteq alive \ told_to_stop(r)
    /\ \A s \in Service : s.kind # "peer" =>
         /\ s \in r.rt.registered <=> s \in runtime.registered
         /\ s \in r.rt.spawning <=> s \in runtime.spawning
    /\ runtime.deals \subseteq r.rt.deals /\ r.rt.ssms = runtime.ssms

\* The machines are still one for each swap, and wait for what is on its way.
Listed(r) ==
    /\ Distinct(r.rt.tsms)
    /\ \A u \in ToSet(r.rt.tsms) :
         u \in Machine /\ MachineOK(u, runtime.registered, r.rt.deals, alive, starting)
    /\ \A t \in ToSet(runtime.tsms) : has_swap_id(t) =>
         \E u \in ToSet(r.rt.tsms) : has_swap_id(u) /\ u.deal = t.deal

\* Such a request keeps the invariant.
LEMMA ApartCalm ==
    ASSUME NEW K, World(K), NEW r \in Result, Apart(r), Listed(r)
    PROVE  Calm(K, r.rt, r.reach \ told_to_stop(r), (starting \ r.reach) \cup r.launched)
<1> DEFINE al == r.reach \ told_to_stop(r)
           st == (starting \ r.reach) \cup r.launched
<1>1. Tidy(K, runtime, alive, starting) /\ \A m \in runtime.ssms : JobOK(m, runtime.registered, starting)
  BY DEF World, CalmInv, Calm
<1>2. \A s \in Service : s.kind # "peer" => (s \in al <=> s \in alive) /\ (s \in r.launched => FALSE)
  BY Kinds DEF Apart
<1>3. \A c \in Chains : /\ Syncer(c) \in Service /\ Syncer(c).kind # "peer"
                        /\ Syncer(c) \in al <=> Syncer(c) \in alive
                        /\ Syncer(c) \in st <=> Syncer(c) \in starting
                        /\ Syncer(c) \in r.rt.registered <=> Syncer(c) \in runtime.registered
                        /\ Syncer(c) \in r.rt.spawning <=> Syncer(c) \in runtime.spawning
  <2> SUFFICES ASSUME NEW c \in Chains
               PROVE  /\ Syncer(c) \in Service /\ Syncer(c).kind # "peer"
                      /\ Syncer(c) \in al <=> Syncer(c) \in alive
                      /\ Syncer(c) \in st <=> Syncer(c) \in starting
                      /\ Syncer(c) \in r.rt.registered <=> Syncer(c) \in runtime.registered
                      /\ Syncer(c) \in r.rt.spawning <=> Syncer(c) \in runtime.spawning
    OBVIOUS
  <2>1. Syncer(c) \in Service /\ Syncer(c).kind # "peer"
    BY Services, Kinds
  <2>2. ~(Syncer(c) \in starting /\ Syncer(c) \in alive)
    BY <1>1 DEF Tidy
  <2> QED
    BY <1>2, <2>1, <2>2 DEF Apart
<1>4. \A d \in Deals : /\ Swap(d) \in al <=> Swap(d) \in alive
                       /\ Swap(d) \in st <=> Swap(d) \in starting
  <2> SUFFICES ASSUME NEW d \in Deals
               PROVE  /\ Swap(d) \in al <=> Swap(d) \in alive
                      /\ Swap(d) \in st <=> Swap(d) \in starting
    OBVIOUS
  <2>1. Swap(d) \in Service /\ Swap(d).kind # "peer"
    BY Services, Kinds
  <2>2. ~(Swap(d) \in starting /\ Swap(d) \in alive)
    BY <1>1 DEF Tidy
  <2> QED
    BY <1>2, <2>1, <2>2 DEF Apart
<1>5. {Wallet, Database} \cap runtime.registered \subseteq r.rt.registered
  BY Services, Kinds DEF Apart
<1> HIDE DEF al, st
<1>6. \A u \in ToSet(r.rt.tsms) : MachineOK(u, r.rt.registered, r.rt.deals, al, st)
  BY <1>3, <1>4, <1>5, MachineKept DEF Listed
<1>7. \A m \in r.rt.ssms : JobOK(m, r.rt.registered, st)
  <2>1. \A m \in runtime.ssms : m.chain \in Chains
    BY DEF World, TypeOK, Runtime, Request
  <2> QED
    BY <1>1, <1>3, <2>1 DEF Apart, JobOK
<1>8. Tidy(K, r.rt, al, st)
  <2>1. r.rt.registered \subseteq al
    BY DEF Apart, al
  <2>2. \A s \in r.rt.registered : s.kind \in {"database", "wallet", "peer", "syncer"}
    BY <1>1 DEF Apart, Tidy, Result, Runtime
  <2>3. Users \subseteq al
    <3>1. Users \subseteq alive
      BY <1>1 DEF Tidy
    <3> QED
      BY <3>1, Kinds DEF al, Apart
  <2>4. \A c \in Chains : /\ Syncer(c) \in r.rt.spawning <=> Syncer(c) \in st
                          /\ Syncer(c) \in al => Syncer(c) \in r.rt.registered
                          /\ ~(Syncer(c) \in st /\ Syncer(c) \in al)
    BY <1>1, <1>3 DEF Tidy
  <2>5. \A c \in Chains : Syncer(c) \in st \/ (Syncer(c) \in al /\ c \notin K) =>
                            \/ \E t \in ToSet(r.rt.tsms) : has_swap_id(t)
                            \/ \E m \in r.rt.ssms : m.chain = c
    BY <1>1, <1>3 DEF Tidy, Listed, Apart
  <2>6. \A d \in Deals : /\ ~(Swap(d) \in st /\ Swap(d) \in al)
                         /\ Swap(d) \in al \cup st =>
                             \E t \in ToSet(r.rt.tsms) : has_swap_id(t) /\ t.deal = d
    BY <1>1, <1>4 DEF Tidy, Listed
  <2> QED
    BY <2>1, <2>2, <2>3, <2>4, <2>5, <2>6 DEF Tidy
<1> QED
  BY <1>6, <1>7, <1>8 DEF Calm, Listed, al, st

\* A step that handles such a request.
LEMMA ApartServe ==
    ASSUME NEW K, World(K), NEW r \in Result, Apart(r), Listed(r), NEW dial, NEW owed, NEW tasks, NEW before,
           ServeWith(r, dial, owed, tasks, before), dial \subseteq dialing
    PROVE  CalmInv(K)'
<1>1. dial \subseteq r.reach /\ alive \subseteq r.reach
  BY DEF World, CalmInv, Apart
<1>2. \A d \in Deals : Swap(d) \notin told_to_stop(r)
  BY Kinds DEF Apart
<1> QED
  BY <1>1, <1>2, ApartCalm, ServeCalm

\* The machines are as they were, one has ended, one has changed, or one is new.
LEMMA Listings ==
    ASSUME NEW K, World(K), NEW r \in Result, runtime.deals \subseteq r.rt.deals
    PROVE  /\ r.rt.tsms = runtime.tsms => Listed(r)
           /\ \A i \in 1..Len(runtime.tsms) :
                r.rt.tsms = RemoveAt(runtime.tsms, i) /\ ~has_swap_id(runtime.tsms[i]) => Listed(r)
           /\ \A i \in 1..Len(runtime.tsms), u \in Machine :
                /\ r.rt.tsms = Append(RemoveAt(runtime.tsms, i), u)
                /\ u.deal = runtime.tsms[i].deal
                /\ has_swap_id(runtime.tsms[i]) => has_swap_id(u)
                /\ MachineOK(u, runtime.registered, r.rt.deals, alive, starting)
                => Listed(r)
           /\ \A u \in Machine :
                /\ r.rt.tsms = Append(runtime.tsms, u)
                /\ \A t \in ToSet(runtime.tsms) : t.deal # u.deal
                /\ MachineOK(u, runtime.registered, r.rt.deals, alive, starting)
                => Listed(r)
<1> DEFINE q == runtime.tsms
<1>1. q \in Seq(Machine) /\ Distinct(q) /\ DOMAIN q = 1..Len(q)
  BY LenProperties DEF World, CalmInv, Calm, TypeOK, Runtime
<1>2. \A t \in ToSet(q) : t \in Machine
  BY <1>1, ElementOfSeq DEF ToSet
<1>3. \A t \in ToSet(q) : MachineOK(t, runtime.registered, r.rt.deals, alive, starting)
  <2>1. \A t \in ToSet(q) : MachineOK(t, runtime.registered, runtime.deals, alive, starting)
    BY DEF World, CalmInv, Calm
  <2> QED
    BY <1>2, <2>1, MachineKept
<1>4. r.rt.tsms = q => Listed(r)
  BY <1>1, <1>2, <1>3 DEF Listed
<1> HIDE DEF q
<1>5. ASSUME NEW i \in 1..Len(q)
      PROVE  /\ r.rt.tsms = RemoveAt(q, i) /\ ~has_swap_id(q[i]) => Listed(r)
             /\ \A u \in Machine :
                   /\ r.rt.tsms = Append(RemoveAt(q, i), u)
                   /\ u.deal = q[i].deal
                   /\ has_swap_id(q[i]) => has_swap_id(u)
                   /\ MachineOK(u, runtime.registered, r.rt.deals, alive, starting)
                   => Listed(r)
  <2> DEFINE a == RemoveAt(q, i)
  <2>1. /\ Distinct(a) /\ ToSet(a) = ToSet(q) \ {q[i]}
        /\ \A t \in ToSet(a) : t.deal # q[i].deal
    BY <1>1, RemovedList
  <2>2. a \in Seq(Machine)
    BY <1>1, Removal
  <2> HIDE DEF a
  <2>3. r.rt.tsms = a /\ ~has_swap_id(q[i]) => Listed(r)
    BY <1>2, <1>3, <2>1 DEF Listed, q
  <2>4. ASSUME NEW u \in Machine, r.rt.tsms = Append(a, u), u.deal = q[i].deal,
               has_swap_id(q[i]) => has_swap_id(u),
               MachineOK(u, runtime.registered, r.rt.deals, alive, starting)
        PROVE  Listed(r)
    <3>1. ToSet(r.rt.tsms) = ToSet(a) \cup {u} /\ Distinct(r.rt.tsms)
      BY <2>1, <2>2, <2>4, AppendedList
    <3> QED
      BY <1>2, <1>3, <2>1, <2>4, <3>1 DEF Listed, q
  <2> QED
    BY <2>3, <2>4 DEF a
<1>6. ASSUME NEW u \in Machine, r.rt.tsms = Append(q, u), \A t \in ToSet(q) : t.deal # u.deal,
             MachineOK(u, runtime.registered, r.rt.deals, alive, starting)
      PROVE  Listed(r)
  <2>1. ToSet(r.rt.tsms) = ToSet(q) \cup {u} /\ Distinct(r.rt.tsms)
    BY <1>1, <1>6, AppendedList
  <2> QED
    BY <1>2, <1>3, <1>6, <2>1 DEF Listed, q
<1> QED
  BY <1>4, <1>5, <1>6 DEF q

\* The steps such a request is made of: sendings and pushes, connections that are asked for,
\* come and go.
Beside(q, r) ==
    /\ Quiet(q, r) /\ q.launched = r.launched
    /\ q.rt.registered = r.rt.registered /\ q.rt.spawning = r.rt.spawning
    /\ r.rt.deals \subseteq q.rt.deals /\ q.rt.ssms = r.rt.ssms

\* None of them goes beyond connections and one machine.
LEMMA ApartSteps ==
    ASSUME NEW r \in Result, Apart(r)
    PROVE  /\ \A q \in Result : Beside(q, r) => Apart(q)
           /\ \A q : Sends(q, r) /\ Quiet(q, r) => Apart(q)
           /\ \A q \in Result : Leaves(q, r) /\ Quiet(q, r) => Apart(q)
           /\ \A n \in Nodes : /\ Apart(connect_peer(r, n))
                               /\ connect_peer(r, n).rt.tsms = r.rt.tsms
                               /\ connect_peer(r, n).rt.registered = r.rt.registered
                               /\ connect_peer(r, n).rt.deals = r.rt.deals
           /\ \A p \in Connection :
                /\ handle_new_connection(r, p).rt.tsms = r.rt.tsms
                /\ handle_new_connection(r, p).rt.deals = r.rt.deals
                /\ p \in alive \ told_to_stop(r) => Apart(handle_new_connection(r, p))
                /\ handle_failed_connection(r, p).rt.tsms = r.rt.tsms
                /\ handle_failed_connection(r, p).rt.deals = r.rt.deals
                /\ Apart(handle_failed_connection(r, p))
                /\ r.ok /\ p \in alive => handle_failed_connection(r, p).ok
<1>1. \A q \in Result : Beside(q, r) => Apart(q)
  <2> SUFFICES ASSUME NEW q \in Result, Beside(q, r)
               PROVE  Apart(q)
    OBVIOUS
  <2>1. told_to_stop(q) \subseteq told_to_stop(r)
    BY DEF told_to_stop, Beside, Quiet
  <2> QED
    BY <2>1 DEF Apart, Beside, Quiet
<1>2. \A q : Sends(q, r) /\ Quiet(q, r) => q \in Result /\ Beside(q, r)
  BY DEF Sends, Beside
<1>3. \A q : Leaves(q, r) /\ Quiet(q, r) => Beside(q, r)
  BY DEF Leaves, Beside
<1>4. r.rt \in Runtime /\ r.rt.registered \in SUBSET Service /\ r.rt.spawning \in SUBSET Service
  BY DEF Result, Runtime
<1>5. ASSUME NEW n \in Nodes
      PROVE  /\ Apart(connect_peer(r, n))
             /\ connect_peer(r, n).rt.tsms = r.rt.tsms
             /\ connect_peer(r, n).rt.registered = r.rt.registered
             /\ connect_peer(r, n).rt.deals = r.rt.deals
  <2> DEFINE p == Peer(r.uuid, n, "out")
             o == dummy_peer_service_id(n)
             q == connect_peer(r, n)
  <2>1. p \in Connection /\ o \in Connection
    BY Services DEF dummy_peer_service_id, Result
  <2>2. q = r \/ q = [r EXCEPT !.launched = @ \cup {p}, !.rt.spawning = @ \cup {o}]
    BY DEF connect_peer
  <2> HIDE DEF p, o, q
  <2>3. CASE q = r
    BY <2>3 DEF q
  <2>4. CASE q = [r EXCEPT !.launched = @ \cup {p}, !.rt.spawning = @ \cup {o}]
    <3>1. q = [r EXCEPT !.launched = r.launched \cup {p},
                        !.rt = [r.rt EXCEPT !.spawning = r.rt.spawning \cup {o}]]
      BY <2>4
    <3>2. /\ q.launched = r.launched \cup {p} /\ q.reach = r.reach /\ q.sent = r.sent
          /\ q.rt = [r.rt EXCEPT !.spawning = r.rt.spawning \cup {o}]
      BY <3>1 DEF Result
    <3>3. /\ q.rt.spawning = r.rt.spawning \cup {o} /\ q.rt.registered = r.rt.registered
          /\ q.rt.deals = r.rt.deals /\ q.rt.ssms = r.rt.ssms /\ q.rt.tsms = r.rt.tsms
      BY <1>4, <3>2 DEF Runtime
    <3>4. o.kind = "peer"
      BY <2>1, Kinds
    <3>5. told_to_stop(q) = told_to_stop(r)
      BY <3>2 DEF told_to_stop
    <3>6. Apart(q)
      BY <2>1, <3>2, <3>3, <3>4, <3>5 DEF Apart
    <3> QED
      BY <3>3, <3>6 DEF q
  <2> QED
    BY <2>2, <2>3, <2>4
<1>6. ASSUME NEW p \in Connection
      PROVE  /\ handle_new_connection(r, p).rt.tsms = r.rt.tsms
             /\ handle_new_connection(r, p).rt.deals = r.rt.deals
             /\ p \in alive \ told_to_stop(r) => Apart(handle_new_connection(r, p))
             /\ handle_failed_connection(r, p).rt.tsms = r.rt.tsms
             /\ handle_failed_connection(r, p).rt.deals = r.rt.deals
             /\ Apart(handle_failed_connection(r, p))
             /\ r.ok /\ p \in alive => handle_failed_connection(r, p).ok
  <2> DEFINE o     == Peer(0, p.node, p.side)
             fewer == r.rt.spawning \ {o}
             more  == Exchanged(r, fewer, r.rt.registered \cup {p})
             less  == Exchanged(r, fewer, r.rt.registered \ {p})
             gone  == send(less, p, "Terminate", None)
  <2>1. p \in Service /\ p.kind = "peer" /\ o.kind = "peer" /\ fewer \in SUBSET Service
        /\ r.rt.registered \cup {p} \in SUBSET Service /\ r.rt.registered \ {p} \in SUBSET Service
    BY <1>4, Services, Kinds DEF Peer
  <2>2. handle_new_connection(r, p) = more /\ handle_failed_connection(r, p) = gone
    BY DEF handle_new_connection, handle_failed_connection, Exchanged
  <2>3. \A s \in Service : s.kind # "peer" => (s \in fewer <=> s \in r.rt.spawning)
    BY <2>1
  <2> HIDE DEF fewer
  <2>4. /\ more \in Result /\ more.rt.spawning = fewer /\ more.rt.registered = r.rt.registered \cup {p}
        /\ more.rt.tsms = r.rt.tsms /\ more.rt.ssms = r.rt.ssms /\ more.rt.deals = r.rt.deals
        /\ more.reach = r.reach /\ more.sent = r.sent /\ more.launched = r.launched
    BY <2>1, RegistryType
  <2>5. /\ less \in Result /\ less.rt.spawning = fewer /\ less.rt.registered = r.rt.registered \ {p}
        /\ less.rt.tsms = r.rt.tsms /\ less.rt.ssms = r.rt.ssms /\ less.rt.deals = r.rt.deals
        /\ less.reach = r.reach /\ less.sent = r.sent /\ less.launched = r.launched
        /\ less.ok = r.ok
    BY <2>1, RegistryType
  <2> HIDE DEF more, less
  <2>6. /\ gone \in Result /\ Sends(gone, less)
        /\ less.ok /\ p \in less.reach => gone.ok
        /\ gone.sent \subseteq less.sent \cup {[to |-> p, msg |-> "Terminate", arg |-> None]}
    BY <2>1, <2>5, Services, SendType, Messages
  <2> HIDE DEF gone
  <2>7. p \in alive \ told_to_stop(r) => Apart(more)
    <3>1. told_to_stop(more) = told_to_stop(r)
      BY <2>4 DEF told_to_stop
    <3> QED
      BY <2>1, <2>3, <2>4, <3>1 DEF Apart
  <2>8. Apart(gone)
    <3>1. told_to_stop(gone) \subseteq told_to_stop(r) \cup {p}
      BY <2>5, <2>6 DEF told_to_stop
    <3>2. gone.rt = less.rt /\ gone.reach = less.reach /\ gone.launched = less.launched
      BY <2>6 DEF Sends
    <3> QED
      BY <2>1, <2>3, <2>5, <3>1, <3>2 DEF Apart
  <2>9. gone.rt = less.rt /\ (r.ok /\ p \in alive => gone.ok)
    BY <2>5, <2>6 DEF Sends, Apart
  <2> QED
    BY <2>2, <2>4, <2>5, <2>7, <2>8, <2>9
<1> QED
  BY <1>1, <1>2, <1>3, <1>5, <1>6

\* It begins with what the node is, and with the machine moved out.
LEMMA ApartBegin ==
    ASSUME NEW K, World(K)
    PROVE  /\ Now \in Result /\ Apart(Now) /\ Listed(Now) /\ told_to_stop(Now) = {}
           /\ \A i \in 1..Len(runtime.tsms) :
                Apart(taken(Now, i)) /\ told_to_stop(taken(Now, i)) = {}
<1>1. TypeOK /\ Tidy(K, runtime, alive, starting)
  BY DEF World, CalmInv, Calm
<1>2. runtime.registered \subseteq alive
  BY <1>1 DEF Tidy
<1>3. /\ Now \in Result /\ Now.rt = runtime /\ Now.reach = alive /\ Now.sent = {}
      /\ Now.launched = {}
  BY <1>1, BeginType
<1>4. told_to_stop(Now) = {}
  BY <1>3 DEF told_to_stop
<1>5. Apart(Now)
  BY <1>2, <1>3, <1>4 DEF Apart
<1>6. Listed(Now)
  BY <1>3, Listings
<1>7. ASSUME NEW i \in 1..Len(runtime.tsms)
      PROVE  Apart(taken(Now, i)) /\ told_to_stop(taken(Now, i)) = {}
  <2> DEFINE r == taken(Now, i)
  <2>1. /\ r.rt = [runtime EXCEPT !.tsms = RemoveAt(runtime.tsms, i)]
        /\ r.reach = alive /\ r.sent = {} /\ r.launched = {}
    BY <1>1, TakenType
  <2> HIDE DEF r
  <2>2. /\ r.rt.registered = runtime.registered /\ r.rt.spawning = runtime.spawning
        /\ r.rt.deals = runtime.deals /\ r.rt.ssms = runtime.ssms
    BY <1>1, <2>1 DEF TypeOK, Runtime
  <2>3. told_to_stop(r) = {}
    BY <2>1 DEF told_to_stop
  <2> QED
    BY <1>2, <2>1, <2>2, <2>3 DEF Apart, r
<1> QED
  BY <1>3, <1>4, <1>5, <1>6, <1>7

\* No machine trades a deal of the maker's that it has not made, nor any that is not consumed.
LEMMA NotTraded ==
    ASSUME NEW K, World(K), NEW d \in Deals,
           \/ d \in MakerDeals \ runtime.deals
           \/ d \notin MakerDeals \cup consumed_deals(runtime)
    PROVE  \A t \in ToSet(runtime.tsms) : t.deal # d
BY DEF World, CalmInv, Calm, MachineOK, consumed_deals

\* StartMaker on MakeDeal, MakeDeal on RevokeDeal and on TakerCommit.
LEMMA MakerCalm ==
    ASSUME NEW K, World(K), NEW c \in Service, NEW d \in Deals
    PROVE  /\ d \in MakerDeals \ runtime.deals =>
                Apart(make_deal(Now, d, c)) /\ Listed(make_deal(Now, d, c))
           /\ \A i \in 1..Len(runtime.tsms) : runtime.tsms[i].st = "MakeDeal" =>
                /\ Apart(revoke_deal(taken(Now, i), runtime.tsms[i], c))
                /\ Listed(revoke_deal(taken(Now, i), runtime.tsms[i], c))
                /\ \A p \in Connection :
                     /\ Apart(taker_commit(taken(Now, i), runtime.tsms[i], p))
                     /\ Listed(taker_commit(taken(Now, i), runtime.tsms[i], p))
           /\ Apart(send(Now, c, "DealNotFound", d)) /\ Listed(send(Now, c, "DealNotFound", d))
<1>1. /\ TypeOK /\ runtime \in Runtime /\ runtime.tsms \in Seq(Machine)
      /\ DOMAIN runtime.tsms = 1..Len(runtime.tsms)
  BY LenProperties DEF World, TypeOK, Runtime
<1>2. /\ Now \in Result /\ Apart(Now) /\ Now.rt = runtime
  BY <1>1, ApartBegin, BeginType
<1>3. None \in Service /\ Database \in Service /\ Wallet \in Service
  BY Services
<1>4. ASSUME NEW m \in {"Failure", "DealNotFound"}, NEW a \in Service \cup Deals \cup Nat
      PROVE  Apart(send(Now, c, m, a)) /\ Listed(send(Now, c, m, a))
  <2> DEFINE q == send(Now, c, m, a)
  <2>1. q \in Result /\ Sends(q, Now) /\ Quiet(q, Now)
    BY <1>2, SendType, Messages
  <2> HIDE DEF q
  <2>2. q.rt = runtime
    BY <1>2, <2>1 DEF Sends
  <2>3. Apart(q) /\ Listed(q)
    BY <1>2, <2>1, <2>2, ApartSteps, Listings
  <2> QED
    BY <2>3 DEF q
<1>5. ASSUME d \in MakerDeals \ runtime.deals
      PROVE  Apart(make_deal(Now, d, c)) /\ Listed(make_deal(Now, d, c))
  <2>1. CASE ~services_ready(Now) \/ ~peer_keys_ready(Now)
    BY <1>3, <1>4, <2>1 DEF make_deal
  <2>2. CASE ~(~services_ready(Now) \/ ~peer_keys_ready(Now))
    <3> DEFINE q    == [Now EXCEPT !.rt.listens = TRUE]
               a    == send(q, Database, "SetDealStatus", d)
               told == send(a, c, "MadeDeal", d)
               s    == [told EXCEPT !.rt.deals = @ \cup {d}]
               u    == Trade("MakeDeal", d, None)
               r    == make_deal(Now, d, c)
    <3>1. r = IF told.ok THEN push(s, u) ELSE told
      BY <2>2 DEF make_deal
    <3>2. q \in Result /\ Beside(q, Now) /\ q.rt.tsms = runtime.tsms /\ q.rt.deals = runtime.deals
          /\ q.rt.registered = runtime.registered
      <4>1. q = [Now EXCEPT !.rt = [runtime EXCEPT !.listens = TRUE]]
        BY <1>2
      <4>2. /\ q \in Result /\ q.rt = [runtime EXCEPT !.listens = TRUE] /\ q.reach = Now.reach
            /\ q.sent = Now.sent /\ q.launched = Now.launched
        BY <1>1, <1>2, <4>1 DEF Result, Runtime
      <4> HIDE DEF q
      <4>3. /\ q.rt.tsms = runtime.tsms /\ q.rt.deals = runtime.deals
            /\ q.rt.registered = runtime.registered /\ q.rt.spawning = runtime.spawning
            /\ q.rt.ssms = runtime.ssms
        BY <1>1, <4>2 DEF Runtime
      <4> QED
        BY <1>2, <4>2, <4>3 DEF Beside, Quiet
    <3> HIDE DEF q
    <3>3. Apart(q)
      BY <1>2, <3>2, ApartSteps
    <3>4. a \in Result /\ Sends(a, q) /\ Quiet(a, q)
      BY <1>3, <3>2, SendType, Messages
    <3> HIDE DEF a
    <3>5. told \in Result /\ Sends(told, a) /\ Quiet(told, a)
      BY <3>4, SendType, Messages
    <3> HIDE DEF told
    <3>6. Apart(told) /\ told.rt = q.rt
      <4>1. Apart(a)
        BY <3>2, <3>3, <3>4, ApartSteps
      <4> QED
        BY <3>4, <3>5, <4>1, ApartSteps DEF Sends
    <3>7. /\ s \in Result /\ Beside(s, told)
          /\ s.rt.tsms = runtime.tsms /\ s.rt.deals = runtime.deals \cup {d} /\ s.ok = told.ok
      <4>1. s = [told EXCEPT !.rt = [told.rt EXCEPT !.deals = told.rt.deals \cup {d}]]
        OBVIOUS
      <4>2. told.rt \in Runtime /\ told.rt.deals \cup {d} \in SUBSET Deals
        BY <3>5 DEF Result, Runtime
      <4>3. /\ s \in Result /\ s.rt = [told.rt EXCEPT !.deals = told.rt.deals \cup {d}]
            /\ s.reach = told.reach /\ s.sent = told.sent /\ s.launched = told.launched
            /\ s.ok = told.ok
        BY <3>5, <4>1, <4>2 DEF Result, Runtime
      <4> HIDE DEF s
      <4>4. /\ s.rt.tsms = told.rt.tsms /\ s.rt.deals = told.rt.deals \cup {d}
            /\ s.rt.registered = told.rt.registered /\ s.rt.spawning = told.rt.spawning
            /\ s.rt.ssms = told.rt.ssms
        BY <4>2, <4>3 DEF Runtime
      <4> QED
        BY <3>2, <3>6, <4>3, <4>4 DEF Beside, Quiet
    <3> HIDE DEF s
    <3>8. u \in Machine /\ u.deal = d /\ u.st = "MakeDeal" /\ u.up = {}
      BY TradeType DEF Trade
    <3> HIDE DEF u
    <3>9. CASE told.ok
      <4>1. /\ push(s, u) \in Result /\ Leaves(push(s, u), s) /\ Quiet(push(s, u), s)
            /\ push(s, u).rt.tsms = Append(runtime.tsms, u)
        <5> HIDE DEF r
        <5>1. s \in Result /\ u \in Machine
          BY <3>7, <3>8
        <5>2. /\ push(s, u) \in Result /\ Leaves(push(s, u), s) /\ Quiet(push(s, u), s)
              /\ push(s, u).rt.tsms = IF s.ok THEN Append(s.rt.tsms, u) ELSE s.rt.tsms
          BY <5>1, PushType
        <5> QED
          BY <3>7, <3>9, <5>2
      <4>2. Apart(s)
        BY <3>5, <3>6, <3>7, ApartSteps
      <4>3. r = push(s, u)
        BY <3>1, <3>9
      <4> HIDE DEF r
      <4>4. Apart(r)
        BY <3>7, <4>1, <4>2, <4>3, ApartSteps
      <4>5. r.rt.deals = runtime.deals \cup {d}
        BY <3>7, <4>1, <4>3 DEF Leaves
      <4>6. MachineOK(u, runtime.registered, r.rt.deals, alive, starting)
        <5>1. {Wallet, Database} \subseteq runtime.registered
          BY <1>2, <2>2 DEF services_ready
        <5> QED
          BY <1>5, <3>8, <4>5, <5>1 DEF MachineOK, has_swap_id
      <4>7. Listed(r)
        BY <1>5, <3>8, <4>1, <4>3, <4>5, <4>6, NotTraded, Listings
      <4> QED
        BY <4>4, <4>7 DEF r
    <3>10. CASE ~told.ok
      <4>1. Listed(told)
        BY <3>2, <3>5, <3>6, Listings
      <4> QED
        BY <3>1, <3>6, <3>10, <4>1
    <3> QED
      BY <3>9, <3>10
  <2> QED
    BY <2>1, <2>2
<1>6. ASSUME NEW i \in 1..Len(runtime.tsms), runtime.tsms[i].st = "MakeDeal"
      PROVE  /\ Apart(revoke_deal(taken(Now, i), runtime.tsms[i], c))
             /\ Listed(revoke_deal(taken(Now, i), runtime.tsms[i], c))
             /\ \A p \in Connection :
                  /\ Apart(taker_commit(taken(Now, i), runtime.tsms[i], p))
                  /\ Listed(taker_commit(taken(Now, i), runtime.tsms[i], p))
  <2> DEFINE o == taken(Now, i)
             t == runtime.tsms[i]
  <2>1. /\ o \in Result /\ t \in Machine /\ o.rt.tsms = RemoveAt(runtime.tsms, i)
        /\ o.rt.deals = runtime.deals /\ o.ok
    <3>1. o.rt = [runtime EXCEPT !.tsms = RemoveAt(runtime.tsms, i)]
      BY <1>1, TakenType
    <3>2. o.rt.deals = runtime.deals
      BY <1>1, <3>1 DEF Runtime
    <3> QED
      BY <1>1, <3>2, TakenType
  <2>2. Apart(o)
    BY ApartBegin
  <2>3. ~has_swap_id(t) /\ t.st = "MakeDeal"
    BY <1>6 DEF has_swap_id
  <2>4. MachineOK(t, runtime.registered, runtime.deals, alive, starting)
    BY <1>1 DEF World, CalmInv, Calm, ToSet
  <2> HIDE DEF o
  <2>5. t.deal \in Deals
    BY <2>1 DEF Machine
  <2>6. Apart(revoke_deal(o, t, c)) /\ Listed(revoke_deal(o, t, c))
    <3> DEFINE q == send(o, c, "Revoked", t.deal)
    <3>1. q \in Result /\ Sends(q, o) /\ Quiet(q, o)
      BY <2>1, <2>5, SendType, Messages
    <3>2. revoke_deal(o, t, c) = q
      BY DEF revoke_deal
    <3> HIDE DEF q
    <3>3. q.rt = o.rt
      BY <3>1 DEF Sends
    <3> QED
      BY <2>1, <2>2, <2>3, <3>1, <3>2, <3>3, ApartSteps, Listings
  <2>7. ASSUME NEW p \in Connection
        PROVE  Apart(taker_commit(o, t, p)) /\ Listed(taker_commit(o, t, p))
    <3> DEFINE a    == send(o, Wallet, "CreateSwapKeys", t.deal)
               told == send(a, Database, "SetDealStatus", t.deal)
               u    == [t EXCEPT !.st = "TakerCommit", !.peerd = p]
               r    == taker_commit(o, t, p)
    <3>1. a \in Result /\ Sends(a, o) /\ Quiet(a, o)
      BY <1>3, <2>1, <2>5, SendType, Messages
    <3>2. r = push(told, u)
      BY DEF taker_commit
    <3> HIDE DEF a
    <3>3. told \in Result /\ Sends(told, a) /\ Quiet(told, a)
      BY <1>3, <2>5, <3>1, SendType, Messages
    <3> HIDE DEF told
    <3>4. Sends(told, o) /\ Quiet(told, o) /\ Apart(told) /\ told.rt = o.rt
      <4>1. Sends(told, o) /\ Quiet(told, o)
        BY <2>1, <3>1, <3>3, SendsOn
      <4> QED
        BY <2>1, <2>2, <4>1, ApartSteps DEF Sends
    <3>5. u \in Machine /\ u.deal = t.deal /\ u.st = "TakerCommit" /\ u.up = t.up
      BY <2>1 DEF Machine
    <3> HIDE DEF u, t, r
    <3>6. /\ push(told, u) \in Result /\ Leaves(push(told, u), told) /\ Quiet(push(told, u), told)
          /\ push(told, u).rt.tsms = IF told.ok THEN Append(told.rt.tsms, u) ELSE told.rt.tsms
      BY <3>3, <3>5, PushType
    <3>7. Apart(r) /\ r.rt.deals = runtime.deals /\ r \in Result
      BY <2>1, <3>2, <3>3, <3>4, <3>6, ApartSteps DEF Leaves
    <3>8. MachineOK(u, runtime.registered, runtime.deals, alive, starting)
      BY <2>3, <2>4, <3>5 DEF MachineOK, has_swap_id
    <3>9. Listed(r)
      BY <2>1, <2>3, <3>2, <3>4, <3>5, <3>6, <3>7, <3>8, Listings DEF t
    <3> QED
      BY <3>7, <3>9 DEF r
  <2> QED
    BY <2>6, <2>7 DEF o
<1> QED
  BY <1>4, <1>5, <1>6

\* What follows a connection (take_over): a machine more, or a sending failed.
LEMMA TakeOverCalm ==
    ASSUME NEW r \in Result, Apart(r), NEW d \in Deals, NEW p \in Connection, NEW c \in Service
    PROVE  LET q == take_over(r, d, p, c) IN
           /\ q \in Result /\ Apart(q) /\ r.rt.deals \subseteq q.rt.deals
           /\ \/ q.rt.tsms = r.rt.tsms
              \/ q.rt.tsms = Append(r.rt.tsms, Trade("TakeDeal", d, p))
<1> DEFINE a    == send(r, Wallet, "CreateSwapKeys", d)
           told == send(a, c, "TookDeal", d)
           s    == [told EXCEPT !.rt.deals = @ \cup {d}]
           u    == Trade("TakeDeal", d, p)
<1>1. take_over(r, d, p, c) = IF told.ok THEN push(s, u) ELSE told
  BY DEF take_over
<1>2. a \in Result /\ Sends(a, r) /\ Quiet(a, r)
  BY Services, SendType, Messages
<1> HIDE DEF a
<1>3. told \in Result /\ Sends(told, a) /\ Quiet(told, a)
  BY <1>2, SendType, Messages
<1> HIDE DEF told
<1>4. Apart(told) /\ told.rt = r.rt
  <2>1. Apart(a)
    BY <1>2, ApartSteps
  <2> QED
    BY <1>2, <1>3, <2>1, ApartSteps DEF Sends
<1>5. s \in Result /\ Beside(s, told) /\ s.rt.tsms = r.rt.tsms /\ r.rt.deals \subseteq s.rt.deals
  <2>1. s = [told EXCEPT !.rt = [told.rt EXCEPT !.deals = told.rt.deals \cup {d}]]
    OBVIOUS
  <2>2. told.rt \in Runtime /\ told.rt.deals \cup {d} \in SUBSET Deals
    BY <1>3 DEF Result, Runtime
  <2>3. /\ s \in Result /\ s.rt = [told.rt EXCEPT !.deals = told.rt.deals \cup {d}]
        /\ s.reach = told.reach /\ s.sent = told.sent /\ s.launched = told.launched
    BY <1>3, <2>1, <2>2 DEF Result, Runtime
  <2> HIDE DEF s
  <2>4. /\ s.rt.tsms = told.rt.tsms /\ s.rt.deals = told.rt.deals \cup {d}
        /\ s.rt.registered = told.rt.registered /\ s.rt.spawning = told.rt.spawning
        /\ s.rt.ssms = told.rt.ssms
    BY <2>2, <2>3 DEF Runtime
  <2> QED
    BY <1>4, <2>3, <2>4 DEF Beside, Quiet
<1> HIDE DEF s
<1>6. u \in Machine
  BY TradeType
<1> HIDE DEF u
<1> DEFINE q == push(s, u)
<1>7. /\ q \in Result /\ Leaves(q, s) /\ Quiet(q, s)
      /\ q.rt.tsms = IF s.ok THEN Append(s.rt.tsms, u) ELSE s.rt.tsms
  BY <1>5, <1>6, PushType
<1> HIDE DEF q
<1>8. Apart(q) /\ r.rt.deals \subseteq q.rt.deals
  <2>1. Apart(s)
    BY <1>3, <1>4, <1>5, ApartSteps
  <2> QED
    BY <1>5, <1>7, <2>1, ApartSteps DEF Leaves
<1>9. q.rt.tsms \in {r.rt.tsms, Append(r.rt.tsms, u)}
  BY <1>5, <1>7
<1> QED
  BY <1>1, <1>3, <1>4, <1>7, <1>8, <1>9 DEF q, u

\* StartTaker on TakeDeal.
LEMMA TakerCalm ==
    ASSUME NEW K, World(K), NEW d \in Deals \ MakerDeals, NEW c \in Users, c \in Service
    PROVE  Apart(take_deal(Now, d, c)) /\ Listed(take_deal(Now, d, c))
<1>1. /\ TypeOK /\ runtime \in Runtime /\ runtime.tsms \in Seq(Machine)
      /\ Now \in Result /\ Apart(Now) /\ Now.rt = runtime /\ Now.ok
  BY ApartBegin, BeginType DEF World, TypeOK, Runtime
<1> DEFINE n      == Counterparty[d]
           fails  == send(Now, c, "Failure", None)
           over   == take_over(Now, d, connection(Now, n), c)
           dialed == connect_peer(Now, n)
           u      == [Trade("TakerConnect", d, None) EXCEPT !.client = c]
           waiting  == push(dialed, u)
           no     == \/ d \in consumed_deals(runtime) \cup runtime.deals
                     \/ ~services_ready(Now) \/ ~peer_keys_ready(Now)
<1>2. take_deal(Now, d, c) = IF no THEN fails ELSE IF connected(Now, n) THEN over ELSE waiting
  BY <1>1 DEF take_deal
<1>3. n \in Nodes /\ None \in Service
  BY Services
<1>4. Apart(fails) /\ Listed(fails)
  <2>1. fails \in Result /\ Sends(fails, Now) /\ Quiet(fails, Now)
    BY <1>1, <1>3, SendType, Messages
  <2> HIDE DEF fails
  <2>2. fails.rt = runtime
    BY <1>1, <2>1 DEF Sends
  <2> QED
    BY <1>1, <2>1, <2>2, ApartSteps, Listings
<1>5. ASSUME ~no
      PROVE  /\ {Wallet, Database} \subseteq runtime.registered
             /\ \A t \in ToSet(runtime.tsms) : t.deal # d
  <2>1. d \notin MakerDeals \cup consumed_deals(runtime)
    BY <1>5
  <2> QED
    BY <1>1, <1>5, <2>1, NotTraded DEF services_ready
<1> HIDE DEF no
<1>6. ASSUME ~no
      PROVE  Apart(over) /\ Listed(over)
  <2> DEFINE p == connection(Now, n)
             v == Trade("TakeDeal", d, p)
  <2>1. p \in Connection
    BY <1>1, <1>3, ConnectPeerType
  <2> HIDE DEF p
  <2>2. /\ over \in Result /\ Apart(over) /\ runtime.deals \subseteq over.rt.deals
        /\ over.rt.tsms = runtime.tsms \/ over.rt.tsms = Append(runtime.tsms, v)
    BY <1>1, <2>1, TakeOverCalm DEF p
  <2>3. v \in Machine /\ v.deal = d /\ v.st = "TakeDeal" /\ v.up = {}
    BY <2>1, TradeType DEF Trade
  <2> HIDE DEF over, v
  <2>4. MachineOK(v, runtime.registered, over.rt.deals, alive, starting)
    BY <1>5, <1>6, <2>3 DEF MachineOK, has_swap_id
  <2> QED
    BY <1>5, <1>6, <2>2, <2>3, <2>4, Listings
<1>7. ASSUME ~no
      PROVE  Apart(waiting) /\ Listed(waiting)
  <2>1. /\ dialed \in Result /\ Apart(dialed) /\ dialed.rt.tsms = runtime.tsms
        /\ dialed.rt.deals = runtime.deals /\ dialed.ok
    BY <1>1, <1>3, ApartSteps, ConnectPeerType
  <2>2. u \in Machine /\ u.deal = d /\ u.st = "TakerConnect" /\ u.up = {} /\ u.client = c
    <3>1. Trade("TakerConnect", d, None) \in Machine
      BY TradeType
    <3> QED
      BY <3>1 DEF Machine, Trade
  <2> HIDE DEF dialed, u
  <2>3. /\ waiting \in Result /\ Leaves(waiting, dialed) /\ Quiet(waiting, dialed)
        /\ waiting.rt.tsms = Append(runtime.tsms, u)
    <3>1. dialed \in Result /\ u \in Machine
      BY <2>1, <2>2
    <3>2. /\ waiting \in Result /\ Leaves(waiting, dialed) /\ Quiet(waiting, dialed)
          /\ waiting.rt.tsms = IF dialed.ok THEN Append(dialed.rt.tsms, u) ELSE dialed.rt.tsms
      BY <3>1, PushType
    <3> QED
      BY <2>1, <3>2
  <2> HIDE DEF waiting
  <2>4. Apart(waiting) /\ waiting.rt.deals = runtime.deals
    BY <2>1, <2>3, ApartSteps DEF Leaves
  <2>5. MachineOK(u, runtime.registered, runtime.deals, alive, starting)
    BY <1>5, <1>7, <2>2 DEF MachineOK, has_swap_id
  <2> QED
    BY <1>5, <1>7, <2>2, <2>3, <2>4, <2>5, Listings
<1> HIDE DEF fails, over, waiting
<1> QED
  BY <1>2, <1>4, <1>6, <1>7

\* StartRestore on RestoreCheckpoint: the swapd that wrote the checkpoint is still there.
LEMMA RestoreCalm ==
    ASSUME NEW K, World(K), NEW r \in Result, Apart(r), r.rt = runtime, NEW d \in Deals, store[d].saved,
           NEW c \in Service, NEW e \in SUBSET Nodes
    PROVE  LET q == restore_checkpoint(r, d, e, c) IN
           q \in Result /\ Apart(q) /\ q.rt = runtime
<1> DEFINE q == send(r, c, "Failure", None)
<1>1. Swap(d) \in r.reach
  BY DEF World, CalmInv, Apart
<1>2. restore_checkpoint(r, d, e, c) = q
  BY <1>1 DEF restore_checkpoint
<1>3. q \in Result /\ Sends(q, r) /\ Quiet(q, r)
  BY Services, SendType, Messages
<1> HIDE DEF q
<1>4. q.rt = runtime /\ Apart(q)
  BY <1>3, ApartSteps DEF Sends
<1> QED
  BY <1>2, <1>3, <1>4

\* databased's list: none of it is restored.
LEMMA RestoresCalm ==
    ASSUME NEW K, World(K), NEW n \in Nat, NEW list \in [1..n -> {d \in Deals : store[d].saved}], NEW f,
           f = [i \in 0..n |-> IF i = 0 THEN Now ELSE RestoreNext(f[i - 1], list[i])]
    PROVE  \A i \in 0..n : f[i] \in Result /\ Apart(f[i]) /\ f[i].rt = runtime
<1> DEFINE Good(i) == f[i] \in Result /\ Apart(f[i]) /\ f[i].rt = runtime
           Bad     == {i \in 0..n : ~Good(i)}
<1> SUFFICES ASSUME Bad # {}
             PROVE  FALSE
  OBVIOUS
<1>1. Bad \in SUBSET Nat
  OBVIOUS
<1>2. PICK m \in Bad : \A i \in Bad : m <= i
  <2> HIDE DEF Bad
  <2> QED
    BY <1>1, LeastElement
<1>3. m \in 0..n /\ ~Good(m)
  BY <1>2
<1>4. Good(0)
  <2>1. f[0] = Now
    OBVIOUS
  <2> QED
    BY <2>1, ApartBegin, BeginType DEF World
<1>5. m # 0
  BY <1>3, <1>4
<1>6. m - 1 \in 0..n /\ m \in 1..n
  BY <1>3, <1>5
<1>7. m - 1 \notin Bad
  <2> HIDE DEF Bad
  <2>1. ~(m <= m - 1)
    BY <1>3
  <2> QED
    BY <1>2, <2>1
<1>8. Good(m - 1)
  BY <1>6, <1>7
<1>9. /\ f[m] = RestoreNext(f[m - 1], list[m])
      /\ list[m] \in Deals /\ store[list[m]].saved
  BY <1>5, <1>6
<1> DEFINE r == f[m - 1]
           e == store[list[m]].expected
<1>10. e \in SUBSET Nodes /\ Database \in Service
  BY <1>9, Services DEF World, TypeOK
<1> HIDE DEF e
<1>11. /\ restore_checkpoint(r, list[m], e, Database) \in Result
       /\ Apart(restore_checkpoint(r, list[m], e, Database))
       /\ restore_checkpoint(r, list[m], e, Database).rt = runtime
  BY <1>8, <1>9, <1>10, RestoreCalm
<1>12. f[m] \in {r, restore_checkpoint(r, list[m], e, Database)}
  BY <1>9, ZenonT(120) DEF RestoreNext, e
<1> QED
  BY <1>3, <1>8, <1>11, <1>12

-------------------------------------------------------------------------------
(***************************************************************************)
(* What becomes of a machine that hears a Hello.                           *)
(***************************************************************************)
\* What t may be afterwards.
Became(v, t, src) ==
    /\ v \in Machine /\ v.deal = t.deal /\ v.client = t.client
    /\ v.up = IF t.st = "SwapdLaunched" THEN hears(t, src).up ELSE t.up
    /\ \/ v.st = t.st
       \/ t.st = "SwapdLaunched" /\ v.st = "SwapdRunning" /\ v.up = Chains \cup {"swapd"}

\* It notes the service (hears).
LEMMA Hearing ==
    ASSUME NEW t \in Machine, NEW src \in Service
    PROVE  /\ hears(t, src).up = t.up \cup {c \in Chains : src = Syncer(c)}
                                      \cup {x \in {"swapd"} : src = Swap(t.deal)}
           /\ hears(t, src).deal = t.deal /\ hears(t, src).client = t.client
           /\ hears(t, src).st = t.st
           /\ src = None => hears(t, src).up = t.up
BY Kinds DEF hears, Machine

\* SwapdLaunched on any request: no send fails, for its swapd is there once it has said hello.
LEMMA LaunchedCalm ==
    ASSUME NEW r \in Result, NEW t \in Machine, NEW src \in Service, NEW newest \in BOOLEAN,
           r.ok, t.st = "SwapdLaunched",
           "swapd" \in hears(t, src).up => Swap(t.deal) \in r.reach
    PROVE  LET q == launched_on(r, t, src, newest) IN
           q.ok /\ \E v : Became(v, t, src) /\ q.rt.tsms = Append(r.rt.tsms, v)
<1> DEFINE h == hears(t, src)
           u == follow(r, h, newest)
<1>1. /\ h \in Machine /\ h.deal = t.deal /\ h.client = t.client /\ h.st = t.st
  BY Hearing, HearsType
<1>2. launched_on(r, t, src, newest)
        = IF u.up = Chains \cup {"swapd"} /\ launched_peerd_up(r, u)
          THEN init_swap(r, u) ELSE push(r, u)
  BY DEF launched_on
<1> HIDE DEF h
<1>3. /\ u \in Machine /\ u.deal = t.deal /\ u.client = t.client /\ u.st = t.st /\ u.up = h.up
  <2>1. u \in Machine
    BY <1>1, HearsType
  <2>2. \/ u = h
        \/ \E p : u = [h EXCEPT !.peerd = p, !.reconnected = TRUE]
    BY ZenonT(120) DEF follow
  <2> HIDE DEF u
  <2>3. u = h => u.deal = h.deal /\ u.client = h.client /\ u.st = h.st /\ u.up = h.up
    OBVIOUS
  <2>4. (\E p : u = [h EXCEPT !.peerd = p, !.reconnected = TRUE])
          => u.deal = h.deal /\ u.client = h.client /\ u.st = h.st /\ u.up = h.up
    BY <1>1 DEF Machine
  <2> QED
    BY <1>1, <2>1, <2>2, <2>3, <2>4, ZenonT(120)
<1> HIDE DEF u
<1>4. push(r, u).ok /\ push(r, u).rt.tsms = Append(r.rt.tsms, u) /\ Became(u, t, src)
  <2>1. push(r, u).ok = r.ok /\ push(r, u).rt.tsms = IF r.ok THEN Append(r.rt.tsms, u) ELSE r.rt.tsms
    BY <1>3, PushType
  <2>2. Became(u, t, src)
    BY <1>3 DEF Became, h
  <2> QED
    BY <2>1, <2>2
<1>5. ASSUME u.up = Chains \cup {"swapd"}
      PROVE  /\ init_swap(r, u).ok
             /\ \E v : Became(v, t, src) /\ init_swap(r, u).rt.tsms = Append(r.rt.tsms, v)
  <2> DEFINE warned == IF u.reconnected
                       THEN send(r, Swap(u.deal), "PeerdReconnected", u.peerd) ELSE r
             told   == send(warned, Swap(u.deal), "InitSwap", u.peerd)
             v      == [u EXCEPT !.st = "SwapdRunning", !.expected = {}, !.reconnected = FALSE]
  <2>1. Swap(u.deal) \in Service /\ u.peerd \in Service
    BY <1>3, Services DEF Machine
  <2>2. Swap(u.deal) \in r.reach
    BY <1>3, <1>5 DEF h
  <2>3. warned \in Result /\ Sends(warned, r) /\ warned.ok
    BY <2>1, <2>2, SendType, SendsOn, Messages
  <2>4. Sends(told, r) /\ told.ok
    <3> HIDE DEF warned
    <3>1. Swap(u.deal) \in warned.reach
      BY <2>2, <2>3 DEF Sends
    <3>2. Sends(told, warned) /\ told.ok
      BY <2>1, <2>3, <3>1, SendType, Messages
    <3> QED
      BY <2>3, <3>2, SendsOn
  <2>5. v \in Machine /\ v.up = u.up /\ v.deal = u.deal /\ v.client = u.client /\ v.st = "SwapdRunning"
    BY <1>3 DEF Machine
  <2>6. Became(v, t, src)
    <3> HIDE DEF v
    <3> QED
      BY <1>3, <1>5, <2>5 DEF Became, h
  <2>7. init_swap(r, u) = push(told, v)
    BY DEF init_swap
  <2> HIDE DEF told, v
  <2>8. push(told, v).ok = told.ok /\ (told.ok => push(told, v).rt.tsms = Append(r.rt.tsms, v))
    BY <2>4, <2>5, PushAfter
  <2> QED
    BY <2>4, <2>6, <2>7, <2>8
<1> QED
  BY <1>2, <1>4, <1>5

\* Any machine but one that restores, on a Hello.
LEMMA HelloCalm ==
    ASSUME NEW r \in Result, NEW t \in Machine, NEW src \in Service, NEW newest \in BOOLEAN,
           r.ok, t.st # "RestoringSwapd",
           has_swap_id(t) /\ "swapd" \in hears(t, src).up => Swap(t.deal) \in r.reach,
           t.st = "SwapdRunning" => t.up = Chains \cup {"swapd"}
    PROVE  LET q == tsm_hello(r, t, src, newest) IN
           q.ok /\ \E v : Became(v, t, src) /\ q.rt.tsms = Append(r.rt.tsms, v)
<1>1. CASE t.st = "SwapdLaunched"
  <2>1. tsm_hello(r, t, src, newest) = launched_on(r, t, src, newest)
    BY <1>1 DEF tsm_hello
  <2> QED
    BY <1>1, <2>1, LaunchedCalm DEF has_swap_id
<1>2. t.st # "SwapdLaunched" => Became(t, t, src)
  BY DEF Became
<1>3. push(r, t).ok /\ push(r, t).rt.tsms = Append(r.rt.tsms, t)
  BY PushType
<1>4. CASE t.st = "SwapdRunning"
  <2> DEFINE told == send(r, Swap(t.deal), "PeerdReconnected", src)
  <2>1. Swap(t.deal) \in Service
    BY Services DEF Machine
  <2>2. Swap(t.deal) \in r.reach
    BY <1>4, Hearing DEF has_swap_id
  <2>3. Sends(told, r) /\ told.ok
    BY <2>1, <2>2, SendType, Messages
  <2>4. tsm_hello(r, t, src, newest) = IF reconnects(t, src) THEN push(told, t) ELSE push(r, t)
    BY <1>4 DEF tsm_hello, running_hello
  <2> HIDE DEF told
  <2>5. push(told, t).ok /\ push(told, t).rt.tsms = Append(r.rt.tsms, t)
    BY <2>3, PushAfter
  <2> QED
    BY <1>2, <1>3, <1>4, <2>4, <2>5
<1>5. CASE t.st \notin {"SwapdLaunched", "SwapdRunning"}
  <2>1. tsm_hello(r, t, src, newest) = push(r, t)
    BY <1>5 DEF tsm_hello
  <2> QED
    BY <1>2, <1>3, <1>5, <2>1
<1> QED
  BY <1>1, <1>4, <1>5

-------------------------------------------------------------------------------
(***************************************************************************)
(* Requests to one machine.                                                *)
(***************************************************************************)

\* It is moved out (process_request_with_state_machines).
LEMMA TakenCalm ==
    ASSUME NEW K, World(K), NEW i \in 1..Len(runtime.tsms)
    PROVE  LET o == taken(Now, i) IN
           /\ o \in Result /\ Apart(o) /\ o.ok /\ o.reach = alive /\ told_to_stop(o) = {}
           /\ o.launched = {}
           /\ o.rt.tsms = RemoveAt(runtime.tsms, i) /\ o.rt.deals = runtime.deals
           /\ o.rt.registered = runtime.registered /\ o.rt.spawning = runtime.spawning
           /\ o.rt.ssms = runtime.ssms
           /\ runtime.tsms[i] \in Machine /\ runtime.tsms[i] \in ToSet(runtime.tsms)
           /\ MachineOK(runtime.tsms[i], runtime.registered, runtime.deals, alive, starting)
<1>1. /\ TypeOK /\ runtime \in Runtime /\ runtime.tsms \in Seq(Machine)
      /\ DOMAIN runtime.tsms = 1..Len(runtime.tsms)
  BY LenProperties DEF World, TypeOK, Runtime
<1> DEFINE o == taken(Now, i)
<1>2. /\ o \in Result /\ o.rt = [runtime EXCEPT !.tsms = RemoveAt(runtime.tsms, i)]
      /\ o.rt.tsms = RemoveAt(runtime.tsms, i)
      /\ o.ok /\ o.reach = alive /\ o.launched = {} /\ runtime.tsms[i] \in Machine
  BY <1>1, TakenType
<1>3. Apart(o) /\ told_to_stop(o) = {}
  BY ApartBegin
<1> HIDE DEF o
<1>4. /\ o.rt.deals = runtime.deals /\ o.rt.registered = runtime.registered
      /\ o.rt.spawning = runtime.spawning /\ o.rt.ssms = runtime.ssms
  BY <1>1, <1>2 DEF Runtime
<1>5. runtime.tsms[i] \in ToSet(runtime.tsms)
  BY <1>1 DEF ToSet
<1>6. MachineOK(runtime.tsms[i], runtime.registered, runtime.deals, alive, starting)
  BY <1>5 DEF World, CalmInv, Calm
<1> QED
  BY <1>2, <1>3, <1>4, <1>5, <1>6 DEF o

\* It is pushed again, as it was or otherwise connected.
LEMMA PushedAgain ==
    ASSUME NEW K, World(K), NEW i \in 1..Len(runtime.tsms), NEW r \in Result, Apart(r), r.ok,
           r.rt.tsms = RemoveAt(runtime.tsms, i), runtime.deals \subseteq r.rt.deals,
           NEW u \in Machine, u.deal = runtime.tsms[i].deal,
           has_swap_id(runtime.tsms[i]) => has_swap_id(u),
           MachineOK(u, runtime.registered, runtime.deals, alive, starting)
    PROVE  push(r, u) \in Result /\ Apart(push(r, u)) /\ Listed(push(r, u))
<1> DEFINE q == push(r, u)
<1>1. /\ q \in Result /\ Leaves(q, r) /\ Quiet(q, r)
      /\ q.rt.tsms = IF r.ok THEN Append(r.rt.tsms, u) ELSE r.rt.tsms
  BY PushType
<1> HIDE DEF q
<1>2. q.rt.tsms = Append(RemoveAt(runtime.tsms, i), u)
  BY <1>1
<1>3. Apart(q) /\ runtime.deals \subseteq q.rt.deals
  BY <1>1, ApartSteps DEF Leaves
<1>4. MachineOK(u, runtime.registered, q.rt.deals, alive, starting)
  BY <1>3, MachineKept
<1>5. Listed(q)
  BY <1>1, <1>2, <1>3, <1>4, Listings
<1> QED
  BY <1>1, <1>3, <1>5 DEF q

\* Its connection is not among what the invariant asks.
LEMMA Reconnected ==
    ASSUME NEW t \in Machine, NEW p \in Connection, NEW reg, NEW deals, NEW al, NEW st,
           MachineOK(t, reg, deals, al, st)
    PROVE  LET u == [t EXCEPT !.peerd = p] IN
           /\ u \in Machine /\ u.deal = t.deal /\ (has_swap_id(t) => has_swap_id(u))
           /\ MachineOK(u, reg, deals, al, st)
<1> DEFINE u == [t EXCEPT !.peerd = p]
<1>1. /\ u \in Machine /\ u.deal = t.deal /\ u.st = t.st /\ u.up = t.up /\ u.client = t.client
  BY DEF Machine
<1> HIDE DEF u
<1>2. has_swap_id(u) <=> has_swap_id(t)
  BY <1>1 DEF has_swap_id
<1>3. MachineOK(u, reg, deals, al, st)
  BY <1>1, <1>2 DEF MachineOK
<1> QED
  BY <1>1, <1>2, <1>3 DEF u

\* Connect, PeerdUnreachable and SwapOutcome before the swap runs (SwapdLaunched).
LEMMA OtherwiseCalm ==
    ASSUME NEW K, World(K), NEW i \in 1..Len(runtime.tsms), NEW newest \in BOOLEAN,
           has_swap_id(runtime.tsms[i]), runtime.tsms[i].st # "SwapdRunning"
    PROVE  LET r == otherwise(taken(Now, i), runtime.tsms[i], newest) IN
           r \in Result /\ Apart(r) /\ Listed(r)
<1> DEFINE o == taken(Now, i)
           t == runtime.tsms[i]
           r == otherwise(o, t, newest)
<1>1. /\ o \in Result /\ Apart(o) /\ o.ok /\ o.reach = alive
      /\ o.rt.tsms = RemoveAt(runtime.tsms, i) /\ o.rt.deals = runtime.deals
      /\ t \in Machine /\ MachineOK(t, runtime.registered, runtime.deals, alive, starting)
  BY TakenCalm
<1> HIDE DEF o
<1>2. t.st = "SwapdLaunched" /\ has_swap_id(t)
  BY <1>1 DEF MachineOK, has_swap_id
<1> HIDE DEF t
<1>3. r = launched_on(o, t, None, newest)
  BY <1>2 DEF otherwise
<1>4. None \in Service /\ hears(t, None).up = t.up
  BY <1>1, Hearing, Services
<1>5. "swapd" \in t.up => Swap(t.deal) \in alive
  BY <1>1, <1>2 DEF MachineOK
<1> HIDE DEF r
<1>6. r.ok /\ \E v : Became(v, t, None) /\ r.rt.tsms = Append(o.rt.tsms, v)
  BY <1>1, <1>2, <1>3, <1>4, <1>5, LaunchedCalm
<1>7. r \in Result /\ Leaves(r, o) /\ Quiet(r, o)
  BY <1>1, <1>3, <1>4, LaunchedType DEF Pushed
<1>8. Apart(r) /\ r.rt.deals = runtime.deals
  BY <1>1, <1>7, ApartSteps DEF Leaves
<1>9. PICK v : Became(v, t, None) /\ r.rt.tsms = Append(o.rt.tsms, v)
  BY <1>6
<1>10. v \in Machine /\ v.deal = t.deal /\ has_swap_id(v) /\ v.up = t.up
  BY <1>2, <1>4, <1>9 DEF Became, has_swap_id
<1>11. MachineOK(v, runtime.registered, runtime.deals, alive, starting)
  <2>1. v.st \in {"SwapdLaunched", "SwapdRunning"} /\ (v.st = "SwapdRunning" => v.up = Chains \cup {"swapd"})
    BY <1>2, <1>9 DEF Became
  <2> QED
    BY <1>1, <1>2, <1>10, <2>1 DEF MachineOK
<1>12. Listed(r)
  BY <1>1, <1>7, <1>8, <1>9, <1>10, <1>11, Listings DEF t
<1> QED
  BY <1>7, <1>8, <1>12 DEF r, o, t

\* SwapdRunning on Connect, and on PeerdUnreachable about a peerd that is gone.
LEMMA RunningCalm ==
    ASSUME NEW K, World(K), NEW i \in 1..Len(runtime.tsms)
    PROVE  /\ \A c \in Service \cap alive :
                LET r == connect(taken(Now, i), runtime.tsms[i], c) IN
                r \in Result /\ Apart(r) /\ Listed(r)
           /\ \A p : p \notin alive =>
                LET r == peerd_unreachable(taken(Now, i), runtime.tsms[i], p) IN
                r \in Result /\ Apart(r) /\ Listed(r)
           /\ LET r == push(taken(Now, i), runtime.tsms[i]) IN
              r \in Result /\ Apart(r) /\ Listed(r)
<1> DEFINE o == taken(Now, i)
           t == runtime.tsms[i]
           n == node_addr_from_deal(t.deal)
<1>1. /\ o \in Result /\ Apart(o) /\ o.ok /\ o.reach = alive
      /\ o.rt.tsms = RemoveAt(runtime.tsms, i) /\ o.rt.deals = runtime.deals
      /\ o.rt.registered = runtime.registered
      /\ t \in Machine /\ MachineOK(t, runtime.registered, runtime.deals, alive, starting)
  BY TakenCalm
<1>2. n \in Nodes /\ None \in Service
  BY <1>1, Services DEF Machine
<1> HIDE DEF o
<1>3. push(o, t) \in Result /\ Apart(push(o, t)) /\ Listed(push(o, t))
  BY <1>1, PushedAgain
<1>4. ASSUME NEW c \in Service \cap alive
      PROVE  connect(o, t, c) \in Result /\ Apart(connect(o, t, c)) /\ Listed(connect(o, t, c))
  <2> DEFINE dialed == connect_peer(o, n)
             told   == send(dialed, c, "ConnectSuccess", None)
             after  == IF connected(o, n) THEN told ELSE dialed
             fails  == send(o, c, "Failure", None)
             u      == [t EXCEPT !.peerd = connection(o, n)]
  <2>1. connect(o, t, c)
          = IF t.peerd # None \/ ~services_ready(o) \/ ~peer_keys_ready(o)
            THEN push(fails, t) ELSE push(after, u)
    BY DEF connect
  <2>2. /\ dialed \in Result /\ Apart(dialed) /\ dialed.rt.tsms = o.rt.tsms
        /\ dialed.rt.deals = o.rt.deals /\ dialed.ok /\ dialed.reach = alive
        /\ connection(o, n) \in Connection
    BY <1>1, <1>2, ApartSteps, ConnectPeerType
  <2>3. fails \in Result /\ Sends(fails, o) /\ Quiet(fails, o) /\ fails.ok
    BY <1>1, <1>2, SendType, Messages
  <2>4. after \in Result /\ Apart(after) /\ after.rt.tsms = o.rt.tsms
        /\ after.rt.deals = o.rt.deals /\ after.ok
    <3> HIDE DEF dialed
    <3>1. told \in Result /\ Sends(told, dialed) /\ Quiet(told, dialed) /\ told.ok
      BY <1>2, <2>2, SendType, Messages
    <3> HIDE DEF told
    <3>2. Apart(told) /\ told.rt = dialed.rt
      BY <2>2, <3>1, ApartSteps DEF Sends
    <3> QED
      BY <2>2, <3>1, <3>2
  <2>5. /\ u \in Machine /\ u.deal = t.deal /\ (has_swap_id(t) => has_swap_id(u))
        /\ MachineOK(u, runtime.registered, runtime.deals, alive, starting)
    BY <1>1, <2>2, Reconnected
  <2> HIDE DEF fails, after, u
  <2>6. push(after, u) \in Result /\ Apart(push(after, u)) /\ Listed(push(after, u))
    BY <1>1, <2>4, <2>5, PushedAgain
  <2>7. push(fails, t) \in Result /\ Apart(push(fails, t)) /\ Listed(push(fails, t))
    <3>1. Apart(fails) /\ fails.rt = o.rt
      BY <1>1, <2>3, ApartSteps DEF Sends
    <3> QED
      BY <1>1, <2>3, <3>1, PushedAgain
  <2> QED
    BY <2>1, <2>6, <2>7
<1>5. ASSUME NEW p, p \notin alive
      PROVE  peerd_unreachable(o, t, p) = push(o, t)
  <2>1. p \notin runtime.registered
    BY <1>5 DEF World, CalmInv, Calm, Tidy
  <2> QED
    BY <1>1, <2>1 DEF peerd_unreachable
<1> QED
  BY <1>3, <1>4, <1>5 DEF o, t

\* ConnectSuccess and ConnectFailed of a peerd on the bus.
LEMMA ReportCalm ==
    ASSUME NEW K, World(K), NEW i \in 1..Len(runtime.tsms), NEW p \in Connection \cap alive,
           runtime.tsms[i].st \in {"TakerConnect", "RestoringSwapd", "SwapdRunning"},
           runtime.tsms[i].deal \notin MakerDeals
    PROVE  /\ LET r == tsm_connected(taken(Now, i), runtime.tsms[i], p) IN
              r \in Result /\ Apart(r) /\ Listed(r)
           /\ LET r == tsm_not_connected(taken(Now, i), runtime.tsms[i], p) IN
              r \in Result /\ Apart(r) /\ Listed(r)
<1> DEFINE o     == taken(Now, i)
           t     == runtime.tsms[i]
           known == handle_new_connection(o, p)
           gone  == handle_failed_connection(o, p)
           u     == [t EXCEPT !.peerd = p]
<1>1. /\ o \in Result /\ Apart(o) /\ o.ok /\ o.reach = alive /\ told_to_stop(o) = {}
      /\ o.rt.tsms = RemoveAt(runtime.tsms, i) /\ o.rt.deals = runtime.deals
      /\ t \in Machine /\ MachineOK(t, runtime.registered, runtime.deals, alive, starting)
  BY TakenCalm
<1>2. t.st \in {"TakerConnect", "SwapdRunning"} /\ t.deal \in Deals /\ t.client \in Service
  BY <1>1 DEF MachineOK, Machine
<1> HIDE DEF o
<1>3. /\ known \in Result /\ Apart(known) /\ known.ok
      /\ known.rt.tsms = o.rt.tsms /\ known.rt.deals = o.rt.deals
  <2>1. p \in Service
    BY Services
  <2> QED
    BY <1>1, <2>1, ConnectionType, ApartSteps
<1>4. /\ gone \in Result /\ Apart(gone) /\ gone.ok
      /\ gone.rt.tsms = o.rt.tsms /\ gone.rt.deals = o.rt.deals
  <2>1. p \in Service
    BY Services
  <2> QED
    BY <1>1, <2>1, ConnectionType, ApartSteps
<1>5. /\ u \in Machine /\ u.deal = t.deal /\ (has_swap_id(t) => has_swap_id(u))
      /\ MachineOK(u, runtime.registered, runtime.deals, alive, starting)
  BY <1>1, Reconnected
<1> HIDE DEF known, gone, u, t
<1>6. CASE t.st = "TakerConnect"
  <2> DEFINE over  == take_over(known, t.deal, p, t.client)
             fails == send(gone, t.client, "Failure", None)
             v     == Trade("TakeDeal", t.deal, p)
  <2>1. tsm_connected(o, t, p) = over /\ tsm_not_connected(o, t, p) = fails
    BY <1>6 DEF tsm_connected, tsm_not_connected, known, gone
  <2>2. /\ over \in Result /\ Apart(over) /\ runtime.deals \subseteq over.rt.deals
        /\ \/ over.rt.tsms = RemoveAt(runtime.tsms, i)
           \/ over.rt.tsms = Append(RemoveAt(runtime.tsms, i), v)
    BY <1>1, <1>2, <1>3, TakeOverCalm
  <2>3. v \in Machine /\ v.deal = t.deal /\ v.st = "TakeDeal" /\ v.up = {}
    BY <1>2, TradeType DEF Trade
  <2> HIDE DEF over, v
  <2>4. ~has_swap_id(t)
    BY <1>6 DEF has_swap_id
  <2>5. MachineOK(v, runtime.registered, over.rt.deals, alive, starting)
    BY <1>1, <2>3 DEF MachineOK, has_swap_id, t
  <2>6. Listed(over)
    BY <2>2, <2>3, <2>4, <2>5, Listings DEF t
  <2>7. fails \in Result /\ Sends(fails, gone) /\ Quiet(fails, gone)
    BY <1>2, <1>4, Services, SendType, Messages
  <2> HIDE DEF fails
  <2>8. Apart(fails) /\ fails.rt = gone.rt
    BY <1>4, <2>7, ApartSteps DEF Sends
  <2>9. Listed(fails)
    BY <1>1, <1>4, <2>4, <2>7, <2>8, Listings DEF t
  <2> QED
    BY <2>1, <2>2, <2>6, <2>7, <2>8, <2>9 DEF o, t
<1>7. CASE t.st = "SwapdRunning"
  <2>1. tsm_connected(o, t, p) = push(known, u) /\ tsm_not_connected(o, t, p) = push(gone, u)
    BY <1>7 DEF tsm_connected, tsm_not_connected, known, gone, u
  <2>2. push(known, u) \in Result /\ Apart(push(known, u)) /\ Listed(push(known, u))
    BY <1>1, <1>3, <1>5, PushedAgain DEF t
  <2>3. push(gone, u) \in Result /\ Apart(push(gone, u)) /\ Listed(push(gone, u))
    BY <1>1, <1>4, <1>5, PushedAgain DEF t
  <2> QED
    BY <2>1, <2>2, <2>3 DEF o, t
<1> QED
  BY <1>2, <1>6, <1>7

-------------------------------------------------------------------------------
(***************************************************************************)
(* Syncers are launched for a swap or a request.                           *)
(***************************************************************************)
\* The syncers that are to be launched.
Missing(C, rt) == {Syncer(c) : c \in C} \ (rt.registered \cup rt.spawning)

\* syncer_up, for one chain and for both: those that are neither up nor on their way.
LEMMA SyncerUpAdds ==
    ASSUME NEW r \in Result
    PROVE  /\ \A c \in Chains : LET q == syncer_up(r, c) IN
                /\ q.rt.registered = r.rt.registered /\ q.rt.tsms = r.rt.tsms
                /\ q.rt.deals = r.rt.deals /\ q.rt.ssms = r.rt.ssms
                /\ q.rt.counter = r.rt.counter
                /\ q.rt.spawning = r.rt.spawning \cup Missing({c}, r.rt)
                /\ q.launched = r.launched \cup Missing({c}, r.rt)
           /\ LET q == syncers_up(r) IN
                /\ q.rt.registered = r.rt.registered /\ q.rt.tsms = r.rt.tsms
                /\ q.rt.deals = r.rt.deals /\ q.rt.ssms = r.rt.ssms
                /\ q.rt.counter = r.rt.counter
                /\ q.rt.spawning = r.rt.spawning \cup Missing(Chains, r.rt)
                /\ q.launched = r.launched \cup Missing(Chains, r.rt)
<1>1. ASSUME NEW q \in Result, NEW c \in Chains
      PROVE  LET s == syncer_up(q, c) IN
             /\ s.rt.registered = q.rt.registered /\ s.rt.tsms = q.rt.tsms
             /\ s.rt.deals = q.rt.deals /\ s.rt.ssms = q.rt.ssms
             /\ s.rt.counter = q.rt.counter
             /\ s.rt.spawning = q.rt.spawning \cup Missing({c}, q.rt)
             /\ s.launched = q.launched \cup Missing({c}, q.rt)
  <2>1. q.rt \in Runtime
    BY DEF Result
  <2>2. CASE Syncer(c) \in q.rt.registered \cup q.rt.spawning
    <3>1. syncer_up(q, c) = q /\ Missing({c}, q.rt) = {}
      BY <2>2 DEF syncer_up, Missing
    <3> QED
      BY <3>1
  <2>3. CASE Syncer(c) \notin q.rt.registered \cup q.rt.spawning
    <3> DEFINE s == [q EXCEPT !.launched = q.launched \cup {Syncer(c)},
                              !.rt = [q.rt EXCEPT !.spawning = q.rt.spawning \cup {Syncer(c)}]]
    <3>1. syncer_up(q, c) = s /\ Missing({c}, q.rt) = {Syncer(c)}
      BY <2>3 DEF syncer_up, Missing
    <3>2. /\ s.launched = q.launched \cup {Syncer(c)}
          /\ s.rt = [q.rt EXCEPT !.spawning = q.rt.spawning \cup {Syncer(c)}]
      BY DEF Result
    <3> HIDE DEF s
    <3>3. /\ s.rt.registered = q.rt.registered /\ s.rt.tsms = q.rt.tsms
          /\ s.rt.deals = q.rt.deals /\ s.rt.ssms = q.rt.ssms
          /\ s.rt.counter = q.rt.counter
          /\ s.rt.spawning = q.rt.spawning \cup {Syncer(c)}
      BY <2>1, <3>2 DEF Runtime
    <3> QED
      BY <3>1, <3>2, <3>3
  <2> QED
    BY <2>2, <2>3
<1> DEFINE a == syncer_up(r, "btc")
           b == syncer_up(a, "xmr")
<1>2. "btc" \in Chains /\ "xmr" \in Chains /\ Chains = {"btc"} \cup {"xmr"}
  BY DEF Chains
<1>3. /\ a \in Result
      /\ a.rt.registered = r.rt.registered /\ a.rt.tsms = r.rt.tsms
      /\ a.rt.deals = r.rt.deals /\ a.rt.ssms = r.rt.ssms
      /\ a.rt.counter = r.rt.counter
      /\ a.rt.spawning = r.rt.spawning \cup Missing({"btc"}, r.rt)
      /\ a.launched = r.launched \cup Missing({"btc"}, r.rt)
  BY <1>1, <1>2, SyncerUpType
<1>4. b = syncers_up(r)
  BY DEF syncers_up
<1> HIDE DEF a
<1>5. /\ b.rt.registered = a.rt.registered /\ b.rt.tsms = a.rt.tsms
      /\ b.rt.deals = a.rt.deals /\ b.rt.ssms = a.rt.ssms
      /\ b.rt.counter = a.rt.counter
      /\ b.rt.spawning = a.rt.spawning \cup Missing({"xmr"}, a.rt)
      /\ b.launched = a.launched \cup Missing({"xmr"}, a.rt)
  BY <1>1, <1>2, <1>3
<1> HIDE DEF b
<1>6. Missing({"btc"}, r.rt) \cup Missing({"xmr"}, a.rt) = Missing(Chains, r.rt)
  <2>1. Syncer("btc") # Syncer("xmr")
    BY DEF Syncer
  <2> QED
    BY <1>2, <1>3, <2>1 DEF Missing
<1> QED
  BY <1>1, <1>3, <1>4, <1>5, <1>6

\* A request that launches syncers, and perhaps a swapd, keeps the invariant.
LEMMA GrownCalm ==
    ASSUME NEW K, World(K), NEW r \in Result, NEW C \in SUBSET Chains, NEW X,
           r.reach = alive, told_to_stop(r) = {},
           r.rt.registered = runtime.registered, r.rt.deals = runtime.deals,
           r.rt.spawning = runtime.spawning \cup Missing(C, runtime),
           r.launched = Missing(C, runtime) \cup X,
           X \subseteq {Swap(d) : d \in Deals}, X \cap alive = {},
           Distinct(r.rt.tsms), ToSet(r.rt.tsms) \subseteq Machine,
           \A t \in ToSet(r.rt.tsms) : t \in ToSet(runtime.tsms) \/
             MachineOK(t, runtime.registered, runtime.deals, alive, (starting \ alive) \cup r.launched),
           \A m \in r.rt.ssms : m \in runtime.ssms \/
             JobOK(m, runtime.registered, (starting \ alive) \cup r.launched),
           \A t \in ToSet(runtime.tsms) : has_swap_id(t) => t \in ToSet(r.rt.tsms),
           runtime.ssms \subseteq r.rt.ssms,
           \A c \in C : \/ \E t \in ToSet(r.rt.tsms) : has_swap_id(t)
                        \/ \E m \in r.rt.ssms : m.chain = c,
           \A d \in Deals : Swap(d) \in X => \E t \in ToSet(r.rt.tsms) : has_swap_id(t) /\ t.deal = d
    PROVE  Calm(K, r.rt, r.reach \ told_to_stop(r), (starting \ r.reach) \cup r.launched)
<1> DEFINE st == (starting \ alive) \cup r.launched
<1>1. /\ Tidy(K, runtime, alive, starting)
      /\ \A m \in runtime.ssms : JobOK(m, runtime.registered, starting)
      /\ \A t \in ToSet(runtime.tsms) : MachineOK(t, runtime.registered, runtime.deals, alive, starting)
  BY DEF World, CalmInv, Calm
<1>2. ASSUME NEW c \in Chains
      PROVE  /\ Syncer(c) \in Missing(C, runtime) <=>
                  c \in C /\ Syncer(c) \notin runtime.registered \cup runtime.spawning
             /\ Syncer(c) \notin X
  BY ZenonT(120) DEF Missing, Syncer, Swap
<1>3. ASSUME NEW c \in Chains
      PROVE  /\ Syncer(c) \in r.rt.spawning <=> Syncer(c) \in st
             /\ Syncer(c) \in starting => Syncer(c) \in st
             /\ Syncer(c) \in st => Syncer(c) \in starting \/ c \in C
             /\ ~(Syncer(c) \in st /\ Syncer(c) \in alive)
  <2>1. /\ Syncer(c) \in runtime.spawning <=> Syncer(c) \in starting
        /\ Syncer(c) \in alive => Syncer(c) \in runtime.registered
        /\ ~(Syncer(c) \in starting /\ Syncer(c) \in alive)
    BY <1>1 DEF Tidy
  <2> QED
    BY <1>2, <2>1
<1>4. ASSUME NEW d \in Deals
      PROVE  /\ Swap(d) \in starting => Swap(d) \in st
             /\ Swap(d) \in st => Swap(d) \in starting \/ Swap(d) \in X
             /\ ~(Swap(d) \in st /\ Swap(d) \in alive)
  <2>1. ~(Swap(d) \in starting /\ Swap(d) \in alive)
    BY <1>1 DEF Tidy
  <2>2. Swap(d) \notin Missing(C, runtime)
    BY DEF Missing, Syncer, Swap
  <2> QED
    BY <2>1, <2>2
<1>5. r.reach \ told_to_stop(r) = alive /\ (starting \ r.reach) \cup r.launched = st
  OBVIOUS
<1> HIDE DEF st
<1>6. \A t \in ToSet(r.rt.tsms) : MachineOK(t, r.rt.registered, r.rt.deals, alive, st)
  <2> SUFFICES ASSUME NEW t \in ToSet(r.rt.tsms), t \in ToSet(runtime.tsms)
               PROVE  MachineOK(t, r.rt.registered, r.rt.deals, alive, st)
    BY DEF st
  <2>1. t \in Machine /\ MachineOK(t, runtime.registered, runtime.deals, alive, starting)
    BY <1>1
  <2> QED
    BY <1>3, <1>4, <2>1, MachineKept
<1>7. \A m \in r.rt.ssms : JobOK(m, r.rt.registered, st)
  <2> SUFFICES ASSUME NEW m \in runtime.ssms
               PROVE  JobOK(m, r.rt.registered, st)
    BY DEF st
  <2>1. m.chain \in Chains
    BY DEF World, TypeOK, Runtime, Request
  <2> QED
    BY <1>1, <1>3, <2>1 DEF JobOK
<1>8. Tidy(K, r.rt, alive, st)
  <2>1. ASSUME NEW c \in Chains, Syncer(c) \in st \/ (Syncer(c) \in alive /\ c \notin K)
        PROVE  \/ \E t \in ToSet(r.rt.tsms) : has_swap_id(t)
               \/ \E m \in r.rt.ssms : m.chain = c
    <3>1. CASE c \in C
      BY <3>1
    <3>2. CASE Syncer(c) \in starting \/ (Syncer(c) \in alive /\ c \notin K)
      <4>1. \/ \E t \in ToSet(runtime.tsms) : has_swap_id(t)
            \/ \E m \in runtime.ssms : m.chain = c
        BY <1>1, <3>2 DEF Tidy
      <4> QED
        BY <4>1
    <3> QED
      BY <1>3, <2>1, <3>1, <3>2
  <2>2. ASSUME NEW d \in Deals, Swap(d) \in alive \cup st
        PROVE  \E t \in ToSet(r.rt.tsms) : has_swap_id(t) /\ t.deal = d
    <3>1. CASE Swap(d) \in X
      BY <3>1
    <3>2. CASE Swap(d) \in alive \cup starting
      <4>1. \E t \in ToSet(runtime.tsms) : has_swap_id(t) /\ t.deal = d
        BY <1>1, <3>2 DEF Tidy
      <4> QED
        BY <4>1
    <3> QED
      BY <1>4, <2>2, <3>1, <3>2
  <2> QED
    BY <1>1, <1>3, <1>4, <2>1, <2>2 DEF Tidy
<1> QED
  BY <1>5, <1>6, <1>7, <1>8, ZenonT(120) DEF Calm

\* SweepAddress, GetBalance or HealthCheck (Start).
LEMMA StartCalm ==
    ASSUME NEW K, World(K), NEW c \in Chains, NEW k \in Users, k \in Service
    PROVE  LET r == start_job(Now, c, k) IN
           /\ r \in Result /\ r.reach = alive /\ told_to_stop(r) = {}
           /\ Calm(K, r.rt, r.reach \ told_to_stop(r), (starting \ r.reach) \cup r.launched)
<1> DEFINE m    == Job(Now.rt.counter, c, k, FALSE)
           more == [Now EXCEPT !.rt.counter = @ + 1]
           s    == syncer_up(more, c)
           S    == s.rt.ssms \cup {m}
           r    == start_job(Now, c, k)
<1>1. /\ TypeOK /\ Tidy(K, runtime, alive, starting) /\ Now \in Result /\ runtime \in Runtime
      /\ Now.rt = runtime /\ Now.reach = alive /\ Now.sent = {} /\ Now.launched = {} /\ Now.ok
      /\ runtime.tsms \in Seq(Machine) /\ Distinct(runtime.tsms)
  BY BeginType DEF World, CalmInv, Calm, TypeOK, Runtime
<1>2. m \in Request /\ m.chain = c /\ m.client = k /\ ~m.given
  BY <1>1 DEF Job, Request, Runtime
<1>3. /\ more \in Result /\ more.reach = alive /\ more.sent = {} /\ more.launched = {} /\ more.ok
      /\ more.rt.registered = runtime.registered /\ more.rt.spawning = runtime.spawning
      /\ more.rt.tsms = runtime.tsms /\ more.rt.deals = runtime.deals
      /\ more.rt.ssms = runtime.ssms
  <2>1. more = [Now EXCEPT !.rt = [runtime EXCEPT !.counter = runtime.counter + 1]]
    BY <1>1
  <2>2. /\ more \in Result /\ more.rt = [runtime EXCEPT !.counter = runtime.counter + 1]
        /\ more.reach = alive /\ more.sent = {} /\ more.launched = {} /\ more.ok
    BY <1>1, <2>1 DEF Result, Runtime
  <2> HIDE DEF more
  <2> QED
    BY <1>1, <2>2 DEF Runtime
<1>4. r = IF c \in registered_chains(s) THEN give_task(s, m) ELSE Tasked(s, S)
  BY DEF start_job, Tasked
<1> HIDE DEF more, m
<1>5. /\ s \in Result /\ s.reach = alive /\ s.sent = {} /\ s.ok
      /\ s.rt.registered = runtime.registered /\ s.rt.tsms = runtime.tsms
      /\ s.rt.deals = runtime.deals /\ s.rt.ssms = runtime.ssms
      /\ s.rt.spawning = runtime.spawning \cup Missing({c}, runtime)
      /\ s.launched = Missing({c}, runtime)
  BY <1>3, SyncerUpType, SyncerUpAdds DEF Missing
<1> HIDE DEF s, r
<1> DEFINE st == (starting \ alive) \cup Missing({c}, runtime)
           Asked_(q, u) ==
             /\ q \in Result /\ q.reach = alive /\ told_to_stop(q) = {}
             /\ q.rt.registered = runtime.registered /\ q.rt.tsms = runtime.tsms
             /\ q.rt.deals = runtime.deals
             /\ q.rt.spawning = runtime.spawning \cup Missing({c}, runtime)
             /\ q.launched = Missing({c}, runtime)
             /\ q.rt.ssms = runtime.ssms \cup {u} /\ u.chain = c
             /\ JobOK(u, runtime.registered, st)
<1>6. ASSUME c \in registered_chains(s)
      PROVE  Asked_(r, Given(m))
  <2> DEFINE q == give_task(s, m)
  <2>1. Syncer(c) \in runtime.registered /\ Syncer(c) \in alive
    BY <1>1, <1>5, <1>6 DEF registered_chains, Tidy
  <2>2. /\ q \in Result /\ q.rt = [s.rt EXCEPT !.ssms = q.rt.ssms]
        /\ q.reach = s.reach /\ q.launched = s.launched
        /\ q.rt.ssms = s.rt.ssms \cup {Given(m)}
        /\ q.sent = s.sent \cup {[to |-> Syncer(m.chain), msg |-> "Task", arg |-> m.task]}
    BY <1>2, <1>5, <2>1, GiveType
  <2> HIDE DEF q
  <2>3. /\ q.rt.registered = s.rt.registered /\ q.rt.tsms = s.rt.tsms
        /\ q.rt.deals = s.rt.deals /\ q.rt.spawning = s.rt.spawning
  <3>1. s.rt \in Runtime
    BY <1>5 DEF Result
  <3> QED
    BY <2>2, <3>1 DEF Runtime
  <2>4. told_to_stop(q) = {}
    BY <1>5, <2>2 DEF told_to_stop
  <2>5. Given(m).chain = c /\ Given(m).client = k /\ Given(m).given
    BY <1>2 DEF Given, Request
  <2>6. JobOK(Given(m), runtime.registered, st)
    BY <2>1, <2>5 DEF JobOK
  <2>7. r = q
    BY <1>4, <1>6 DEF q
  <2> HIDE DEF st
  <2> QED
    BY <1>5, <2>2, <2>3, <2>4, <2>5, <2>6, <2>7
<1>7. ASSUME c \notin registered_chains(s)
      PROVE  Asked_(r, m)
  <2> DEFINE q == Tasked(s, S)
  <2>1. S \in SUBSET Request
    BY <1>2, <1>5 DEF Result, Runtime
  <2> HIDE DEF S
  <2>2. /\ q \in Result /\ q.rt.ssms = S
        /\ q.rt.registered = s.rt.registered /\ q.rt.spawning = s.rt.spawning
        /\ q.rt.tsms = s.rt.tsms /\ q.rt.deals = s.rt.deals
        /\ q.reach = s.reach /\ q.sent = s.sent /\ q.launched = s.launched
    BY <1>5, <2>1, TaskedType
  <2>3. r = q
    BY <1>4, <1>7 DEF q
  <2> HIDE DEF q
  <2>4. told_to_stop(q) = {}
    BY <1>5, <2>2 DEF told_to_stop
  <2>5. Syncer(c) \in st
    <3>1. Syncer(c) \notin runtime.registered
      BY <1>5, <1>7 DEF registered_chains
    <3>2. Syncer(c) \in runtime.spawning => Syncer(c) \in starting \ alive
      BY <1>1, <3>1 DEF Tidy
    <3> QED
      BY <3>1, <3>2 DEF Missing
  <2>6. JobOK(m, runtime.registered, st)
    BY <1>2, <2>5 DEF JobOK
  <2> HIDE DEF st
  <2> QED
    BY <1>2, <1>5, <2>2, <2>3, <2>4, <2>6 DEF S
<1>8. ASSUME NEW q, NEW u, Asked_(q, u)
      PROVE  /\ q \in Result /\ q.reach = alive /\ told_to_stop(q) = {}
             /\ Calm(K, q.rt, q.reach \ told_to_stop(q), (starting \ q.reach) \cup q.launched)
  <2>1. ToSet(q.rt.tsms) \subseteq Machine
    <3>1. DOMAIN runtime.tsms = 1..Len(runtime.tsms)
      BY <1>1, LenProperties
    <3> QED
      BY <1>1, <1>8, <3>1, ElementOfSeq DEF ToSet
  <2>2. \A x \in q.rt.ssms : x \in runtime.ssms \/
          JobOK(x, runtime.registered, (starting \ alive) \cup q.launched)
    BY <1>8
  <2>3. {c} \in SUBSET Chains /\ \A x \in {c} : \E y \in q.rt.ssms : y.chain = x
    BY <1>8
  <2>4. /\ q \in Result /\ q.reach = alive /\ told_to_stop(q) = {}
        /\ q.rt.registered = runtime.registered /\ q.rt.tsms = runtime.tsms
        /\ q.rt.deals = runtime.deals
        /\ q.rt.spawning = runtime.spawning \cup Missing({c}, runtime)
        /\ q.launched = Missing({c}, runtime) \cup {}
        /\ runtime.ssms \subseteq q.rt.ssms
    BY <1>8
  <2> HIDE DEF Asked_, st
  <2>5. \A x \in {c} : \/ \E y \in ToSet(q.rt.tsms) : has_swap_id(y)
                       \/ \E y \in q.rt.ssms : y.chain = x
    BY <2>3
  <2>6. /\ Distinct(q.rt.tsms)
        /\ \A y \in ToSet(q.rt.tsms) : y \in ToSet(runtime.tsms)
        /\ \A y \in ToSet(runtime.tsms) : y \in ToSet(q.rt.tsms)
    BY <1>1, <2>4
  <2>7. Calm(K, q.rt, q.reach \ told_to_stop(q), (starting \ q.reach) \cup q.launched)
    BY <2>1, <2>2, <2>3, <2>4, <2>5, <2>6, GrownCalm
  <2> QED
    BY <2>4, <2>7
<1> HIDE DEF Asked_
<1> QED
  BY <1>6, <1>7, <1>8 DEF r

\* TakerCommit and TakeDeal on SwapKeys: the syncers that are up are noted, the others and the
\* swapd launched (swapd_launched).
LEMMA KeysCalm ==
    ASSUME NEW K, World(K), NEW i \in 1..Len(runtime.tsms), runtime.tsms[i].st \in {"TakerCommit", "TakeDeal"}
    PROVE  LET r == swapd_launched(taken(Now, i), runtime.tsms[i]) IN
           /\ r \in Result /\ r.reach = alive /\ told_to_stop(r) = {}
           /\ Calm(K, r.rt, r.reach \ told_to_stop(r), (starting \ r.reach) \cup r.launched)
<1> DEFINE o == taken(Now, i)
           t == runtime.tsms[i]
           s == syncers_up(o)
           X == {Swap(t.deal)}
           q == [s EXCEPT !.launched = @ \cup X]
           u == [t EXCEPT !.st = "SwapdLaunched", !.up = registered_chains(s)]
           r == swapd_launched(o, t)
<1>1. /\ o \in Result /\ o.ok /\ o.reach = alive /\ told_to_stop(o) = {} /\ o.launched = {}
      /\ o.rt.tsms = RemoveAt(runtime.tsms, i) /\ o.rt.deals = runtime.deals
      /\ o.rt.registered = runtime.registered /\ o.rt.spawning = runtime.spawning
      /\ o.rt.ssms = runtime.ssms
      /\ t \in Machine /\ t \in ToSet(runtime.tsms)
      /\ MachineOK(t, runtime.registered, runtime.deals, alive, starting)
  BY TakenCalm
<1>2. /\ runtime.tsms \in Seq(Machine) /\ Distinct(runtime.tsms)
      /\ Tidy(K, runtime, alive, starting) /\ DOMAIN runtime.tsms = 1..Len(runtime.tsms)
  BY LenProperties DEF World, TypeOK, Runtime, CalmInv, Calm
<1>3. r = push(q, u)
  BY DEF swapd_launched
<1>4. ~has_swap_id(t) /\ t.deal \in Deals /\ t.st # "MakeDeal"
  BY <1>1 DEF has_swap_id, Machine
<1> HIDE DEF o, t
<1>5. /\ s \in Result /\ s.reach = alive /\ s.ok /\ s.sent = o.sent
      /\ s.rt.registered = runtime.registered /\ s.rt.tsms = RemoveAt(runtime.tsms, i)
      /\ s.rt.deals = runtime.deals /\ s.rt.ssms = runtime.ssms
      /\ s.rt.spawning = runtime.spawning \cup Missing(Chains, runtime)
      /\ s.launched = Missing(Chains, runtime)
  BY <1>1, SyncerUpType, SyncerUpAdds DEF Missing
<1>6. registered_chains(s) = {c \in Chains : Syncer(c) \in runtime.registered}
  BY <1>5 DEF registered_chains
<1> HIDE DEF s
<1>7. Swap(t.deal) \in Service
  BY <1>4, Services
<1>8. /\ q \in Result /\ q.rt = s.rt /\ q.reach = alive /\ q.ok /\ q.sent = s.sent
      /\ q.launched = Missing(Chains, runtime) \cup X
  BY <1>5, <1>7 DEF Result
<1>9. /\ u \in Machine /\ u.deal = t.deal /\ u.st = "SwapdLaunched"
      /\ u.up = {c \in Chains : Syncer(c) \in runtime.registered}
  BY <1>1, <1>6, ZenonT(120) DEF Machine
<1> HIDE DEF q, u
<1>10. /\ r \in Result /\ Leaves(r, q) /\ r.sent = q.sent
       /\ r.rt.tsms = Append(RemoveAt(runtime.tsms, i), u)
  <2>1. /\ push(q, u) \in Result /\ Leaves(push(q, u), q) /\ push(q, u).sent = q.sent
        /\ push(q, u).rt.tsms = IF q.ok THEN Append(q.rt.tsms, u) ELSE q.rt.tsms
    BY <1>8, <1>9, PushType
  <2> HIDE DEF r
  <2> QED
    BY <1>3, <1>5, <1>8, <2>1
<1> HIDE DEF r
<1>11. /\ r.reach = alive /\ told_to_stop(r) = {}
       /\ r.rt.registered = runtime.registered /\ r.rt.deals = runtime.deals
       /\ r.rt.ssms = runtime.ssms
       /\ r.rt.spawning = runtime.spawning \cup Missing(Chains, runtime)
       /\ r.launched = Missing(Chains, runtime) \cup X
  <2>1. told_to_stop(r) = {}
    BY <1>1, <1>5, <1>8, <1>10 DEF told_to_stop
  <2>2. /\ r.reach = q.reach /\ r.launched = q.launched
        /\ r.rt.registered = q.rt.registered /\ r.rt.deals = q.rt.deals
        /\ r.rt.ssms = q.rt.ssms /\ r.rt.spawning = q.rt.spawning
    BY <1>10 DEF Leaves
  <2> QED
    BY <1>5, <1>8, <2>1, <2>2
<1>12. /\ Distinct(r.rt.tsms)
       /\ ToSet(r.rt.tsms) = (ToSet(runtime.tsms) \ {t}) \cup {u}
       /\ \A x \in ToSet(runtime.tsms) \ {t} : x.deal # t.deal
  <2> DEFINE a == RemoveAt(runtime.tsms, i)
  <2>1. /\ Distinct(a) /\ ToSet(a) = ToSet(runtime.tsms) \ {t}
        /\ \A x \in ToSet(a) : x.deal # t.deal
    BY <1>2, RemovedList DEF t
  <2>2. a \in Seq(Machine)
    BY <1>2, Removal
  <2> HIDE DEF a
  <2>3. /\ ToSet(Append(a, u)) = ToSet(a) \cup {u} /\ Distinct(Append(a, u))
    BY <1>9, <2>1, <2>2, AppendedList
  <2> QED
    BY <1>10, <2>1, <2>3 DEF a
<1>13. ToSet(r.rt.tsms) \subseteq Machine
  <2>1. ToSet(runtime.tsms) \subseteq Machine
    BY <1>2, ElementOfSeq DEF ToSet
  <2> QED
    BY <1>9, <1>12, <2>1
<1>14. X \cap (alive \cup starting) = {}
  <2>1. ~ \E x \in ToSet(runtime.tsms) : has_swap_id(x) /\ x.deal = t.deal
    BY <1>4, <1>12
  <2> QED
    BY <1>2, <1>4, <2>1 DEF Tidy
<1> DEFINE st == (starting \ alive) \cup r.launched
<1>15. has_swap_id(u)
  BY <1>9 DEF has_swap_id
<1>16. MachineOK(u, runtime.registered, runtime.deals, alive, st)
  <2>1. ASSUME NEW c \in Chains, c \notin u.up
        PROVE  Syncer(c) \in st
    <3>1. Syncer(c) \notin runtime.registered
      BY <1>9, <2>1
    <3>2. Syncer(c) \in runtime.spawning => Syncer(c) \in starting \ alive
      BY <1>2, <3>1 DEF Tidy
    <3> QED
      BY <1>11, <3>1, <3>2 DEF Missing
  <2>2. "swapd" \notin u.up /\ Swap(u.deal) \in st
    BY <1>9, <1>11 DEF Chains
  <2>3. /\ {Wallet, Database} \subseteq runtime.registered
        /\ u.deal \in MakerDeals => u.deal \in runtime.deals
    BY <1>1, <1>9 DEF MachineOK
  <2> HIDE DEF st
  <2> QED
    BY <1>9, <1>15, <2>1, <2>2, <2>3 DEF MachineOK
<1>17. Calm(K, r.rt, r.reach \ told_to_stop(r), (starting \ r.reach) \cup r.launched)
  <2>1. \A x \in ToSet(r.rt.tsms) : x \in ToSet(runtime.tsms) \/
          MachineOK(x, runtime.registered, runtime.deals, alive, (starting \ alive) \cup r.launched)
    BY <1>12, <1>16
  <2>2. \A x \in ToSet(runtime.tsms) : has_swap_id(x) => x \in ToSet(r.rt.tsms)
    BY <1>4, <1>12
  <2>3. \E x \in ToSet(r.rt.tsms) : has_swap_id(x) /\ x.deal = t.deal
    BY <1>9, <1>12, <1>15
  <2>4. \A d \in Deals : Swap(d) \in X => \E x \in ToSet(r.rt.tsms) : has_swap_id(x) /\ x.deal = d
    BY <2>3 DEF Swap
  <2>5. X \subseteq {Swap(d) : d \in Deals} /\ X \cap alive = {}
    BY <1>4, <1>14
  <2> HIDE DEF X, st
  <2>6. \A c \in Chains : \/ \E x \in ToSet(r.rt.tsms) : has_swap_id(x)
                          \/ \E m \in r.rt.ssms : m.chain = c
    BY <2>3
  <2> QED
    BY <1>10, <1>11, <1>12, <1>13, <2>1, <2>2, <2>4, <2>5, <2>6, GrownCalm
<1> QED
  BY <1>10, <1>11, <1>17 DEF r, o, t

-------------------------------------------------------------------------------
(***************************************************************************)
(* What nothing uses is terminated.                                        *)
(***************************************************************************)

\* What is still used stays, whichever machine or request has been moved out
\* (clean_up_after_syncer_usage, clean_up_after_swap).
LEMMA CleanCalm ==
    ASSUME NEW K, World(K), NEW q \in Result, NEW U \in SUBSET Unused(q), unused_syncers(q) \subseteq U,
           q.reach = alive, q.launched = {},
           q.rt.registered = runtime.registered, q.rt.spawning = runtime.spawning,
           q.rt.deals = runtime.deals,
           Distinct(q.rt.tsms), ToSet(q.rt.tsms) \subseteq ToSet(runtime.tsms),
           q.rt.ssms \subseteq runtime.ssms,
           told_to_stop(q) \subseteq {Swap(d) : d \in Deals},
           \A t \in ToSet(q.rt.tsms) : has_swap_id(t) => Swap(t.deal) \notin told_to_stop(q),
           \A d \in Deals : Swap(d) \in (alive \ told_to_stop(q)) \cup starting =>
             \E t \in ToSet(q.rt.tsms) : has_swap_id(t) /\ t.deal = d,
           \A c \in Chains : Syncer(c) \in starting =>
             \/ \E t \in ToSet(q.rt.tsms) : has_swap_id(t)
             \/ \E m \in q.rt.ssms : m.chain = c
    PROVE  LET r == terminate(q, U) IN
           /\ r \in Result /\ r.reach = alive
           /\ told_to_stop(r) = told_to_stop(q) \cup U
           /\ \A m : m \in q.sent => m \in r.sent
           /\ U \subseteq peers(alive) \cup syncers(alive)
           /\ Calm(K, r.rt, r.reach \ told_to_stop(r), (starting \ r.reach) \cup r.launched)
<1> DEFINE r  == terminate(q, U)
           al == alive \ (told_to_stop(q) \cup U)
           st == starting \ alive
<1>1. /\ TypeOK /\ Tidy(K, runtime, alive, starting) /\ runtime.registered \subseteq alive
      /\ \A m \in runtime.ssms : JobOK(m, runtime.registered, starting)
      /\ \A t \in ToSet(runtime.tsms) : MachineOK(t, runtime.registered, runtime.deals, alive, starting)
      /\ runtime.tsms \in Seq(Machine) /\ runtime.ssms \subseteq Request
  BY DEF World, CalmInv, Calm, Tidy, TypeOK, Runtime
<1>2. ToSet(runtime.tsms) \subseteq Machine
  BY <1>1, ElementOfSeq DEF ToSet
<1>3. U \in SUBSET Service /\ U \subseteq runtime.registered /\ U \cap q.reach = U
  <2>1. Unused(q) \in SUBSET Service
    BY EndType
  <2>2. Unused(q) \subseteq runtime.registered
    BY DEF Unused, unused_syncers, unused_peers, syncers, peers
  <2> QED
    BY <1>1, <2>1, <2>2
<1>4. \A s \in U : s.kind \in {"peer", "syncer"}
  BY DEF Unused, unused_syncers, unused_peers, syncers, peers
<1>5. /\ r \in Result /\ r.rt.registered = runtime.registered \ U
      /\ r.rt = [q.rt EXCEPT !.registered = r.rt.registered]
      /\ r.reach = alive /\ r.launched = {}
      /\ \A m : m \in r.sent <=>
           \/ m \in q.sent
           \/ \E s \in U : m = [to |-> s, msg |-> "Terminate", arg |-> None]
  BY <1>3, TerminateType
<1> HIDE DEF r
<1>6. /\ r.rt.tsms = q.rt.tsms /\ r.rt.ssms = q.rt.ssms /\ r.rt.deals = runtime.deals
      /\ r.rt.spawning = runtime.spawning
  <2>1. q.rt \in Runtime
    BY DEF Result
  <2> QED
    BY <1>5, <2>1 DEF Runtime
<1>7. told_to_stop(r) = told_to_stop(q) \cup U
  <2>1. ASSUME NEW s \in U
        PROVE  s \in told_to_stop(r)
    <3>1. [to |-> s, msg |-> "Terminate", arg |-> None] \in r.sent
      BY <1>5
    <3> QED
      BY <3>1 DEF told_to_stop
  <2>2. told_to_stop(q) \subseteq told_to_stop(r)
    BY <1>5 DEF told_to_stop
  <2>3. told_to_stop(r) \subseteq told_to_stop(q) \cup U
    BY <1>5 DEF told_to_stop
  <2> QED
    BY <2>1, <2>2, <2>3
<1>8. U \subseteq peers(alive) \cup syncers(alive)
  BY <1>1, <1>3, <1>4 DEF peers, syncers
<1>9. ASSUME NEW c \in Chains
      PROVE  /\ Syncer(c) \notin told_to_stop(q) /\ Syncer(c).kind = "syncer"
             /\ Syncer(c) \in U <=> /\ Syncer(c) \in runtime.registered
                                    /\ ~ \E t \in ToSet(q.rt.tsms) : c \in syncers_of(t)
                                    /\ ~ \E m \in q.rt.ssms : m.chain = c
             /\ Syncer(c) \in al <=> Syncer(c) \in runtime.registered \ U
             /\ Syncer(c) \in st <=> Syncer(c) \in starting
             /\ ~(Syncer(c) \in starting /\ Syncer(c) \in alive)
  <2>1. Syncer(c).kind = "syncer" /\ Syncer(c).chain = c
    BY DEF Syncer
  <2>2. Syncer(c) \notin told_to_stop(q)
    BY <2>1, Kinds
  <2>3. Syncer(c) \in U <=> Syncer(c) \in unused_syncers(q)
    BY <2>1 DEF Unused, unused_peers, peers
  <2>4. Syncer(c) \in unused_syncers(q)
          <=> /\ Syncer(c) \in runtime.registered
              /\ ~ \E t \in ToSet(q.rt.tsms) : c \in syncers_of(t)
              /\ ~ \E m \in q.rt.ssms : m.chain = c
    BY <2>1 DEF unused_syncers, syncers, syncer_has_client
  <2>5. /\ Syncer(c) \in alive => Syncer(c) \in runtime.registered
        /\ ~(Syncer(c) \in starting /\ Syncer(c) \in alive)
    BY <1>1 DEF Tidy
  <2> QED
    BY <1>1, <2>1, <2>2, <2>3, <2>4, <2>5
<1>10. ASSUME NEW d \in Deals
       PROVE  /\ Swap(d) \in al <=> Swap(d) \in alive \ told_to_stop(q)
              /\ Swap(d) \in st <=> Swap(d) \in starting
              /\ ~(Swap(d) \in starting /\ Swap(d) \in alive)
  <2>1. Swap(d) \notin U
    BY <1>4, Kinds
  <2>2. ~(Swap(d) \in starting /\ Swap(d) \in alive)
    BY <1>1 DEF Tidy
  <2> QED
    BY <2>1, <2>2
<1>11. \A s : s.kind \notin {"peer", "syncer", "swap"} => s \notin told_to_stop(q) \cup U
  BY <1>4, Kinds
<1> HIDE DEF al, st
<1>12. ASSUME NEW t \in ToSet(q.rt.tsms)
       PROVE  MachineOK(t, r.rt.registered, r.rt.deals, al, st)
  <2>1. /\ t \in Machine /\ t.deal \in Deals
        /\ MachineOK(t, runtime.registered, runtime.deals, alive, starting)
    BY <1>1, <1>2 DEF Machine
  <2>2. ASSUME has_swap_id(t), NEW c \in Chains, c \in t.up
        PROVE  Syncer(c) \in r.rt.registered
    <3>1. c \in syncers_of(t)
      BY <2>1, <2>2 DEF MachineOK, has_swap_id, syncers_of
    <3>2. Syncer(c) \in runtime.registered
      BY <2>1, <2>2 DEF MachineOK
    <3> QED
      BY <1>5, <1>9, <3>1, <3>2
  <2>3. ASSUME has_swap_id(t), NEW c \in Chains, c \notin t.up
        PROVE  Syncer(c) \in st
    BY <1>9, <2>1, <2>3 DEF MachineOK
  <2>4. has_swap_id(t) => /\ "swapd" \in t.up => Swap(t.deal) \in al
                          /\ "swapd" \notin t.up => Swap(t.deal) \in st
    BY <1>10, <2>1 DEF MachineOK
  <2>5. {Wallet, Database} \subseteq r.rt.registered
    BY <1>5, <1>11, <2>1, Kinds DEF MachineOK
  <2> QED
    BY <1>6, <2>1, <2>2, <2>3, <2>4, <2>5 DEF MachineOK
<1>13. ASSUME NEW m \in q.rt.ssms
       PROVE  JobOK(m, r.rt.registered, st)
  <2>1. m.chain \in Chains /\ JobOK(m, runtime.registered, starting)
    BY <1>1 DEF Request
  <2> QED
    BY <1>5, <1>9, <2>1 DEF JobOK
<1>14. Tidy(K, r.rt, al, st)
  <2>1. r.rt.registered \subseteq al
    <3>1. \A s \in runtime.registered : s.kind \in {"database", "wallet", "peer", "syncer"}
      BY <1>1 DEF Tidy
    <3>2. \A s \in runtime.registered : s \notin told_to_stop(q)
      BY <3>1, Kinds
    <3> QED
      BY <1>1, <1>5, <3>2 DEF al
  <2>2. \A s \in r.rt.registered : s.kind \in {"database", "wallet", "peer", "syncer"}
    BY <1>1, <1>5 DEF Tidy
  <2>3. Users \subseteq al
    <3>1. Users \subseteq alive
      BY <1>1 DEF Tidy
    <3> QED
      BY <1>11, <3>1, Kinds DEF al
  <2>4. \A c \in Chains : /\ Syncer(c) \in r.rt.spawning <=> Syncer(c) \in st
                          /\ Syncer(c) \in al => Syncer(c) \in r.rt.registered
                          /\ ~(Syncer(c) \in st /\ Syncer(c) \in al)
    BY <1>1, <1>5, <1>6, <1>9 DEF Tidy
  <2>5. ASSUME NEW c \in Chains, Syncer(c) \in st \/ (Syncer(c) \in al /\ c \notin K)
        PROVE  \/ \E t \in ToSet(r.rt.tsms) : has_swap_id(t)
               \/ \E m \in r.rt.ssms : m.chain = c
    <3>1. CASE Syncer(c) \in st
      BY <1>6, <1>9, <3>1
    <3>2. CASE Syncer(c) \in al
      <4>1. \/ \E t \in ToSet(q.rt.tsms) : c \in syncers_of(t)
            \/ \E m \in q.rt.ssms : m.chain = c
        BY <1>9, <3>2
      <4>2. \A t : c \in syncers_of(t) => has_swap_id(t)
        BY DEF syncers_of, has_swap_id
      <4> QED
        BY <1>6, <4>1, <4>2
    <3> QED
      BY <2>5, <3>1, <3>2
  <2>6. \A d \in Deals : /\ ~(Swap(d) \in st /\ Swap(d) \in al)
                         /\ Swap(d) \in al \cup st =>
                             \E t \in ToSet(r.rt.tsms) : has_swap_id(t) /\ t.deal = d
    BY <1>6, <1>10
  <2> QED
    BY <2>1, <2>2, <2>3, <2>4, <2>5, <2>6 DEF Tidy
<1>15. Calm(K, r.rt, al, st)
  BY <1>6, <1>12, <1>13, <1>14 DEF Calm
<1>16. r.reach \ told_to_stop(r) = al /\ (starting \ r.reach) \cup r.launched = st
  BY <1>5, <1>7 DEF al, st
<1>17. Calm(K, r.rt, r.reach \ told_to_stop(r), (starting \ r.reach) \cup r.launched)
  BY <1>15, <1>16
<1>18. /\ r \in Result /\ r.reach = alive /\ told_to_stop(r) = told_to_stop(q) \cup U
       /\ \A m : m \in q.sent => m \in r.sent
  BY <1>5, <1>7
<1> QED
  BY <1>8, <1>17, <1>18 DEF r

\* Success, failure or the answer of a syncer (AwaitingSyncerRequest).
LEMMA AnswerCalm ==
    ASSUME NEW K, World(K), NEW m \in runtime.ssms, m.given
    PROVE  LET r == end_job(Tasked(Now, Now.rt.ssms \ {m}), m) IN
           /\ r \in Result /\ r.reach = alive /\ told_to_stop(r) \subseteq peers(alive) \cup syncers(alive)
           /\ m.client \in alive =>
                Calm(K, r.rt, r.reach \ told_to_stop(r), (starting \ r.reach) \cup r.launched)
           /\ m.client \notin alive =>
                /\ Calm(K \cup {m.chain}, r.rt, r.reach \ told_to_stop(r),
                        (starting \ r.reach) \cup r.launched)
                /\ r.rt.ssms = runtime.ssms \ {m}
<1> DEFINE o == Tasked(Now, Now.rt.ssms \ {m})
           q == send(o, m.client, "Answer", m.task)
           U == unused_syncers(q)
<1>1. /\ TypeOK /\ Tidy(K, runtime, alive, starting) /\ Now \in Result
      /\ Now.rt = runtime /\ Now.reach = alive /\ Now.sent = {} /\ Now.launched = {} /\ Now.ok
      /\ runtime.tsms \in Seq(Machine) /\ Distinct(runtime.tsms) /\ runtime.ssms \subseteq Request
      /\ \A x \in runtime.ssms : JobOK(x, runtime.registered, starting)
      /\ \A x \in ToSet(runtime.tsms) :
           MachineOK(x, runtime.registered, runtime.deals, alive, starting)
  BY BeginType DEF World, CalmInv, Calm, TypeOK, Runtime
<1>2. /\ o \in Result /\ o.rt.ssms = runtime.ssms \ {m}
      /\ o.rt.registered = runtime.registered /\ o.rt.spawning = runtime.spawning
      /\ o.rt.tsms = runtime.tsms /\ o.rt.deals = runtime.deals
      /\ o.reach = alive /\ o.ok /\ o.sent = {} /\ o.launched = {}
  <2> DEFINE S == Now.rt.ssms \ {m}
  <2>1. S \in SUBSET Request /\ S = runtime.ssms \ {m}
    BY <1>1
  <2> HIDE DEF S
  <2>2. /\ Tasked(Now, S) \in Result /\ Tasked(Now, S).rt.ssms = S
        /\ Tasked(Now, S).rt.registered = Now.rt.registered
        /\ Tasked(Now, S).rt.spawning = Now.rt.spawning
        /\ Tasked(Now, S).rt.tsms = Now.rt.tsms /\ Tasked(Now, S).rt.deals = Now.rt.deals
        /\ Tasked(Now, S).reach = Now.reach /\ Tasked(Now, S).ok = Now.ok
        /\ Tasked(Now, S).sent = Now.sent /\ Tasked(Now, S).launched = Now.launched
    BY <1>1, <2>1, TaskedType, ZenonT(300)
  <2>3. o = Tasked(Now, S)
    BY DEF S
  <2> HIDE DEF o
  <2> QED
    BY <1>1, <2>1, <2>2, <2>3
<1> HIDE DEF o
<1>3. m.client \in Service /\ m.task \in Nat /\ m.chain \in Chains
  BY <1>1 DEF Request
<1>4. /\ q \in Result /\ Sends(q, o) /\ Quiet(q, o)
      /\ q.ok <=> m.client \in alive
  <2>1. q \in Result /\ Sends(q, o) /\ Quiet(q, o) /\ (o.ok /\ m.client \in o.reach => q.ok)
    BY <1>2, <1>3, SendType, Messages
  <2>2. m.client \notin o.reach => ~q.ok
    BY <1>2 DEF send, Result
  <2> QED
    BY <1>2, <2>1, <2>2
<1>5. end_job(o, m) = IF m.client \in alive THEN terminate(q, U) ELSE q
  BY <1>4 DEF end_job, clean_up_after_syncer_usage
<1> HIDE DEF q
<1>6. /\ q.rt = o.rt /\ q.reach = alive /\ q.launched = {} /\ told_to_stop(q) = {}
  BY <1>2, <1>4 DEF Sends, Quiet, told_to_stop
<1>7. U \in SUBSET Unused(q) /\ unused_syncers(q) \subseteq U
  BY DEF Unused
<1> HIDE DEF U
<1>8. \A c \in Chains : Syncer(c) \in starting =>
        \/ \E t \in ToSet(q.rt.tsms) : has_swap_id(t)
        \/ \E x \in q.rt.ssms : x.chain = c
  <2> SUFFICES ASSUME NEW c \in Chains, Syncer(c) \in starting
               PROVE  \/ \E t \in ToSet(runtime.tsms) : has_swap_id(t)
                      \/ \E x \in runtime.ssms \ {m} : x.chain = c
    BY <1>2, <1>6
  <2>1. \/ \E t \in ToSet(runtime.tsms) : has_swap_id(t)
        \/ \E x \in runtime.ssms : x.chain = c
    BY <1>1 DEF Tidy
  <2>2. m.chain # c
    <3>1. Syncer(m.chain) \in alive
      BY <1>1 DEF JobOK, Tidy
    <3> QED
      BY <1>1, <3>1 DEF Tidy
  <2> QED
    BY <2>1, <2>2
<1>9. \A d \in Deals : Swap(d) \in alive \cup starting =>
        \E t \in ToSet(q.rt.tsms) : has_swap_id(t) /\ t.deal = d
  BY <1>1, <1>2, <1>6 DEF Tidy
<1>10. /\ q.rt.registered = runtime.registered /\ q.rt.spawning = runtime.spawning
       /\ q.rt.deals = runtime.deals
       /\ Distinct(q.rt.tsms) /\ ToSet(q.rt.tsms) \subseteq ToSet(runtime.tsms)
       /\ q.rt.ssms \subseteq runtime.ssms
  BY <1>1, <1>2, <1>6
<1>11. /\ told_to_stop(q) \subseteq {Swap(d) : d \in Deals}
       /\ \A t \in ToSet(q.rt.tsms) : has_swap_id(t) => Swap(t.deal) \notin told_to_stop(q)
       /\ \A d \in Deals : Swap(d) \in (alive \ told_to_stop(q)) \cup starting =>
            \E t \in ToSet(q.rt.tsms) : has_swap_id(t) /\ t.deal = d
  BY <1>6, <1>9
<1>12. q \in Result /\ q.reach = alive /\ q.launched = {}
  BY <1>4, <1>6
<1> DEFINE r == terminate(q, U)
<1>13. /\ r \in Result /\ r.reach = alive
       /\ told_to_stop(r) = told_to_stop(q) \cup U
       /\ U \subseteq peers(alive) \cup syncers(alive)
       /\ Calm(K, r.rt, r.reach \ told_to_stop(r), (starting \ r.reach) \cup r.launched)
  BY <1>7, <1>8, <1>10, <1>11, <1>12, CleanCalm
<1> HIDE DEF r
<1>14. ASSUME m.client \notin alive
       PROVE  Calm(K \cup {m.chain}, q.rt, alive, starting \ alive)
  <2> DEFINE st == starting \ alive
             L  == K \cup {m.chain}
  <2>1. \A c \in Chains : Syncer(c) \in st <=> Syncer(c) \in starting
    BY <1>1 DEF Tidy
  <2>2. \A d \in Deals : Swap(d) \in st <=> Swap(d) \in starting
    BY <1>1 DEF Tidy
  <2> HIDE DEF st, L
  <2>3. ASSUME NEW t \in ToSet(q.rt.tsms)
        PROVE  MachineOK(t, q.rt.registered, q.rt.deals, alive, st)
    <3>1. t \in Machine /\ MachineOK(t, runtime.registered, runtime.deals, alive, starting)
      <4>1. t \in ToSet(runtime.tsms)
        BY <1>10
      <4>2. MachineOK(t, runtime.registered, runtime.deals, alive, starting)
        BY <1>1, <4>1
      <4>3. PICK i \in DOMAIN runtime.tsms : t = runtime.tsms[i]
        BY <4>1 DEF ToSet
      <4>4. t \in Machine
        BY <1>1, <4>3
      <4> QED
        BY <4>2, <4>4
    <3> QED
      BY <1>10, <2>1, <2>2, <3>1, MachineKept
  <2>4. \A x \in q.rt.ssms : JobOK(x, q.rt.registered, st)
    BY <1>1, <1>10, <2>1 DEF JobOK, Request
  <2>5. /\ q.rt.registered \subseteq alive /\ Users \subseteq alive
        /\ \A s \in q.rt.registered : s.kind \in {"database", "wallet", "peer", "syncer"}
    BY <1>1, <1>10 DEF Tidy
  <2>6. \A c \in Chains : /\ Syncer(c) \in q.rt.spawning <=> Syncer(c) \in st
                          /\ Syncer(c) \in alive => Syncer(c) \in q.rt.registered
                          /\ ~(Syncer(c) \in st /\ Syncer(c) \in alive)
    BY <1>1, <1>10, <2>1 DEF Tidy
  <2>7. ASSUME NEW c \in Chains, Syncer(c) \in st \/ (Syncer(c) \in alive /\ c \notin L)
        PROVE  \/ \E t \in ToSet(q.rt.tsms) : has_swap_id(t)
               \/ \E x \in q.rt.ssms : x.chain = c
    <3>1. CASE Syncer(c) \in st
      BY <1>8, <2>1, <3>1
    <3>2. CASE Syncer(c) \in alive /\ c \notin L
      <4>1. c \notin K /\ c # m.chain
        BY <3>2 DEF L
      <4>2. \/ \E t \in ToSet(runtime.tsms) : has_swap_id(t)
            \/ \E x \in runtime.ssms : x.chain = c
        BY <1>1, <3>2, <4>1 DEF Tidy
      <4> QED
        BY <1>2, <1>6, <4>1, <4>2
    <3> QED
      BY <2>7, <3>1, <3>2
  <2>8. \A d \in Deals : /\ ~(Swap(d) \in st /\ Swap(d) \in alive)
                         /\ Swap(d) \in alive \cup st =>
                              \E t \in ToSet(q.rt.tsms) : has_swap_id(t) /\ t.deal = d
    BY <1>1, <1>9, <2>2 DEF Tidy
  <2>9. Tidy(L, q.rt, alive, st)
    BY <2>5, <2>6, <2>7, <2>8 DEF Tidy
  <2> QED
    BY <1>10, <2>3, <2>4, <2>9 DEF Calm, st, L
<1>15. end_job(Tasked(Now, Now.rt.ssms \ {m}), m) = IF m.client \in alive THEN r ELSE q
  BY <1>5 DEF o, r
<1>16. q.reach \ told_to_stop(q) = alive /\ (starting \ q.reach) \cup q.launched = starting \ alive
       /\ q.rt.ssms = runtime.ssms \ {m}
  BY <1>2, <1>6
<1> QED
  BY <1>6, <1>12, <1>13, <1>14, <1>15, <1>16

\* SwapOutcome (SwapdRunning): swapd and checkpoint, and what only this swap used.
LEMMA EndCalm ==
    ASSUME NEW K, World(K), NEW i \in 1..Len(runtime.tsms), runtime.tsms[i].st = "SwapdRunning"
    PROVE  LET r == swap_outcome(taken(Now, i), runtime.tsms[i]) IN
           /\ r \in Result /\ r.reach = alive
           /\ Calm(K, r.rt, r.reach \ told_to_stop(r), (starting \ r.reach) \cup r.launched)
           /\ \A d \in Deals : Swap(d) \in told_to_stop(r) =>
                \E m \in sent(r, Database, "RemoveCheckpoint") : m.arg = d
<1> DEFINE o == taken(Now, i)
           t == runtime.tsms[i]
           q == Dismissed(o, t)
           U == Unused(q)
<1>1. /\ o \in Result /\ o.ok /\ o.reach = alive /\ o.launched = {}
      /\ told_to_stop(o) = {}
      /\ o.rt.tsms = RemoveAt(runtime.tsms, i) /\ o.rt.deals = runtime.deals
      /\ o.rt.registered = runtime.registered /\ o.rt.spawning = runtime.spawning
      /\ o.rt.ssms = runtime.ssms
      /\ t \in Machine /\ t \in ToSet(runtime.tsms)
      /\ MachineOK(t, runtime.registered, runtime.deals, alive, starting)
  BY TakenCalm
<1>2. /\ TypeOK /\ runtime.tsms \in Seq(Machine) /\ Distinct(runtime.tsms)
      /\ Tidy(K, runtime, alive, starting) /\ runtime.registered \subseteq alive
  BY DEF World, TypeOK, Runtime, CalmInv, Calm, Tidy
<1>3. t.deal \in Deals /\ has_swap_id(t) /\ t.up = Chains \cup {"swapd"}
  BY <1>1 DEF Machine, MachineOK, has_swap_id
<1>4. {Database, Swap(t.deal)} \subseteq alive /\ \A c \in Chains : Syncer(c) \in runtime.registered
  BY <1>1, <1>2, <1>3 DEF MachineOK
<1> HIDE DEF o, t
<1>5. /\ q \in Result /\ q.rt = o.rt /\ q.reach = alive /\ q.launched = {} /\ q.ok
      /\ swap_outcome(o, t) = IF q.ok THEN terminate(q, Unused(q)) ELSE q
      /\ \A m : m \in q.sent <=>
           \/ m \in o.sent
           \/ m = [to |-> Database, msg |-> "SetDealStatus", arg |-> t.deal]
           \/ m = [to |-> Swap(t.deal), msg |-> "Terminate", arg |-> None]
           \/ m = [to |-> Database, msg |-> "RemoveCheckpoint", arg |-> t.deal]
  BY <1>1, <1>4, DismissedType
<1> HIDE DEF q
<1>6. told_to_stop(q) = {Swap(t.deal)}
  <2>1. \A m \in o.sent : m.msg # "Terminate"
    BY <1>1 DEF told_to_stop
  <2>2. told_to_stop(q) \subseteq {Swap(t.deal)}
    BY <1>5, <2>1 DEF told_to_stop
  <2> DEFINE stop == [to |-> Swap(t.deal), msg |-> "Terminate", arg |-> None]
  <2>3. stop \in q.sent /\ stop.msg = "Terminate" /\ stop.to = Swap(t.deal)
    BY <1>5
  <2>4. Swap(t.deal) \in told_to_stop(q)
    <3> HIDE DEF stop
    <3> QED
      BY <2>3 DEF told_to_stop
  <2> QED
    BY <2>2, <2>4
<1>7. U \in SUBSET Unused(q) /\ unused_syncers(q) \subseteq U /\ swap_outcome(o, t) = terminate(q, U)
  BY <1>5 DEF Unused
<1>8. /\ Distinct(q.rt.tsms) /\ ToSet(q.rt.tsms) = ToSet(runtime.tsms) \ {t}
      /\ \A x \in ToSet(q.rt.tsms) : x.deal # t.deal
  BY <1>1, <1>2, <1>5, RemovedList DEF t
<1>9. \A d \in Deals : Swap(d) = Swap(t.deal) => d = t.deal
  BY DEF Swap
<1>10. \A d \in Deals : Swap(d) \in (alive \ told_to_stop(q)) \cup starting =>
         \E x \in ToSet(q.rt.tsms) : has_swap_id(x) /\ x.deal = d
  <2> SUFFICES ASSUME NEW d \in Deals, Swap(d) \in (alive \ told_to_stop(q)) \cup starting
               PROVE  \E x \in ToSet(q.rt.tsms) : has_swap_id(x) /\ x.deal = d
    OBVIOUS
  <2>1. d # t.deal
    BY <1>2, <1>3, <1>4, <1>6 DEF Tidy
  <2>2. \E x \in ToSet(runtime.tsms) : has_swap_id(x) /\ x.deal = d
    BY <1>2 DEF Tidy
  <2> QED
    BY <1>8, <2>1, <2>2
<1>11. \A x \in ToSet(q.rt.tsms) : has_swap_id(x) => Swap(x.deal) \notin told_to_stop(q)
  <2>1. ToSet(runtime.tsms) \subseteq Machine
    BY <1>2, ElementOfSeq DEF ToSet
  <2>2. \A x \in ToSet(runtime.tsms) : x.deal \in Deals
    BY <2>1 DEF Machine
  <2> QED
    BY <1>6, <1>8, <1>9, <2>2
<1>12. \A c \in Chains : Syncer(c) \notin starting
  BY <1>2, <1>4 DEF Tidy
<1> HIDE DEF U
<1> DEFINE r == terminate(q, U)
<1>13. /\ r \in Result /\ r.reach = alive
       /\ told_to_stop(r) = told_to_stop(q) \cup U
       /\ \A m : m \in q.sent => m \in r.sent
       /\ U \subseteq peers(alive) \cup syncers(alive)
       /\ Calm(K, r.rt, r.reach \ told_to_stop(r), (starting \ r.reach) \cup r.launched)
  <2>1. /\ q.rt.registered = runtime.registered /\ q.rt.spawning = runtime.spawning
        /\ q.rt.deals = runtime.deals /\ q.rt.ssms = runtime.ssms
    BY <1>1, <1>5
  <2>2. told_to_stop(q) \subseteq {Swap(d) : d \in Deals}
    BY <1>3, <1>6
  <2>3. ToSet(q.rt.tsms) \subseteq ToSet(runtime.tsms)
    BY <1>8
  <2> HIDE DEF r
  <2> QED
    BY <1>5, <1>7, <1>8, <1>10, <1>11, <1>12, <2>1, <2>2, <2>3, CleanCalm DEF r
<1> HIDE DEF r
<1>14. \A d \in Deals : Swap(d) \in told_to_stop(r) =>
         \E m \in sent(r, Database, "RemoveCheckpoint") : m.arg = d
  <2> SUFFICES ASSUME NEW d \in Deals, Swap(d) \in told_to_stop(r)
               PROVE  \E m \in sent(r, Database, "RemoveCheckpoint") : m.arg = d
    OBVIOUS
  <2>1. Swap(d) \notin U
    BY <1>13, Kinds DEF peers, syncers
  <2>2. d = t.deal
    BY <1>6, <1>9, <1>13, <2>1
  <2> DEFINE m == [to |-> Database, msg |-> "RemoveCheckpoint", arg |-> t.deal]
  <2>3. m \in r.sent
    BY <1>5, <1>13
  <2> QED
    BY <2>2, <2>3 DEF sent
<1> QED
  BY <1>7, <1>13, <1>14 DEF r, o, t

-------------------------------------------------------------------------------
(***************************************************************************)
(* A Hello, heard by every machine.                                        *)
(***************************************************************************)
\* What a machine that has heard s waits for has been launched and has not said hello.
LEMMA BecameOK ==
    ASSUME NEW t \in Machine, NEW v, NEW s \in Service, Became(v, t, s), NEW reg,
           MachineOK(t, runtime.registered, runtime.deals, alive, starting),
           runtime.registered \subseteq reg,
           \A c \in Chains : s = Syncer(c) => s \in reg,
           \A x \in Service : x \in starting /\ x.kind \in {"syncer", "swap"} => x \notin alive
    PROVE  /\ MachineOK(v, reg, runtime.deals, alive \cup {s}, starting \ (alive \cup {s}))
           /\ v.deal = t.deal /\ (has_swap_id(v) <=> has_swap_id(t))
<1> DEFINE al == alive \cup {s}
           st == starting \ al
<1>1. /\ v \in Machine /\ v.deal = t.deal /\ v.client = t.client
      /\ v.up = IF t.st = "SwapdLaunched" THEN hears(t, s).up ELSE t.up
      /\ \/ v.st = t.st
         \/ t.st = "SwapdLaunched" /\ v.st = "SwapdRunning" /\ v.up = Chains \cup {"swapd"}
      /\ t.deal \in Deals
  BY DEF Became, Machine
<1>2. hears(t, s).up = t.up \cup {c \in Chains : s = Syncer(c)}
                            \cup {x \in {"swapd"} : s = Swap(t.deal)}
  BY Hearing
<1>3. has_swap_id(v) <=> has_swap_id(t)
  BY <1>1 DEF has_swap_id
<1>4. has_swap_id(t) => t.st = "SwapdLaunched" \/ t.st = "SwapdRunning"
  BY DEF has_swap_id, MachineOK
<1>5. t.st = "SwapdRunning" => v.st = "SwapdRunning" /\ v.up = Chains \cup {"swapd"} /\ v.up = t.up
  BY <1>1 DEF MachineOK
<1>6. v.st = "SwapdRunning" => v.up = Chains \cup {"swapd"}
  BY <1>1, <1>5 DEF MachineOK
<1>7. \A c \in Chains : Syncer(c) \in Service /\ Syncer(c).kind = "syncer"
  BY Services, Kinds
<1>8. Swap(t.deal) \in Service /\ Swap(t.deal).kind = "swap"
  BY <1>1, Services, Kinds
<1>9. "swapd" \notin Chains
  BY DEF Chains
<1>10. ASSUME has_swap_id(t), NEW c \in Chains
       PROVE  /\ c \in v.up => Syncer(c) \in reg
              /\ c \notin v.up => Syncer(c) \in st
  <2>1. /\ c \in t.up => Syncer(c) \in runtime.registered
        /\ c \notin t.up => Syncer(c) \in starting
    BY <1>10 DEF MachineOK
  <2>2. c \in v.up => c \in t.up \/ s = Syncer(c)
    BY <1>1, <1>2, <1>9
  <2>3. c \notin v.up => c \notin t.up /\ s # Syncer(c)
    BY <1>1, <1>2, <1>4, <1>5, <1>10
  <2> QED
    BY <1>7, <2>1, <2>2, <2>3
<1>11. ASSUME has_swap_id(t)
       PROVE  /\ "swapd" \in v.up => Swap(v.deal) \in al
              /\ "swapd" \notin v.up => Swap(v.deal) \in st
  <2>1. /\ "swapd" \in t.up => Swap(t.deal) \in alive
        /\ "swapd" \notin t.up => Swap(t.deal) \in starting
    BY <1>11 DEF MachineOK
  <2>2. "swapd" \in v.up => "swapd" \in t.up \/ s = Swap(t.deal)
    BY <1>1, <1>2, <1>9
  <2>3. "swapd" \notin v.up => "swapd" \notin t.up /\ s # Swap(t.deal)
    BY <1>1, <1>2, <1>4, <1>5, <1>11
  <2> QED
    BY <1>1, <1>8, <2>1, <2>2, <2>3
<1>12. /\ v.st # "RestoringSwapd" /\ {Wallet, Database} \subseteq reg
       /\ v.st = "MakeDeal" => v.deal \in MakerDeals
       /\ v.deal \in MakerDeals => v.deal \in runtime.deals
       /\ v.st = "TakerConnect" => v.client \in Users
  BY <1>1 DEF MachineOK
<1>13. ~has_swap_id(v) => v.up = {}
  BY <1>1, <1>3 DEF MachineOK, has_swap_id
<1> QED
  BY <1>1, <1>3, <1>6, <1>10, <1>11, <1>12, <1>13 DEF MachineOK

\* Every machine hears a service that is on the bus, and answers: the list is as long as it
\* was, each machine where it was.
LEMMA AllHear ==
    ASSUME NEW K, World(K), NEW s \in Service, NEW newest \in BOOLEAN, NEW r \in Result,
           r.ok, r.reach = alive \cup {s}, r.rt.tsms = runtime.tsms
    PROVE  LET q == tsms_hear(r, s, newest) IN
           /\ q.ok /\ Len(q.rt.tsms) = Len(runtime.tsms)
           /\ \A i \in 1..Len(runtime.tsms) : Became(q.rt.tsms[i], runtime.tsms[i], s)
<1> DEFINE q == tsms_hear(r, s, newest)
           n == Len(runtime.tsms)
<1>1. /\ runtime.tsms \in Seq(Machine) /\ DOMAIN runtime.tsms = 1..n
      /\ \A i \in 1..n : runtime.tsms[i] \in Machine
  BY LenProperties, ElementOfSeq DEF World, TypeOK, Runtime
<1>2. /\ Alone(r) \in Result /\ Alone(r).rt.tsms = <<>> /\ Alone(r).ok
      /\ Alone(r).reach = alive \cup {s}
  <2>1. <<>> \in Seq(Machine) /\ r.rt \in Runtime
    BY EmptySeq DEF Result
  <2>2. Alone(r) \in Result /\ Alone(r).rt = [r.rt EXCEPT !.tsms = <<>>]
    BY <2>1, MachinesType DEF Alone
  <2>3. Alone(r).rt.tsms = <<>>
    BY <2>1, <2>2 DEF Runtime
  <2>4. Alone(r).ok = r.ok /\ Alone(r).reach = r.reach
    BY DEF Alone, Result
  <2> QED
    BY <2>2, <2>3, <2>4
<1>3. \A i \in 1..n : /\ AnswerOf(r, s, newest, i).ok
                      /\ \E v : /\ Became(v, runtime.tsms[i], s)
                                /\ AnswerOf(r, s, newest, i).rt.tsms = <<v>>
  <2> SUFFICES ASSUME NEW i \in 1..n
               PROVE  /\ AnswerOf(r, s, newest, i).ok
                      /\ \E v : /\ Became(v, runtime.tsms[i], s)
                                /\ AnswerOf(r, s, newest, i).rt.tsms = <<v>>
    OBVIOUS
  <2> DEFINE t == runtime.tsms[i]
             a == Alone(r)
             h == tsm_hello(a, t, s, newest)
  <2>1. AnswerOf(r, s, newest, i) = h
    BY DEF AnswerOf
  <2>2. t \in Machine /\ MachineOK(t, runtime.registered, runtime.deals, alive, starting)
    BY <1>1 DEF World, CalmInv, Calm, ToSet
  <2>3. a \in Result /\ a.ok /\ a.reach = alive \cup {s} /\ a.rt.tsms = <<>>
    BY <1>2
  <2> HIDE DEF t, a
  <2>4. "swapd" \in hears(t, s).up => "swapd" \in t.up \/ s = Swap(t.deal)
    BY <2>2, Hearing DEF Chains
  <2>5. has_swap_id(t) /\ "swapd" \in hears(t, s).up => Swap(t.deal) \in a.reach
    BY <2>2, <2>3, <2>4 DEF MachineOK
  <2>6. t.st # "RestoringSwapd" /\ (t.st = "SwapdRunning" => t.up = Chains \cup {"swapd"})
    BY <2>2 DEF MachineOK
  <2>7. h.ok /\ \E v : Became(v, t, s) /\ h.rt.tsms = Append(a.rt.tsms, v)
    BY <2>2, <2>3, <2>5, <2>6, HelloCalm
  <2> HIDE DEF h
  <2>8. \A v : Append(<<>>, v) = <<v>>
    OBVIOUS
  <2> QED
    BY <2>1, <2>3, <2>7, <2>8 DEF t
<1>4. /\ (\A i \in 1..n : AnswerOf(r, s, newest, i).ok) => q.ok
      /\ q.ok => /\ Len(q.rt.tsms) = n
                 /\ \A i \in 1..n : AnswerOf(r, s, newest, i).rt.tsms = <<q.rt.tsms[i]>>
  BY HearType
<1>5. q.ok
  BY <1>3, <1>4
<1> HIDE DEF q
<1>6. \A i \in 1..n : Became(q.rt.tsms[i], runtime.tsms[i], s)
  <2> SUFFICES ASSUME NEW i \in 1..n
               PROVE  Became(q.rt.tsms[i], runtime.tsms[i], s)
    OBVIOUS
  <2>1. PICK v : Became(v, runtime.tsms[i], s) /\ AnswerOf(r, s, newest, i).rt.tsms = <<v>>
    BY <1>3
  <2>2. <<v>> = <<q.rt.tsms[i]>>
    BY <1>4, <1>5, <2>1
  <2>3. v = q.rt.tsms[i]
    BY <2>2
  <2> QED
    BY <2>1, <2>3
<1> QED
  BY <1>4, <1>5, <1>6 DEF q

\* r has registered s, which has just come onto the bus: the others are as they were.
Joined(r, s) ==
    /\ r.ok /\ r.reach = alive \cup {s} /\ r.sent = {} /\ r.launched = {}
    /\ r.rt.tsms = runtime.tsms /\ r.rt.ssms = runtime.ssms /\ r.rt.deals = runtime.deals
    /\ runtime.registered \subseteq r.rt.registered
    /\ \A x \in r.rt.registered : x \in runtime.registered \/ x = s
    /\ s \in r.rt.registered => s.kind \in {"database", "wallet", "peer", "syncer"}
    /\ \A c \in Chains : /\ s = Syncer(c) => s \in r.rt.registered
                         /\ Syncer(c) \in r.rt.spawning <=>
                              Syncer(c) \in runtime.spawning /\ s # Syncer(c)

\* handle_hello: each machine takes note, and what was waited for is there.
LEMMA HearCalm ==
    ASSUME NEW K, World(K), NEW s \in Service, s \in starting \/ s.kind = "peer",
           NEW newest \in BOOLEAN, NEW r \in Result, Joined(r, s)
    PROVE  LET q == machines_hear(r, s, newest) IN
           /\ q \in Result /\ q.reach = alive \cup {s} /\ told_to_stop(q) = {}
           /\ Calm(K, q.rt, q.reach \ told_to_stop(q), (starting \ q.reach) \cup q.launched)
<1> DEFINE h == tsms_hear(r, s, newest)
           q == ssms_hear(h, s)
           n == Len(runtime.tsms)
           al == alive \cup {s}
           st == starting \ al
<1>1. /\ runtime.tsms \in Seq(Machine) /\ DOMAIN runtime.tsms = 1..n
      /\ \A i \in 1..n : runtime.tsms[i] \in Machine
      /\ runtime.ssms \subseteq Request /\ runtime.registered \subseteq Service
      /\ Distinct(runtime.tsms) /\ Tidy(K, runtime, alive, starting)
      /\ \A i \in 1..n : MachineOK(runtime.tsms[i], runtime.registered, runtime.deals, alive, starting)
      /\ \A m \in runtime.ssms : JobOK(m, runtime.registered, starting)
  BY LenProperties, ElementOfSeq DEF World, TypeOK, Runtime, CalmInv, Calm, ToSet
<1>2. /\ h \in Result /\ Leaves(h, r) /\ Quiet(h, r) /\ h.ok /\ Len(h.rt.tsms) = n
      /\ \A i \in 1..n : Became(h.rt.tsms[i], runtime.tsms[i], s)
  BY HearType, AllHear DEF Joined
<1> HIDE DEF h
<1>3. /\ q \in Result /\ q.rt = [h.rt EXCEPT !.ssms = q.rt.ssms]
      /\ q.reach = h.reach /\ q.launched = h.launched
      /\ q.rt.ssms = {Heard(m, s) : m \in h.rt.ssms}
      /\ \A m \in q.sent : m \in h.sent \/ m.msg = "Task"
  BY <1>2, JobsHearType DEF Leaves, Joined
<1>4. machines_hear(r, s, newest) = q
  BY DEF machines_hear, h
<1> HIDE DEF q
<1>5. /\ q.rt.tsms = h.rt.tsms /\ q.rt.deals = runtime.deals
      /\ q.rt.registered = r.rt.registered /\ q.rt.spawning = r.rt.spawning
      /\ q.rt.ssms = {Heard(m, s) : m \in runtime.ssms}
      /\ q.reach = al /\ q.launched = {}
  BY <1>2, <1>3 DEF Leaves, Joined, Result, Runtime
<1>6. told_to_stop(q) = {}
  BY <1>2, <1>3 DEF told_to_stop, Quiet, Joined
<1>7. \A x \in Service : x \in starting /\ x.kind \in {"syncer", "swap"} => x \notin alive
  <2> SUFFICES ASSUME NEW x \in Service, x \in starting, x.kind \in {"syncer", "swap"}
               PROVE  x \notin alive
    OBVIOUS
  <2>1. CASE x.kind = "syncer"
    <3>1. x = Syncer(x.chain) /\ x.chain \in Chains
      BY <2>1, Kinds
    <3> QED
      BY <1>1, <3>1 DEF Tidy
  <2>2. CASE x.kind = "swap"
    <3>1. x = Swap(x.deal) /\ x.deal \in Deals
      BY <2>2, Kinds
    <3> QED
      BY <1>1, <3>1 DEF Tidy
  <2> QED
    BY <2>1, <2>2
<1> HIDE DEF al, st
<1>8. alive \subseteq al /\ s \in al /\ st = starting \ al /\ al = alive \cup {s}
  BY DEF al, st
<1>9. \A i \in 1..n :
        /\ MachineOK(q.rt.tsms[i], q.rt.registered, q.rt.deals, al, st)
        /\ q.rt.tsms[i].deal = runtime.tsms[i].deal
        /\ has_swap_id(q.rt.tsms[i]) <=> has_swap_id(runtime.tsms[i])
  <2> SUFFICES ASSUME NEW i \in 1..n
               PROVE  /\ MachineOK(q.rt.tsms[i], q.rt.registered, q.rt.deals, al, st)
                      /\ q.rt.tsms[i].deal = runtime.tsms[i].deal
                      /\ has_swap_id(q.rt.tsms[i]) <=> has_swap_id(runtime.tsms[i])
    OBVIOUS
  <2> DEFINE t == runtime.tsms[i]
             v == q.rt.tsms[i]
             reg2 == q.rt.registered
  <2>1. t \in Machine /\ MachineOK(t, runtime.registered, runtime.deals, alive, starting)
    BY <1>1
  <2>2. Became(v, t, s)
    BY <1>2, <1>5
  <2>3. runtime.registered \subseteq reg2 /\ (\A c \in Chains : s = Syncer(c) => s \in reg2)
    BY <1>5 DEF Joined
  <2> HIDE DEF t, v, reg2
  <2>4. /\ MachineOK(v, reg2, runtime.deals, alive \cup {s}, starting \ (alive \cup {s}))
        /\ v.deal = t.deal /\ (has_swap_id(v) <=> has_swap_id(t))
    BY <1>7, <2>1, <2>2, <2>3, BecameOK
  <2> QED
    BY <1>5, <1>8, <2>4 DEF t, v, reg2
<1>10. DOMAIN q.rt.tsms = 1..n
  <2>1. q.rt.tsms \in Seq(Machine)
    BY <1>3 DEF Result, Runtime
  <2> QED
    BY <1>2, <1>5, <2>1, LenProperties
<1>11. Distinct(q.rt.tsms) /\ \A t \in ToSet(q.rt.tsms) : MachineOK(t, q.rt.registered, q.rt.deals, al, st)
  BY <1>1, <1>9, <1>10 DEF Distinct, ToSet
<1>12. \A t \in ToSet(runtime.tsms) : has_swap_id(t) =>
         \E v \in ToSet(q.rt.tsms) : has_swap_id(v) /\ v.deal = t.deal
  BY <1>1, <1>9, <1>10 DEF ToSet
<1>13. \A m \in runtime.ssms : /\ Heard(m, s).chain = m.chain
                               /\ JobOK(Heard(m, s), q.rt.registered, st)
  <2> SUFFICES ASSUME NEW m \in runtime.ssms
               PROVE  /\ Heard(m, s).chain = m.chain
                      /\ JobOK(Heard(m, s), q.rt.registered, st)
    OBVIOUS
  <2>1. m \in Request /\ JobOK(m, runtime.registered, starting) /\ m.chain \in Chains
    BY <1>1 DEF Request
  <2>2. Syncer(m.chain) \in Service /\ Syncer(m.chain).kind = "syncer"
    BY <2>1, Services, Kinds
  <2>3. runtime.registered \subseteq q.rt.registered /\ (s = Syncer(m.chain) => s \in q.rt.registered)
    BY <1>5, <2>1 DEF Joined
  <2>4. CASE ~m.given /\ s = Syncer(m.chain)
    <3>1. Heard(m, s) = Given(m)
      BY <2>4 DEF Heard
    <3>2. Given(m).chain = m.chain /\ Given(m).given
      BY <2>1 DEF Given, Request
    <3> QED
      BY <2>1, <2>3, <2>4, <3>1, <3>2 DEF JobOK
  <2>5. CASE ~(~m.given /\ s = Syncer(m.chain))
    <3>1. Heard(m, s).given = m.given /\ Heard(m, s).chain = m.chain
      BY <2>1, <2>5 DEF Heard, Request
    <3>2. ~m.given => Syncer(m.chain) \in st
      BY <1>7, <1>8, <2>1, <2>2, <2>5 DEF JobOK
    <3> QED
      BY <2>1, <2>3, <3>1, <3>2 DEF JobOK
  <2> QED
    BY <2>4, <2>5
<1>14. \A m \in q.rt.ssms : JobOK(m, q.rt.registered, st)
  BY <1>5, <1>13
<1>15. \A c \in Chains :
         (\/ \E t \in ToSet(runtime.tsms) : has_swap_id(t)
          \/ \E m \in runtime.ssms : m.chain = c)
         => \/ \E t \in ToSet(q.rt.tsms) : has_swap_id(t)
            \/ \E m \in q.rt.ssms : m.chain = c
  BY <1>5, <1>12, <1>13
<1>16. Tidy(K, q.rt, al, st)
  <2>1. q.rt.registered \subseteq al /\ Users \subseteq al
    BY <1>1, <1>5, <1>8 DEF Tidy, Joined
  <2>2. \A x \in q.rt.registered : x.kind \in {"database", "wallet", "peer", "syncer"}
    BY <1>1, <1>5 DEF Tidy, Joined
  <2>3. ASSUME NEW c \in Chains
        PROVE  /\ Syncer(c) \in q.rt.spawning <=> Syncer(c) \in st
               /\ Syncer(c) \in al => Syncer(c) \in q.rt.registered
               /\ ~(Syncer(c) \in st /\ Syncer(c) \in al)
               /\ Syncer(c) \in st \/ (Syncer(c) \in al /\ c \notin K) =>
                    \/ \E t \in ToSet(q.rt.tsms) : has_swap_id(t)
                    \/ \E m \in q.rt.ssms : m.chain = c
    <3>1. /\ Syncer(c) \in runtime.spawning <=> Syncer(c) \in starting
          /\ Syncer(c) \in alive => Syncer(c) \in runtime.registered
          /\ ~(Syncer(c) \in starting /\ Syncer(c) \in alive)
          /\ Syncer(c) \in starting \/ (Syncer(c) \in alive /\ c \notin K) =>
               \/ \E t \in ToSet(runtime.tsms) : has_swap_id(t)
               \/ \E m \in runtime.ssms : m.chain = c
      BY <1>1, <2>3 DEF Tidy
    <3>2. s = Syncer(c) => s \in starting
      BY Kinds
    <3>3. /\ Syncer(c) \in q.rt.spawning <=> Syncer(c) \in runtime.spawning /\ s # Syncer(c)
          /\ s = Syncer(c) => s \in q.rt.registered
          /\ runtime.registered \subseteq q.rt.registered
      BY <1>5, <2>3 DEF Joined
    <3>4. Syncer(c) \in q.rt.spawning <=> Syncer(c) \in st
      BY <1>8, <3>1, <3>3
    <3>5. Syncer(c) \in al => Syncer(c) \in q.rt.registered
      BY <1>8, <3>1, <3>3
    <3>6. Syncer(c) \in st \/ (Syncer(c) \in al /\ c \notin K)
            => Syncer(c) \in starting \/ (Syncer(c) \in alive /\ c \notin K)
      BY <1>8, <3>2
    <3> QED
      BY <1>8, <1>15, <2>3, <3>1, <3>4, <3>5, <3>6
  <2>4. ASSUME NEW d \in Deals
        PROVE  /\ ~(Swap(d) \in st /\ Swap(d) \in al)
               /\ Swap(d) \in al \cup st =>
                    \E t \in ToSet(q.rt.tsms) : has_swap_id(t) /\ t.deal = d
    <3>1. s = Swap(d) => s \in starting
      BY Kinds
    <3>2. Swap(d) \in al \cup st => Swap(d) \in alive \cup starting
      BY <1>8, <3>1
    <3>3. Swap(d) \in alive \cup starting =>
            \E t \in ToSet(runtime.tsms) : has_swap_id(t) /\ t.deal = d
      BY <1>1, <2>4 DEF Tidy
    <3> QED
      BY <1>8, <1>12, <3>2, <3>3
  <2> QED
    BY <2>1, <2>2, <2>3, <2>4 DEF Tidy
<1>17. Calm(K, q.rt, al, st)
  BY <1>11, <1>14, <1>16 DEF Calm
<1>18. q.reach \ told_to_stop(q) = al /\ (starting \ q.reach) \cup q.launched = st
  BY <1>5, <1>6, <1>8
<1> QED
  BY <1>3, <1>4, <1>5, <1>6, <1>8, <1>17, <1>18

\* What is registered, and what auto_restore notes beside it.
LEMMA JoinedCalm ==
    ASSUME NEW K, World(K), NEW s \in Service, s \in starting \/ s.kind = "peer"
    PROVE  LET r == register(Joining(s), s) IN
           /\ r \in Result /\ Joined(r, s)
           /\ auto_restore(r) \in Result /\ Joined(auto_restore(r), s)
<1> DEFINE b == Joining(s)
           r == register(b, s)
           a == auto_restore(r)
<1>1. /\ TypeOK /\ Tidy(K, runtime, alive, starting) /\ b \in Result /\ b.ok
      /\ b.rt = runtime /\ b.reach = alive \cup {s} /\ b.sent = {} /\ b.launched = {}
      /\ runtime.registered \in SUBSET Service /\ runtime.spawning \in SUBSET Service
  BY BeginType DEF World, CalmInv, Calm, TypeOK, Runtime
<1> HIDE DEF b
<1>2. ASSUME NEW S \in SUBSET Service, NEW T \in SUBSET Service, r = Exchanged(b, S, T),
             runtime.registered \subseteq T, T \subseteq runtime.registered \cup {s},
             s \in T => s.kind \in {"database", "wallet", "peer", "syncer"},
             \A c \in Chains : /\ s = Syncer(c) => s \in T
                               /\ Syncer(c) \in S <=> Syncer(c) \in runtime.spawning /\ s # Syncer(c)
      PROVE  r \in Result /\ Joined(r, s)
  <2> HIDE DEF r
  <2> DEFINE e == Exchanged(b, S, T)
  <2>1. /\ e \in Result /\ e.rt.spawning = S /\ e.rt.registered = T
        /\ e.rt.tsms = b.rt.tsms /\ e.rt.ssms = b.rt.ssms /\ e.rt.deals = b.rt.deals
        /\ e.reach = b.reach /\ e.ok = b.ok /\ e.sent = b.sent /\ e.launched = b.launched
    <3>1. S \in SUBSET Service
      BY <1>2
    <3>2. T \in SUBSET Service
      BY <1>2
    <3>3. b \in Result
      BY <1>1
    <3> QED
      BY <3>1, <3>2, <3>3, RegistryType
  <2>2. r = e
    BY <1>2
  <2> HIDE DEF e
  <2> QED
    BY <1>1, <1>2, <2>1, <2>2 DEF Joined
<1>3. \A c \in Chains : Syncer(c).kind = "syncer" /\ Syncer(c) \in Service
  BY Services, Kinds
<1>4. Exchanged(b, runtime.spawning, runtime.registered) = b
  BY <1>1 DEF Exchanged, Result, Runtime
<1>5. r \in Result /\ Joined(r, s)
  <2>1. CASE s.kind \in {"database", "wallet"}
    <3>1. r = Exchanged(b, runtime.spawning, runtime.registered \cup {s})
      BY <1>1, <2>1 DEF register, Exchanged, Result, Runtime
    <3> HIDE DEF r
    <3> QED
      BY <1>1, <1>2, <1>3, <2>1, <3>1
  <2>2. CASE s.kind = "peer"
    <3>1. s \in Connection
      BY <2>2 DEF Service
    <3> DEFINE f == Peer(0, s.node, s.side)
               T == runtime.registered \cup {s}
               S == runtime.spawning \ {f}
    <3>2. \A c \in Chains : f # Syncer(c)
      BY DEF Peer, Syncer
    <3>3. \/ r = Exchanged(b, S, T)
          \/ r = b
      BY <1>1, <2>2 DEF register, handle_new_connection, Exchanged
    <3>4. S \in SUBSET Service /\ T \in SUBSET Service
      BY <1>1
    <3>5. /\ runtime.registered \subseteq T /\ T \subseteq runtime.registered \cup {s}
          /\ \A c \in Chains : /\ s = Syncer(c) => s \in T
                               /\ Syncer(c) \in S <=> Syncer(c) \in runtime.spawning /\ s # Syncer(c)
      BY <1>3, <2>2, <3>2
    <3> HIDE DEF S, T, r
    <3>6. CASE r = Exchanged(b, S, T)
      BY <1>2, <2>2, <3>4, <3>5, <3>6
    <3>7. CASE r = b
      <4>1. /\ s \in runtime.registered => s.kind \in {"database", "wallet", "peer", "syncer"}
            /\ \A c \in Chains : s # Syncer(c)
        BY <1>3, <2>2
      <4>2. r = Exchanged(b, runtime.spawning, runtime.registered)
        BY <1>4, <3>7
      <4> QED
        BY <1>1, <1>2, <4>1, <4>2
    <3> QED
      BY <3>3, <3>6, <3>7
  <2>3. CASE s.kind = "syncer"
    <3>1. s = Syncer(s.chain) /\ s.chain \in Chains /\ s \in starting
      BY <2>3, Kinds
    <3>2. s \in runtime.spawning
      BY <1>1, <3>1 DEF Tidy
    <3>3. r = Exchanged(b, runtime.spawning \ {s}, runtime.registered \cup {s})
      BY <1>1, <2>3, <3>2 DEF register, Exchanged, Result, Runtime
    <3> HIDE DEF r
    <3> QED
      BY <1>1, <1>2, <2>3, <3>3
  <2>4. CASE s.kind \notin {"database", "wallet", "peer", "syncer"}
    <3>1. r = b
      BY <2>4 DEF register
    <3>2. r = Exchanged(b, runtime.spawning, runtime.registered)
      BY <1>4, <3>1
    <3>3. s \notin runtime.registered
      BY <1>1, <2>4 DEF Tidy
    <3>4. \A c \in Chains : s # Syncer(c)
      BY <1>3, <2>4
    <3> HIDE DEF r
    <3> QED
      BY <1>1, <1>2, <3>2, <3>3, <3>4
  <2> QED
    BY <2>1, <2>2, <2>3, <2>4
<1> HIDE DEF r
<1>6. AutoRestore \in BOOLEAN
  BY <1>1, Environment DEF TypeOK
<1>7. /\ a \in Result
      /\ a.reach = r.reach /\ a.ok = r.ok /\ a.sent = r.sent /\ a.launched = r.launched
      /\ a.rt.tsms = r.rt.tsms /\ a.rt.registered = r.rt.registered
      /\ a.rt.spawning = r.rt.spawning /\ a.rt.ssms = r.rt.ssms /\ a.rt.deals = r.rt.deals
  BY <1>5, <1>6, AutoType
<1> HIDE DEF a
<1>8. Joined(a, s)
  BY <1>5, <1>7 DEF Joined
<1> QED
  BY <1>5, <1>7, <1>8 DEF a, r, b

-------------------------------------------------------------------------------
(***************************************************************************)
(* Every step of such a node.                                              *)
(***************************************************************************)
\* A request that changes little, and a Hello.
LEMMA ServedCalm ==
    ASSUME NEW K, World(K)
    PROVE  /\ \A r \in Result : Apart(r) /\ Listed(r) /\ Serve(r) => CalmInv(K)'
           /\ \A s \in Service, newest \in BOOLEAN, r \in Result :
                /\ s \in starting \/ s.kind = "peer"
                /\ Joined(r, s) /\ Serve(machines_hear(r, s, newest))
                => CalmInv(K)'
<1>1. ASSUME NEW r \in Result, Apart(r), Listed(r), Serve(r)
      PROVE  CalmInv(K)'
  BY <1>1, ApartServe DEF Serve
<1>2. ASSUME NEW s \in Service, NEW newest \in BOOLEAN, NEW r \in Result,
             s \in starting \/ s.kind = "peer",
             Joined(r, s), Serve(machines_hear(r, s, newest))
      PROVE  CalmInv(K)'
  <2> DEFINE q == machines_hear(r, s, newest)
  <2>1. /\ q \in Result /\ q.reach = alive \cup {s} /\ told_to_stop(q) = {}
        /\ Calm(K, q.rt, q.reach \ told_to_stop(q), (starting \ q.reach) \cup q.launched)
    BY <1>2, HearCalm
  <2>2. ServeWith(q, dialing, keys_owed, jobs, swapd)
    BY <1>2 DEF Serve
  <2> HIDE DEF q
  <2>3. alive \subseteq q.reach /\ dialing \subseteq q.reach
    BY <2>1 DEF World, CalmInv
  <2> QED
    BY <2>1, <2>2, <2>3, ServeCalm
<1> QED
  BY <1>1, <1>2

\* The node's own steps: Hello, keys, the list of checkpoints, reports and answers.
LEMMA OwnCalm ==
    ASSUME NEW K, World(K), Own
    PROVE  CalmInv(K)' \/ \E m \in runtime.ssms : unheard(m) /\ CalmInv(K \cup {m.chain})'
<1>1. /\ TypeOK /\ env \in Environments /\ AutoRestore \in BOOLEAN
      /\ runtime.tsms \in Seq(Machine) /\ runtime.ssms \subseteq Request
      /\ dialing \subseteq alive /\ dialing \subseteq Connection
  BY Environment DEF World, TypeOK, Runtime, CalmInv
<1>2. /\ Now \in Result /\ Now.rt = runtime /\ Now.reach = alive /\ Now.launched = {}
      /\ Apart(Now) /\ Listed(Now)
  BY <1>1, ApartBegin, BeginType
<1>3. ASSUME NEW s \in starting, SaysHello(s)
      PROVE  CalmInv(K)'
  <2>1. s \in Service
    BY <1>1 DEF TypeOK
  <2> DEFINE known    == register(Joining(s), s)
             restores == s = Database /\ auto_restores(known)
             r        == IF restores THEN auto_restore(known) ELSE known
  <2>2. r \in Result /\ Joined(r, s)
    <3>1. /\ known \in Result /\ Joined(known, s)
          /\ auto_restore(known) \in Result /\ Joined(auto_restore(known), s)
      BY <2>1, JoinedCalm
    <3> HIDE DEF known
    <3> QED
      BY <3>1
  <2>3. PICK newest \in BOOLEAN : Serve(machines_hear(r, s, newest))
    BY <1>3 DEF SaysHello
  <2> HIDE DEF r
  <2> QED
    BY <2>1, <2>2, <2>3, ServedCalm
<1>4. CASE KeysArrive
  <2> DEFINE r == [Now EXCEPT !.rt.keys = TRUE]
             q == auto_restore(r)
  <2>1. /\ r \in Result /\ r.sent = Now.sent /\ r.reach = Now.reach /\ r.launched = Now.launched
        /\ r.rt.registered = runtime.registered /\ r.rt.spawning = runtime.spawning
        /\ r.rt.tsms = runtime.tsms /\ r.rt.deals = runtime.deals /\ r.rt.ssms = runtime.ssms
    BY <1>2 DEF Result, Runtime
  <2>2. Serve(q)
    BY <1>4 DEF KeysArrive
  <2> HIDE DEF r
  <2>3. /\ q \in Result
        /\ q.reach = r.reach /\ q.sent = r.sent /\ q.launched = r.launched
        /\ q.rt.tsms = r.rt.tsms /\ q.rt.registered = r.rt.registered
        /\ q.rt.spawning = r.rt.spawning /\ q.rt.ssms = r.rt.ssms /\ q.rt.deals = r.rt.deals
    BY <1>1, <2>1, AutoType
  <2> HIDE DEF q
  <2>4. Beside(q, Now)
    BY <1>2, <2>1, <2>3 DEF Beside, Quiet
  <2>5. Apart(q)
    BY <1>2, <2>3, <2>4, ApartSteps
  <2>6. Listed(q)
    BY <2>1, <2>3, Listings
  <2> QED
    BY <2>2, <2>3, <2>5, <2>6, ServedCalm
<1>5. CASE ListRestores
  <2> DEFINE S == {d \in Deals : store[d].saved}
  <2>1. PICK list \in SetToSeqs(S) :
          LET after[i \in 0..Len(list)] ==
                IF i = 0 THEN Now
                ELSE IF after[i - 1].ok
                     THEN restore_checkpoint(after[i - 1], list[i], store[list[i]].expected, Database)
                     ELSE after[i - 1]
          IN  Serve(after[Len(list)])
    BY <1>5 DEF ListRestores
  <2>2. IsFiniteSet(S) /\ Cardinality(S) \in Nat
    <3>1. IsFiniteSet(S)
      BY DealsAssumption, FS_Subset
    <3> HIDE DEF S
    <3> QED
      BY <3>1, FS_CardinalityType
  <2>3. /\ list \in [1..Cardinality(S) -> S] /\ Len(list) = Cardinality(S)
        /\ list \in [1..Cardinality(S) -> Deals]
    <3>1. list \in [1..Cardinality(S) -> S]
      BY DEF SetToSeqs
    <3>2. S \subseteq Deals
      OBVIOUS
    <3> HIDE DEF S
    <3> QED
      BY <2>2, <3>1, <3>2
  <2> DEFINE n == Cardinality(S)
             f == CHOOSE f : f = [i \in 0..Len(list) |->
                                   IF i = 0 THEN Now ELSE RestoreNext(f[i - 1], list[i])]
  <2>4. Serve(f[n])
    BY <2>1, <2>3 DEF RestoreNext
  <2>5. f = [i \in 0..n |-> IF i = 0 THEN Now ELSE RestoreNext(f[i - 1], list[i])]
    <3> HIDE DEF S
    <3> QED
      BY <2>2, <2>3, RestoresDefined
  <2>6. n \in Nat /\ list \in [1..n -> {d \in Deals : store[d].saved}]
    BY <2>2, <2>3
  <2> HIDE DEF f, n
  <2>7. f[n] \in Result /\ Apart(f[n]) /\ f[n].rt = runtime
    BY <2>5, <2>6, RestoresCalm
  <2>8. Listed(f[n])
    BY <2>7, Listings
  <2> QED
    BY <2>4, <2>7, <2>8, ServedCalm
<1>6. ASSUME NEW d \in Deals, KeysCreated(d)
      PROVE  CalmInv(K)'
  <2> DEFINE i == TradesAt(d)
             t == runtime.tsms[i]
             r == IF i # 0 THEN swap_keys(taken(Now, i), t) ELSE Now
  <2>1. ServeWith(r, dialing, keys_owed \ {d}, jobs, swapd)
    BY <1>6 DEF KeysCreated, TradesAt
  <2>2. i # 0 => i \in 1..Len(runtime.tsms)
    BY <1>1, Positions
  <2>3. CASE i # 0 /\ t.st \in {"TakerCommit", "TakeDeal"}
    <3>1. r = swapd_launched(taken(Now, i), t)
      BY <2>3 DEF swap_keys
    <3> HIDE DEF r
    <3>2. /\ r \in Result /\ r.reach = alive /\ told_to_stop(r) = {}
          /\ Calm(K, r.rt, r.reach \ told_to_stop(r), (starting \ r.reach) \cup r.launched)
      <4> HIDE DEF i
      <4> QED
        BY <2>2, <2>3, <3>1, KeysCalm
    <3> QED
      BY <1>1, <2>1, <3>2, ServeCalm
  <2>4. CASE ~(i # 0 /\ t.st \in {"TakerCommit", "TakeDeal"})
    <3>1. r \in Result /\ Apart(r) /\ Listed(r)
      <4>1. CASE i = 0
        BY <1>2, <4>1
      <4>2. CASE i # 0
        <5>1. r = push(taken(Now, i), t)
          BY <2>4, <4>2 DEF swap_keys
        <5> HIDE DEF i, r
        <5> QED
          BY <2>2, <4>2, <5>1, RunningCalm
      <4> QED
        BY <4>1, <4>2
    <3> HIDE DEF r
    <3> QED
      BY <2>1, <3>1, ApartServe
  <2> QED
    BY <2>3, <2>4
<1>7. ASSUME NEW p \in dialing, NEW success \in BOOLEAN, Reports(p, success)
      PROVE  CalmInv(K)'
  <2> DEFINE i == AwaitsAt(p)
             r == IF i = 0 THEN Now
                  ELSE IF success THEN tsm_connected(taken(Now, i), runtime.tsms[i], p)
                  ELSE tsm_not_connected(taken(Now, i), runtime.tsms[i], p)
  <2>1. p \in Connection \cap alive
    BY <1>1
  <2>2. i # 0 => /\ i \in 1..Len(runtime.tsms)
                 /\ awaiting_connect_from(runtime.tsms[i]) = node_addr(p)
    BY <1>1, Positions
  <2>3. ServeWith(r, dialing \ {p}, keys_owed, jobs, swapd)
    BY <1>7 DEF Reports, AwaitsAt
  <2>4. r \in Result /\ Apart(r) /\ Listed(r)
    <3> HIDE DEF i
    <3>1. CASE i = 0
      BY <1>2, <3>1
    <3>2. CASE i # 0
      <4>1. i \in 1..Len(runtime.tsms) /\ runtime.tsms[i] \in Machine
        BY <2>2, <3>2, TakenCalm
      <4>2. /\ runtime.tsms[i].st \in {"TakerConnect", "RestoringSwapd", "SwapdRunning"}
            /\ runtime.tsms[i].deal \notin MakerDeals
        BY <2>1, <2>2, <3>2, <4>1, Awaiting
      <4> QED
        BY <2>1, <3>2, <4>1, <4>2, ReportCalm
    <3> QED
      BY <3>1, <3>2
  <2> HIDE DEF r
  <2>5. dialing \ {p} \subseteq dialing
    OBVIOUS
  <2> QED
    BY <2>3, <2>4, <2>5, ApartServe
<1>8. ASSUME NEW j \in jobs, Answers(j)
      PROVE  CalmInv(K)' \/ \E m \in runtime.ssms : unheard(m) /\ CalmInv(K \cup {m.chain})'
  <2> DEFINE asked == {m \in runtime.ssms : m.task = j.task /\ m.chain = j.chain /\ m.given}
  <2>1. CASE asked = {}
    <3>1. ServeWith(Now, dialing, keys_owed, jobs \ {j}, swapd)
      BY <1>8, <2>1 DEF Answers
    <3> QED
      BY <1>2, <3>1, ApartServe
  <2>2. CASE asked # {}
    <3>1. PICK m \in asked : ServeWith(end_job([Now EXCEPT !.rt.ssms = @ \ {m}], m),
                                       dialing, keys_owed, jobs \ {j}, swapd)
      BY <1>8, <2>2 DEF Answers
    <3> DEFINE r == end_job(Tasked(Now, Now.rt.ssms \ {m}), m)
    <3>2. m \in runtime.ssms /\ m.given
      OBVIOUS
    <3>3. ServeWith(r, dialing, keys_owed, jobs \ {j}, swapd)
      BY <3>1 DEF Tasked
    <3>4. /\ r \in Result /\ r.reach = alive
          /\ told_to_stop(r) \subseteq peers(alive) \cup syncers(alive)
          /\ m.client \in alive =>
               Calm(K, r.rt, r.reach \ told_to_stop(r), (starting \ r.reach) \cup r.launched)
          /\ m.client \notin alive =>
               /\ Calm(K \cup {m.chain}, r.rt, r.reach \ told_to_stop(r),
                       (starting \ r.reach) \cup r.launched)
               /\ r.rt.ssms = runtime.ssms \ {m}
      BY <3>2, AnswerCalm
    <3> HIDE DEF r
    <3>5. \A d \in Deals : Swap(d) \notin told_to_stop(r)
      BY <3>4, Kinds DEF peers, syncers
    <3>6. m.client \in alive => CalmInv(K)'
      BY <1>1, <3>3, <3>4, <3>5, ServeCalm
    <3>7. ASSUME m.client \notin alive
          PROVE  unheard(m) /\ CalmInv(K \cup {m.chain})'
      <4> DEFINE L == K \cup {m.chain}
      <4>1. Calm(L, r.rt, r.reach \ told_to_stop(r), (starting \ r.reach) \cup r.launched)
        BY <3>4, <3>7
      <4>2. World(L)
        BY WorldGrows
      <4> HIDE DEF L
      <4>3. CalmInv(L)'
        BY <1>1, <3>3, <3>4, <3>5, <4>1, <4>2, ServeCalm
      <4>4. runtime'.ssms = runtime.ssms \ {m}
        BY <3>3, <3>4, <3>7 DEF ServeWith
      <4> QED
        BY <3>2, <3>7, <4>3, <4>4 DEF unheard, L
    <3> QED
      BY <3>2, <3>6, <3>7
  <2> QED
    BY <2>1, <2>2
<1> QED
  BY <1>3, <1>4, <1>5, <1>6, <1>7, <1>8 DEF Own

\* The requests of clients.
LEMMA AskedCalm ==
    ASSUME NEW K, World(K), Asked
    PROVE  CalmInv(K)'
<1>1. /\ TypeOK /\ env \in Environments /\ runtime.tsms \in Seq(Machine)
      /\ \A c \in Clients : client(c) \in Service /\ client(c) \in Users
      /\ dialing \subseteq alive
  BY ClientsAreServices DEF World, TypeOK, Runtime, CalmInv, Users
<1>2. Now \in Result /\ Now.rt = runtime /\ Now.reach = alive /\ Apart(Now) /\ Listed(Now)
  BY <1>1, ApartBegin, BeginType
<1>3. PICK c \in Clients :
        \/ \E d \in Deals : \/ MakesDeal(d, c) \/ RevokesDeal(d, c) \/ TakesDeal(d, c)
                            \/ Restores(d, c) \/ Connects(d, c)
        \/ \E chain \in Chains : AsksSyncer(chain, c)
  BY DEF Asked
<1> DEFINE k == client(c)
<1>4. k \in Service /\ k \in Users
  BY <1>1
<1>5. ASSUME NEW d \in Deals, MakesDeal(d, c)
      PROVE  CalmInv(K)'
  <2> DEFINE r == make_deal(Now, d, k)
             p == Peer(0, Counterparty[d], "out")
  <2>1. d \in MakerDeals \ runtime.deals /\ Serve(r)
    BY <1>5 DEF MakesDeal
  <2>2. Trade("MakeDeal", d, None) \in Machine /\ p \in Connection
    BY TradeType, Services
  <2> HIDE DEF k, p
  <2>3. r \in Result
    BY <1>2, <1>4, <2>2, MakerType
  <2>4. Apart(r) /\ Listed(r)
    BY <1>4, <2>1, MakerCalm
  <2> HIDE DEF r
  <2> QED
    BY <2>1, <2>3, <2>4, ServedCalm
<1>6. ASSUME NEW d \in Deals, RevokesDeal(d, c)
      PROVE  CalmInv(K)'
  <2> DEFINE i == MakesAt(d)
             t == runtime.tsms[i]
             r == revoke_deal(taken(Now, i), t, k)
             p == Peer(0, Counterparty[d], "out")
  <2>1. i # 0 /\ Serve(r)
    BY <1>6 DEF RevokesDeal, MakesAt
  <2>2. i \in 1..Len(runtime.tsms) /\ t.st = "MakeDeal"
    BY <1>1, <2>1, Positions
  <2> HIDE DEF i, k
  <2>3. taken(Now, i) \in Result /\ t \in Machine
    BY <2>2, TakenCalm
  <2>4. Apart(r) /\ Listed(r)
    BY <1>4, <2>2, MakerCalm
  <2>5. p \in Connection
    BY Services
  <2> HIDE DEF p, t
  <2>6. r \in Result
    BY <1>4, <2>3, <2>5, MakerType
  <2> HIDE DEF r
  <2> QED
    BY <2>1, <2>4, <2>6, ServedCalm
<1>7. ASSUME NEW d \in Deals, TakesDeal(d, c)
      PROVE  CalmInv(K)'
  <2> DEFINE r == take_deal(Now, d, k)
  <2>1. d \in Deals \ MakerDeals /\ Serve(r)
    BY <1>7 DEF TakesDeal
  <2> HIDE DEF k
  <2>2. r \in Result
    BY <1>2, <1>4, TakerType
  <2>3. Apart(r) /\ Listed(r)
    BY <1>4, <2>1, TakerCalm
  <2> HIDE DEF r
  <2> QED
    BY <2>1, <2>2, <2>3, ServedCalm
<1>8. ASSUME NEW d \in Deals, Restores(d, c)
      PROVE  CalmInv(K)'
  <2> DEFINE e == store[d].expected
             r == restore_checkpoint(Now, d, e, k)
  <2>1. Serve(r) /\ store[d].saved
    BY <1>8 DEF Restores
  <2>2. e \in SUBSET Nodes
    BY <1>1 DEF TypeOK
  <2> HIDE DEF e, k
  <2>3. r \in Result /\ Apart(r) /\ r.rt = runtime
    BY <1>2, <1>4, <2>1, <2>2, RestoreCalm
  <2> HIDE DEF r
  <2>4. Listed(r)
    BY <2>3, Listings
  <2> QED
    BY <2>1, <2>3, <2>4, ServedCalm
<1>9. ASSUME NEW d \in Deals, Connects(d, c)
      PROVE  CalmInv(K)'
  <2> DEFINE i == by_swap_id(d)
             t == runtime.tsms[i]
  <2>1. /\ i # 0 /\ k \in alive
        /\ \E newest \in BOOLEAN :
             Serve(IF t.st = "SwapdRunning" THEN connect(taken(Now, i), t, k)
                   ELSE otherwise(taken(Now, i), t, newest))
    BY <1>9 DEF Connects
  <2>2. i \in 1..Len(runtime.tsms) /\ has_swap_id(t)
    BY <1>1, <2>1, Positions
  <2> HIDE DEF i, k
  <2>3. PICK newest \in BOOLEAN :
               Serve(IF t.st = "SwapdRunning" THEN connect(taken(Now, i), t, k)
                     ELSE otherwise(taken(Now, i), t, newest))
    BY <2>1
  <2>4. CASE t.st = "SwapdRunning"
    <3> DEFINE r == connect(taken(Now, i), t, k)
    <3>1. r \in Result /\ Apart(r) /\ Listed(r)
      BY <1>4, <2>1, <2>2, RunningCalm
    <3>2. Serve(r)
      BY <2>3, <2>4
    <3> HIDE DEF r
    <3> QED
      BY <3>1, <3>2, ServedCalm
  <2>5. CASE t.st # "SwapdRunning"
    <3> DEFINE r == otherwise(taken(Now, i), t, newest)
    <3>1. r \in Result /\ Apart(r) /\ Listed(r)
      BY <2>2, <2>5, OtherwiseCalm
    <3>2. Serve(r)
      BY <2>3, <2>5
    <3> HIDE DEF r
    <3> QED
      BY <3>1, <3>2, ServedCalm
  <2> QED
    BY <2>4, <2>5
<1>10. ASSUME NEW chain \in Chains, AsksSyncer(chain, c)
       PROVE  CalmInv(K)'
  <2> DEFINE r == start_job(Now, chain, k)
  <2>1. ServeWith(r, dialing, keys_owed, jobs, swapd)
    BY <1>10 DEF AsksSyncer, Serve
  <2> HIDE DEF k
  <2>2. /\ r \in Result /\ r.reach = alive /\ told_to_stop(r) = {}
        /\ Calm(K, r.rt, r.reach \ told_to_stop(r), (starting \ r.reach) \cup r.launched)
    BY <1>4, StartCalm
  <2> HIDE DEF r
  <2> QED
    BY <1>1, <2>1, <2>2, ServeCalm
<1> QED
  BY <1>3, <1>5, <1>6, <1>7, <1>8, <1>9, <1>10

\* The messages of remote nodes.
LEMMA RemoteCalm ==
    ASSUME NEW K, World(K), Remote
    PROVE  CalmInv(K)'
<1>1. /\ TypeOK /\ runtime.tsms \in Seq(Machine) /\ links \in Nat
      /\ alive \in SUBSET Service /\ peers(alive) \subseteq Connection
  BY Services DEF World, TypeOK, Runtime
<1>2. Now \in Result /\ Now.rt = runtime /\ Apart(Now)
  BY <1>1, ApartBegin, BeginType
<1>3. ASSUME NEW n \in Nodes, RemoteConnects(n)
      PROVE  CalmInv(K)'
  <2> DEFINE p == Peer(links + 1, n, "in")
             r == register(Joining(p), p)
  <2>1. PICK newest \in BOOLEAN : Serve(machines_hear(r, p, newest))
    BY <1>3 DEF RemoteConnects
  <2>2. p \in Service /\ p.kind = "peer"
    <3>1. p \in Service
      BY <1>1, Services
    <3>2. p.kind = "peer"
      BY DEF Peer
    <3> QED
      BY <3>1, <3>2
  <2> HIDE DEF p
  <2>3. r \in Result /\ Joined(r, p)
    BY <2>2, JoinedCalm
  <2> HIDE DEF r
  <2> QED
    BY <2>1, <2>2, <2>3, ServedCalm
<1>4. ASSUME NEW p \in peers(alive), NEW d \in Deals, TakerCommits(p, d)
      PROVE  CalmInv(K)'
  <2> DEFINE i == MakesAt(d)
             t == runtime.tsms[i]
             r == IF i # 0 THEN taker_commit(taken(Now, i), t, p)
                  ELSE send(Now, p, "DealNotFound", d)
  <2>1. Serve(r)
    BY <1>4 DEF TakerCommits, MakesAt
  <2>2. i # 0 => i \in 1..Len(runtime.tsms) /\ t.st = "MakeDeal"
    BY <1>1, Positions
  <2>3. p \in Connection /\ p \in Service
    BY <1>1, Services
  <2>4. r \in Result /\ Apart(r) /\ Listed(r)
    <3> HIDE DEF i
    <3>1. CASE i # 0
      <4>1. taken(Now, i) \in Result /\ t \in Machine
        BY <2>2, <3>1, TakenCalm
      <4>2. taker_commit(taken(Now, i), t, p) \in Result
        BY <2>3, <4>1, MakerType
      <4>3. /\ Apart(taker_commit(taken(Now, i), t, p))
            /\ Listed(taker_commit(taken(Now, i), t, p))
        BY <2>2, <2>3, <3>1, MakerCalm
      <4> QED
        BY <3>1, <4>2, <4>3
    <3>2. CASE i = 0
      <4>1. send(Now, p, "DealNotFound", d) \in Result
        BY <1>2, <2>3, SendType, Messages
      <4>2. Apart(send(Now, p, "DealNotFound", d)) /\ Listed(send(Now, p, "DealNotFound", d))
        BY <2>3, MakerCalm
      <4> QED
        BY <3>2, <4>1, <4>2
    <3> QED
      BY <3>1, <3>2
  <2> HIDE DEF r
  <2> QED
    BY <2>1, <2>4, ServedCalm
<1>5. ASSUME NEW p \in peers(alive), PeerdTerminated(p)
      PROVE  CalmInv(K)'
  <2> DEFINE r == handle_failed_connection(Now, p)
  <2>1. Serve(r)
    BY <1>5 DEF PeerdTerminated
  <2>2. p \in Connection /\ p \in Service
    BY <1>1, Services
  <2>3. r \in Result /\ r.rt.tsms = runtime.tsms /\ r.rt.deals = runtime.deals /\ Apart(r)
    BY <1>2, <2>2, ConnectionType, ApartSteps
  <2> HIDE DEF r
  <2>4. Listed(r)
    BY <2>3, Listings
  <2> QED
    BY <2>1, <2>3, <2>4, ServedCalm
<1> QED
  BY <1>3, <1>4, <1>5 DEF Remote

\* What swapds do.
LEMMA SwapsCalm ==
    ASSUME NEW K, World(K), Swaps
    PROVE  CalmInv(K)'
<1> SUFFICES ASSUME NEW d \in Deals, Checkpoints(d) \/ Unreachable(d) \/ Ends(d)
             PROVE  CalmInv(K)'
  BY DEF Swaps
<1>1. /\ TypeOK /\ runtime.tsms \in Seq(Machine) /\ dialing \subseteq alive
      /\ Calm(K, runtime, alive, starting)
      /\ \A x \in Deals : store[x].saved => Swap(x) \in alive
  BY DEF World, TypeOK, Runtime, CalmInv
<1>2. Now \in Result /\ Apart(Now) /\ Listed(Now)
  BY <1>1, ApartBegin
<1> DEFINE i == by_swap_id(d)
           t == runtime.tsms[i]
<1>3. i # 0 => i \in 1..Len(runtime.tsms) /\ has_swap_id(t)
  BY <1>1, Positions
<1>4. CASE Checkpoints(d)
  <2>1. /\ Swap(d) \in alive
        /\ runtime' = runtime /\ alive' = alive /\ starting' = starting /\ dialing' = dialing
        /\ env' = env
        /\ store' = [store EXCEPT ![d] = [saved |-> TRUE, expected |-> node_id(swapd[d].peer)]]
    BY <1>4 DEF Checkpoints, runs
  <2>2. \A x \in Deals : store'[x].saved => Swap(x) \in alive'
    <3> SUFFICES ASSUME NEW x \in Deals, store'[x].saved
                 PROVE  Swap(x) \in alive
      BY <2>1
    <3>1. x # d => store'[x] = store[x]
      BY <1>1, <2>1 DEF TypeOK
    <3> QED
      BY <1>1, <2>1, <3>1
  <2>3. Calm(K, runtime', alive', starting')
    BY <1>1, <2>1
  <2>4. Calm(K, runtime, alive, starting)' <=> Calm(K, runtime', alive', starting')
    BY <2>1 DEF Calm, Distinct, MachineOK, JobOK, Tidy, Users, client, Clients
  <2> QED
    BY <1>1, <2>1, <2>2, <2>3, <2>4 DEF CalmInv
<1>5. CASE Unreachable(d)
  <2> DEFINE p == swapd[d].peer
  <2>1. /\ i # 0 /\ p \notin alive
        /\ \E newest \in BOOLEAN :
             Serve(IF t.st = "SwapdRunning" THEN peerd_unreachable(taken(Now, i), t, p)
                   ELSE otherwise(taken(Now, i), t, newest))
    BY <1>5 DEF Unreachable
  <2> HIDE DEF i, p
  <2>2. PICK newest \in BOOLEAN :
          Serve(IF t.st = "SwapdRunning" THEN peerd_unreachable(taken(Now, i), t, p)
                ELSE otherwise(taken(Now, i), t, newest))
    BY <2>1
  <2>3. CASE t.st = "SwapdRunning"
    <3> DEFINE r == peerd_unreachable(taken(Now, i), t, p)
    <3>1. r \in Result /\ Apart(r) /\ Listed(r)
      BY <1>3, <2>1, RunningCalm
    <3>2. Serve(r)
      BY <2>2, <2>3
    <3> HIDE DEF r
    <3> QED
      BY <3>1, <3>2, ServedCalm
  <2>4. CASE t.st # "SwapdRunning"
    <3> DEFINE r == otherwise(taken(Now, i), t, newest)
    <3>1. r \in Result /\ Apart(r) /\ Listed(r)
      BY <1>3, <2>1, <2>4, OtherwiseCalm
    <3>2. Serve(r)
      BY <2>2, <2>4
    <3> HIDE DEF r
    <3> QED
      BY <3>1, <3>2, ServedCalm
  <2> QED
    BY <2>3, <2>4
<1>6. CASE Ends(d)
  <2> DEFINE ended == [swapd EXCEPT ![d].st = "ended"]
  <2>1. PICK newest \in BOOLEAN :
          ServeWith(IF i = 0 THEN Now ELSE IF t.st = "SwapdRunning" THEN swap_outcome(taken(Now, i), t)
                    ELSE otherwise(taken(Now, i), t, newest), dialing, keys_owed, jobs, ended)
    BY <1>6 DEF Ends
  <2> HIDE DEF i, ended
  <2>2. CASE i = 0
    <3>1. ServeWith(Now, dialing, keys_owed, jobs, ended)
      BY <2>1, <2>2
    <3> QED
      BY <1>2, <3>1, ApartServe
  <2>3. CASE i # 0 /\ t.st = "SwapdRunning"
    <3> DEFINE r == swap_outcome(taken(Now, i), t)
    <3>1. /\ r \in Result /\ r.reach = alive
          /\ Calm(K, r.rt, r.reach \ told_to_stop(r), (starting \ r.reach) \cup r.launched)
          /\ \A x \in Deals : Swap(x) \in told_to_stop(r) =>
               \E m \in sent(r, Database, "RemoveCheckpoint") : m.arg = x
      BY <1>3, <2>3, EndCalm
    <3>2. ServeWith(r, dialing, keys_owed, jobs, ended)
      BY <2>1, <2>3
    <3> HIDE DEF r
    <3> QED
      BY <1>1, <3>1, <3>2, ServeCalm
  <2>4. CASE i # 0 /\ t.st # "SwapdRunning"
    <3> DEFINE r == otherwise(taken(Now, i), t, newest)
    <3>1. r \in Result /\ Apart(r) /\ Listed(r)
      BY <1>3, <2>4, OtherwiseCalm
    <3>2. ServeWith(r, dialing, keys_owed, jobs, ended)
      BY <2>1, <2>4
    <3> HIDE DEF r
    <3> QED
      BY <3>1, <3>2, ApartServe
  <2> QED
    BY <2>2, <2>3, <2>4
<1> QED
  BY <1>4, <1>5, <1>6

\* A behaviour has one world, and counts what fails in it.
LEMMA Steady ==
    ASSUME [Next]_vars
    PROVE  env' = env /\ (faults \in Nat => faults' \in Nat)
<1>1. \A r, dial, owed, tasks, before : ServeWith(r, dial, owed, tasks, before) => env' = env
  BY DEF ServeWith
<1>2. \A r : Serve(r) => env' = env
  BY <1>1 DEF Serve
<1>3. Rest => faults' = faults
  BY DEF Rest
<1>4. CASE Own
  <2>1. ASSUME NEW s \in starting, SaysHello(s)
        PROVE  env' = env /\ faults' = faults
    <3>1. Rest /\ \E r : Serve(r)
      BY <2>1 DEF SaysHello
    <3> QED
      BY <1>2, <1>3, <3>1
  <2>2. CASE KeysArrive
    <3>1. Rest /\ \E r : Serve(r)
      BY <2>2 DEF KeysArrive
    <3> QED
      BY <1>2, <1>3, <3>1
  <2>3. CASE ListRestores
    <3>1. Rest /\ \E r : Serve(r)
      BY <2>3 DEF ListRestores
    <3> QED
      BY <1>2, <1>3, <3>1
  <2>4. ASSUME NEW d \in Deals, KeysCreated(d)
        PROVE  env' = env /\ faults' = faults
    <3>1. Rest /\ \E r : ServeWith(r, dialing, keys_owed \ {d}, jobs, swapd)
      BY <2>4 DEF KeysCreated
    <3> QED
      BY <1>1, <1>3, <3>1
  <2>5. ASSUME NEW p \in dialing, NEW success \in BOOLEAN, Reports(p, success)
        PROVE  env' = env /\ faults' = faults
    <3>1. Rest /\ \E r : ServeWith(r, dialing \ {p}, keys_owed, jobs, swapd)
      BY <2>5 DEF Reports
    <3> QED
      BY <1>1, <1>3, <3>1
  <2>6. ASSUME NEW j \in jobs, Answers(j)
        PROVE  env' = env /\ faults' = faults
    <3>1. faults' = faults /\ \E r : ServeWith(r, dialing, keys_owed, jobs \ {j}, swapd)
      BY <2>6 DEF Answers
    <3> QED
      BY <1>1, <3>1
  <2> QED
    BY <1>4, <2>1, <2>2, <2>3, <2>4, <2>5, <2>6 DEF Own
<1>5. CASE Asked
  <2>1. PICK c \in Clients :
          \/ \E d \in Deals : \/ MakesDeal(d, c) \/ RevokesDeal(d, c) \/ TakesDeal(d, c)
                              \/ Restores(d, c) \/ Connects(d, c)
          \/ \E chain \in Chains : AsksSyncer(chain, c)
    BY <1>5 DEF Asked
  <2>2. ASSUME NEW d \in Deals,
               MakesDeal(d, c) \/ RevokesDeal(d, c) \/ TakesDeal(d, c) \/ Restores(d, c)
        PROVE  env' = env /\ faults' = faults
    <3>1. Rest /\ \E r : Serve(r)
      BY <2>2 DEF MakesDeal, RevokesDeal, TakesDeal, Restores
    <3> QED
      BY <1>2, <1>3, <3>1
  <2>3. ASSUME NEW d \in Deals, Connects(d, c)
        PROVE  env' = env /\ faults' = faults
    <3>1. faults' = faults /\ \E r : Serve(r)
      BY <2>3 DEF Connects
    <3> QED
      BY <1>2, <3>1
  <2>4. ASSUME NEW chain \in Chains, AsksSyncer(chain, c)
        PROVE  env' = env /\ faults' = faults
    <3>1. faults' = faults /\ \E r : Serve(r)
      BY <2>4 DEF AsksSyncer
    <3> QED
      BY <1>2, <3>1
  <2> QED
    BY <2>1, <2>2, <2>3, <2>4
<1>6. CASE Remote
  <2>1. ASSUME NEW n \in Nodes, RemoteConnects(n)
        PROVE  env' = env /\ faults' = faults
    <3>1. faults' = faults /\ \E r : Serve(r)
      BY <2>1 DEF RemoteConnects
    <3> QED
      BY <1>2, <3>1
  <2>2. ASSUME NEW p \in peers(alive), NEW d \in Deals, TakerCommits(p, d)
        PROVE  env' = env /\ faults' = faults
    <3>1. Rest /\ \E r : Serve(r)
      BY <2>2 DEF TakerCommits
    <3> QED
      BY <1>2, <1>3, <3>1
  <2>3. ASSUME NEW p \in peers(alive), PeerdTerminated(p)
        PROVE  env' = env /\ faults' = faults
    <3>1. Rest /\ \E r : Serve(r)
      BY <2>3 DEF PeerdTerminated
    <3> QED
      BY <1>2, <1>3, <3>1
  <2> QED
    BY <1>6, <2>1, <2>2, <2>3 DEF Remote
<1>7. CASE Swaps
  <2>1. PICK d \in Deals : Checkpoints(d) \/ Unreachable(d) \/ Ends(d)
    BY <1>7 DEF Swaps
  <2>2. CASE Checkpoints(d)
    BY <1>3, <2>2 DEF Checkpoints
  <2>3. CASE Unreachable(d)
    <3>1. Rest /\ \E r : Serve(r)
      BY <2>3 DEF Unreachable
    <3> QED
      BY <1>2, <1>3, <3>1
  <2>4. CASE Ends(d)
    <3>1. Rest /\ \E r, ended : ServeWith(r, dialing, keys_owed, jobs, ended)
      BY <2>4 DEF Ends
    <3> QED
      BY <1>1, <1>3, <3>1
  <2> QED
    BY <2>1, <2>2, <2>3, <2>4
<1>8. CASE Faults
  BY <1>8 DEF Faults, Dies, Restarts
<1>9. CASE UNCHANGED vars
  BY <1>9 DEF vars
<1> QED
  BY <1>4, <1>5, <1>6, <1>7, <1>8, <1>9 DEF Next

\* The invariant holds when such a node starts: nothing is launched but walletd and databased,
\* nothing is saved.
LEMMA CalmInit ==
    ASSUME NEW K, Init, Undisturbed
    PROVE  CalmInv(K)
<1>1. /\ runtime = NewRuntime /\ alive = Users /\ starting = {Wallet, Database} /\ dialing = {}
      /\ store = [d \in Deals |-> NoCheckpoint]
  BY DEF Init, Undisturbed, Users
<1>2. /\ runtime.registered = {} /\ runtime.spawning = {} /\ runtime.ssms = {}
      /\ runtime.tsms = <<>>
  BY <1>1 DEF NewRuntime
<1>3. ToSet(runtime.tsms) = {} /\ Distinct(runtime.tsms)
  BY <1>2 DEF ToSet, Distinct
<1>4. \A s \in alive \cup starting : s.kind \notin {"syncer", "swap"}
  BY <1>1, Kinds
<1>5. \A c \in Chains : Syncer(c) \notin alive \cup starting
  BY <1>4, Kinds
<1>6. \A d \in Deals : Swap(d) \notin alive \cup starting
  BY <1>4, Kinds
<1>7. Tidy(K, runtime, alive, starting)
  BY <1>1, <1>2, <1>5, <1>6 DEF Tidy
<1>8. Calm(K, runtime, alive, starting)
  BY <1>2, <1>3, <1>7 DEF Calm
<1>9. \A d \in Deals : store[d].saved => Swap(d) \in alive
  BY <1>1 DEF NoCheckpoint
<1> QED
  BY <1>1, <1>8, <1>9 DEF CalmInv

\* A step leaves no other syncer unused than one whose last request ends unheard.
LEMMA CalmStep ==
    ASSUME NEW K, World(K), faults \in Nat, [Next]_vars
    PROVE  CalmInv(K)' \/ \E m \in runtime.ssms : unheard(m) /\ CalmInv(K \cup {m.chain})'
<1>1. ~Faults
  BY DEF World, Faults, Dies, Restarts, Undisturbed
<1>2. CASE UNCHANGED vars
  <2>1. /\ runtime' = runtime /\ alive' = alive /\ starting' = starting /\ dialing' = dialing
        /\ env' = env /\ store' = store
    BY <1>2 DEF vars
  <2>2. Calm(K, runtime', alive', starting') /\ dialing' \subseteq alive'
        /\ \A d \in Deals : store'[d].saved => Swap(d) \in alive'
    BY <2>1 DEF World, CalmInv
  <2>3. Calm(K, runtime, alive, starting)' <=> Calm(K, runtime', alive', starting')
    BY <2>1 DEF Calm, Distinct, MachineOK, JobOK, Tidy, Users, client, Clients
  <2> QED
    BY <2>2, <2>3 DEF CalmInv
<1> QED
  BY <1>1, <1>2, OwnCalm, AskedCalm, RemoteCalm, SwapsCalm DEF Next

\* On a node that has nothing to restore, and no process of which dies, what every machine
\* and every request waits for is up or on its way.
LEMMA NodeIsCalm == Spec => [](faults \in Nat /\ (Undisturbed => CalmInv(Chains)))
<1> DEFINE Inv == TypeOK /\ faults \in Nat /\ (Undisturbed => CalmInv(Chains))
<1>1. Init => Inv
  <2> SUFFICES ASSUME Init
               PROVE  Inv
    OBVIOUS
  <2>1. TypeOK
    BY TypeInit
  <2>2. faults \in Nat
    BY DEF Init
  <2>3. Undisturbed => CalmInv(Chains)
    BY CalmInit
  <2> QED
    BY <2>1, <2>2, <2>3
<1>2. Inv /\ [Next]_vars => Inv'
  <2> SUFFICES ASSUME Inv, [Next]_vars
               PROVE  Inv'
    OBVIOUS
  <2>1. TypeOK'
    <3>1. UNCHANGED vars => TypeOK'
      BY DEF TypeOK, vars
    <3> QED
      BY <3>1, OwnType, AskedType, RemoteType, SwapsType, FaultsType DEF Next
  <2>2. env' = env /\ faults' \in Nat
    BY Steady
  <2>3. ASSUME Undisturbed'
        PROVE  CalmInv(Chains)'
    <3>1. World(Chains)
      BY <2>2, <2>3 DEF World, Undisturbed, Stored, MaxFaults
    <3>2. \A m \in runtime.ssms : Chains \cup {m.chain} = Chains
      BY DEF TypeOK, Runtime, Request
    <3>3. CalmInv(Chains)' \/ \E m \in runtime.ssms : CalmInv(Chains \cup {m.chain})'
      BY <3>1, CalmStep
    <3> QED
      BY <3>2, <3>3
  <2> QED
    BY <2>1, <2>2, <2>3
<1>3. Inv => faults \in Nat /\ (Undisturbed => CalmInv(Chains))
  OBVIOUS
<1> QED
  BY <1>1, <1>2, <1>3, PTL DEF Spec

-------------------------------------------------------------------------------
(***************************************************************************)
(* A secluded node: what was stored is restored once after every start,    *)
(* from a runtime without machines.                                        *)
(***************************************************************************)
\* A machine that restores has heard of what is there; the rest is starting.
RestoredOK(t, al, st) ==
    /\ t.st \in {"RestoringSwapd", "SwapdRunning"}
    /\ t.st = "SwapdRunning" => t.up = Chains \cup {"swapd"}
    /\ \A c \in Chains : c \in t.up <=> Syncer(c) \notin st
    /\ "swapd" \in t.up => Swap(t.deal) \in al
    /\ "swapd" \notin t.up => Swap(t.deal) \in st

\* There are no other machines, and no syncer without one.
Home(rt, al, st) ==
    /\ rt.ssms = {} /\ rt.registered \subseteq al /\ Distinct(rt.tsms)
    /\ \A t \in ToSet(rt.tsms) : RestoredOK(t, al, st)
    /\ rt.tsms # <<>> => {Wallet, Database} \subseteq rt.registered
    /\ \A c \in Chains : /\ Syncer(c) \in st => Syncer(c) \notin al
                         /\ Syncer(c) \in st \cup rt.registered => rt.tsms # <<>>
    /\ \A d \in Deals : Swap(d) \notin rt.registered /\ (Swap(d) \in st => Swap(d) \notin al)

\* Nothing has been restored since the node started.
Fresh(rt, al, st) ==
    /\ rt.tsms = <<>>
    /\ \A c \in Chains : Syncer(c) \notin rt.spawning \cup rt.registered \cup al \cup st
    /\ \A d \in Deals : Swap(d) \notin al \cup st

\* The invariant.  The list is asked for once, before anything is launched for it.
HomeInv ==
    /\ Home(runtime, alive, starting)
    /\ dialing \subseteq alive
    /\ ~runtime.auto_restored \/ pending => Fresh(runtime, alive, starting)
    /\ pending => runtime.auto_restored /\ {Wallet, Database} \subseteq runtime.registered

\* What a step starts from.
AtHome == TypeOK /\ Secluded /\ HomeInv

\* What the invariant asks of a step that handles a request.
LEMMA HomeStep ==
    ASSUME AtHome, NEW r \in Result, NEW dial, NEW owed, NEW tasks, NEW before,
           ServeWith(r, dial, owed, tasks, before), alive \subseteq r.reach, dial \subseteq r.reach,
           Home(r.rt, r.reach \ told_to_stop(r), (starting \ r.reach) \cup r.launched),
           ~r.rt.auto_restored \/ pending' =>
             Fresh(r.rt, r.reach \ told_to_stop(r), (starting \ r.reach) \cup r.launched),
           pending' => r.rt.auto_restored /\ {Wallet, Database} \subseteq r.rt.registered
    PROVE  HomeInv'
<1>1. /\ runtime' = r.rt
      /\ alive' = r.reach \ told_to_stop(r)
      /\ starting' = (starting \ r.reach) \cup r.launched
      /\ dialing' = (dial \cup (peers(starting) \cap r.reach)) \ told_to_stop(r)
  BY DEF ServeWith
<1>2. dialing' \subseteq alive'
  BY <1>1
<1>3. Home(runtime, alive, starting)' <=> Home(runtime', alive', starting')
  BY DEF Home, Distinct, RestoredOK
<1>4. Fresh(runtime, alive, starting)' <=> Fresh(runtime', alive', starting')
  BY DEF Fresh
<1> QED
  BY <1>1, <1>2, <1>3, <1>4 DEF HomeInv

\* The machines are still those that restore or run.
Relisted(r) ==
    /\ Distinct(r.rt.tsms)
    /\ \A u \in ToSet(r.rt.tsms) : u \in Machine /\ RestoredOK(u, alive, starting)
    /\ r.rt.tsms = <<>> <=> runtime.tsms = <<>>

\* A request that changes no more than connections and one machine keeps the invariant.
LEMMA HomeApart ==
    ASSUME AtHome, NEW r \in Result, Apart(r), Relisted(r)
    PROVE  /\ Home(r.rt, r.reach \ told_to_stop(r), (starting \ r.reach) \cup r.launched)
           /\ Fresh(runtime, alive, starting) =>
                Fresh(r.rt, r.reach \ told_to_stop(r), (starting \ r.reach) \cup r.launched)
           /\ {Wallet, Database} \subseteq runtime.registered =>
                {Wallet, Database} \subseteq r.rt.registered
<1> DEFINE al == r.reach \ told_to_stop(r)
           st == (starting \ r.reach) \cup r.launched
<1>1. Home(runtime, alive, starting)
  BY DEF AtHome, HomeInv
<1>2. \A s \in Service : s.kind # "peer" =>
        /\ s \in al <=> s \in alive
        /\ s \in st <=> s \in starting \ alive
        /\ s \in r.rt.registered <=> s \in runtime.registered
        /\ s \in r.rt.spawning <=> s \in runtime.spawning
  BY Kinds DEF Apart
<1>3. ASSUME NEW c \in Chains
      PROVE  /\ Syncer(c) \in al <=> Syncer(c) \in alive
             /\ Syncer(c) \in st <=> Syncer(c) \in starting
             /\ Syncer(c) \in r.rt.registered <=> Syncer(c) \in runtime.registered
             /\ Syncer(c) \in r.rt.spawning <=> Syncer(c) \in runtime.spawning
  <2>1. Syncer(c) \in Service /\ Syncer(c).kind # "peer"
    BY Services, Kinds
  <2> QED
    BY <1>1, <1>2, <2>1 DEF Home
<1>4. ASSUME NEW d \in Deals
      PROVE  /\ Swap(d) \in al <=> Swap(d) \in alive
             /\ Swap(d) \in st <=> Swap(d) \in starting
             /\ Swap(d) \notin r.rt.registered
  <2>1. Swap(d) \in Service /\ Swap(d).kind # "peer"
    BY Services, Kinds
  <2> QED
    BY <1>1, <1>2, <2>1 DEF Home
<1>5. {Wallet, Database} \subseteq runtime.registered => {Wallet, Database} \subseteq r.rt.registered
  BY <1>2, Services, Kinds
<1>6. r.rt.registered \subseteq al
  BY DEF Apart
<1> HIDE DEF al, st
<1>7. \A u \in ToSet(r.rt.tsms) : RestoredOK(u, al, st)
  <2> SUFFICES ASSUME NEW u \in ToSet(r.rt.tsms)
               PROVE  RestoredOK(u, al, st)
    OBVIOUS
  <2>1. u.deal \in Deals /\ RestoredOK(u, alive, starting)
    BY DEF Relisted, Machine
  <2> QED
    BY <1>3, <1>4, <2>1 DEF RestoredOK
<1>8. Home(r.rt, al, st)
  BY <1>1, <1>3, <1>4, <1>5, <1>6, <1>7 DEF Home, Apart, Relisted
<1>9. Fresh(runtime, alive, starting) => Fresh(r.rt, al, st)
  BY <1>3, <1>4 DEF Fresh, Relisted
<1> QED
  BY <1>5, <1>8, <1>9 DEF al, st

\* It restores nothing.
Homely(r) == r \in Result /\ Apart(r) /\ Relisted(r) /\ r.rt.auto_restored = runtime.auto_restored

\* A step that handles such a request.
LEMMA HomeApartServe ==
    ASSUME AtHome, NEW r, Homely(r), NEW dial, NEW owed, NEW tasks, NEW before,
           ServeWith(r, dial, owed, tasks, before), dial \subseteq dialing, UNCHANGED pending
    PROVE  HomeInv'
<1>1. dial \subseteq r.reach /\ alive \subseteq r.reach
  BY DEF AtHome, HomeInv, Apart, Homely
<1>2. /\ ~runtime.auto_restored \/ pending => Fresh(runtime, alive, starting)
      /\ pending => runtime.auto_restored /\ {Wallet, Database} \subseteq runtime.registered
  BY DEF AtHome, HomeInv
<1> QED
  BY <1>1, <1>2, HomeApart, HomeStep DEF Homely

\* The machines are as they were, or one has changed.
LEMMA Relistings ==
    ASSUME AtHome, NEW r \in Result
    PROVE  /\ r.rt.tsms = runtime.tsms => Relisted(r)
           /\ \A i \in 1..Len(runtime.tsms), u \in Machine :
                /\ r.rt.tsms = Append(RemoveAt(runtime.tsms, i), u)
                /\ u.deal = runtime.tsms[i].deal
                /\ RestoredOK(u, alive, starting)
                => Relisted(r)
<1> DEFINE q == runtime.tsms
<1>1. q \in Seq(Machine) /\ Distinct(q) /\ DOMAIN q = 1..Len(q) /\ Len(q) \in Nat
  BY LenProperties DEF AtHome, HomeInv, Home, TypeOK, Runtime
<1>2. \A t \in ToSet(q) : t \in Machine
  BY <1>1, ElementOfSeq DEF ToSet
<1>3. \A t \in ToSet(q) : RestoredOK(t, alive, starting)
  BY DEF AtHome, HomeInv, Home
<1>4. r.rt.tsms = q => Relisted(r)
  BY <1>1, <1>2, <1>3 DEF Relisted
<1> HIDE DEF q
<1>5. ASSUME NEW i \in 1..Len(q), NEW u \in Machine, r.rt.tsms = Append(RemoveAt(q, i), u),
             u.deal = q[i].deal, RestoredOK(u, alive, starting)
      PROVE  Relisted(r)
  <2> DEFINE a == RemoveAt(q, i)
  <2>1. /\ Distinct(a) /\ ToSet(a) = ToSet(q) \ {q[i]}
        /\ \A t \in ToSet(a) : t.deal # q[i].deal
    BY <1>1, RemovedList
  <2>2. a \in Seq(Machine)
    BY <1>1, Removal
  <2> HIDE DEF a
  <2>3. ToSet(r.rt.tsms) = ToSet(a) \cup {u} /\ Distinct(r.rt.tsms)
    BY <1>5, <2>1, <2>2, AppendedList DEF a
  <2>4. q # <<>> /\ r.rt.tsms # <<>>
    BY <1>1, <1>5, <2>2, AppendProperties DEF a
  <2> QED
    BY <1>2, <1>3, <1>5, <2>1, <2>3, <2>4 DEF Relisted, q
<1> QED
  BY <1>4, <1>5 DEF q

\* It begins with what the node is, with or without one of its machines.
LEMMA HomeBegin ==
    ASSUME AtHome
    PROVE  /\ /\ Now \in Result /\ Homely(Now) /\ Now.ok
              /\ Now.rt = runtime /\ Now.reach = alive /\ Now.sent = {} /\ Now.launched = {}
              /\ told_to_stop(Now) = {}
           /\ \A i \in 1..Len(runtime.tsms) :
                LET o == taken(Now, i) IN
                /\ o \in Result /\ Apart(o) /\ o.ok /\ o.reach = alive /\ told_to_stop(o) = {}
                /\ o.launched = {} /\ o.rt.tsms = RemoveAt(runtime.tsms, i)
                /\ o.rt.auto_restored = runtime.auto_restored
                /\ o.rt.registered = runtime.registered
                /\ runtime.tsms[i] \in Machine /\ runtime.tsms[i].deal \in Deals
                /\ RestoredOK(runtime.tsms[i], alive, starting)
                /\ {Wallet, Database} \subseteq alive
<1>1. /\ TypeOK /\ Home(runtime, alive, starting) /\ runtime.registered \subseteq alive
      /\ runtime \in Runtime
      /\ runtime.tsms \in Seq(Machine) /\ DOMAIN runtime.tsms = 1..Len(runtime.tsms)
  BY LenProperties DEF AtHome, HomeInv, Home, TypeOK, Runtime
<1>2. /\ Now \in Result /\ Now.rt = runtime /\ Now.reach = alive /\ Now.sent = {} /\ Now.ok
      /\ Now.launched = {}
  BY <1>1, BeginType
<1>3. told_to_stop(Now) = {} /\ Apart(Now) /\ Relisted(Now)
  BY <1>1, <1>2, Relistings DEF told_to_stop, Apart
<1>4. ASSUME NEW i \in 1..Len(runtime.tsms)
      PROVE  LET o == taken(Now, i) IN
             /\ o \in Result /\ Apart(o) /\ o.ok /\ o.reach = alive /\ told_to_stop(o) = {}
             /\ o.launched = {} /\ o.rt.tsms = RemoveAt(runtime.tsms, i)
             /\ o.rt.auto_restored = runtime.auto_restored
             /\ o.rt.registered = runtime.registered
             /\ runtime.tsms[i] \in Machine /\ runtime.tsms[i].deal \in Deals
             /\ RestoredOK(runtime.tsms[i], alive, starting)
             /\ {Wallet, Database} \subseteq alive
  <2> DEFINE r == taken(Now, i)
  <2>1. /\ r \in Result /\ r.rt = [runtime EXCEPT !.tsms = RemoveAt(runtime.tsms, i)]
        /\ r.ok /\ r.reach = alive /\ r.sent = {} /\ r.launched = {}
        /\ runtime.tsms[i] \in Machine
    BY <1>1, TakenType
  <2> HIDE DEF r
  <2>2. /\ r.rt.registered = runtime.registered /\ r.rt.spawning = runtime.spawning
        /\ r.rt.deals = runtime.deals /\ r.rt.ssms = runtime.ssms
        /\ r.rt.auto_restored = runtime.auto_restored /\ r.rt.tsms = RemoveAt(runtime.tsms, i)
    BY <1>1, <2>1 DEF Runtime
  <2>3. told_to_stop(r) = {}
    BY <2>1 DEF told_to_stop
  <2>4. Apart(r)
    BY <1>1, <2>1, <2>2, <2>3 DEF Apart
  <2>5. runtime.tsms[i] \in ToSet(runtime.tsms) /\ runtime.tsms # <<>>
    BY <1>1 DEF ToSet
  <2>6. RestoredOK(runtime.tsms[i], alive, starting) /\ {Wallet, Database} \subseteq alive
    BY <1>1, <2>5 DEF Home
  <2>7. runtime.tsms[i].deal \in Deals
    BY <2>1 DEF Machine
  <2> QED
    BY <2>1, <2>2, <2>3, <2>4, <2>6, <2>7 DEF r
<1> QED
  BY <1>2, <1>3, <1>4 DEF Homely

\* What is launched and registered for machines has no part in what is restored automatically.
LEMMA RestoredOnce ==
    ASSUME NEW r \in Result
    PROVE  /\ \A n \in Nodes : connect_peer(r, n).rt.auto_restored = r.rt.auto_restored
           /\ \A p \in Connection :
                /\ handle_new_connection(r, p).rt.auto_restored = r.rt.auto_restored
                /\ handle_failed_connection(r, p).rt.auto_restored = r.rt.auto_restored
           /\ \A S : terminate(r, S).rt.auto_restored = r.rt.auto_restored
           /\ \A s : register(r, s).rt.auto_restored = r.rt.auto_restored
           /\ syncers_up(r).rt.auto_restored = r.rt.auto_restored
<1>1. \A n : connect_peer(r, n).rt.auto_restored = r.rt.auto_restored
  BY DEF connect_peer, Result, Runtime
<1>2. \A p : handle_new_connection(r, p).rt.auto_restored = r.rt.auto_restored
  BY DEF handle_new_connection, Result, Runtime
<1>3. \A p : handle_failed_connection(r, p).rt.auto_restored = r.rt.auto_restored
  BY DEF handle_failed_connection, send, Result, Runtime
<1>4. \A S : terminate(r, S).rt.auto_restored = r.rt.auto_restored
  BY DEF terminate, Result, Runtime
<1>5. \A s : register(r, s).rt.auto_restored = r.rt.auto_restored
  BY <1>2 DEF register, Result, Runtime
<1>6. \A q \in Result : \A c : syncer_up(q, c).rt.auto_restored = q.rt.auto_restored
  BY DEF syncer_up, Result, Runtime
<1>7. "btc" \in Chains /\ syncer_up(r, "btc") \in Result
  BY SyncerUpType DEF Chains
<1>8. syncers_up(r).rt.auto_restored = r.rt.auto_restored
  BY <1>6, <1>7 DEF syncers_up
<1> QED
  BY <1>1, <1>2, <1>3, <1>4, <1>5, <1>8

\* A restoring machine: nothing it sends is lost.
LEMMA GoesOn ==
    ASSUME NEW r \in Result, NEW t \in Machine, r.ok, Database \in r.reach,
           "swapd" \in t.up => Swap(t.deal) \in r.reach
    PROVE  LET q == restoring_goes_on(r, t) IN
           /\ q.ok
           /\ \E v \in Machine :
                /\ q.rt.tsms = Append(r.rt.tsms, v) /\ v.deal = t.deal /\ v.up = t.up
                /\ v.st = t.st \/ (v.st = "SwapdRunning" /\ v.up = Chains \cup {"swapd"})
<1> DEFINE warned == IF t.peerd # None
                     THEN send(r, Swap(t.deal), "PeerdReconnected", t.peerd) ELSE r
           told   == send(warned, Database, "RestoreCheckpoint", t.deal)
           v      == [t EXCEPT !.st = "SwapdRunning"]
           full   == t.up = Chains \cup {"swapd"}
<1>1. Swap(t.deal) \in Service /\ t.peerd \in Service /\ Database \in Service /\ t.deal \in Deals
  BY Services DEF Machine
<1>2. restoring_goes_on(r, t)
        = IF full /\ (t.expect => t.peerd # None) THEN push(told, v) ELSE push(r, t)
  BY DEF restoring_goes_on, restore_swap
<1>3. v \in Machine /\ v.deal = t.deal /\ v.up = t.up /\ v.st = "SwapdRunning"
  BY DEF Machine
<1>4. ASSUME full
      PROVE  push(told, v).ok /\ push(told, v).rt.tsms = Append(r.rt.tsms, v)
  <2>1. warned \in Result /\ Sends(warned, r) /\ warned.ok /\ warned.reach = r.reach
    <3>1. Swap(t.deal) \in r.reach
      BY <1>4
    <3> DEFINE q == send(r, Swap(t.deal), "PeerdReconnected", t.peerd)
    <3>2. q \in Result /\ Sends(q, r) /\ q.ok
      BY <1>1, <3>1, SendType, Messages
    <3>3. Sends(r, r) /\ warned \in {q, r}
      BY SendsOn
    <3> HIDE DEF q, warned
    <3> QED
      BY <3>2, <3>3 DEF Sends
  <2> HIDE DEF warned
  <2>2. Sends(told, warned) /\ told.ok
    BY <1>1, <2>1, SendType, Messages
  <2>3. Sends(told, r)
    BY <2>1, <2>2, SendsOn
  <2> HIDE DEF told, v
  <2> QED
    BY <1>3, <2>2, <2>3, PushAfter
<1>5. push(r, t).ok /\ push(r, t).rt.tsms = Append(r.rt.tsms, t)
  BY PushType
<1> HIDE DEF told, v
<1>6. CASE full /\ (t.expect => t.peerd # None)
  BY <1>2, <1>3, <1>4, <1>6
<1>7. CASE ~(full /\ (t.expect => t.peerd # None))
  BY <1>2, <1>5, <1>7
<1> QED
  BY <1>6, <1>7

\* A machine is pushed again as it was or otherwise connected, or goes on.
LEMMA HomePushed ==
    ASSUME AtHome, NEW i \in 1..Len(runtime.tsms), NEW r \in Result, Apart(r), r.ok,
           r.rt.tsms = RemoveAt(runtime.tsms, i), r.rt.auto_restored = runtime.auto_restored,
           NEW u \in Machine, u.deal = runtime.tsms[i].deal, u.st = runtime.tsms[i].st,
           u.up = runtime.tsms[i].up
    PROVE  Homely(push(r, u)) /\ Homely(restoring_goes_on(r, u))
<1> DEFINE t == runtime.tsms[i]
<1>1. RestoredOK(t, alive, starting) /\ {Wallet, Database} \subseteq alive /\ r.reach = alive
  BY HomeBegin DEF Apart
<1> HIDE DEF t
<1>2. u.deal = t.deal /\ u.st = t.st /\ u.up = t.up
  BY DEF t
<1>3. ASSUME NEW q \in Result, Leaves(q, r), Quiet(q, r), NEW v \in Machine,
             q.rt.tsms = Append(r.rt.tsms, v), v.deal = t.deal, v.up = t.up,
             v.st = t.st \/ (v.st = "SwapdRunning" /\ v.up = Chains \cup {"swapd"})
      PROVE  Homely(q)
  <2>1. Apart(q) /\ q.rt.auto_restored = runtime.auto_restored
    BY <1>3, ApartSteps DEF Leaves
  <2>2. RestoredOK(v, alive, starting)
    BY <1>1, <1>3 DEF RestoredOK
  <2>3. Relisted(q)
    BY <1>3, <2>2, Relistings DEF t
  <2> QED
    BY <2>1, <2>3 DEF Homely
<1>4. Homely(push(r, u))
  <2> DEFINE q == push(r, u)
  <2>1. /\ q \in Result /\ Leaves(q, r) /\ Quiet(q, r)
        /\ q.rt.tsms = Append(r.rt.tsms, u)
    BY PushType
  <2> HIDE DEF q
  <2>2. Homely(q)
    BY <1>2, <1>3, <2>1
  <2> QED
    BY <2>2 DEF q
<1>5. Homely(restoring_goes_on(r, u))
  <2> DEFINE q == restoring_goes_on(r, u)
  <2>1. q \in Result /\ Leaves(q, r) /\ Quiet(q, r)
    BY RestoringType DEF Pushed
  <2>2. "swapd" \in u.up => Swap(u.deal) \in r.reach
    BY <1>1, <1>2 DEF RestoredOK
  <2>3. PICK v \in Machine :
          /\ q.rt.tsms = Append(r.rt.tsms, v) /\ v.deal = u.deal /\ v.up = u.up
          /\ v.st = u.st \/ (v.st = "SwapdRunning" /\ v.up = Chains \cup {"swapd"})
    BY <1>1, <2>2, GoesOn
  <2> HIDE DEF q
  <2>4. Homely(q)
    BY <1>2, <1>3, <2>1, <2>3
  <2> QED
    BY <2>4 DEF q
<1> QED
  BY <1>4, <1>5

\* The requests to one machine: reports of a peerd, of a swapd, and walletd's keys.
LEMMA HomeOne ==
    ASSUME AtHome, NEW i \in 1..Len(runtime.tsms)
    PROVE  LET o == taken(Now, i)
               t == runtime.tsms[i] IN
           /\ Homely(push(o, t))
           /\ t.st # "SwapdRunning" => \A newest : Homely(otherwise(o, t, newest))
           /\ \A p : p \notin alive => Homely(peerd_unreachable(o, t, p))
           /\ Homely(swap_keys(o, t))
           /\ \A p \in Connection \cap alive :
                t.st # "TakerConnect" => Homely(tsm_connected(o, t, p)) /\ Homely(tsm_not_connected(o, t, p))
<1> DEFINE o == taken(Now, i)
           t == runtime.tsms[i]
<1>1. /\ o \in Result /\ Apart(o) /\ o.ok /\ o.reach = alive /\ told_to_stop(o) = {}
      /\ o.rt.tsms = RemoveAt(runtime.tsms, i)
      /\ o.rt.auto_restored = runtime.auto_restored
      /\ o.rt.registered = runtime.registered
      /\ t \in Machine /\ t.deal \in Deals /\ RestoredOK(t, alive, starting)
  BY HomeBegin
<1> HIDE DEF o
<1>2. t.st \in {"RestoringSwapd", "SwapdRunning"}
  BY <1>1 DEF RestoredOK
<1>3. Homely(push(o, t)) /\ Homely(restoring_goes_on(o, t))
  BY <1>1, HomePushed
<1>4. ASSUME NEW p, p \notin alive
      PROVE  Homely(peerd_unreachable(o, t, p))
  <2>1. p \notin runtime.registered
    BY <1>4 DEF AtHome, HomeInv, Home
  <2>2. peerd_unreachable(o, t, p) = push(o, t)
    BY <1>1, <2>1 DEF peerd_unreachable
  <2> QED
    BY <1>3, <2>2
<1>5. ASSUME NEW p \in Connection \cap alive, t.st # "TakerConnect"
      PROVE  Homely(tsm_connected(o, t, p)) /\ Homely(tsm_not_connected(o, t, p))
  <2> DEFINE known == handle_new_connection(o, p)
             gone  == handle_failed_connection(o, p)
             u     == [t EXCEPT !.peerd = p]
             v     == [t EXCEPT !.expect = FALSE]
  <2>1. p \in Service
    BY Services
  <2>2. /\ known \in Result /\ Apart(known) /\ known.ok
        /\ known.rt.tsms = RemoveAt(runtime.tsms, i)
        /\ known.rt.auto_restored = runtime.auto_restored
    BY <1>1, <2>1, ConnectionType, ApartSteps, RestoredOnce
  <2>3. /\ gone \in Result /\ Apart(gone) /\ gone.ok
        /\ gone.rt.tsms = RemoveAt(runtime.tsms, i)
        /\ gone.rt.auto_restored = runtime.auto_restored
    BY <1>1, <2>1, ConnectionType, ApartSteps, RestoredOnce
  <2>4. /\ u \in Machine /\ u.deal = t.deal /\ u.st = t.st /\ u.up = t.up
        /\ v \in Machine /\ v.deal = t.deal /\ v.st = t.st /\ v.up = t.up
    BY <1>1 DEF Machine
  <2>5. /\ tsm_connected(o, t, p)
             = IF t.st = "RestoringSwapd" THEN restoring_goes_on(known, u) ELSE push(known, u)
        /\ tsm_not_connected(o, t, p)
             = IF t.st = "RestoringSwapd" THEN restoring_goes_on(gone, v) ELSE push(gone, u)
    BY <1>2 DEF tsm_connected, tsm_not_connected
  <2> HIDE DEF known, gone, u, v
  <2>6. Homely(push(known, u)) /\ Homely(restoring_goes_on(known, u))
    BY <2>2, <2>4, HomePushed
  <2>7. Homely(push(gone, u)) /\ Homely(restoring_goes_on(gone, v))
    BY <2>3, <2>4, HomePushed
  <2> QED
    BY <2>5, <2>6, <2>7
<1>6. swap_keys(o, t) = push(o, t)
  BY <1>2 DEF swap_keys
<1>7. t.st # "SwapdRunning" => \A newest : otherwise(o, t, newest) = restoring_goes_on(o, t)
  BY <1>2 DEF otherwise
<1> HIDE DEF t
<1> QED
  BY <1>3, <1>4, <1>5, <1>6, <1>7 DEF o, t

\* What t may be when it has heard src.
Heeded(v, t, src) ==
    /\ v \in Machine /\ v.deal = t.deal
    /\ v.up = IF t.st = "RestoringSwapd" THEN hears(t, src).up ELSE t.up
    /\ v.st = t.st \/ (v.st = "SwapdRunning" /\ v.up = Chains \cup {"swapd"})

\* A Hello loses none of these machines.
LEMMA HelloHome ==
    ASSUME NEW r \in Result, NEW t \in Machine, NEW src \in Service, NEW newest \in BOOLEAN,
           r.ok, t.st \in {"RestoringSwapd", "SwapdRunning"}, Database \in r.reach,
           "swapd" \in hears(t, src).up => Swap(t.deal) \in r.reach,
           t.st = "SwapdRunning" => t.up = Chains \cup {"swapd"}
    PROVE  LET q == tsm_hello(r, t, src, newest) IN
           q.ok /\ \E v : Heeded(v, t, src) /\ q.rt.tsms = Append(r.rt.tsms, v)
<1>1. CASE t.st = "SwapdRunning"
  <2> DEFINE q == tsm_hello(r, t, src, newest)
  <2>1. q.ok /\ \E v : Became(v, t, src) /\ q.rt.tsms = Append(r.rt.tsms, v)
    BY <1>1, HelloCalm
  <2> HIDE DEF q
  <2>2. \A v : Became(v, t, src) => Heeded(v, t, src)
    BY <1>1 DEF Became, Heeded
  <2>3. q.ok /\ \E v : Heeded(v, t, src) /\ q.rt.tsms = Append(r.rt.tsms, v)
    BY <2>1, <2>2
  <2> QED
    BY <2>3 DEF q
<1>2. CASE t.st = "RestoringSwapd"
  <2> DEFINE u == hears(t, src)
             w == IF /\ t.deal \in MakerDeals /\ src.kind = "peer"
                     /\ src.side = "in" /\ src.node \in t.expected
                  THEN [u EXCEPT !.peerd = src] ELSE u
             q == restoring_goes_on(r, w)
  <2>1. u \in Machine
    BY HearsType
  <2>2. src.kind = "peer" => src \in Connection
    BY DEF Service
  <2>3. tsm_hello(r, t, src, newest) = q
    BY <1>2 DEF tsm_hello, restoring_hello
  <2>4. u.deal = t.deal /\ u.st = t.st
    BY Hearing
  <2> HIDE DEF u
  <2>5. w \in Machine /\ w.deal = u.deal /\ w.st = u.st /\ w.up = u.up
    BY <2>1, <2>2 DEF Machine
  <2> HIDE DEF w
  <2>6. "swapd" \in w.up => Swap(w.deal) \in r.reach
    BY <2>4, <2>5 DEF u
  <2>7. /\ q.ok
        /\ \E v \in Machine :
             /\ q.rt.tsms = Append(r.rt.tsms, v) /\ v.deal = w.deal /\ v.up = w.up
             /\ v.st = w.st \/ (v.st = "SwapdRunning" /\ v.up = Chains \cup {"swapd"})
    BY <2>5, <2>6, GoesOn
  <2> HIDE DEF q
  <2>8. ASSUME NEW v \in Machine, v.deal = w.deal, v.up = w.up,
               v.st = w.st \/ (v.st = "SwapdRunning" /\ v.up = Chains \cup {"swapd"})
        PROVE  Heeded(v, t, src)
    BY <1>2, <2>4, <2>5, <2>8 DEF Heeded, u
  <2> QED
    BY <2>3, <2>7, <2>8
<1> QED
  BY <1>1, <1>2

\* Such a machine waits for what is starting, the others are there.
LEMMA HeededOK ==
    ASSUME AtHome, NEW t \in Machine, RestoredOK(t, alive, starting), NEW v, NEW s \in Service,
           Heeded(v, t, s)
    PROVE  RestoredOK(v, alive \cup {s}, starting \ (alive \cup {s}))
<1> DEFINE al == alive \cup {s}
           st == starting \ al
<1>1. /\ v \in Machine /\ v.deal = t.deal /\ t.deal \in Deals
      /\ v.up = IF t.st = "RestoringSwapd" THEN hears(t, s).up ELSE t.up
      /\ v.st = t.st \/ (v.st = "SwapdRunning" /\ v.up = Chains \cup {"swapd"})
      /\ t.st \in {"RestoringSwapd", "SwapdRunning"}
      /\ t.st = "SwapdRunning" => t.up = Chains \cup {"swapd"}
  BY DEF Heeded, Machine, RestoredOK
<1>2. hears(t, s).up = t.up \cup {c \in Chains : s = Syncer(c)}
                            \cup {x \in {"swapd"} : s = Swap(t.deal)}
  BY Hearing
<1>3. "swapd" \notin Chains
  BY DEF Chains
<1>4. ASSUME NEW c \in Chains
      PROVE  c \in v.up <=> Syncer(c) \notin st
  <2>1. /\ c \in t.up <=> Syncer(c) \notin starting
        /\ Syncer(c) \in starting => Syncer(c) \notin alive
    BY DEF AtHome, HomeInv, Home, RestoredOK
  <2>2. c \in v.up <=> c \in t.up \/ s = Syncer(c)
    BY <1>1, <1>2, <1>3
  <2> QED
    BY <2>1, <2>2
<1>5. /\ "swapd" \in v.up => Swap(v.deal) \in al
      /\ "swapd" \notin v.up => Swap(v.deal) \in st
  <2>1. /\ "swapd" \in t.up => Swap(t.deal) \in alive
        /\ "swapd" \notin t.up => Swap(t.deal) \in starting
        /\ Swap(t.deal) \in starting => Swap(t.deal) \notin alive
    BY <1>1 DEF AtHome, HomeInv, Home, RestoredOK
  <2>2. "swapd" \in v.up <=> "swapd" \in t.up \/ (t.st = "RestoringSwapd" /\ s = Swap(t.deal))
    BY <1>1, <1>2, <1>3
  <2>3. t.st # "RestoringSwapd" => "swapd" \in t.up
    BY <1>1
  <2> QED
    BY <1>1, <2>1, <2>2, <2>3
<1> HIDE DEF al, st
<1>6. v.st \in {"RestoringSwapd", "SwapdRunning"} /\ (v.st = "SwapdRunning" => v.up = Chains \cup {"swapd"})
  BY <1>1
<1>7. RestoredOK(v, al, st)
  BY <1>4, <1>5, <1>6 DEF RestoredOK
<1> QED
  BY <1>7 DEF al, st

\* Each is where it was.
LEMMA HeardHome ==
    ASSUME AtHome, NEW s \in Service, NEW newest \in BOOLEAN, NEW r \in Result,
           r.ok, r.reach = alive \cup {s}, r.rt.tsms = runtime.tsms
    PROVE  LET q == tsms_hear(r, s, newest) IN
           /\ q.ok /\ Len(q.rt.tsms) = Len(runtime.tsms)
           /\ \A i \in 1..Len(runtime.tsms) : Heeded(q.rt.tsms[i], runtime.tsms[i], s)
<1> DEFINE q == tsms_hear(r, s, newest)
           n == Len(runtime.tsms)
<1>1. /\ runtime.tsms \in Seq(Machine) /\ DOMAIN runtime.tsms = 1..n
      /\ \A i \in 1..n : runtime.tsms[i] \in Machine
  BY LenProperties, ElementOfSeq DEF AtHome, TypeOK, Runtime
<1>2. /\ Alone(r) \in Result /\ Alone(r).rt.tsms = <<>> /\ Alone(r).ok
      /\ Alone(r).reach = alive \cup {s}
  <2>1. <<>> \in Seq(Machine) /\ r.rt \in Runtime
    BY EmptySeq DEF Result
  <2>2. Alone(r) \in Result /\ Alone(r).rt = [r.rt EXCEPT !.tsms = <<>>]
    BY <2>1, MachinesType DEF Alone
  <2>3. Alone(r).rt.tsms = <<>>
    BY <2>1, <2>2 DEF Runtime
  <2>4. Alone(r).ok = r.ok /\ Alone(r).reach = r.reach
    BY DEF Alone, Result
  <2> QED
    BY <2>2, <2>3, <2>4
<1>3. \A i \in 1..n : /\ AnswerOf(r, s, newest, i).ok
                      /\ \E v : /\ Heeded(v, runtime.tsms[i], s)
                                /\ AnswerOf(r, s, newest, i).rt.tsms = <<v>>
  <2> SUFFICES ASSUME NEW i \in 1..n
               PROVE  /\ AnswerOf(r, s, newest, i).ok
                      /\ \E v : /\ Heeded(v, runtime.tsms[i], s)
                                /\ AnswerOf(r, s, newest, i).rt.tsms = <<v>>
    OBVIOUS
  <2> DEFINE t == runtime.tsms[i]
             a == Alone(r)
             h == tsm_hello(a, t, s, newest)
  <2>1. AnswerOf(r, s, newest, i) = h
    BY DEF AnswerOf
  <2>2. t \in Machine /\ RestoredOK(t, alive, starting) /\ Database \in alive
    <3>1. t \in ToSet(runtime.tsms) /\ runtime.tsms # <<>>
      BY <1>1 DEF ToSet
    <3> QED
      BY <1>1, <3>1 DEF AtHome, HomeInv, Home
  <2>3. a \in Result /\ a.ok /\ a.reach = alive \cup {s} /\ a.rt.tsms = <<>>
    BY <1>2
  <2> HIDE DEF t, a
  <2>4. "swapd" \in hears(t, s).up => "swapd" \in t.up \/ s = Swap(t.deal)
    BY <2>2, Hearing DEF Chains
  <2>5. "swapd" \in hears(t, s).up => Swap(t.deal) \in a.reach
    BY <2>2, <2>3, <2>4 DEF RestoredOK
  <2>6. /\ t.st \in {"RestoringSwapd", "SwapdRunning"}
        /\ t.st = "SwapdRunning" => t.up = Chains \cup {"swapd"}
    BY <2>2 DEF RestoredOK
  <2>7. h.ok /\ \E v : Heeded(v, t, s) /\ h.rt.tsms = Append(a.rt.tsms, v)
    BY <2>2, <2>3, <2>5, <2>6, HelloHome
  <2> HIDE DEF h
  <2>8. \A v : Append(<<>>, v) = <<v>>
    OBVIOUS
  <2> QED
    BY <2>1, <2>3, <2>7, <2>8 DEF t
<1>4. /\ (\A i \in 1..n : AnswerOf(r, s, newest, i).ok) => q.ok
      /\ q.ok => /\ Len(q.rt.tsms) = n
                 /\ \A i \in 1..n : AnswerOf(r, s, newest, i).rt.tsms = <<q.rt.tsms[i]>>
  BY HearType
<1>5. q.ok
  BY <1>3, <1>4
<1> HIDE DEF q
<1>6. \A i \in 1..n : Heeded(q.rt.tsms[i], runtime.tsms[i], s)
  <2> SUFFICES ASSUME NEW i \in 1..n
               PROVE  Heeded(q.rt.tsms[i], runtime.tsms[i], s)
    OBVIOUS
  <2>1. PICK v : Heeded(v, runtime.tsms[i], s) /\ AnswerOf(r, s, newest, i).rt.tsms = <<v>>
    BY <1>3
  <2>2. <<v>> = <<q.rt.tsms[i]>>
    BY <1>4, <1>5, <2>1
  <2>3. v = q.rt.tsms[i]
    BY <2>2
  <2> QED
    BY <2>1, <2>3
<1> QED
  BY <1>4, <1>5, <1>6 DEF q

\* r may have registered s, which has just come onto the bus.
Arrived(r, s) ==
    /\ r.ok /\ r.reach = alive \cup {s} /\ r.sent = {} /\ r.launched = {}
    /\ r.rt.tsms = runtime.tsms /\ r.rt.ssms = runtime.ssms
    /\ runtime.registered \subseteq r.rt.registered
    /\ \A x \in r.rt.registered : x \in runtime.registered \/ (x = s /\ s.kind # "swap")
    /\ \A c \in Chains : Syncer(c) \in r.rt.spawning => Syncer(c) \in runtime.spawning

\* handle_hello: each machine takes note.
LEMMA HearHome ==
    ASSUME AtHome, NEW s \in Service, s \in starting \/ s.kind = "peer",
           NEW newest \in BOOLEAN, NEW r \in Result, Arrived(r, s)
    PROVE  LET q  == machines_hear(r, s, newest)
               al == q.reach \ told_to_stop(q)
               st == (starting \ q.reach) \cup q.launched IN
           /\ q \in Result /\ q.reach = alive \cup {s} /\ told_to_stop(q) = {}
           /\ q.rt.registered = r.rt.registered /\ q.rt.auto_restored = r.rt.auto_restored
           /\ Home(q.rt, al, st)
           /\ Fresh(runtime, alive, starting) => Fresh(q.rt, al, st)
<1> DEFINE h == tsms_hear(r, s, newest)
           q == ssms_hear(h, s)
           n == Len(runtime.tsms)
           al == alive \cup {s}
           st == starting \ al
<1>1. /\ runtime.tsms \in Seq(Machine) /\ DOMAIN runtime.tsms = 1..n /\ n \in Nat
      /\ \A i \in 1..n : runtime.tsms[i] \in Machine
      /\ \A i \in 1..n : RestoredOK(runtime.tsms[i], alive, starting)
      /\ Home(runtime, alive, starting)
  BY LenProperties, ElementOfSeq DEF AtHome, TypeOK, Runtime, HomeInv, Home, ToSet
<1>2. /\ h \in Result /\ Leaves(h, r) /\ Quiet(h, r) /\ h.ok /\ Len(h.rt.tsms) = n
      /\ \A i \in 1..n : Heeded(h.rt.tsms[i], runtime.tsms[i], s)
  BY HearType, HeardHome DEF Arrived
<1> HIDE DEF h
<1>3. /\ q \in Result /\ q.rt = [h.rt EXCEPT !.ssms = q.rt.ssms]
      /\ q.reach = h.reach /\ q.launched = h.launched
      /\ q.rt.ssms = {Heard(m, s) : m \in h.rt.ssms}
      /\ \A m \in q.sent : m \in h.sent \/ m.msg = "Task"
  BY <1>2, JobsHearType DEF Leaves, Arrived
<1>4. machines_hear(r, s, newest) = q
  BY DEF machines_hear, h
<1> HIDE DEF q
<1>5. /\ q.rt.tsms = h.rt.tsms /\ q.rt.ssms = {}
      /\ q.rt.registered = r.rt.registered /\ q.rt.spawning = r.rt.spawning
      /\ q.rt.auto_restored = r.rt.auto_restored
      /\ q.reach = al /\ q.launched = {}
  <2>1. h.rt.ssms = {}
    BY <1>1, <1>2 DEF Leaves, Arrived, Home
  <2>2. q.rt.ssms = {}
    BY <1>3, <2>1
  <2>3. h.rt \in Runtime
    BY <1>2 DEF Result
  <2>4. /\ q.rt.tsms = h.rt.tsms /\ q.rt.registered = h.rt.registered
        /\ q.rt.spawning = h.rt.spawning /\ q.rt.auto_restored = h.rt.auto_restored
    BY <1>3, <2>3 DEF Runtime
  <2> QED
    BY <1>2, <1>3, <2>2, <2>4 DEF Leaves, Arrived
<1>6. told_to_stop(q) = {}
  BY <1>2, <1>3 DEF told_to_stop, Quiet, Arrived
<1>7. \A i \in 1..n : /\ RestoredOK(q.rt.tsms[i], al, st)
                      /\ q.rt.tsms[i].deal = runtime.tsms[i].deal
  <2> SUFFICES ASSUME NEW i \in 1..n
               PROVE  /\ RestoredOK(q.rt.tsms[i], al, st)
                      /\ q.rt.tsms[i].deal = runtime.tsms[i].deal
    OBVIOUS
  <2> DEFINE t == runtime.tsms[i]
             v == q.rt.tsms[i]
  <2>1. t \in Machine /\ RestoredOK(t, alive, starting) /\ Heeded(v, t, s)
    BY <1>1, <1>2, <1>5
  <2> HIDE DEF t, v
  <2>2. RestoredOK(v, al, st)
    BY <2>1, HeededOK
  <2>3. v.deal = t.deal
    BY <2>1 DEF Heeded
  <2> QED
    BY <2>2, <2>3 DEF t, v
<1>8. DOMAIN q.rt.tsms = 1..n /\ q.rt.tsms \in Seq(Machine) /\ Len(q.rt.tsms) = n
  <2>1. q.rt.tsms \in Seq(Machine)
    BY <1>3 DEF Result, Runtime
  <2> QED
    BY <1>2, <1>5, <2>1, LenProperties
<1> HIDE DEF al, st
<1>9. alive \subseteq al /\ s \in al /\ st = starting \ al /\ al = alive \cup {s}
  BY DEF al, st
<1>10. Distinct(q.rt.tsms) /\ \A t \in ToSet(q.rt.tsms) : RestoredOK(t, al, st)
  <2>1. Distinct(runtime.tsms)
    BY <1>1 DEF Home
  <2> QED
    BY <1>1, <1>7, <1>8, <2>1 DEF Distinct, ToSet
<1>11. q.rt.tsms = <<>> <=> runtime.tsms = <<>>
  <2>1. \A z \in Seq(Machine) : z = <<>> <=> Len(z) = 0
    BY EmptySeq
  <2> QED
    BY <1>1, <1>8, <2>1
<1>12. \A c \in Chains : s = Syncer(c) => s \in starting
  BY Kinds
<1>13. \A d \in Deals : s = Swap(d) => s \in starting /\ s.kind = "swap"
  BY Kinds
<1>14. Home(q.rt, al, st)
  <2>1. q.rt.registered \subseteq al
    BY <1>1, <1>5, <1>9 DEF Arrived, Home
  <2>2. q.rt.tsms # <<>> => {Wallet, Database} \subseteq q.rt.registered
    BY <1>1, <1>5, <1>11 DEF Arrived, Home
  <2>3. \A c \in Chains : /\ Syncer(c) \in st => Syncer(c) \notin al
                          /\ Syncer(c) \in st \cup q.rt.registered => q.rt.tsms # <<>>
    BY <1>1, <1>5, <1>9, <1>11, <1>12 DEF Arrived, Home
  <2>4. \A d \in Deals : Swap(d) \notin q.rt.registered /\ (Swap(d) \in st => Swap(d) \notin al)
    BY <1>1, <1>5, <1>9, <1>13 DEF Arrived, Home
  <2> QED
    BY <1>5, <1>10, <2>1, <2>2, <2>3, <2>4 DEF Home
<1>15. Fresh(runtime, alive, starting) => Fresh(q.rt, al, st)
  BY <1>5, <1>9, <1>11, <1>12, <1>13 DEF Arrived, Fresh
<1>16. q.reach \ told_to_stop(q) = al /\ (starting \ q.reach) \cup q.launched = st
  BY <1>5, <1>6, <1>9
<1> QED
  BY <1>3, <1>4, <1>5, <1>6, <1>9, <1>14, <1>15, <1>16

\* What register leaves, and auto_restore notes beside it.
LEMMA ArrivedHome ==
    ASSUME AtHome, NEW s \in Service
    PROVE  LET r == register(Joining(s), s) IN
           /\ r \in Result /\ Arrived(r, s) /\ r.rt.auto_restored = runtime.auto_restored
           /\ auto_restore(r) \in Result /\ Arrived(auto_restore(r), s)
           /\ auto_restores(r) \in BOOLEAN
           /\ auto_restore(r).rt.registered = r.rt.registered
           /\ auto_restores(r) => /\ ~runtime.auto_restored /\ auto_restore(r).rt.auto_restored
                                  /\ {Wallet, Database} \subseteq r.rt.registered
<1> DEFINE b == Joining(s)
           r == register(b, s)
           a == auto_restore(r)
<1>1. /\ TypeOK /\ b \in Result /\ b.ok
      /\ b.rt = runtime /\ b.reach = alive \cup {s} /\ b.sent = {} /\ b.launched = {}
      /\ runtime.registered \in SUBSET Service /\ runtime.spawning \in SUBSET Service
  BY BeginType DEF AtHome, TypeOK, Runtime
<1> HIDE DEF b
<1>2. /\ r \in Result /\ r.rt.auto_restored = runtime.auto_restored
      /\ r.reach = b.reach /\ r.ok = b.ok /\ r.sent = b.sent
      /\ r.launched = b.launched /\ r.rt.tsms = b.rt.tsms
  BY <1>1, RegisterType, RestoredOnce
<1>3. /\ r.rt.ssms = runtime.ssms /\ runtime.registered \subseteq r.rt.registered
      /\ \A x \in r.rt.registered : x \in runtime.registered \/ (x = s /\ s.kind # "swap")
      /\ r.rt.spawning \subseteq runtime.spawning
  <2>1. ASSUME NEW T \in SUBSET Service, NEW S \in SUBSET Service, r = Exchanged(b, S, T),
               S \subseteq runtime.spawning, s.kind # "swap",
               T = runtime.registered \cup {s}
        PROVE  /\ r.rt.ssms = runtime.ssms /\ runtime.registered \subseteq r.rt.registered
               /\ \A x \in r.rt.registered : x \in runtime.registered \/ (x = s /\ s.kind # "swap")
               /\ r.rt.spawning \subseteq runtime.spawning
    <3> HIDE DEF r
    <3> DEFINE e == Exchanged(b, S, T)
    <3>1. e.rt.spawning = S /\ e.rt.registered = T /\ e.rt.ssms = b.rt.ssms
      BY <1>1, RegistryType
    <3> HIDE DEF e
    <3>2. r = e
      BY <2>1 DEF e
    <3> QED
      BY <1>1, <2>1, <3>1, <3>2
  <2>2. runtime.registered \cup {s} \in SUBSET Service /\ runtime.spawning \in SUBSET Service
        /\ runtime.spawning \ {s} \in SUBSET Service
        /\ runtime.spawning \ {Peer(0, s.node, s.side)} \in SUBSET Service
    BY <1>1
  <2>3. CASE s.kind \in {"database", "wallet"}
    <3>1. r = Exchanged(b, runtime.spawning, runtime.registered \cup {s})
      BY <1>1, <2>3 DEF register, Exchanged, Result, Runtime
    <3> HIDE DEF r
    <3> QED
      BY <2>1, <2>2, <2>3, <3>1
  <2>4. CASE s.kind = "peer"
    <3>1. \/ r = Exchanged(b, runtime.spawning \ {Peer(0, s.node, s.side)}, runtime.registered \cup {s})
          \/ r = b
      BY <1>1, <2>4 DEF register, handle_new_connection, Exchanged
    <3> HIDE DEF r
    <3> QED
      BY <1>1, <2>1, <2>2, <2>4, <3>1
  <2>5. CASE s.kind = "syncer" /\ s \in b.rt.spawning
    <3>1. r = Exchanged(b, runtime.spawning \ {s}, runtime.registered \cup {s})
      BY <1>1, <2>5 DEF register, Exchanged, Result, Runtime
    <3> HIDE DEF r
    <3> QED
      BY <2>1, <2>2, <2>5, <3>1
  <2>6. CASE ~(s.kind \in {"database", "wallet"}) /\ s.kind # "peer"
             /\ ~(s.kind = "syncer" /\ s \in b.rt.spawning)
    <3>1. r = b
      BY <2>6 DEF register
    <3> HIDE DEF r
    <3> QED
      BY <1>1, <3>1
  <2> QED
    BY <2>3, <2>4, <2>5, <2>6
<1> HIDE DEF r
<1>4. Arrived(r, s)
  BY <1>1, <1>2, <1>3 DEF Arrived
<1>5. AutoRestore \in BOOLEAN
  BY <1>1, Environment DEF TypeOK
<1>6. /\ a \in Result
      /\ a.reach = r.reach /\ a.ok = r.ok /\ a.sent = r.sent /\ a.launched = r.launched
      /\ a.rt.tsms = r.rt.tsms /\ a.rt.registered = r.rt.registered
      /\ a.rt.spawning = r.rt.spawning /\ a.rt.ssms = r.rt.ssms
      /\ auto_restores(r) \in BOOLEAN
  BY <1>2, <1>5, AutoType
<1>7. auto_restores(r) => /\ ~runtime.auto_restored /\ a.rt.auto_restored
                          /\ {Wallet, Database} \subseteq r.rt.registered
  BY <1>2 DEF auto_restores, auto_restore, services_ready, Result, Runtime
<1> HIDE DEF a
<1>8. Arrived(a, s)
  BY <1>4, <1>6 DEF Arrived
<1> QED
  BY <1>2, <1>4, <1>6, <1>7, <1>8 DEF a, r, b

\* Of the list, S has been restored: a machine each, whose swapd and syncers have been launched.
Renewed(r, S) ==
    /\ r \in Result /\ r.ok /\ r.reach = alive /\ told_to_stop(r) = {}
    /\ r.rt.registered = runtime.registered /\ r.rt.ssms = runtime.ssms
    /\ r.rt.auto_restored = runtime.auto_restored
    /\ Distinct(r.rt.tsms)
    /\ \A u \in ToSet(r.rt.tsms) :
         u.st = "RestoringSwapd" /\ u.up = {} /\ u.deal \in S /\ Swap(u.deal) \in r.launched
    /\ \A c \in Chains : /\ Syncer(c) \in r.launched <=> r.rt.tsms # <<>>
                         /\ Syncer(c) \in r.rt.spawning <=> r.rt.tsms # <<>>

\* Its connection is seen to, by a peerd or by the listener.
Wired(q, r) ==
    /\ q \in Result /\ q.ok = r.ok /\ q.reach = r.reach
    /\ q.rt.registered = r.rt.registered /\ q.rt.ssms = r.rt.ssms /\ q.rt.tsms = r.rt.tsms
    /\ q.rt.auto_restored = r.rt.auto_restored
    /\ \A s \in Service : s.kind # "peer" => /\ s \in q.launched <=> s \in r.launched
                                             /\ s \in q.rt.spawning <=> s \in r.rt.spawning

\* connect_peer and listen concern nothing else.
LEMMA Wires ==
    ASSUME NEW r \in Result
    PROVE  /\ Wired(r, r)
           /\ \A n \in Nodes : Wired(connect_peer(r, n), r)
           /\ \A q : Wired(q, r) => Wired([q EXCEPT !.rt.listens = TRUE], r)
<1>1. r.rt \in Runtime
  BY DEF Result
<1>2. ASSUME NEW n \in Nodes
      PROVE  Wired(connect_peer(r, n), r)
  <2> DEFINE p == Peer(r.uuid, n, "out")
             o == dummy_peer_service_id(n)
             q == connect_peer(r, n)
  <2>1. p.kind = "peer" /\ o.kind = "peer"
    BY DEF dummy_peer_service_id, Peer
  <2>2. q = r \/ q = [r EXCEPT !.launched = @ \cup {p}, !.rt.spawning = @ \cup {o}]
    BY DEF connect_peer
  <2>3. /\ q \in Result /\ q.ok = r.ok /\ q.reach = r.reach
        /\ q.rt.auto_restored = r.rt.auto_restored
    BY ConnectPeerType, RestoredOnce
  <2> HIDE DEF p, o, q
  <2>4. CASE q = r
    BY <2>3, <2>4 DEF Wired, q
  <2>5. CASE q = [r EXCEPT !.launched = @ \cup {p}, !.rt.spawning = @ \cup {o}]
    <3>1. q = [r EXCEPT !.launched = r.launched \cup {p},
                        !.rt = [r.rt EXCEPT !.spawning = r.rt.spawning \cup {o}]]
      BY <2>5
    <3>2. /\ q.launched = r.launched \cup {p}
          /\ q.rt = [r.rt EXCEPT !.spawning = r.rt.spawning \cup {o}]
      BY <3>1 DEF Result
    <3>3. /\ q.rt.spawning = r.rt.spawning \cup {o} /\ q.rt.registered = r.rt.registered
          /\ q.rt.ssms = r.rt.ssms /\ q.rt.tsms = r.rt.tsms
      BY <1>1, <3>2 DEF Runtime
    <3>4. Wired(q, r)
      BY <2>1, <2>3, <3>2, <3>3 DEF Wired
    <3> QED
      BY <3>4 DEF q
  <2> QED
    BY <2>2, <2>4, <2>5
<1>3. ASSUME NEW q, Wired(q, r)
      PROVE  Wired([q EXCEPT !.rt.listens = TRUE], r)
  <2> DEFINE l == [q EXCEPT !.rt.listens = TRUE]
  <2>1. q \in Result
    BY <1>3 DEF Wired
  <2>2. /\ l \in Result /\ l.ok = q.ok /\ l.reach = q.reach /\ l.launched = q.launched
        /\ l.rt.registered = q.rt.registered /\ l.rt.ssms = q.rt.ssms
        /\ l.rt.tsms = q.rt.tsms /\ l.rt.auto_restored = q.rt.auto_restored
        /\ l.rt.spawning = q.rt.spawning
    BY <2>1 DEF Result, Runtime
  <2> HIDE DEF l
  <2>3. Wired(l, r)
    BY <1>3, <2>2 DEF Wired
  <2> QED
    BY <2>3 DEF l
<1> QED
  BY <1>2, <1>3 DEF Wired

\* StartRestore on RestoreCheckpoint: nothing is in its way.
LEMMA RestoreHome ==
    ASSUME AtHome, Fresh(runtime, alive, starting), {Wallet, Database} \subseteq runtime.registered,
           NEW S \in SUBSET Deals, NEW r, Renewed(r, S), NEW d \in Deals \ S, NEW e \in SUBSET Nodes
    PROVE  Renewed(restore_checkpoint(r, d, e, Database), S \cup {d})
<1> DEFINE expect == d \notin MakerDeals /\ peer_keys_ready(r)
           dialed == IF expect THEN connect_peer(r, Counterparty[d]) ELSE r
           heard  == IF d \in MakerDeals /\ peer_keys_ready(r)
                     THEN [dialed EXCEPT !.rt.listens = TRUE] ELSE dialed
           s      == syncers_up(heard)
           q      == [s EXCEPT !.launched = @ \cup {Swap(d)}]
           told   == send(q, Database, "Restoring", d)
           trade  == Trade("RestoringSwapd", d, None)
           t      == [trade EXCEPT !.expect = expect, !.expected = e, !.up = registered_chains(s)]
           z      == restore_checkpoint(r, d, e, Database)
<1>1. /\ Counterparty[d] \in Nodes /\ Swap(d) \in Service /\ Swap(d).kind = "swap"
      /\ Database \in Service /\ r \in Result
      /\ \A c \in Chains : Syncer(c) \in Service /\ Syncer(c).kind = "syncer"
      /\ r.rt.tsms \in Seq(Machine)
  BY Services, Kinds DEF Renewed, Result, Runtime
<1>2. Database \in alive /\ Swap(d) \notin alive
  BY DEF AtHome, HomeInv, Home, Fresh
<1>3. z = push(told, t)
  <2>1. services_ready(r) /\ Swap(d) \notin r.reach
    BY <1>2 DEF services_ready, Renewed
  <2> QED
    BY <2>1 DEF restore_checkpoint
<1>4. z \in Result /\ told_to_stop(z) = {}
  <2>1. z \in Result /\ Quiet(z, r)
    BY <1>1, RestoreType
  <2> HIDE DEF z
  <2>2. \A m \in z.sent : m.msg = "Terminate" => m \in r.sent
    BY <2>1 DEF Quiet
  <2> QED
    BY <2>1, <2>2 DEF told_to_stop, Renewed
<1> HIDE DEF z
<1>5. Wired(dialed, r)
  BY <1>1, Wires
<1>6. Wired(heard, r)
  <2> HIDE DEF dialed
  <2> QED
    BY <1>1, <1>5, Wires
<1> HIDE DEF heard
<1>7. /\ s \in Result /\ s.ok = r.ok /\ s.reach = r.reach
      /\ s.rt.registered = r.rt.registered /\ s.rt.tsms = r.rt.tsms /\ s.rt.ssms = r.rt.ssms
      /\ s.rt.auto_restored = r.rt.auto_restored
      /\ s.rt.spawning = heard.rt.spawning \cup Missing(Chains, heard.rt)
      /\ s.launched = heard.launched \cup Missing(Chains, heard.rt)
  <2>1. heard \in Result
    BY <1>6 DEF Wired
  <2>2. s \in Result /\ s.ok = heard.ok /\ s.reach = heard.reach
    BY <2>1, SyncerUpType
  <2>3. /\ s.rt.registered = heard.rt.registered /\ s.rt.tsms = heard.rt.tsms
        /\ s.rt.ssms = heard.rt.ssms
        /\ s.rt.spawning = heard.rt.spawning \cup Missing(Chains, heard.rt)
        /\ s.launched = heard.launched \cup Missing(Chains, heard.rt)
    BY <2>1, SyncerUpAdds
  <2>4. s.rt.auto_restored = heard.rt.auto_restored
    BY <2>1, RestoredOnce
  <2> HIDE DEF s
  <2> QED
    BY <1>6, <2>2, <2>3, <2>4 DEF Wired
<1> HIDE DEF s
<1>8. ASSUME NEW c \in Chains
      PROVE  Syncer(c) \in s.launched /\ Syncer(c) \in s.rt.spawning /\ Syncer(c) \notin s.rt.registered
  <2>1. Syncer(c) \notin runtime.registered
    BY DEF Fresh
  <2>2. /\ Syncer(c) \in heard.launched <=> Syncer(c) \in r.launched
        /\ Syncer(c) \in heard.rt.spawning <=> Syncer(c) \in r.rt.spawning
        /\ Syncer(c) \notin heard.rt.registered
    BY <1>1, <1>6, <2>1 DEF Wired, Renewed
  <2>3. Syncer(c) \in r.launched <=> Syncer(c) \in r.rt.spawning
    BY DEF Renewed
  <2>4. Syncer(c) \in Missing(Chains, heard.rt) <=> Syncer(c) \notin heard.rt.spawning
    BY <2>2 DEF Missing
  <2> QED
    BY <1>7, <2>1, <2>2, <2>3, <2>4 DEF Renewed
<1>9. \A d2 \in Deals : Swap(d2) \in r.launched => Swap(d2) \in s.launched
  BY <1>6, <1>7, Services, Kinds DEF Wired
<1>10. /\ q \in Result /\ q.ok /\ q.reach = alive /\ q.rt = s.rt
       /\ q.launched = s.launched \cup {Swap(d)}
  BY <1>1, <1>7 DEF Result, Renewed
<1> HIDE DEF q
<1>11. told.ok /\ told \in Result /\ told.rt = s.rt /\ told.reach = alive /\ told.launched = q.launched
  <2>1. told \in Result /\ Sends(told, q) /\ told.ok
    BY <1>1, <1>2, <1>10, SendType, Messages
  <2> HIDE DEF told
  <2> QED
    BY <1>10, <2>1 DEF Sends
<1>12. t \in Machine /\ t.st = "RestoringSwapd" /\ t.deal = d /\ t.up = {}
  <2>1. trade \in Machine /\ trade.st = "RestoringSwapd" /\ trade.deal = d
    BY TradeType DEF Trade
  <2>2. registered_chains(s) = {} /\ expect \in BOOLEAN
    BY <1>8 DEF registered_chains
  <2> HIDE DEF trade, expect
  <2> QED
    BY <2>1, <2>2 DEF Machine
<1> HIDE DEF told, t
<1>13. /\ z.rt.tsms = Append(r.rt.tsms, t) /\ z.ok /\ z.reach = alive /\ z.launched = q.launched
       /\ z.rt.registered = s.rt.registered /\ z.rt.ssms = s.rt.ssms
       /\ z.rt.auto_restored = s.rt.auto_restored /\ z.rt.spawning = s.rt.spawning
  <2> DEFINE y == push(told, t)
  <2>1. /\ Leaves(y, told) /\ y.ok = told.ok
        /\ y.rt.tsms = IF told.ok THEN Append(told.rt.tsms, t) ELSE told.rt.tsms
    BY <1>11, <1>12, PushType
  <2>2. z = y
    BY <1>3
  <2> HIDE DEF y
  <2> QED
    BY <1>7, <1>11, <2>1, <2>2 DEF Leaves
<1>14. ToSet(z.rt.tsms) = ToSet(r.rt.tsms) \cup {t} /\ Distinct(z.rt.tsms) /\ z.rt.tsms # <<>>
  <2>1. Distinct(r.rt.tsms) /\ \A u \in ToSet(r.rt.tsms) : u.deal # t.deal
    BY <1>12 DEF Renewed
  <2>2. ToSet(z.rt.tsms) = ToSet(r.rt.tsms) \cup {t} /\ Distinct(z.rt.tsms)
    BY <1>1, <1>12, <1>13, <2>1, AppendedList
  <2>3. t \in ToSet(z.rt.tsms) /\ ToSet(<<>>) = {}
    BY <2>2 DEF ToSet
  <2> QED
    BY <2>2, <2>3
<1>15. \A u \in ToSet(z.rt.tsms) :
         /\ u.st = "RestoringSwapd" /\ u.up = {} /\ u.deal \in S \cup {d}
         /\ Swap(u.deal) \in z.launched
  <2>1. \A u \in ToSet(r.rt.tsms) :
          /\ u.st = "RestoringSwapd" /\ u.up = {} /\ u.deal \in S /\ Swap(u.deal) \in s.launched
    BY <1>9 DEF Renewed
  <2> QED
    BY <1>10, <1>12, <1>13, <1>14, <2>1
<1>16. \A c \in Chains : /\ Syncer(c) \in z.launched <=> z.rt.tsms # <<>>
                         /\ Syncer(c) \in z.rt.spawning <=> z.rt.tsms # <<>>
  BY <1>8, <1>10, <1>13, <1>14
<1>17. Renewed(z, S \cup {d})
  BY <1>4, <1>7, <1>13, <1>14, <1>15, <1>16 DEF Renewed
<1> QED
  BY <1>17 DEF z

\* The list to its end: each deal is on it once.
LEMMA RestoresHome ==
    ASSUME AtHome, Fresh(runtime, alive, starting), {Wallet, Database} \subseteq runtime.registered,
           NEW n \in Nat, NEW list \in [1..n -> Deals],
           \A i, j \in 1..n : list[i] = list[j] => i = j, NEW f,
           f = [i \in 0..n |-> IF i = 0 THEN Now ELSE RestoreNext(f[i - 1], list[i])]
    PROVE  \A i \in 0..n : Renewed(f[i], {list[j] : j \in 1..i})
<1> DEFINE S(i) == {list[j] : j \in 1..i}
           Bad  == {i \in 0..n : ~Renewed(f[i], S(i))}
<1> SUFFICES ASSUME Bad # {}
             PROVE  FALSE
  OBVIOUS
<1>1. Bad \in SUBSET Nat
  OBVIOUS
<1>2. PICK m \in Bad : \A i \in Bad : m <= i
  <2> HIDE DEF Bad
  <2> QED
    BY <1>1, LeastElement
<1>3. m \in 0..n /\ ~Renewed(f[m], S(m))
  BY <1>2
<1>4. Renewed(f[0], S(0))
  <2>1. f[0] = Now
    OBVIOUS
  <2>2. /\ Now \in Result /\ Now.ok /\ Now.rt = runtime /\ Now.reach = alive
        /\ Now.launched = {} /\ told_to_stop(Now) = {}
    BY HomeBegin
  <2>3. runtime.tsms = <<>> /\ \A c \in Chains : Syncer(c) \notin runtime.spawning
    BY DEF Fresh
  <2>4. Distinct(<<>>) /\ ToSet(<<>>) = {}
    BY DEF Distinct, ToSet
  <2> HIDE DEF S
  <2>5. Renewed(Now, S(0))
    BY <2>2, <2>3, <2>4, ZenonT(120) DEF Renewed
  <2> QED
    BY <2>1, <2>5
<1>5. m # 0
  BY <1>3, <1>4
<1>6. m - 1 \in 0..n /\ m \in 1..n
  BY <1>3, <1>5
<1>7. m - 1 \notin Bad
  <2> HIDE DEF Bad
  <2>1. ~(m <= m - 1)
    BY <1>3
  <2> QED
    BY <1>2, <2>1
<1>8. Renewed(f[m - 1], S(m - 1))
  BY <1>6, <1>7
<1>9. f[m] = RestoreNext(f[m - 1], list[m]) /\ list[m] \in Deals
  BY <1>5, <1>6
<1>10. S(m) = S(m - 1) \cup {list[m]} /\ list[m] \notin S(m - 1) /\ S(m - 1) \subseteq Deals
  <2>1. 1..m = (1..(m - 1)) \cup {m} /\ (\A j \in 1..(m - 1) : j \in 1..n /\ j # m)
    BY <1>6
  <2>2. S(m) = S(m - 1) \cup {list[m]}
    BY <2>1
  <2>3. \A j \in 1..(m - 1) : list[j] # list[m] /\ list[j] \in Deals
    BY <1>6, <2>1
  <2> QED
    BY <2>2, <2>3
<1> DEFINE r == f[m - 1]
           e == store[list[m]].expected
<1>11. e \in SUBSET Nodes
  BY <1>9 DEF AtHome, TypeOK
<1> HIDE DEF e, S
<1>12. Renewed(restore_checkpoint(r, list[m], e, Database), S(m - 1) \cup {list[m]})
  BY <1>8, <1>9, <1>10, <1>11, RestoreHome
<1>13. f[m] = restore_checkpoint(r, list[m], e, Database)
  BY <1>8, <1>9, ZenonT(120) DEF RestoreNext, Renewed, e
<1> QED
  BY <1>3, <1>10, <1>12, <1>13

\* ListRestores, at the end of it.
LEMMA RenewedHome ==
    ASSUME AtHome, Fresh(runtime, alive, starting), {Wallet, Database} \subseteq runtime.registered,
           NEW S \in SUBSET Deals, NEW r, Renewed(r, S)
    PROVE  Home(r.rt, r.reach \ told_to_stop(r), (starting \ r.reach) \cup r.launched)
<1> DEFINE st == (starting \ alive) \cup r.launched
<1>1. /\ r.reach \ told_to_stop(r) = alive
      /\ (starting \ r.reach) \cup r.launched = st
  BY DEF Renewed
<1>2. \A u \in ToSet(r.rt.tsms) : RestoredOK(u, alive, st)
  <2> SUFFICES ASSUME NEW u \in ToSet(r.rt.tsms)
               PROVE  RestoredOK(u, alive, st)
    OBVIOUS
  <2>1. u.st = "RestoringSwapd" /\ u.up = {} /\ Swap(u.deal) \in r.launched
    BY DEF Renewed
  <2>2. r.rt.tsms # <<>>
    BY DEF ToSet
  <2>3. \A c \in Chains : Syncer(c) \in r.launched
    BY <2>2 DEF Renewed
  <2> QED
    BY <2>1, <2>3 DEF RestoredOK
<1>3. \A c \in Chains : /\ Syncer(c) \notin alive
                        /\ Syncer(c) \in st \cup r.rt.registered => r.rt.tsms # <<>>
  BY DEF Fresh, Renewed
<1>4. \A d \in Deals : Swap(d) \notin r.rt.registered /\ Swap(d) \notin alive
  BY DEF Fresh, Renewed, AtHome, HomeInv, Home
<1> HIDE DEF st
<1>5. Home(r.rt, alive, st)
  BY <1>2, <1>3, <1>4 DEF Home, Renewed, AtHome, HomeInv
<1> QED
  BY <1>1, <1>5

\* A Hello to such a node, of a process it has launched or of a peerd.
LEMMA ServedHome ==
    ASSUME AtHome, NEW s \in Service, s \in starting \/ s.kind = "peer", NEW newest \in BOOLEAN,
           NEW r \in Result, Arrived(r, s), Serve(machines_hear(r, s, newest)),
           \/ r.rt.auto_restored = runtime.auto_restored /\ (pending' => pending)
           \/ /\ ~runtime.auto_restored /\ r.rt.auto_restored
              /\ {Wallet, Database} \subseteq r.rt.registered
    PROVE  HomeInv'
<1> DEFINE q  == machines_hear(r, s, newest)
           al == q.reach \ told_to_stop(q)
           st == (starting \ q.reach) \cup q.launched
<1>1. /\ q \in Result /\ q.reach = alive \cup {s} /\ told_to_stop(q) = {}
      /\ q.rt.registered = r.rt.registered /\ q.rt.auto_restored = r.rt.auto_restored
      /\ Home(q.rt, al, st)
      /\ Fresh(runtime, alive, starting) => Fresh(q.rt, al, st)
  BY HearHome
<1>2. ServeWith(q, dialing, keys_owed, jobs, swapd)
  BY DEF Serve
<1> HIDE DEF q
<1>3. alive \subseteq q.reach /\ dialing \subseteq q.reach
  BY <1>1 DEF AtHome, HomeInv
<1>4. /\ ~runtime.auto_restored \/ pending => Fresh(runtime, alive, starting)
      /\ pending => runtime.auto_restored /\ {Wallet, Database} \subseteq runtime.registered
      /\ runtime.registered \subseteq r.rt.registered
  BY DEF AtHome, HomeInv, Arrived
<1>5. ~q.rt.auto_restored \/ pending' => Fresh(q.rt, al, st)
  BY <1>1, <1>4
<1>6. pending' => q.rt.auto_restored /\ {Wallet, Database} \subseteq q.rt.registered
  BY <1>1, <1>4
<1> QED
  BY <1>1, <1>2, <1>3, <1>5, <1>6, HomeStep

\* The node's own steps: Hello, keys, the list of checkpoints, reports; nothing is asked of a syncer.
LEMMA OwnHome == AtHome /\ Own => HomeInv'
<1> SUFFICES ASSUME AtHome, Own
             PROVE  HomeInv'
  OBVIOUS
<1>1. /\ TypeOK /\ env \in Environments /\ AutoRestore \in BOOLEAN
      /\ runtime.tsms \in Seq(Machine) /\ runtime.ssms = {}
      /\ dialing \subseteq alive /\ dialing \subseteq Connection
      /\ ~runtime.auto_restored \/ pending => Fresh(runtime, alive, starting)
      /\ pending => runtime.auto_restored /\ {Wallet, Database} \subseteq runtime.registered
  BY Environment DEF AtHome, TypeOK, Runtime, HomeInv, Home
<1>2. /\ Homely(Now) /\ Now \in Result /\ Now.ok /\ Now.rt = runtime /\ Now.reach = alive
      /\ Now.sent = {} /\ Now.launched = {}
  BY HomeBegin
<1>3. ASSUME NEW s \in starting, SaysHello(s)
      PROVE  HomeInv'
  <2>1. s \in Service
    BY <1>1 DEF TypeOK
  <2> DEFINE known    == register(Joining(s), s)
             restores == s = Database /\ auto_restores(known)
             r        == IF restores THEN auto_restore(known) ELSE known
  <2>2. /\ known \in Result /\ Arrived(known, s) /\ known.rt.auto_restored = runtime.auto_restored
        /\ auto_restore(known) \in Result /\ Arrived(auto_restore(known), s)
        /\ auto_restore(known).rt.registered = known.rt.registered
        /\ auto_restores(known) =>
             /\ ~runtime.auto_restored /\ auto_restore(known).rt.auto_restored
             /\ {Wallet, Database} \subseteq known.rt.registered
    BY <2>1, ArrivedHome
  <2>3. PICK newest \in BOOLEAN : Serve(machines_hear(r, s, newest))
    BY <1>3 DEF SaysHello
  <2>4. pending' = (pending \/ restores)
    BY <1>3 DEF SaysHello
  <2>5. /\ r \in Result /\ Arrived(r, s)
        /\ \/ r.rt.auto_restored = runtime.auto_restored /\ (pending' => pending)
           \/ /\ ~runtime.auto_restored /\ r.rt.auto_restored
              /\ {Wallet, Database} \subseteq r.rt.registered
    <3> HIDE DEF known
    <3>1. CASE restores
      BY <2>2, <3>1
    <3>2. CASE ~restores
      <4>1. pending' => pending
        BY <2>4, <3>2
      <4> QED
        BY <2>2, <3>2, <4>1
    <3> QED
      BY <3>1, <3>2
  <2> HIDE DEF r
  <2> QED
    BY <2>1, <2>3, <2>5, ServedHome
<1>4. CASE KeysArrive
  <2> DEFINE r == [Now EXCEPT !.rt.keys = TRUE]
             q == auto_restore(r)
  <2>1. /\ r \in Result /\ r.sent = Now.sent /\ r.reach = Now.reach /\ r.launched = Now.launched
        /\ r.rt.registered = runtime.registered /\ r.rt.spawning = runtime.spawning
        /\ r.rt.tsms = runtime.tsms /\ r.rt.deals = runtime.deals /\ r.rt.ssms = runtime.ssms
        /\ r.rt.auto_restored = runtime.auto_restored
    BY <1>2 DEF Result, Runtime
  <2>2. Serve(q) /\ pending' = (pending \/ auto_restores(r))
    BY <1>4 DEF KeysArrive
  <2>3. auto_restores(r) => {Wallet, Database} \subseteq r.rt.registered /\ ~r.rt.auto_restored
    BY DEF auto_restores, services_ready
  <2> HIDE DEF r
  <2>4. /\ q \in Result
        /\ q.reach = r.reach /\ q.sent = r.sent /\ q.launched = r.launched
        /\ q.rt.tsms = r.rt.tsms /\ q.rt.registered = r.rt.registered
        /\ q.rt.spawning = r.rt.spawning /\ q.rt.ssms = r.rt.ssms /\ q.rt.deals = r.rt.deals
        /\ auto_restores(r) \in BOOLEAN
    BY <1>1, <2>1, AutoType
  <2>5. q.rt.auto_restored = (r.rt.auto_restored \/ auto_restores(r))
    BY <2>1 DEF auto_restore, Result, Runtime
  <2> HIDE DEF q
  <2>6. Beside(q, Now)
    BY <1>2, <2>1, <2>4 DEF Beside, Quiet
  <2>7. Apart(q) /\ Relisted(q)
    BY <1>2, <2>1, <2>4, <2>6, ApartSteps, Relistings DEF Homely
  <2>8. /\ ServeWith(q, dialing, keys_owed, jobs, swapd)
        /\ dialing \subseteq q.reach /\ alive \subseteq q.reach
    BY <1>1, <1>2, <2>1, <2>2, <2>4 DEF Serve
  <2>9. /\ Home(q.rt, q.reach \ told_to_stop(q), (starting \ q.reach) \cup q.launched)
        /\ Fresh(runtime, alive, starting) =>
             Fresh(q.rt, q.reach \ told_to_stop(q), (starting \ q.reach) \cup q.launched)
    BY <2>4, <2>7, HomeApart
  <2>10. ~q.rt.auto_restored \/ pending' => Fresh(runtime, alive, starting)
    BY <1>1, <2>1, <2>2, <2>3, <2>5
  <2>11. pending' => q.rt.auto_restored /\ {Wallet, Database} \subseteq q.rt.registered
    BY <1>1, <2>1, <2>2, <2>3, <2>4, <2>5
  <2> QED
    BY <2>4, <2>8, <2>9, <2>10, <2>11, HomeStep
<1>5. CASE ListRestores
  <2> DEFINE S == {d \in Deals : store[d].saved}
  <2>1. PICK list \in SetToSeqs(S) :
          LET after[i \in 0..Len(list)] ==
                IF i = 0 THEN Now
                ELSE IF after[i - 1].ok
                     THEN restore_checkpoint(after[i - 1], list[i], store[list[i]].expected, Database)
                     ELSE after[i - 1]
          IN  Serve(after[Len(list)])
    BY <1>5 DEF ListRestores
  <2>2. IsFiniteSet(S) /\ Cardinality(S) \in Nat
    <3>1. IsFiniteSet(S)
      BY DealsAssumption, FS_Subset
    <3> HIDE DEF S
    <3> QED
      BY <3>1, FS_CardinalityType
  <2>3. /\ list \in [1..Cardinality(S) -> S] /\ Len(list) = Cardinality(S)
        /\ list \in [1..Cardinality(S) -> Deals]
        /\ \A i, j \in 1..Cardinality(S) : list[i] = list[j] => i = j
    <3>1. /\ list \in [1..Cardinality(S) -> S]
          /\ \A i, j \in 1..Cardinality(S) : list[i] = list[j] => i = j
      BY DEF SetToSeqs
    <3>2. S \subseteq Deals
      OBVIOUS
    <3> HIDE DEF S
    <3> QED
      BY <2>2, <3>1, <3>2
  <2> DEFINE n == Cardinality(S)
             f == CHOOSE f : f = [i \in 0..Len(list) |->
                                   IF i = 0 THEN Now ELSE RestoreNext(f[i - 1], list[i])]
  <2>4. Serve(f[n])
    BY <2>1, <2>3 DEF RestoreNext
  <2>5. f = [i \in 0..n |-> IF i = 0 THEN Now ELSE RestoreNext(f[i - 1], list[i])]
    <3> HIDE DEF S
    <3> QED
      BY <2>2, <2>3, RestoresDefined
  <2>6. n \in Nat /\ list \in [1..n -> Deals] /\ \A i, j \in 1..n : list[i] = list[j] => i = j
    BY <2>2, <2>3
  <2>7. /\ pending /\ pending' = FALSE /\ Fresh(runtime, alive, starting)
        /\ runtime.auto_restored /\ {Wallet, Database} \subseteq runtime.registered
    BY <1>1, <1>5 DEF ListRestores
  <2> HIDE DEF f, n
  <2>8. Renewed(f[n], {list[j] : j \in 1..n})
    <3>1. \A i \in 0..n : Renewed(f[i], {list[j] : j \in 1..i})
      BY <2>5, <2>6, <2>7, RestoresHome
    <3>2. n \in 0..n
      BY <2>6
    <3> QED
      BY <3>1, <3>2
  <2> DEFINE r == f[n]
  <2>9. {list[j] : j \in 1..n} \in SUBSET Deals
    BY <2>6
  <2>10. Home(r.rt, r.reach \ told_to_stop(r), (starting \ r.reach) \cup r.launched)
    BY <2>7, <2>8, <2>9, RenewedHome
  <2>11. /\ r \in Result /\ r.reach = alive /\ r.rt.auto_restored
         /\ ServeWith(r, dialing, keys_owed, jobs, swapd)
    BY <2>4, <2>7, <2>8 DEF Renewed, Serve
  <2> HIDE DEF r
  <2> QED
    BY <1>1, <2>7, <2>10, <2>11, HomeStep
<1>6. ASSUME NEW d \in Deals, KeysCreated(d)
      PROVE  HomeInv'
  <2> DEFINE i == TradesAt(d)
             r == IF i # 0 THEN swap_keys(taken(Now, i), runtime.tsms[i]) ELSE Now
  <2>1. ServeWith(r, dialing, keys_owed \ {d}, jobs, swapd) /\ UNCHANGED pending
    BY <1>6 DEF KeysCreated, TradesAt
  <2>2. i # 0 => i \in 1..Len(runtime.tsms)
    BY <1>1, Positions
  <2> HIDE DEF i
  <2>3. Homely(r)
    BY <1>2, <2>2, HomeOne
  <2> HIDE DEF r
  <2> QED
    BY <2>1, <2>3, HomeApartServe
<1>7. ASSUME NEW p \in dialing, NEW success \in BOOLEAN, Reports(p, success)
      PROVE  HomeInv'
  <2> DEFINE i == AwaitsAt(p)
             r == IF i = 0 THEN Now
                  ELSE IF success THEN tsm_connected(taken(Now, i), runtime.tsms[i], p)
                  ELSE tsm_not_connected(taken(Now, i), runtime.tsms[i], p)
  <2>1. p \in Connection \cap alive
    BY <1>1
  <2>2. i # 0 => i \in 1..Len(runtime.tsms)
    BY <1>1, Positions
  <2>3. ServeWith(r, dialing \ {p}, keys_owed, jobs, swapd) /\ UNCHANGED pending
    BY <1>7 DEF Reports, AwaitsAt
  <2>4. Homely(r)
    <3> HIDE DEF i
    <3>1. CASE i = 0
      BY <1>2, <3>1
    <3>2. CASE i # 0
      <4>1. i \in 1..Len(runtime.tsms)
        BY <2>2, <3>2
      <4>2. runtime.tsms[i].st # "TakerConnect"
        BY <4>1, HomeBegin DEF RestoredOK
      <4> QED
        BY <2>1, <3>2, <4>1, <4>2, HomeOne
    <3> QED
      BY <3>1, <3>2
  <2> HIDE DEF r
  <2>5. dialing \ {p} \subseteq dialing
    OBVIOUS
  <2> QED
    BY <2>3, <2>4, <2>5, HomeApartServe
<1>8. ASSUME NEW j \in jobs, Answers(j)
      PROVE  HomeInv'
  <2>1. ServeWith(Now, dialing, keys_owed, jobs \ {j}, swapd) /\ UNCHANGED pending
    BY <1>1, <1>8 DEF Answers
  <2> QED
    BY <1>2, <2>1, HomeApartServe
<1> QED
  BY <1>3, <1>4, <1>5, <1>6, <1>7, <1>8 DEF Own

\* What the remote nodes do: no deal is open to them, and what connects is heard.
LEMMA RemoteHome == AtHome /\ Remote => HomeInv'
<1> SUFFICES ASSUME AtHome, Remote
             PROVE  HomeInv'
  OBVIOUS
<1>1. /\ TypeOK /\ runtime.tsms \in Seq(Machine) /\ links \in Nat
      /\ alive \in SUBSET Service /\ peers(alive) \subseteq Connection
  BY Services DEF AtHome, TypeOK, Runtime
<1>2. /\ Homely(Now) /\ Now \in Result /\ Apart(Now)
      /\ Now.rt = runtime /\ Now.reach = alive
  BY HomeBegin DEF Homely
<1>3. ASSUME NEW n \in Nodes, RemoteConnects(n)
      PROVE  HomeInv'
  <2> DEFINE p == Peer(links + 1, n, "in")
             r == register(Joining(p), p)
  <2>1. UNCHANGED pending /\ \E newest \in BOOLEAN : Serve(machines_hear(r, p, newest))
    BY <1>3 DEF RemoteConnects
  <2>2. p \in Service
    BY <1>1, Services
  <2>3. p.kind = "peer"
    BY DEF Peer
  <2> HIDE DEF p
  <2>4. r \in Result /\ Arrived(r, p) /\ r.rt.auto_restored = runtime.auto_restored
    BY <2>2, ArrivedHome
  <2> HIDE DEF r
  <2>5. pending' => pending
    BY <2>1
  <2> QED
    BY <2>1, <2>2, <2>3, <2>4, <2>5, ServedHome
<1>4. ASSUME NEW p \in peers(alive), NEW d \in Deals, TakerCommits(p, d)
      PROVE  HomeInv'
  <2> DEFINE i == MakesAt(d)
             r == send(Now, p, "DealNotFound", d)
  <2>1. /\ UNCHANGED pending
        /\ Serve(IF i # 0 THEN taker_commit(taken(Now, i), runtime.tsms[i], p) ELSE r)
    BY <1>4 DEF TakerCommits, MakesAt
  <2>2. i = 0
    <3> SUFFICES ASSUME i # 0
                 PROVE  FALSE
      OBVIOUS
    <3>1. i \in 1..Len(runtime.tsms) /\ runtime.tsms[i].st = "MakeDeal"
      BY <1>1, Positions
    <3> HIDE DEF i
    <3> QED
      BY <3>1, HomeBegin DEF RestoredOK
  <2> HIDE DEF i
  <2>3. p \in Service
    BY <1>1, Services
  <2>4. r \in Result /\ Sends(r, Now) /\ Quiet(r, Now)
    BY <1>2, <2>3, SendType, Messages
  <2>5. Serve(r) /\ UNCHANGED pending
    BY <2>1, <2>2
  <2> HIDE DEF r
  <2>6. Apart(r) /\ r.rt = runtime
    BY <1>2, <2>4, ApartSteps DEF Sends
  <2>7. Homely(r)
    BY <2>4, <2>6, Relistings DEF Homely
  <2> QED
    BY <2>5, <2>7, HomeApartServe DEF Serve
<1>5. ASSUME NEW p \in peers(alive), PeerdTerminated(p)
      PROVE  HomeInv'
  <2> DEFINE r == handle_failed_connection(Now, p)
  <2>1. Serve(r) /\ UNCHANGED pending
    BY <1>5 DEF PeerdTerminated
  <2>2. p \in Connection /\ p \in Service
    BY <1>1, Services
  <2>3. /\ r \in Result /\ r.rt.tsms = runtime.tsms /\ Apart(r)
        /\ r.rt.auto_restored = runtime.auto_restored
    BY <1>2, <2>2, ConnectionType, ApartSteps, RestoredOnce
  <2> HIDE DEF r
  <2>4. Homely(r)
    BY <2>3, Relistings DEF Homely
  <2> QED
    BY <2>1, <2>4, HomeApartServe DEF Serve
<1> QED
  BY <1>3, <1>4, <1>5 DEF Remote

\* SwapOutcome: the others keep what they have heard of, the last one takes its syncers along.
LEMMA EndHome ==
    ASSUME AtHome, NEW i \in 1..Len(runtime.tsms), runtime.tsms[i].st = "SwapdRunning"
    PROVE  LET r == swap_outcome(taken(Now, i), runtime.tsms[i]) IN
           /\ r \in Result /\ r.reach = alive /\ r.rt.auto_restored = runtime.auto_restored
           /\ Home(r.rt, r.reach \ told_to_stop(r), (starting \ r.reach) \cup r.launched)
<1> DEFINE o == taken(Now, i)
           t == runtime.tsms[i]
           q == Dismissed(o, t)
           U == Unused(q)
           r == terminate(q, U)
<1>1. /\ o \in Result /\ o.ok /\ o.reach = alive /\ told_to_stop(o) = {}
      /\ o.launched = {} /\ o.rt.tsms = RemoveAt(runtime.tsms, i)
      /\ o.rt.auto_restored = runtime.auto_restored
      /\ o.rt.registered = runtime.registered /\ o.rt.ssms = runtime.ssms
      /\ t \in Machine /\ t.deal \in Deals /\ RestoredOK(t, alive, starting)
      /\ {Wallet, Database} \subseteq alive
  BY HomeBegin DEF Apart
<1>2. /\ Home(runtime, alive, starting) /\ runtime.registered \subseteq alive
      /\ runtime.tsms \in Seq(Machine) /\ Distinct(runtime.tsms)
      /\ t \in ToSet(runtime.tsms) /\ runtime.tsms # <<>>
      /\ \A u \in ToSet(runtime.tsms) : u \in Machine /\ RestoredOK(u, alive, starting)
  <2>1. runtime.tsms \in Seq(Machine) /\ DOMAIN runtime.tsms = 1..Len(runtime.tsms)
    BY LenProperties DEF AtHome, TypeOK, Runtime
  <2> QED
    BY <2>1, ElementOfSeq DEF AtHome, HomeInv, Home, ToSet
<1>3. Swap(t.deal) \in alive /\ \A c \in Chains : Syncer(c) \notin starting
  BY <1>1 DEF RestoredOK
<1> HIDE DEF o, t
<1>4. /\ q \in Result /\ q.rt = o.rt /\ q.reach = alive /\ q.launched = {} /\ q.ok
      /\ swap_outcome(o, t) = r
      /\ \A m \in q.sent : m \in o.sent \/ m.msg # "Terminate" \/ m.to = Swap(t.deal)
  BY <1>1, <1>3, DismissedType
<1>5. told_to_stop(q) \subseteq {Swap(t.deal)}
  <2> HIDE DEF q
  <2>1. \A m \in o.sent : m.msg # "Terminate"
    BY <1>1 DEF told_to_stop
  <2> QED
    BY <1>4, <2>1 DEF told_to_stop
<1> HIDE DEF q
<1>6. U \in SUBSET Service /\ U \subseteq runtime.registered
  <2>1. U \in SUBSET Service
    BY <1>4, EndType
  <2> QED
    BY <1>1, <1>4, <2>1 DEF Unused, unused_syncers, unused_peers, syncers, peers
<1>7. \A s \in U : s.kind \in {"peer", "syncer"}
  BY DEF Unused, unused_syncers, unused_peers, syncers, peers
<1>8. ASSUME NEW c \in Chains, Syncer(c) \in runtime.registered \ U
      PROVE  q.rt.tsms # <<>>
  <2>1. Syncer(c).kind = "syncer" /\ Syncer(c).chain = c
    BY DEF Syncer
  <2>2. syncer_has_client(q, Syncer(c))
    BY <1>1, <1>4, <1>8, <2>1 DEF Unused, unused_syncers, syncers
  <2>3. q.rt.ssms = {}
    BY <1>1, <1>2, <1>4 DEF Home
  <2>4. \E u \in ToSet(q.rt.tsms) : c \in syncers_of(u)
    BY <2>1, <2>2, <2>3 DEF syncer_has_client
  <2> QED
    BY <2>4 DEF ToSet
<1> HIDE DEF U
<1>9. /\ r \in Result /\ r.rt.registered = runtime.registered \ U
      /\ r.rt = [q.rt EXCEPT !.registered = r.rt.registered]
      /\ r.reach = alive /\ r.launched = {}
      /\ \A m : m \in r.sent <=>
           \/ m \in q.sent
           \/ \E s \in U : m = [to |-> s, msg |-> "Terminate", arg |-> None]
  <2>1. U \cap q.reach = U
    BY <1>2, <1>4, <1>6
  <2> QED
    BY <1>1, <1>4, <1>6, <2>1, TerminateType
<1> HIDE DEF r
<1>10. /\ r.rt.tsms = RemoveAt(runtime.tsms, i) /\ r.rt.tsms = q.rt.tsms /\ r.rt.ssms = {}
       /\ r.rt.auto_restored = runtime.auto_restored
  BY <1>1, <1>2, <1>4, <1>9 DEF Result, Runtime, Home
<1>11. told_to_stop(r) \subseteq {Swap(t.deal)} \cup U /\ told_to_stop(r) \cap runtime.registered \subseteq U
  <2>1. told_to_stop(r) \subseteq {Swap(t.deal)} \cup U
    <3> SUFFICES ASSUME NEW m \in r.sent, m.msg = "Terminate"
                 PROVE  m.to \in {Swap(t.deal)} \cup U
      BY DEF told_to_stop
    <3>1. CASE m \in q.sent
      BY <1>5, <3>1 DEF told_to_stop
    <3>2. CASE \E s \in U : m = [to |-> s, msg |-> "Terminate", arg |-> None]
      BY <3>2
    <3> QED
      BY <1>9, <3>1, <3>2
  <2>2. Swap(t.deal) \notin runtime.registered
    BY <1>1, <1>2 DEF Home
  <2> QED
    BY <2>1, <2>2
<1> DEFINE al == alive \ told_to_stop(r)
           st == starting \ alive
<1>12. /\ Distinct(r.rt.tsms)
       /\ \A u \in ToSet(r.rt.tsms) : u \in ToSet(runtime.tsms) /\ u.deal # t.deal
  <2> DEFINE a == RemoveAt(runtime.tsms, i)
  <2>1. /\ Distinct(a) /\ ToSet(a) = ToSet(runtime.tsms) \ {t}
        /\ \A u \in ToSet(a) : u.deal # t.deal
    BY <1>2, RemovedList DEF t
  <2> HIDE DEF a
  <2>2. r.rt.tsms = a
    BY <1>10 DEF a
  <2> QED
    BY <2>1, <2>2
<1>13. \A c \in Chains : Syncer(c) \notin st
  BY <1>3
<1>14. ASSUME NEW d \in Deals
       PROVE  /\ Swap(d) \in st <=> Swap(d) \in starting
              /\ d # t.deal /\ Swap(d) \in alive => Swap(d) \in al
  <2>1. Swap(d) \in starting => Swap(d) \notin alive
    BY <1>2 DEF Home
  <2>2. Swap(d) = Swap(t.deal) => d = t.deal
    BY DEF Swap
  <2>3. Swap(d) \notin U
    BY <1>7, Kinds
  <2> QED
    BY <1>11, <2>1, <2>2, <2>3
<1> HIDE DEF al, st
<1>15. \A u \in ToSet(r.rt.tsms) : RestoredOK(u, al, st)
  <2> SUFFICES ASSUME NEW u \in ToSet(r.rt.tsms)
               PROVE  RestoredOK(u, al, st)
    OBVIOUS
  <2>1. RestoredOK(u, alive, starting) /\ u.deal \in Deals /\ u.deal # t.deal
    BY <1>2, <1>12 DEF Machine
  <2> QED
    BY <1>3, <1>13, <1>14, <2>1 DEF RestoredOK
<1>16. {Wallet, Database} \subseteq r.rt.registered
  <2>1. {Wallet, Database} \subseteq runtime.registered
    BY <1>2 DEF Home
  <2>2. Wallet \notin U /\ Database \notin U
    BY <1>7, Kinds
  <2> QED
    BY <1>9, <2>1, <2>2
<1>17. Home(r.rt, al, st)
  <2>1. r.rt.registered \subseteq al
    BY <1>2, <1>9, <1>11 DEF al
  <2>2. \A c \in Chains : Syncer(c) \in st \cup r.rt.registered => r.rt.tsms # <<>>
    BY <1>8, <1>9, <1>10, <1>13
  <2>3. \A d \in Deals : Swap(d) \notin r.rt.registered /\ (Swap(d) \in st => Swap(d) \notin al)
    BY <1>2, <1>9 DEF Home, al, st
  <2> QED
    BY <1>10, <1>12, <1>13, <1>15, <1>16, <2>1, <2>2, <2>3 DEF Home
<1>18. r.reach \ told_to_stop(r) = al /\ (starting \ r.reach) \cup r.launched = st
  BY <1>9 DEF al, st
<1> QED
  BY <1>4, <1>9, <1>10, <1>17, <1>18 DEF o, t

\* What swapds do.
LEMMA SwapsHome == AtHome /\ Swaps => HomeInv'
<1> SUFFICES ASSUME AtHome, NEW d \in Deals, Checkpoints(d) \/ Unreachable(d) \/ Ends(d)
             PROVE  HomeInv'
  BY DEF Swaps
<1>1. /\ TypeOK /\ runtime.tsms \in Seq(Machine) /\ dialing \subseteq alive
      /\ ~runtime.auto_restored \/ pending => Fresh(runtime, alive, starting)
      /\ Homely(Now)
  BY HomeBegin DEF AtHome, TypeOK, Runtime, HomeInv
<1> DEFINE i == by_swap_id(d)
           t == runtime.tsms[i]
<1>2. i # 0 => i \in 1..Len(runtime.tsms)
  BY <1>1, Positions
<1>3. CASE Checkpoints(d)
  <2>1. /\ runtime' = runtime /\ alive' = alive /\ starting' = starting /\ dialing' = dialing
        /\ pending' = pending
    BY <1>3 DEF Checkpoints
  <2> QED
    BY <2>1 DEF AtHome, HomeInv, Home, Fresh, Distinct, RestoredOK
<1>4. CASE Unreachable(d)
  <2> DEFINE p == swapd[d].peer
             r(newest) == IF t.st = "SwapdRunning" THEN peerd_unreachable(taken(Now, i), t, p)
                          ELSE otherwise(taken(Now, i), t, newest)
  <2>1. /\ i # 0 /\ p \notin alive /\ UNCHANGED pending
        /\ \E newest \in BOOLEAN : Serve(r(newest))
    BY <1>4 DEF Unreachable
  <2> HIDE DEF i, p
  <2>2. ASSUME NEW newest
        PROVE  Homely(r(newest))
    BY <1>2, <2>1, HomeOne
  <2> HIDE DEF r
  <2> QED
    BY <1>1, <2>1, <2>2, HomeApartServe DEF Serve
<1>5. CASE Ends(d)
  <2> DEFINE ended == [swapd EXCEPT ![d].st = "ended"]
             r(newest) == IF i = 0 THEN Now
                          ELSE IF t.st = "SwapdRunning" THEN swap_outcome(taken(Now, i), t)
                          ELSE otherwise(taken(Now, i), t, newest)
  <2>1. /\ UNCHANGED pending
        /\ \E newest \in BOOLEAN : ServeWith(r(newest), dialing, keys_owed, jobs, ended)
    BY <1>5 DEF Ends
  <2> HIDE DEF i, ended
  <2>2. CASE i = 0 \/ t.st # "SwapdRunning"
    <3>1. ASSUME NEW newest
          PROVE  Homely(r(newest))
      BY <1>1, <1>2, <2>2, HomeOne
    <3> HIDE DEF r
    <3> QED
      BY <2>1, <3>1, HomeApartServe
  <2>3. CASE i # 0 /\ t.st = "SwapdRunning"
    <3> DEFINE e == swap_outcome(taken(Now, i), t)
    <3>1. ServeWith(e, dialing, keys_owed, jobs, ended)
      BY <2>1, <2>3
    <3>2. /\ e \in Result /\ e.reach = alive /\ e.rt.auto_restored = runtime.auto_restored
          /\ Home(e.rt, e.reach \ told_to_stop(e), (starting \ e.reach) \cup e.launched)
      BY <1>2, <2>3, EndHome
    <3>3. runtime.auto_restored /\ ~pending
      <4>1. runtime.tsms # <<>>
        BY <1>2, <2>3, EmptySeq
      <4> QED
        BY <1>1, <4>1 DEF Fresh
    <3> HIDE DEF e
    <3> QED
      BY <1>1, <2>1, <3>1, <3>2, <3>3, HomeStep
  <2> QED
    BY <2>2, <2>3
<1> QED
  BY <1>3, <1>4, <1>5

\* Such a node at its start.
LEMMA NewHome ==
    /\ Home(NewRuntime, {}, {Wallet, Database})
    /\ Fresh(NewRuntime, {}, {Wallet, Database})
    /\ ~NewRuntime.auto_restored
<1>1. /\ NewRuntime.registered = {} /\ NewRuntime.spawning = {} /\ NewRuntime.ssms = {}
      /\ NewRuntime.tsms = <<>> /\ ~NewRuntime.auto_restored
  BY DEF NewRuntime
<1>2. ToSet(<<>>) = {} /\ Distinct(<<>>)
  BY DEF ToSet, Distinct
<1>3. \A c \in Chains : Syncer(c) \notin {Wallet, Database}
  BY Kinds
<1>4. \A d \in Deals : Swap(d) \notin {Wallet, Database}
  BY Kinds
<1> QED
  BY <1>1, <1>2, <1>3, <1>4 DEF Home, Fresh

\* The node is stopped and started again: the database remains, the node is as new.
LEMMA FaultsHome == AtHome /\ Faults => HomeInv'
<1> SUFFICES ASSUME AtHome, Restarts
             PROVE  HomeInv'
  BY DEF Faults, AtHome, Secluded
<1>1. /\ runtime' = NewRuntime /\ alive' = {} /\ starting' = {Wallet, Database} /\ dialing' = {}
      /\ pending' = FALSE
  BY DEF Restarts, AtHome, Secluded
<1> QED
  BY <1>1, NewHome DEF HomeInv

\* The invariant holds when such a node starts.
LEMMA HomeInit == Init /\ Secluded => HomeInv
<1> SUFFICES ASSUME Init, Secluded
             PROVE  HomeInv
  OBVIOUS
<1>1. /\ runtime = NewRuntime /\ alive = {} /\ starting = {Wallet, Database} /\ dialing = {}
      /\ pending = FALSE
  BY DEF Init, Secluded
<1> QED
  BY <1>1, NewHome DEF HomeInv

\* On a node on which no client asks and no process dies alone, what was stored is restored
\* by one machine a swap, whose syncers and swapd are on their way, after every start.
LEMMA NodeIsHome == Spec => [](Secluded => HomeInv)
<1> DEFINE Inv == TypeOK /\ (Secluded => HomeInv)
<1>1. Init => Inv
  BY TypeInit, HomeInit DEF Init
<1>2. Inv /\ [Next]_vars => Inv'
  <2> SUFFICES ASSUME Inv, [Next]_vars
               PROVE  Inv'
    OBVIOUS
  <2>1. TypeOK'
    <3>1. UNCHANGED vars => TypeOK'
      BY DEF TypeOK, vars
    <3> QED
      BY <3>1, OwnType, AskedType, RemoteType, SwapsType, FaultsType DEF Next
  <2>2. env' = env
    BY Steady
  <2>3. ASSUME Secluded'
        PROVE  HomeInv'
    <3>1. Secluded
      BY <2>2, <2>3 DEF Secluded, Mortal, Clients
    <3>2. AtHome
      BY <3>1 DEF AtHome
    <3>3. ~Asked
      BY <3>1 DEF Asked, Secluded
    <3>4. CASE UNCHANGED vars
      <4>1. /\ runtime' = runtime /\ alive' = alive /\ starting' = starting /\ dialing' = dialing
            /\ pending' = pending
        BY <3>4 DEF vars
      <4> QED
        BY <3>2, <4>1 DEF AtHome, HomeInv, Home, Fresh, Distinct, RestoredOK
    <3> QED
      BY <3>2, <3>3, <3>4, OwnHome, RemoteHome, SwapsHome, FaultsHome DEF Next
  <2> QED
    BY <2>1, <2>3
<1>3. Inv => (Secluded => HomeInv)
  OBVIOUS
<1> QED
  BY <1>1, <1>2, <1>3, PTL DEF Spec

-------------------------------------------------------------------------------
(***************************************************************************)
(* What both kinds of node promise.                                        *)
(***************************************************************************)
\* A swap that runs has its two syncers, whatever else was cleaned up after meanwhile
\* (clean_up_after_swap, syncer_has_client): they are registered, so they have not been terminated.
THEOREM SwapsAreServed == Spec => []SyncersServe
<1>1. (Undisturbed => CalmInv(Chains)) => SyncersServe
  <2> SUFFICES ASSUME CalmInv(Chains), NEW t \in machines, running(t), NEW c \in Chains
               PROVE  Syncer(c) \in alive
    BY DEF SyncersServe
  <2>1. MachineOK(t, runtime.registered, runtime.deals, alive, starting) /\ runtime.registered \subseteq alive
    BY DEF CalmInv, Calm, Tidy, machines
  <2>2. has_swap_id(t) /\ c \in t.up
    BY <2>1 DEF MachineOK, running, has_swap_id
  <2> QED
    BY <2>1, <2>2 DEF MachineOK
<1> QED
  BY <1>1, NodeIsCalm, PTL

\* A swap is traded by one machine: neither making, taking nor restoring it makes a second
\* (consumed_deals_contains), nor does a restart, after which the list is restored once.
THEOREM DealsAreTradedOnce == Spec => []OneTrade
<1>1. (Undisturbed => CalmInv(Chains)) /\ (Secluded => HomeInv) => OneTrade
  BY DEF OneTrade, Untroubled, CalmInv, Calm, HomeInv, Home, Distinct
<1> QED
  BY <1>1, NodeIsCalm, NodeIsHome, PTL

\* A syncer becomes idle only when a request ends whose answer cannot be sent: the last swap or
\* request to use it has it terminated otherwise (clean_up_after_swap,
\* clean_up_after_syncer_usage).
THEOREM SyncersAreUsed == Spec => NoIdleSyncer
<1>1. ASSUME TypeOK, HomeInv, NEW c \in Chains, Syncer(c) \in runtime.registered
      PROVE  \E t \in machines : c \in t.up
  <2>1. /\ runtime.registered \subseteq alive /\ runtime.tsms # <<>>
        /\ Syncer(c) \in starting => Syncer(c) \notin alive
        /\ \A t \in machines : RestoredOK(t, alive, starting)
    BY <1>1 DEF HomeInv, Home, machines
  <2>2. \A t \in machines : c \in t.up
    BY <1>1, <2>1 DEF RestoredOK
  <2>3. machines # {}
    <3>1. /\ runtime.tsms \in Seq(Machine) /\ Len(runtime.tsms) \in Nat
          /\ DOMAIN runtime.tsms = 1..Len(runtime.tsms)
      BY <1>1, LenProperties DEF TypeOK, Runtime
    <3>2. Len(runtime.tsms) # 0
      BY <2>1, <3>1, EmptySeq
    <3>3. 1 \in DOMAIN runtime.tsms
      BY <3>1, <3>2
    <3> QED
      BY <3>3 DEF machines, ToSet
  <2> QED
    BY <2>2, <2>3
<1> DEFINE AtRest == Secluded => \A c \in Chains : ~idle(c)
<1>2. TypeOK /\ (Secluded => HomeInv) => AtRest
  BY <1>1 DEF idle
<1>3. ASSUME NEW K, CalmInv(K)', NEW c \in Chains \ K
      PROVE  ~idle(c)'
  <2> SUFFICES ASSUME Syncer(c) \in runtime'.registered, ~ \E m \in runtime'.ssms : m.chain = c
               PROVE  \E t \in machines' : c \in t.up
    BY DEF idle
  <2>1. /\ runtime'.registered \subseteq alive'
        /\ Syncer(c) \in alive' => Syncer(c) \notin starting'
        /\ Syncer(c) \in alive' => \/ \E t \in machines' : has_swap_id(t)
                                   \/ \E m \in runtime'.ssms : m.chain = c
    BY <1>3 DEF CalmInv, Calm, Tidy, machines
  <2>2. PICK t \in machines' : has_swap_id(t)
    BY <2>1
  <2>3. c \notin t.up => Syncer(c) \in starting'
    BY <1>3, <2>2 DEF CalmInv, Calm, MachineOK, machines
  <2> QED
    BY <2>1, <2>2, <2>3
<1>4. ASSUME TypeOK, faults \in Nat, Undisturbed, CalmInv(Chains), [Next]_vars, NEW c \in Chains, ~idle(c), idle(c)'
      PROVE  \E m \in runtime.ssms : m.chain = c /\ unheard(m)
  <2>1. PICK K : K = {d \in Chains : idle(d)}
    OBVIOUS
  <2>2. ASSUME NEW d \in Chains, d \notin K, Syncer(d) \in alive
        PROVE  \/ \E t \in ToSet(runtime.tsms) : has_swap_id(t)
               \/ \E m \in runtime.ssms : m.chain = d
    <3>1. Syncer(d) \in runtime.registered
      BY <1>4, <2>2 DEF CalmInv, Calm, Tidy
    <3>2. \/ \E t \in machines : d \in t.up
          \/ \E m \in runtime.ssms : m.chain = d
      BY <2>1, <2>2, <3>1 DEF idle
    <3>3. \A t \in machines : d \in t.up => has_swap_id(t)
      BY <1>4 DEF CalmInv, Calm, MachineOK, machines
    <3> QED
      BY <3>2, <3>3 DEF machines
  <2>3. World(K)
    BY <1>4, <2>2 DEF World, CalmInv, Calm, Tidy
  <2>4. c \notin K
    BY <1>4, <2>1
  <2>5. ~CalmInv(K)'
    BY <1>3, <1>4, <2>4
  <2>6. PICK m \in runtime.ssms : unheard(m) /\ CalmInv(K \cup {m.chain})'
    BY <1>4, <2>3, <2>5, CalmStep
  <2>7. c \in K \cup {m.chain}
    BY <1>3, <1>4, <2>6
  <2> QED
    BY <2>4, <2>6, <2>7
<1>5. /\ TypeOK /\ faults \in Nat /\ (Undisturbed => CalmInv(Chains)) /\ AtRest' /\ [Next]_vars
      => [Untroubled => \A c \in Chains : ~idle(c) /\ idle(c)' =>
            \E m \in runtime.ssms : m.chain = c /\ unheard(m)]_vars
  <2> SUFFICES ASSUME TypeOK, faults \in Nat, Undisturbed => CalmInv(Chains), AtRest', [Next]_vars, Untroubled,
                      NEW c \in Chains, ~idle(c), idle(c)'
               PROVE  \E m \in runtime.ssms : m.chain = c /\ unheard(m)
    OBVIOUS
  <2>1. ~Secluded'
    OBVIOUS
  <2>2. ~Secluded
    BY <2>1, Steady DEF Secluded, Mortal, Clients
  <2> QED
    BY <1>4, <2>2 DEF Untroubled
<1> HIDE DEF AtRest
<1> QED
  BY <1>2, <1>5, TypeCorrect, NodeIsCalm, NodeIsHome, PTL DEF Spec, NoIdleSyncer

\* Whatever a machine or a request still waits for has been launched and will say hello,
\* whoever asked for it first (syncer_up, launch_swapd), also when the node restarts.
THEOREM WaitsAreMet == Spec => []SomeoneComes
<1>1. CalmInv(Chains) => AllComes
  <2> SUFFICES ASSUME CalmInv(Chains)
               PROVE  AllComes
    OBVIOUS
  <2>1. /\ \A t \in machines : MachineOK(t, runtime.registered, runtime.deals, alive, starting)
        /\ \A m \in runtime.ssms : JobOK(m, runtime.registered, starting)
    BY DEF CalmInv, Calm, machines
  <2>2. \A t \in machines : t.st \in {"SwapdLaunched", "RestoringSwapd"} =>
          /\ \A c \in Chains \ t.up : Syncer(c) \in starting
          /\ "swapd" \notin t.up => Swap(t.deal) \in starting
    BY <2>1 DEF MachineOK, has_swap_id
  <2> QED
    BY <2>1, <2>2 DEF AllComes, JobOK
<1>2. HomeInv => AllComes
  <2> SUFFICES ASSUME HomeInv
               PROVE  AllComes
    OBVIOUS
  <2>1. runtime.ssms = {} /\ \A t \in machines : RestoredOK(t, alive, starting)
    BY DEF HomeInv, Home, machines
  <2> QED
    BY <2>1 DEF AllComes, RestoredOK
<1>3. (Undisturbed => CalmInv(Chains)) /\ (Secluded => HomeInv) => SomeoneComes
  BY <1>1, <1>2 DEF SomeoneComes, Untroubled
<1> QED
  BY <1>3, NodeIsCalm, NodeIsHome, PTL

===============================================================================
