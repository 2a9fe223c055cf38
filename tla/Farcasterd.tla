----------------------------- MODULE Farcasterd -----------------------------
(***************************************************************************)
(* farcasterd at work: one handler at a time (src/src/farcasterd/          *)
(* runtime.rs, handle_ctl, handle_msg, handle_info, handle_sync), among    *)
(* the processes it launches and the remote nodes.                         *)
(*                                                                         *)
(* A message to farcasterd is sent and handled in one step; what it sends  *)
(* reaches a service that is on the bus at once.  Processes start slowly:  *)
(* from its launch to its Hello a service is not on the bus.               *)
(***************************************************************************)
EXTENDS TradeStateMachine, SyncerStateMachine

CONSTANTS
  Environments,  \* the small worlds one run checks: a behaviour has one of them
  MaxJobs        \* requests for a syncer, in any of them

VARIABLES
  env,       \* the world of this behaviour
  runtime,   \* farcasterd's own state
  alive,     \* the services on the bus
  starting,  \* those launched that have not said hello
  dialing,   \* connecting peerds that have not reported
  swapd,     \* a swapd as farcasterd makes it: whether it runs, and its peer
  keys_owed, \* deals whose keys walletd is to create
  jobs,      \* tasks syncers have from farcasterd
  store,     \* the checkpoints in the database
  pending,   \* checkpoints of a list databased has been asked for
  waits,     \* the requests for a syncer whose clients wait for an answer
  links, connects, faults

Stored      == env.stored    \* what earlier sessions left in the database: deal -> checkpoint
AutoRestore == env.auto      \* whether the configuration asks for it
Clients     == env.clients   \* those who send requests
Open        == env.open      \* the deals they may make and take
MaxTrades   == env.trades    \* trade state machines while one more is restored on request
MaxLinks    == env.links     \* connections ever opened
MaxConnects == env.connects  \* uses of the Connect command
Mortal      == env.mortal    \* the kinds of process that may die: swap, peer, client
MaxFaults   == env.faults    \* processes that die and restarts of the node

ASSUME FarcasterdAssumption ==
  /\ MaxJobs \in Nat
  /\ \A e \in Environments :
       /\ {e.trades, e.links, e.connects, e.faults} \subseteq Nat /\ e.jobs \in 0..MaxJobs
       /\ e.open \subseteq Deals /\ e.auto \in BOOLEAN
       /\ e.stored \in [Deals -> [saved : BOOLEAN, expected : SUBSET Nodes]]
       /\ e.mortal \subseteq {"swap", "peer", "client"}

vars == <<env, runtime, alive, starting, dialing, swapd, keys_owed, jobs, store,
          pending, waits, links, connects, faults>>

NoCheckpoint == [saved |-> FALSE, expected |-> {}]
NoSwapd      == [st |-> "idle", peer |-> None]
client(name) == [kind |-> "client", name |-> name]

Init ==
  /\ env \in Environments
  /\ runtime = NewRuntime
  /\ alive = {client(c) : c \in Clients}
  /\ starting = {Wallet, Database}
  /\ dialing = {} /\ keys_owed = {} /\ jobs = {} /\ waits = {}
  /\ swapd = [d \in Deals |-> NoSwapd]
  /\ store = Stored
  /\ pending = FALSE
  /\ links = 0 /\ connects = 0 /\ faults = 0

---------------------------------------------------------------------------
(* What a handler did, as the other processes see it.                       *)

sent(r, to, msg) == {m \in r.sent : m.to = to /\ m.msg = msg}
told_to_stop(r)  == {m.to : m \in {n \in r.sent : n.msg = "Terminate"}}

swapd_after(r, before, d) ==
  LET started   == sent(r, Swap(d), "InitSwap")
      linked_up == sent(r, Swap(d), "PeerdReconnected")
      restored  == store[d].saved /\ \E m \in sent(r, Database, "RestoreCheckpoint") : m.arg = d
      told      == IF started # {} THEN started ELSE linked_up
  IN  IF Swap(d) \in told_to_stop(r) THEN NoSwapd
      ELSE [st   |-> IF started # {} \/ restored THEN "running" ELSE before[d].st,
            peer |-> IF told = {} THEN before[d].peer ELSE (CHOOSE m \in told : TRUE).arg]

\* r has been handled; dial, owed, tasks and before are what the request left
\* of dialing, keys_owed, jobs and swapd.
ServeWith(r, dial, owed, tasks, before) ==
  /\ runtime' = r.rt
  /\ alive' = r.reach \ told_to_stop(r)
  /\ starting' = (starting \ r.reach) \cup r.launched
  /\ dialing' = (dial \cup (peers(starting) \cap r.reach)) \ told_to_stop(r)
  /\ swapd' = [d \in Deals |-> swapd_after(r, before, d)]
  /\ keys_owed' = owed \cup {m.arg : m \in sent(r, Wallet, "CreateSwapKeys")}
  /\ jobs' = {j \in tasks : Syncer(j.chain) \notin told_to_stop(r)}
             \cup {[task |-> m.arg, chain |-> m.to.chain] :
                     m \in {n \in r.sent : n.msg = "Task"}}
  /\ store' = [d \in Deals |->
                 IF \E m \in sent(r, Database, "RemoveCheckpoint") : m.arg = d
                 THEN NoCheckpoint ELSE store[d]]
  /\ links' = IF \E p \in peers(r.reach \cup r.launched) : p.uuid = r.uuid
              THEN r.uuid ELSE links
  /\ UNCHANGED env

Serve(r) == ServeWith(r, dialing, keys_owed, jobs, swapd)

Now        == Begin(runtime, alive, links + 1)
Joining(s) == Begin(runtime, alive \cup {s}, links + 1)
Rest       == UNCHANGED <<waits, connects, faults>>

---------------------------------------------------------------------------
(* process_request_with_state_machines: the first trade state machine the   *)
(* request concerns is taken out and handles it.                            *)

position(P(_)) == SelectInSeq(runtime.tsms, P)
taken(r, i)    == [r EXCEPT !.rt.tsms = RemoveAt(@, i)]
by_swap_id(d)  == position(LAMBDA t : has_swap_id(t) /\ t.deal = d)

---------------------------------------------------------------------------
(* Hello.  The service is registered, and then every machine, moved out of  *)
(* the runtime, hears it in turn: an error drops those that have not.       *)

auto_restores(r) ==
  AutoRestore /\ services_ready(r) /\ peer_keys_ready(r) /\ ~r.rt.auto_restored

auto_restore(r) == [r EXCEPT !.rt.auto_restored = @ \/ auto_restores(r)]

register(r, s) ==
  CASE s.kind \in {"database", "wallet"} -> [r EXCEPT !.rt.registered = @ \cup {s}]
    [] s.kind = "peer" ->
         IF \E t \in ToSet(r.rt.tsms) : awaiting_connect_from(t) = node_addr(s)
         THEN r ELSE handle_new_connection(r, s)
    [] s.kind = "syncer" /\ s \in r.rt.spawning ->
         [r EXCEPT !.rt.spawning = @ \ {s}, !.rt.registered = @ \cup {s}]
    [] OTHER -> r

\* Each answers for itself.
tsms_hear(r, s, newest) ==
  LET moved  == [r EXCEPT !.rt.tsms = <<>>]
      answer == [i \in DOMAIN r.rt.tsms |-> tsm_hello(moved, r.rt.tsms[i], s, newest)]
      heard  == {i \in DOMAIN answer : \A j \in 1..(i - 1) : answer[j].ok}
      pushed == {i \in heard : answer[i].ok}
  IN  [moved EXCEPT !.rt.tsms = [i \in 1..Cardinality(pushed) |-> answer[i].rt.tsms[1]],
                    !.sent = @ \cup UNION {answer[i].sent : i \in heard},
                    !.ok = @ /\ pushed = DOMAIN answer]

\* (One that waits for the syncer which says hello can send to it: the order
\* of these machines is never told.)
ssms_hear(r, s) ==
  LET answer == {ssm_hello([r EXCEPT !.rt.ssms = {}], m, s) : m \in r.rt.ssms}
  IN  IF r.ok THEN [r EXCEPT !.rt.ssms = UNION {q.rt.ssms : q \in answer},
                             !.sent = @ \cup UNION {q.sent : q \in answer},
                             !.ok = \A q \in answer : q.ok]
      ELSE r

machines_hear(r, s, newest) == ssms_hear(tsms_hear(r, s, newest), s)

\* A service that was launched has started.
SaysHello(s) ==
  /\ s \in starting
  /\ LET known    == register(Joining(s), s)
         restores == s = Database /\ auto_restores(known)
     IN  /\ pending' = (pending \/ restores)
         /\ \E newest \in BOOLEAN :
              Serve(machines_hear(IF restores THEN auto_restore(known) ELSE known, s, newest))
  /\ Rest

\* A remote node, or this one, connects to the listener, which forks a peerd.
RemoteConnects(n) ==
  /\ runtime.listens /\ links < MaxLinks
  /\ n = Here => \E p \in dialing : p.node = Here
  /\ LET p == Peer(links + 1, n, "in")
     IN  \E newest \in BOOLEAN : Serve(machines_hear(register(Joining(p), p), p, newest))
  /\ UNCHANGED <<pending, waits, connects, faults>>

\* walletd hands out the node's keys once it is known.
KeysArrive ==
  /\ Wallet \in runtime.registered /\ ~runtime.keys
  /\ LET r == [Now EXCEPT !.rt.keys = TRUE]
     IN  pending' = (pending \/ auto_restores(r)) /\ Serve(auto_restore(r))
  /\ Rest

---------------------------------------------------------------------------
(* The requests of clients.                                                 *)

MakesDeal(d, c) ==
  /\ d \in (Open \cap MakerDeals) \ (runtime.deals \cup keys_owed) /\ client(c) \in alive
  /\ Serve(make_deal(Now, d, client(c)))
  /\ UNCHANGED pending /\ Rest

RevokesDeal(d, c) ==
  /\ client(c) \in alive
  /\ LET i == position(LAMBDA t : t.st = "MakeDeal" /\ t.deal = d)
     IN  i # 0 /\ Serve(revoke_deal(taken(Now, i), runtime.tsms[i], client(c)))
  /\ UNCHANGED pending /\ Rest

TakesDeal(d, c) ==
  /\ d \in Open \ MakerDeals /\ client(c) \in alive /\ links < MaxLinks
  /\ Serve(take_deal(Now, d, client(c)))
  /\ UNCHANGED pending /\ Rest

Restores(d, c) ==
  /\ store[d].saved /\ client(c) \in alive /\ links < MaxLinks
  /\ Len(runtime.tsms) < MaxTrades
  /\ Serve(restore_checkpoint(Now, d, store[d].expected, client(c)))
  /\ UNCHANGED pending /\ Rest

\* databased answers the request of auto_restore; the first error ends the list.
ListRestores ==
  /\ pending /\ links < MaxLinks
  /\ pending' = FALSE
  /\ \E list \in SetToSeqs({d \in Deals : store[d].saved}) :
       LET after[i \in 0..Len(list)] ==
             IF i = 0 THEN Now
             ELSE IF after[i - 1].ok
                  THEN restore_checkpoint(after[i - 1], list[i], store[list[i]].expected, Database)
                  ELSE after[i - 1]
       IN  Serve(after[Len(list)])
  /\ Rest

Connects(d, c) ==
  /\ connects < MaxConnects /\ links < MaxLinks /\ client(c) \in alive
  /\ LET i == by_swap_id(d)
     IN  /\ i # 0
         /\ LET t == runtime.tsms[i]
            IN  \E newest \in BOOLEAN :
                  Serve(IF t.st = "SwapdRunning" THEN connect(taken(Now, i), t, client(c))
                        ELSE otherwise(taken(Now, i), t, newest))
  /\ connects' = connects + 1
  /\ UNCHANGED <<pending, waits, faults>>

AsksSyncer(chain, c) ==
  /\ runtime.counter < env.jobs /\ client(c) \in alive
  /\ Serve(start_job(Now, chain, client(c)))
  /\ waits' = waits \cup {[task |-> runtime.counter, client |-> client(c)]}
  /\ UNCHANGED <<pending, connects, faults>>

---------------------------------------------------------------------------
(* The messages of remote nodes, walletd, the syncers and the peerds.       *)

\* A taker names the deal; without an open one it is told that there is none.
TakerCommits(p, d) ==
  /\ p \in peers(alive) /\ p.side = "in" /\ p.node = Counterparty[d]
  /\ d \in MakerDeals \cap runtime.deals
  /\ LET i == position(LAMBDA t : t.st = "MakeDeal" /\ t.deal = d)
     IN  Serve(IF i # 0 THEN taker_commit(taken(Now, i), runtime.tsms[i], p)
               ELSE send(Now, p, "DealNotFound", d))
  /\ UNCHANGED pending /\ Rest

KeysCreated(d) ==
  /\ d \in keys_owed
  /\ LET i == position(LAMBDA t : t.st # "MakeDeal" /\ t.deal = d)
     IN  ServeWith(IF i # 0 THEN swap_keys(taken(Now, i), runtime.tsms[i]) ELSE Now,
                   dialing, keys_owed \ {d}, jobs, swapd)
  /\ UNCHANGED pending /\ Rest

\* A connecting peerd reports, to the first machine that awaits its address.
Reports(p, success) ==
  /\ p \in dialing
  /\ LET i == position(LAMBDA t : awaiting_connect_from(t) = node_addr(p))
         r == IF i = 0 THEN Now
              ELSE IF success THEN tsm_connected(taken(Now, i), runtime.tsms[i], p)
              ELSE tsm_not_connected(taken(Now, i), runtime.tsms[i], p)
     IN  ServeWith(r, dialing \ {p}, keys_owed, jobs, swapd)
  /\ UNCHANGED pending /\ Rest

\* A forked peerd whose connection breaks asks to be terminated.
PeerdTerminated(p) ==
  /\ p \in peers(alive) /\ p.side = "in"
  /\ Serve(handle_failed_connection(Now, p))
  /\ UNCHANGED pending /\ Rest

Answers(j) ==
  /\ j \in jobs /\ Syncer(j.chain) \in alive
  /\ LET asked == {m \in runtime.ssms : m.task = j.task /\ m.chain = j.chain /\ m.given}
         end(r) == /\ ServeWith(r, dialing, keys_owed, jobs \ {j}, swapd)
                   /\ waits' = {w \in waits :
                                 ~ \E m \in sent(r, w.client, "Answer") : m.arg = w.task}
     IN  IF asked = {} THEN end(Now)
         ELSE \E m \in asked : end(end_job([Now EXCEPT !.rt.ssms = @ \ {m}], m))
  /\ UNCHANGED <<pending, connects, faults>>

---------------------------------------------------------------------------
(* What swapds do to farcasterd and to the database.                        *)

runs(d) == Swap(d) \in alive /\ swapd[d].st = "running"

Checkpoints(d) ==
  /\ runs(d)
  /\ store' = [store EXCEPT ![d] = [saved |-> TRUE, expected |-> node_id(swapd[d].peer)]]
  /\ UNCHANGED <<runtime, alive, starting, dialing, swapd, keys_owed, jobs, pending, links, env>>
  /\ Rest

\* It cannot send to its peer.
Unreachable(d) ==
  /\ runs(d) /\ swapd[d].peer \notin alive
  /\ LET i == by_swap_id(d)
     IN  /\ i # 0
         /\ LET t == runtime.tsms[i]
            IN  \E newest \in BOOLEAN :
                  Serve(IF t.st = "SwapdRunning"
                        THEN peerd_unreachable(taken(Now, i), t, swapd[d].peer)
                        ELSE otherwise(taken(Now, i), t, newest))
  /\ UNCHANGED pending /\ Rest

Ends(d) ==
  /\ runs(d)
  /\ LET i     == by_swap_id(d)
         ended == [swapd EXCEPT ![d].st = "ended"]
     IN  \E newest \in BOOLEAN :
           LET t == runtime.tsms[i]
               r == IF i = 0 THEN Now
                    ELSE IF t.st = "SwapdRunning" THEN swap_outcome(taken(Now, i), t)
                    ELSE otherwise(taken(Now, i), t, newest)
           IN  ServeWith(r, dialing, keys_owed, jobs, ended)
  /\ UNCHANGED pending /\ Rest

---------------------------------------------------------------------------
(* Faults.                                                                  *)

Dies(s) ==
  /\ faults < MaxFaults /\ s \in alive
  /\ alive' = alive \ {s} /\ dialing' = dialing \ {s}
  /\ swapd' = [d \in Deals |-> IF s = Swap(d) THEN NoSwapd ELSE swapd[d]]
  /\ waits' = {w \in waits : w.client # s}
  /\ faults' = faults + 1
  /\ UNCHANGED <<runtime, starting, keys_owed, jobs, store, pending, links, connects, env>>

\* The whole node stops and is started again; the database remains.
Restarts ==
  /\ faults < MaxFaults
  /\ runtime' = NewRuntime
  /\ alive' = {client(c) : c \in Clients}
  /\ starting' = {Wallet, Database}
  /\ dialing' = {} /\ keys_owed' = {} /\ jobs' = {} /\ waits' = {} /\ pending' = FALSE
  /\ swapd' = [d \in Deals |-> NoSwapd]
  /\ faults' = faults + 1
  /\ UNCHANGED <<store, links, connects, env>>

---------------------------------------------------------------------------
Own ==
  \/ \E s \in starting : SaysHello(s)
  \/ KeysArrive
  \/ ListRestores
  \/ \E d \in Deals : KeysCreated(d)
  \/ \E p \in dialing, success \in BOOLEAN : Reports(p, success)
  \/ \E j \in jobs : Answers(j)

Asked ==
  \E c \in Clients :
    \/ \E d \in Deals : \/ MakesDeal(d, c) \/ RevokesDeal(d, c) \/ TakesDeal(d, c)
                        \/ Restores(d, c) \/ Connects(d, c)
    \/ \E chain \in Chains : AsksSyncer(chain, c)

Remote ==
  \/ \E n \in Nodes : RemoteConnects(n)
  \/ \E p \in peers(alive), d \in Deals : TakerCommits(p, d)
  \/ \E p \in peers(alive) : PeerdTerminated(p)

Swaps == \E d \in Deals : Checkpoints(d) \/ Unreachable(d) \/ Ends(d)

Faults ==
  \/ \E s \in alive : s.kind \in Mortal /\ Dies(s)
  \/ Restarts

Next == Own \/ Asked \/ Remote \/ Swaps \/ Faults

Spec == Init /\ [][Next]_vars
=============================================================================
