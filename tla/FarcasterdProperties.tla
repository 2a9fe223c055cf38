------------------------ MODULE FarcasterdProperties ------------------------
(***************************************************************************)
(* What farcasterd owes the swaps, the clients and the user.               *)
(***************************************************************************)
EXTENDS Farcasterd

machines == ToSet(runtime.tsms)
running(t) == t.st = "SwapdRunning"

---------------------------------------------------------------------------
(* Services.                                                                *)

\* A node that has nothing to restore, and no process of which dies.
Undisturbed == Stored = [d \in Deals |-> NoCheckpoint] /\ MaxFaults = 0

\* A node that restores what was stored, for itself and as often as it is
\* restarted: no client asks, no process dies alone.
Secluded == Mortal = {} /\ Clients = {}

\* No process dies alone, and no checkpoint is restored a second time: the
\* machine that is left of it outlives its swapd, and the error it makes of the
\* next Hello keeps that Hello from the machines after it.
Untroubled == Undisturbed \/ Secluded

\* A swap that runs has its two syncers: no cleaning up after another swap or
\* request has terminated them (clean_up_after_swap, syncer_has_client).  (A
\* restoring swap does not count as using those it has heard of.)
SyncersServe == Undisturbed =>
  \A t \in machines : running(t) => \A c \in Chains : Syncer(c) \in alive

\* What every machine and every request still waits for.
AllComes ==
  /\ \A t \in machines : t.st \in {"SwapdLaunched", "RestoringSwapd"} =>
       /\ \A c \in Chains \ t.up : Syncer(c) \in starting
       /\ "swapd" \notin t.up => Swap(t.deal) \in starting
  /\ \A m \in runtime.ssms : ~m.given => Syncer(m.chain) \in starting

\* Whatever a machine still waits for has been launched and will say hello,
\* whoever asked for it first (syncer_up, launch_swapd), also when the node
\* restarts.
SomeoneComes == Untroubled => AllComes

\* Nothing uses a syncer that is up.
idle(c) ==
  /\ Syncer(c) \in runtime.registered
  /\ ~ \E t \in machines : c \in t.up
  /\ ~ \E m \in runtime.ssms : m.chain = c

\* m ends although its answer cannot be sent.
unheard(m) ==
  m.given /\ m.client \notin alive /\ (runtime.ssms)' = runtime.ssms \ {m}

\* A syncer that nothing uses any more is terminated with its last swap or request
\* (clean_up_after_swap, clean_up_after_syncer_usage): it is left idle only by a
\* request whose answer cannot be sent, because another service that has ended
\* since took the place of its client (attempt_transition_to_end).
NoIdleSyncer ==
  [][Untroubled => \A c \in Chains : ~idle(c) /\ idle(c)' =>
       \E m \in runtime.ssms : m.chain = c /\ unheard(m)]_vars

---------------------------------------------------------------------------
(* Swaps.                                                                   *)

\* A swap is traded by one machine: neither taking a deal twice nor restoring
\* it makes a second (consumed_deals_contains), nor does a restart.  (A client that
\* restores it twice does, when its swapd is not on the bus yet.)
OneTrade == Untroubled =>
  \A i, j \in DOMAIN runtime.tsms :
    runtime.tsms[i].deal = runtime.tsms[j].deal => i = j

\* A swap whose end is cleaned up takes no connection from another: a
\* connection some machine counts as its own survives (clean_up_after_swap).
OthersKeepLinks ==
  [][\A d \in Deals : Ends(d) =>
       \A t \in machines : t.deal # d /\ get_connection(t) \in alive
         => get_connection(t) \in alive']_vars

---------------------------------------------------------------------------
(* Liveness.  Processes that were launched start and report, walletd and   *)
(* the syncers answer: each of these steps is told by the one variable it  *)
(* takes its occasion from, which no other step changes in that way.       *)

Fairness ==
  /\ WF_alive(\E s \in starting : alive' = alive \cup {s})              \* SaysHello
  /\ WF_runtime(/\ Wallet \in runtime.registered /\ ~runtime.keys
                /\ \E auto \in BOOLEAN :                                 \* KeysArrive
                     runtime' = [runtime EXCEPT !.keys = TRUE, !.auto_restored = auto])
  /\ WF_pending(pending /\ pending' = FALSE)                                   \* ListRestores
  /\ WF_keys_owed(\E d \in keys_owed : keys_owed' = keys_owed \ {d})    \* KeysCreated
  /\ WF_dialing(\E p \in dialing : dialing' = dialing \ {p})            \* Reports
  /\ WF_jobs(\E j \in jobs : jobs' = jobs \ {j})                        \* Answers

LiveSpec == Spec /\ Fairness

\* Of several machines that await one address the first is told of its peerd.
awaits(i) == awaiting_connect_from(runtime.tsms[i])
Behind(d) ==
  \E j \in DOMAIN runtime.tsms : \E i \in 1..(j - 1) :
    runtime.tsms[j].deal = d /\ awaits(j) # <<>> /\ awaits(i) = awaits(j)

\* The maker of d is being dialed, or d is the only deal to be had from it.
Dialed(d) == dummy_peer_service_id(Counterparty[d]) \in runtime.spawning
Sole(d) ==
  \A e \in (Open \cup {f \in Deals : Stored[f].saved}) \ (MakerDeals \cup {d}) :
    Counterparty[e] # Counterparty[d]

In(d, st) == \E t \in machines : t.deal = d /\ t.st = st

\* A deal to be taken is taken, or the client is told that it is not: "once
\* ConnectSuccess is received from peerd or None if ConnectFailed"
\* (TakerConnect).  Of two deals of one maker the second may wait for good, since
\* only the first is told of the connection both need.
TakerAnswered == Undisturbed =>
  \A d \in Deals :
    /\ Sole(d) => (In(d, "TakerConnect") ~> ~In(d, "TakerConnect"))
    /\ (In(d, "TakerConnect") /\ Dialed(d)) ~> (~In(d, "TakerConnect") \/ Behind(d))

\* A client is answered, also when the syncer is launched for its request or shared
\* with swaps that end meanwhile, unless another service has said hello and
\* is answered in its place; and every request ends (syncer_state_machine.rs).
\* (Not when a process has died: the error its absence makes loses a Hello.)
requested(id) == \E m \in runtime.ssms : m.task = id
answered(id)  == ~ \E w \in waits : w.task = id
client_is(id, kept) ==
  \E m \in runtime.ssms, w \in waits :
    m.task = id /\ w.task = id /\ (m.client = w.client) = kept
JobsEnd == Untroubled =>
  \A id \in 0..(MaxJobs - 1) :
    /\ requested(id) ~> ~requested(id)
    /\ client_is(id, TRUE) ~> (answered(id) \/ client_is(id, FALSE))

\* A checkpoint that is being restored becomes a running swap, or ends
\* (RestoringSwapd, "once the various Hello's are received"), also when the node
\* restarts meanwhile.  Of two deals taken from one maker the second may wait for
\* good.  (Not when its swapd dies, which nobody notices.)
RestoredRuns == Untroubled =>
  \A d \in Deals :
    /\ Sole(d) => (In(d, "RestoringSwapd") ~> ~In(d, "RestoringSwapd"))
    /\ (In(d, "RestoringSwapd") /\ Dialed(d)) ~> (~In(d, "RestoringSwapd") \/ Behind(d))
=============================================================================
