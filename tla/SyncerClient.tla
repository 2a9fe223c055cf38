----------------------------- MODULE SyncerClient -----------------------------
(***************************************************************************)
(* How swapd speaks with a syncer (swapd/syncer_client.rs and handle_sync  *)
(* in swapd/runtime.rs): tasks go out under an id the client counts up,    *)
(* events come back under the id of their task, and the client finds the   *)
(* transaction they are about by that id. The client may stop and be       *)
(* restored from a checkpoint; the syncer, which knows a task by its id    *)
(* and its client's name, keeps what it was told.                          *)
(*                                                                         *)
(* The syncer is SyncerState reduced to what this client sees of it. A     *)
(* transaction is its TxLabel; the chain grows and keeps what it has.      *)
(***************************************************************************)
EXTENDS Integers, Sequences, FiniteSets, Functions

CONSTANTS
    Label,       \* the transactions of the swap, a set of TxLabel
    MaxTaskId,   \* tasks one life of swapd gives
    Environments, \* how high the chain grows, and how often swapd restarts
    MaxEvents,   \* events that wait for swapd before the syncer looks again
    Lifetime,    \* 500 in task_lifetime
    Finality     \* btc_finality_thr

ASSUME SyncerClientAssumption ==
    /\ IsFiniteSet(Label)
    /\ MaxTaskId \in Nat /\ MaxEvents \in Nat \ {0}
    /\ Environments \subseteq [blocks : Nat, restarts : Nat]
    /\ Lifetime \in Nat /\ Finality \in Nat \ {0}

Unseen == -1
VARIABLES
    client,    \* SyncerState and SyncerTasks of swapd
    stored,    \* the labels of txids in the checkpoint
    requests,  \* tasks on their way to the syncer
    tasks,     \* what the syncer watches
    events,    \* events on their way to swapd
    height,
    mined,     \* the block of each transaction, 0 if in none
    env        \* one of Environments, with the restarts that are left

vars == <<client, stored, requests, tasks, events, height, mined, env>>

Forever == env.blocks + Lifetime   \* u64::MAX

confirmations(l) == IF mined[l] = 0 THEN Unseen ELSE height - mined[l] + 1

\* A swapd that starts, with the task that watches the height.
NewClient ==
    [counter |-> 1, restored |-> FALSE, bitcoin_height |-> 0,
     watched_txs |-> <<>>, txids |-> {},
     retrieving_txs |-> <<>>,
     confirmations |-> [l \in Label |-> Unseen], final_txs |-> {}, retrieved |-> {}]
watch_height == [kind |-> "WatchHeight", id |-> 1, lifetime |-> Forever]

Init ==
    /\ env \in Environments
    /\ client = NewClient
    /\ stored = {}
    /\ requests = <<watch_height>>
    /\ tasks = {}
    /\ events = <<>>
    /\ height = 1
    /\ mined = [l \in Label |-> 0]

-------------------------------------------------------------------------------
(***************************************************************************)
(* The tasks.                                                              *)
(***************************************************************************)
new_taskid(c) == c.counter + 1

\* What insert makes of a map from ids to labels.
insert(map, id, l) == [i \in DOMAIN map \cup {id} |-> IF i = id THEN l ELSE map[i]]

task_lifetime(c) ==
    IF c.bitcoin_height > 0 THEN c.bitcoin_height + Lifetime ELSE Forever

WatchTransaction(c, l) ==
    [kind |-> "WatchTransaction", id |-> new_taskid(c), label |-> l,
     lifetime |-> task_lifetime(c)]
watching(c, l) ==
    [c EXCEPT !.counter = new_taskid(c), !.txids = @ \cup {l},
              !.watched_txs = insert(@, new_taskid(c), l)]

watch_tx_btc(l) ==
    /\ new_taskid(client) <= MaxTaskId
    /\ client' = watching(client, l)
    /\ requests' = Append(requests, WatchTransaction(client, l))
    /\ UNCHANGED <<stored, tasks, events, height, mined, env>>

GetTx(id, l) == [kind |-> "GetTx", id |-> id, label |-> l]

\* Only for Buy and Refund, once they are seen: their txid is no longer needed.
retrieve_tx_btc(l) ==
    /\ l \in client.txids
    /\ new_taskid(client) <= MaxTaskId
    /\ client' = [client EXCEPT !.counter = new_taskid(client), !.txids = @ \ {l},
                      !.retrieving_txs = insert(@, new_taskid(client), l)]
    /\ requests' = Append(requests, GetTx(new_taskid(client), l))
    /\ UNCHANGED <<stored, tasks, events, height, mined, env>>

(***************************************************************************)
(* The events.                                                             *)
(***************************************************************************)
handle_height_change(e) ==
    /\ e.kind = "HeightChanged"
    /\ client' = [client EXCEPT !.bitcoin_height = IF e.value > @ THEN e.value ELSE @]
    /\ UNCHANGED requests

\* Mutant: only final confirmations are noted.
handle_final_confs(e) ==
    /\ e.kind = "TransactionConfirmations"
    /\ client' =
         IF e.id \notin DOMAIN client.watched_txs \/ e.value < Finality THEN client
         ELSE LET l == client.watched_txs[e.id]
              IN [client EXCEPT !.confirmations[l] = e.value, !.final_txs = @ \cup {l}]
    /\ UNCHANGED requests

\* Mutant: an event is taken to be about the newest of the tasks.
handle_newest_confs(e) ==
    /\ e.kind = "TransactionConfirmations"
    /\ \E id \in DOMAIN client.watched_txs :
          /\ \A other \in DOMAIN client.watched_txs : other <= id
          /\ client' = [client EXCEPT !.confirmations[client.watched_txs[id]] = e.value]
    /\ UNCHANGED requests

\* An id that names no watched transaction is an error in the log.
handle_tx_confs(e) ==
    /\ e.kind = "TransactionConfirmations"
    /\ client' =
         IF e.id \notin DOMAIN client.watched_txs THEN client
         ELSE LET l == client.watched_txs[e.id]
              IN [client EXCEPT !.confirmations[l] = e.value,
                    !.final_txs = IF e.value >= Finality THEN @ \cup {l} ELSE @]
    /\ UNCHANGED requests

\* The state machine takes the transaction out of retrieving_txs.
transaction_retrieved(e) ==
    /\ e.kind = "TransactionRetrieved" /\ e.id \in DOMAIN client.retrieving_txs
    /\ e.value # Unseen
    /\ client' = [client EXCEPT !.retrieved = @ \cup {client.retrieving_txs[e.id]},
                      !.retrieving_txs = [i \in DOMAIN @ \ {e.id} |-> @[i]]]
    /\ UNCHANGED requests

\* Mutant: what is not there yet is not asked for again.
not_retrieved_for_good(e) ==
    /\ e.kind = "TransactionRetrieved" /\ e.id \in DOMAIN client.retrieving_txs
    /\ e.value = Unseen
    /\ UNCHANGED <<client, requests>>

\* "This re-triggers the tx fetch event in case the transaction was not detected yet"
not_retrieved(e) ==
    /\ e.kind = "TransactionRetrieved" /\ e.id \in DOMAIN client.retrieving_txs
    /\ e.value = Unseen
    /\ requests' = Append(requests, GetTx(e.id, client.retrieving_txs[e.id]))
    /\ UNCHANGED client

retrieved_before(e) ==
    /\ e.kind = "TransactionRetrieved" /\ e.id \notin DOMAIN client.retrieving_txs
    /\ UNCHANGED <<client, requests>>

handle_sync ==
    /\ events # <<>>
    /\ events' = Tail(events)
    /\ LET e == Head(events)
       IN \/ handle_height_change(e) \/ handle_tx_confs(e)
          \/ transaction_retrieved(e) \/ not_retrieved(e) \/ retrieved_before(e)
    /\ UNCHANGED <<stored, tasks, height, mined, env>>

(***************************************************************************)
(* Checkpoint and restore. The stored txids are a map: they are watched    *)
(* again in any order.                                                     *)
(***************************************************************************)
checkpoint_state ==
    /\ stored' = client.txids
    /\ UNCHANGED <<client, requests, tasks, events, height, mined, env>>

Orders(S) == {q \in [1..Cardinality(S) -> S] : Range(q) = S}

restored(q) ==
    [NewClient EXCEPT !.counter = 1 + Len(q), !.restored = TRUE, !.txids = Range(q),
                      !.watched_txs = [i \in 2..(1 + Len(q)) |-> q[i - 1]]]

restore ==
    /\ env.restarts > 0
    /\ env' = [env EXCEPT !.restarts = @ - 1]
    /\ \E q \in Orders(stored) :
          /\ client' = restored(q)
          /\ requests' = requests \o <<watch_height>> \o
                [i \in 1..Len(q) |-> [kind |-> "WatchTransaction", id |-> 1 + i,
                                      label |-> q[i], lifetime |-> Forever]]
    /\ events' = <<>>   \* what a swapd that has stopped had not read is lost
    /\ UNCHANGED <<stored, tasks, height, mined>>

-------------------------------------------------------------------------------
(***************************************************************************)
(* The syncer, and the chain.                                              *)
(***************************************************************************)
Event(kind, id, value) == [kind |-> kind, id |-> id, value |-> value]
WatchTask(r, last) == [task |-> r, last |-> last]

\* A height is told at once; a transaction when the syncer looks next.
serve ==
    /\ requests # <<>>
    /\ requests' = Tail(requests)
    /\ LET r == Head(requests)
       IN CASE r.kind = "GetTx" ->
                 /\ events' = Append(events,
                       Event("TransactionRetrieved", r.id, confirmations(r.label)))
                 /\ UNCHANGED tasks
            [] r.kind = "WatchHeight" ->
                 /\ events' = Append(events, Event("HeightChanged", r.id, height))
                 /\ tasks' = tasks \cup {WatchTask(r, height)}
            [] r.kind = "WatchTransaction" ->
                 /\ tasks' = IF r.lifetime < height THEN tasks
                             ELSE tasks \cup {WatchTask(r, Unseen)}
                 /\ UNCHANGED events
    /\ UNCHANGED <<client, stored, height, mined, env>>

seen(t) == IF t.task.kind = "WatchHeight" THEN height ELSE confirmations(t.task.label)
alive(t) == t.task.lifetime >= height

\* What has changed of one task.
change_transaction == \E t \in tasks :
    /\ Len(events) < MaxEvents
    /\ alive(t) /\ seen(t) # t.last
    /\ tasks' = (tasks \ {t}) \cup {WatchTask(t.task, seen(t))}
    /\ events' = Append(events,
          Event(IF t.task.kind = "WatchHeight" THEN "HeightChanged"
                ELSE "TransactionConfirmations", t.task.id, seen(t)))
    /\ UNCHANGED <<client, stored, requests, height, mined, env>>

drop_lifetimes ==
    /\ \E t \in tasks : ~alive(t)
    /\ tasks' = {t \in tasks : alive(t)}
    /\ UNCHANGED <<client, stored, requests, events, height, mined, env>>

Block == \E S \in SUBSET {l \in Label : mined[l] = 0} :
    /\ height < env.blocks
    /\ height' = height + 1
    /\ mined' = [l \in Label |-> IF l \in S THEN height' ELSE mined[l]]
    /\ UNCHANGED <<client, stored, requests, tasks, events, env>>

Next ==
    \/ \E l \in Label : watch_tx_btc(l) \/ retrieve_tx_btc(l)
    \/ handle_sync \/ checkpoint_state \/ restore
    \/ serve \/ change_transaction \/ drop_lifetimes \/ Block

Spec == Init /\ [][Next]_vars

===============================================================================
