------------------------------ MODULE SyncerState ------------------------------
(***************************************************************************)
(* What a syncer knows (syncer_state.rs): the tasks it was given, and what *)
(* it has told of each.  The two syncers share this state behind a mutex;  *)
(* one operator here is one method, called with the lock held.             *)
(*                                                                         *)
(* The maps of the code, all keyed by an internal id, are one set of ids,  *)
(* live, and the tasks as they were given; tasks_sources and lifetimes are *)
(* kept apart, because the code does not always clear them together.  The  *)
(* events of one step form a set: they come from the iteration of a map.   *)
(***************************************************************************)
EXTENDS SyncerEnvironment, FiniteSets

NoBlock == 0        \* the code's 0x0, for "in no block"
EmptyHash == -1      \* the one a watch begins with
NoFee == -1
AllTasks == 0
NoTask == [kind |-> "none"]

Abortable == TaskKind \ {"WatchEstimateFee"}

VARIABLES
    block_height, block_hash,
    task_count,
    task,                 \* internal id -> the task as it was given
    live,                 \* the ids in one of the task maps
    tasks_sources,        \* the ids whose source is on record
    lifetimes,            \* the pairs <<lifetime, id>>
    unseen_transactions,
    told,                 \* transaction_confirmations, -1 for None
    known_txs, initial_check_done, subscribed,
    fee_estimation,
    sent                  \* the events that the last step sent

addressVars == <<known_txs, initial_check_done, subscribed>>
registryVars == <<env, task_count, task>>
stateVars == <<block_height, block_hash, registryVars, live, tasks_sources,
               lifetimes, unseen_transactions, told, addressVars,
               fee_estimation, sent>>

InternalId == 1..MaxTaskCount
Given == 1..task_count
Unheard == [confirmations |-> -1, block |-> EmptyHash]

of(kind) == {n \in live : task[n].kind = kind}
transactions == of("WatchTransaction")
addresses_Ever == {n \in Given : task[n].kind = "WatchAddress"}
addresses == of("WatchAddress")
sweep_addresses == of("SweepAddress")
watch_height == of("WatchHeight")
watch_fee_estimation == of("WatchEstimateFee")

event(n, kind, value) ==
    [kind |-> kind, id |-> task[n].id, source |-> task[n].source, value |-> value]
answerTo == [WatchHeight |-> "HeightChanged", WatchEstimateFee |-> "FeeEstimation"]
TaskAborted(id, source) ==
    [kind |-> "TaskAborted", id |-> id, source |-> source, value |-> 0]
noEvent == sent' = {}

SyncerStateInit ==
    /\ env \in Environments
    /\ block_height = 0 /\ block_hash = NoBlock
    /\ task_count = 0 /\ task = [n \in InternalId |-> NoTask]
    /\ live = {} /\ tasks_sources = {} /\ lifetimes = {} /\ unseen_transactions = {}
    /\ told = [n \in InternalId |-> Unheard]
    /\ known_txs = [n \in InternalId |-> {}]
    /\ initial_check_done = {} /\ subscribed = {}
    /\ fee_estimation = NoFee
    /\ sent = {}

(***************************************************************************)
(* Removing a task.                                                        *)
(***************************************************************************)
expired_Late(height) == {n \in Given : \E l \in lifetimes : l[2] = n /\ l[1] < height - 1}
expired(height) == {n \in Given : \E l \in lifetimes : l[2] = n /\ l[1] < height}

forget_address(gone) ==
    /\ known_txs' = [n \in InternalId |-> IF n \in gone THEN {} ELSE known_txs[n]]
    /\ initial_check_done' = initial_check_done \ gone
    /\ subscribed' = subscribed \ gone

forget_KeepsUnseen(gone) ==
    /\ live' = live \ gone
    /\ tasks_sources' = tasks_sources \ gone
    /\ lifetimes' = {l \in lifetimes : l[2] \notin gone}
    /\ told' = [n \in InternalId |-> IF n \in gone THEN Unheard ELSE told[n]]
    /\ UNCHANGED unseen_transactions
    /\ forget_address(gone)
\* remove_address, remove_transaction, remove_height, remove_sweep_address and
\* drop_lifetime take a task out of every map.
forget(gone) ==
    /\ live' = live \ gone
    /\ tasks_sources' = tasks_sources \ gone
    /\ lifetimes' = {l \in lifetimes : l[2] \notin gone}
    /\ unseen_transactions' = unseen_transactions \ gone
    /\ told' = [n \in InternalId |-> IF n \in gone THEN Unheard ELSE told[n]]
    /\ forget_address(gone)

abort(target, source, respond) ==
    LET found == {n \in live \cap tasks_sources :
                    /\ task[n].kind \in Abortable
                    /\ task[n].source = source
                    /\ target \in {AllTasks, task[n].id}}
    IN  /\ forget(found)
        /\ sent' = IF found = {} THEN {TaskAborted(NoTaskId, source)}
                   ELSE IF respond THEN {TaskAborted(task[n].id, source) : n \in found}
                   ELSE {}
        /\ UNCHANGED <<block_height, block_hash, registryVars, fee_estimation>>

(***************************************************************************)
(* Taking a task: watch_height, watch_address, watch_transaction,          *)
(* estimate_fee and sweep_address.                                         *)
(***************************************************************************)
add_lifetime(t) ==
    IF t.kind = "WatchEstimateFee" THEN {} ELSE {<<t.lifetime, task_count + 1>>}

\* A sweep is taken however late it comes, and a fee estimation never ends.
accepts(t) ==
    t.kind \in {"SweepAddress", "WatchEstimateFee"} \/ t.lifetime >= block_height

\* What is known already is told at once.
greeting(t) ==
    IF \/ t.kind = "WatchHeight" /\ block_height # 0
       \/ t.kind = "WatchEstimateFee" /\ fee_estimation # NoFee
    THEN {[kind |-> answerTo[t.kind], id |-> t.id, source |-> t.source, value |-> 0]}
    ELSE {}

take(t) ==
    LET n == task_count + 1
    IN  /\ task_count < TaskCount
        /\ task_count' = n
        /\ task' = [task EXCEPT ![n] = t]
        /\ IF accepts(t)
           THEN /\ live' = live \cup {n}
                /\ tasks_sources' = tasks_sources \cup {n}
                /\ lifetimes' = lifetimes \cup add_lifetime(t)
                /\ unseen_transactions' = unseen_transactions \cup
                     {m \in {n} : t.kind = "WatchTransaction"}
                /\ sent' = greeting(t)
           ELSE /\ noEvent
                /\ UNCHANGED <<live, tasks_sources, lifetimes, unseen_transactions>>
        /\ UNCHANGED <<env, block_height, block_hash, told, addressVars, fee_estimation>>

(***************************************************************************)
(* What the pollers report.                                                *)
(***************************************************************************)
change_height(height, hash) ==
    /\ IF height = block_height /\ hash = block_hash
       THEN noEvent /\ UNCHANGED <<block_height, block_hash, live, tasks_sources,
                                   lifetimes, unseen_transactions, told, addressVars>>
       ELSE /\ block_hash' = hash
            /\ block_height' = IF hash = block_hash THEN block_height ELSE height
            /\ forget(expired(block_height'))
            /\ sent' = {event(n, "HeightChanged", 0) :
                          n \in watch_height \ expired(block_height')}
    /\ UNCHANGED <<registryVars, fee_estimation>>

\* Each watcher of the transaction is told what has changed, and forgotten
\* once it has the confirmations it asked for.  Its source and its lifetime stay.
change_transaction(hash, block, confirmations) ==
    LET late == expired(block_height)
        now  == [confirmations |-> confirmations, block |-> block]
        watchers == {n \in transactions \ late : task[n].target = hash}
        done == {n \in watchers : confirmations >= task[n].confirmation_bound}
    IN  /\ live' = live \ (late \cup done)
        /\ tasks_sources' = tasks_sources \ late
        /\ lifetimes' = {l \in lifetimes : l[2] \notin late}
        /\ unseen_transactions' =
             IF confirmations >= 0 THEN unseen_transactions \ (late \cup watchers)
                                   ELSE (unseen_transactions \ late) \cup watchers
        /\ told' = [n \in InternalId |-> IF n \in late \cup done THEN Unheard
                                         ELSE IF n \in watchers THEN now
                                         ELSE told[n]]
        /\ sent' = {event(n, "TransactionConfirmations", confirmations) :
                      n \in {m \in watchers : told[m] # now}}
        /\ forget_address(late)
        /\ UNCHANGED <<block_height, block_hash, registryVars, fee_estimation>>

\* A first look that finds nothing is reported as such.  `looked` is the task
\* on whose behalf address_polling subscribed, if any: it is marked first.
change_address(addendum, txs, looked) ==
    LET late == expired(block_height)
        watchers == {n \in addresses \ late : task[n].target = addendum}
        new(n) == txs \ known_txs[n]
        empty == {n \in watchers \ initial_check_done : new(n) = {}}
    IN  /\ live' = live \ late
        /\ tasks_sources' = tasks_sources \ late
        /\ lifetimes' = {l \in lifetimes : l[2] \notin late}
        /\ unseen_transactions' = unseen_transactions \ late
        /\ told' = [n \in InternalId |-> IF n \in late THEN Unheard ELSE told[n]]
        /\ known_txs' = [n \in InternalId |->
                           IF n \in late THEN {}
                           ELSE IF n \in watchers \ empty THEN txs
                           ELSE known_txs[n]]
        /\ initial_check_done' = (initial_check_done \ late) \cup watchers
        /\ subscribed' = (subscribed \cup (looked \cap addresses)) \ late
        /\ sent' = {event(n, "Empty", 0) : n \in empty} \cup
                   UNION {{event(n, "AddressTransaction", tx) : tx \in new(n)} :
                            n \in watchers}
        /\ UNCHANGED <<block_height, block_hash, registryVars, fee_estimation>>

\* success_sweep and fail_sweep.
end_sweep(n, kind) ==
    /\ IF n \in sweep_addresses
       THEN /\ sent' = {event(n, kind, 0)}
            /\ forget({n})
       ELSE noEvent /\ UNCHANGED <<live, tasks_sources, lifetimes,
                                   unseen_transactions, told, addressVars>>
    /\ UNCHANGED <<block_height, block_hash, registryVars, fee_estimation>>

fee_estimated(fee) ==
    /\ fee_estimation' = fee
    /\ forget(expired(block_height))
    /\ sent' = IF fee = fee_estimation THEN {}
               ELSE {event(n, "FeeEstimation", 0) : n \in watch_fee_estimation}
    /\ UNCHANGED <<block_height, block_hash, registryVars>>

unsubscribe_addresses_Not == noEvent /\ UNCHANGED <<block_height, block_hash, registryVars,
    live, tasks_sources, lifetimes, unseen_transactions, told, addressVars, fee_estimation>>
unsubscribe_addresses ==
    /\ subscribed' = {}
    /\ noEvent
    /\ UNCHANGED <<block_height, block_hash, registryVars, live, tasks_sources,
                   lifetimes, unseen_transactions, told, known_txs,
                   initial_check_done, fee_estimation>>

===============================================================================
