---------------------------- MODULE MCMoneroSyncer ----------------------------
(***************************************************************************)
(* Environments of a monero syncer, each with one of its loops at work     *)
(* beside the pollers of transactions, and what goes wrong for that one.   *)
(***************************************************************************)
EXTENDS MoneroSyncerProperties, TLC

base == [source |-> "swap1", lifetime |-> 9, confirmation_bound |-> 9,
         retry |-> TRUE, id |-> 1, filter |-> "Incoming"]
with(t, kind, what) == [kind |-> kind, target |-> what] @@ t
sweep(t, minimum) == [minimum_balance |-> minimum] @@ with(t, "SweepAddress", "shared")
abort_all(respond) == [task_target |-> AllTasks, source |-> "swap1", respond |-> respond]
balance == [kind |-> "GetAddressBalance", target |-> "other", id |-> 3,
            source |-> "grpcd", answer |-> "AddressBalance"]
others == {[kind |-> "BroadcastTransaction", target |-> "none", id |-> 4,
            source |-> "swap1", answer |-> "TransactionBroadcasted"],
           [kind |-> "HealthCheck", target |-> "none", id |-> 5,
            source |-> "grpcd", answer |-> "HealthResult"],
           [kind |-> "GetTx", target |-> "none", id |-> 6,
            source |-> "swap1", answer |-> "TransactionRetrieved"]}
AllJobs == others \cup {balance}

Calm == [tasks |-> {}, aborts |-> {}, jobs |-> {}, count |-> 1, height |-> 1, reorgs |-> 0,
         further |-> FALSE, hashes |-> {}, payments |-> {}, errors |-> 0,
         lws |-> FALSE, restarts |-> 0, paid |-> 0]

\* Two swaps watch different transactions, asked for in one batch.
Watching == [Calm EXCEPT
    !.tasks = {with(base, "WatchTransaction", "acclock"),
               with([base EXCEPT !.source = "swap2", !.lifetime = 1],
                    "WatchTransaction", "sweep")},
    !.hashes = {"acclock"}, !.count = 2, !.further = TRUE]
\* A batch fails, and is not made again before the next block.
Failing == [Calm EXCEPT
    !.tasks = {with(base, "WatchTransaction", "acclock")},
    !.hashes = {"acclock"}, !.height = 2, !.further = TRUE, !.errors = 1]
\* A swap watches an address through a light wallet server, which fails ...
Addresses == [Calm EXCEPT
    !.tasks = {with(base, "WatchAddress", "shared")}, !.aborts = {abort_all(FALSE)},
    !.payments = {1}, !.errors = 2, !.lws = TRUE]
\* ... or forgets its accounts while two swaps watch.
Forgetting == [Calm EXCEPT
    !.tasks = {with(base, "WatchAddress", "shared"),
               with([base EXCEPT !.source = "swap2"], "WatchAddress", "shared")},
    !.payments = {1}, !.count = 2, !.restarts = 1, !.lws = TRUE]
\* Three loops use the wallet server; two do, with coins to sweep, and any request
\* fails.
WalletTasks == {with(base, "WatchAddress", "shared"), sweep([base EXCEPT !.retry = FALSE], 1)}
Sharing == [Calm EXCEPT !.tasks = WalletTasks, !.jobs = {balance}, !.count = 2]
Refused == [Calm EXCEPT !.tasks = WalletTasks, !.jobs = {balance}, !.errors = 1, !.paid = 1]
\* A sweep waits for outputs to be unlocked.
Sweeping == [Calm EXCEPT
    !.tasks = {sweep(base, 2)}, !.jobs = others, !.paid = 2]

MoneroEnvironments == {Watching, Failing, Addresses, Forgetting, Sharing, Refused,
                       Sweeping}
===============================================================================
