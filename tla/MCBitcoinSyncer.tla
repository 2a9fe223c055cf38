---------------------------- MODULE MCBitcoinSyncer ----------------------------
(***************************************************************************)
(* Environments of a bitcoin syncer, each with one of its loops at work    *)
(* beside height_polling, and what goes wrong for that one.                *)
(***************************************************************************)
EXTENDS BitcoinSyncerProperties, TLC

base == [source |-> "swap1", lifetime |-> 9, confirmation_bound |-> 9,
         retry |-> FALSE, id |-> 1, filter |-> "Incoming"]
with(t, kind, target) == [kind |-> kind, target |-> target] @@ t
abort_all(respond) == [task_target |-> AllTasks, source |-> "swap1", respond |-> respond]
broadcast == [kind |-> "BroadcastTransaction", target |-> "lock", id |-> 3,
              source |-> "swap1", answer |-> "TransactionBroadcasted"]
get_tx == [kind |-> "GetTx", target |-> "lock", id |-> 4,
           source |-> "swap1", answer |-> "TransactionRetrieved"]
AllJobs == {broadcast, get_tx}

Calm == [tasks |-> {}, aborts |-> {}, jobs |-> {}, count |-> 1, height |-> 2, reorgs |-> 0,
         further |-> FALSE, hashes |-> {}, payments |-> {}, errors |-> 0, breaks |-> 0,
         breakable |-> {}, fees |-> {}]

\* Two swaps watch the same transaction, one of them for a short time.
Watching == [Calm EXCEPT
    !.tasks = {with(base, "WatchTransaction", "lock"),
               with([base EXCEPT !.source = "swap2", !.lifetime = 1], "WatchTransaction", "lock"),
               with([base EXCEPT !.id = 2, !.lifetime = 1], "WatchHeight", NoHash)},
    !.aborts = {abort_all(FALSE)}, !.hashes = {"lock"},
    !.count = 2, !.errors = 1]
\* The block of a transaction is replaced, and a connection is lost.
Reorganised == [Calm EXCEPT
    !.tasks = {with(base, "WatchTransaction", "lock")}, !.hashes = {"lock"},
    !.reorgs = 1, !.further = TRUE, !.errors = 1]
\* Two swaps watch an address.
Addresses == [Calm EXCEPT
    !.tasks = {with(base, "WatchAddress", "fund"),
               with([base EXCEPT !.source = "swap2", !.lifetime = 1], "WatchAddress", "fund"),
               with(base, "WatchEstimateFee", NoHash)},
    !.aborts = {[abort_all(TRUE) EXCEPT !.task_target = 1]},
    !.count = 2, !.payments = {1}, !.fees = {1}]
\* Payments to an address, and one from it.
Paid == [Calm EXCEPT
    !.tasks = {with(base, "WatchAddress", "fund")}, !.payments = {1, 2, 3},
    !.breaks = 1, !.breakable = {"address", "height"}]
\* One-off tasks and sweeps.
Asked == [Calm EXCEPT
    !.tasks = {with(base, "SweepAddress", "fund"),
               with([base EXCEPT !.id = 2, !.retry = TRUE], "SweepAddress", "fund")},
    !.jobs = AllJobs, !.hashes = {"lock"}, !.height = 1, !.errors = 1]

BitcoinEnvironments == {Watching, Reorganised, Addresses, Paid, Asked}
===============================================================================
