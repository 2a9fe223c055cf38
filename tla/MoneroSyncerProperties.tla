------------------------- MODULE MoneroSyncerProperties -------------------------
(***************************************************************************)
(* What the monero syncer promises.                                        *)
(***************************************************************************)
EXTENDS MoneroSyncer, SyncerProperties

(***************************************************************************)
(* A payment comes to be known to all who watch its address, also when the *)
(* light wallet server has forgotten its accounts, as long as more than    *)
(* one watch goes on: what one check finds out the next watch of the round *)
(* acts on (needs_resubscribe).  With a single watch nobody does, and its  *)
(* address is never subscribed again.                                      *)
(***************************************************************************)
PaymentTold ==
    (MaxRestarts = 0 \/ <>[](Cardinality(addresses) > 1)) => AddressTold

(***************************************************************************)
(* Whoever works with the wallet server finds the wallet open that it has  *)
(* opened: address_polling, sweep_polling and balance_fetcher each hold    *)
(* wallet_mutex from open_wallet to their last request, and a sweep of a   *)
(* wallet that another has opened would spend from the wrong one.          *)
(***************************************************************************)
OwnWallet ==
    /\ watcher.pc = "transfers" => wallet.open = <<"watch", target>>
    /\ sweeper.pc \in {"balance", "close"} =>
         wallet.open = <<"sweep", task[sweeper.id].target>>
    /\ \A j \in Jobs : job[j] = "open" => wallet.open = <<"balance", j.target>>

(***************************************************************************)
(* A sweep that is tried again until it succeeds comes to an end once      *)
(* enough has been paid, however long the outputs stay locked.  (A failure *)
(* of close_wallet hides a sweep that was made, and it is tried for ever.) *)
(***************************************************************************)
PaidSweepEnds == MaxErrors = 0 =>
    []<>(\A n \in sweep_addresses :
           LET o == outputs[task[n].target]
           IN  o.locked + o.unlocked < task[n].minimum_balance)

===============================================================================
