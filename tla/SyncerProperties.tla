---------------------------- MODULE SyncerProperties ----------------------------
(***************************************************************************)
(* What a syncer promises to those who give it tasks, whatever its chain.  *)
(***************************************************************************)
EXTENDS SyncerState, Blockchain

(***************************************************************************)
(* The lookups that panic find what they look for: an event has a source   *)
(* (tasks_sources.get(id).unwrap()), and an unseen transaction a task      *)
(* (transactions[task_id] in query_transactions).                          *)
(***************************************************************************)
NoPanic == live \subseteq tasks_sources /\ unseen_transactions \subseteq transactions

(***************************************************************************)
(* A watch whose lifetime has passed is gone, and every watch has an end:  *)
(* whoever adds a task or changes the height sees to it (add_lifetime,     *)
(* drop_lifetimes).                                                        *)
(***************************************************************************)
NothingExpired ==
    \A n \in live : task[n].kind # "WatchEstimateFee" =>
      /\ <<task[n].lifetime, n>> \in lifetimes
      /\ task[n].kind # "SweepAddress" => task[n].lifetime >= block_height

(***************************************************************************)
(* Nobody is told of more confirmations than the chain has, though the     *)
(* height of a transaction and the height of the chain come from different *)
(* replies: on a chain without reorganisations.                            *)
(***************************************************************************)
NeverAhead ==
    reorgs = 0 =>
      \A n \in transactions :
        told[n].confirmations > 0 => told[n].confirmations <= depth(task[n].target)

(***************************************************************************)
(* What a watcher believes of a mined transaction comes to be true, and    *)
(* stays true as long as blocks keep coming, though two pollers report it  *)
(* and either may be late.                                                 *)
(***************************************************************************)
CatchesUp == KeepsOn =>
    <>[](\A n \in transactions : mined[task[n].target] > 0 =>
           told[n].confirmations = depth(task[n].target))

(***************************************************************************)
(* A payment to an address that stays watched comes to be known to all who *)
(* watch it, across lost connections and rounds of polling                 *)
(* (change_address).  It need not stay known: an older history may be      *)
(* stored after a newer one, and what it lacks is told once more.          *)
(***************************************************************************)
awaiting(tx) ==
    {n \in addresses : tx \in filtered(history[task[n].target], task[n].filter)}
AddressTold ==
    \A tx \in AddressTx \ Spending :
      <>[](awaiting(tx) # {})
        => <>(awaiting(tx) # {} /\ \A n \in awaiting(tx) : tx \in known_txs[n])

(***************************************************************************)
(* A sweep that is not to be tried again comes to an end, whatever the     *)
(* server answers: its giver is told of success or of the end of the task. *)
(***************************************************************************)
SweepEnds == []<>(\A n \in sweep_addresses : task[n].retry)

(***************************************************************************)
(* A syncer is no more than Watch says: a task that was dropped, expired   *)
(* or aborted is never taken up again, and no event is sent to a client    *)
(* but on a task that it watched for it (drop_lifetimes, abort and the     *)
(* pruning of change_transaction take a task out of the maps that events   *)
(* are made from).                                                         *)
(***************************************************************************)
W == INSTANCE Watch WITH given <- task_count, watched <- live
Watched == W!WatchSpec

===============================================================================
