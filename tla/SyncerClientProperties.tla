------------------------ MODULE SyncerClientProperties ------------------------
(***************************************************************************)
(* What swapd may rely on about the events it gets.                        *)
(***************************************************************************)
EXTENDS SyncerClient

\* The syncer watches l for this client, or will.
TaskFor(l) ==
    \/ \E t \in tasks : t.task.kind = "WatchTransaction" /\ t.task.label = l
    \/ \E i \in DOMAIN requests : requests[i].kind = "WatchTransaction" /\ requests[i].label = l

Watched == Range(client.watched_txs)
Retrieving == Range(client.retrieving_txs)

(***************************************************************************)
(* "Events are identified with a unique 32-bits integer that match the     *)
(* Task id" (syncerd/types.rs): what swapd notes of a transaction is about *)
(* that transaction. None has more confirmations, or is final, or was      *)
(* fetched, in swapd's eyes only. (Blocks are not undone here.) After a     *)
(* restore ids start again, and events of older tasks take their names.    *)
(***************************************************************************)
AttributedRight == ~client.restored => \A l \in Label :
    /\ client.confirmations[l] <= confirmations(l)
    /\ l \in client.final_txs => confirmations(l) >= Finality
    /\ l \in client.retrieved => mined[l] # 0

(***************************************************************************)
(* Queues are served and the syncer looks at its tasks again and again.    *)
(* (MaxEvents holds it up while events wait, so it is strong fairness that *)
(* says so: the syncer waits for no client.) Blocks need not come.         *)
(***************************************************************************)
Fairness ==
    /\ WF_vars(handle_sync) /\ WF_vars(serve)
    /\ SF_vars(change_transaction) /\ WF_vars(drop_lifetimes)
FairSpec == Spec /\ Fairness

(***************************************************************************)
(* A watched transaction that is mined comes to swapd's notice, unless its *)
(* task has run out, or a restore has forgotten it (handle_tx_confs).      *)
(***************************************************************************)
Noticed == \A l \in Label :
    (l \in Watched /\ mined[l] # 0) ~> (client.confirmations[l] >= 1 \/ ~TaskFor(l) \/ l \notin Watched)

(***************************************************************************)
(* "This re-triggers the tx fetch event in case the transaction was not    *)
(* detected yet" (handle_sync): one that is mined is fetched in the end.   *)
(***************************************************************************)
Retrieved == \A l \in Label :
    (l \in Retrieving /\ mined[l] # 0 /\ ~client.restored)
        ~> (l \in client.retrieved \/ client.restored)

===============================================================================
