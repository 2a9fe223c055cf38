----------------------------- MODULE SwapRuntime ------------------------------
(***************************************************************************)
(* What the two swapd processes of one swap are made of: the Runtime       *)
(* (src/src/swapd/runtime.rs) and its SyncerState                          *)
(* (src/src/swapd/syncer_client.rs), which keep the state that the         *)
(* handlers of swap_state.rs read and change.  BobSwap and AliceSwap hold  *)
(* those handlers, Swap the syncers, the ledgers and the users around      *)
(* them.                                                                   *)
(*                                                                         *)
(* A request is handled in two kinds of step.  One arm of a handler runs   *)
(* as one action on the request in event[p].  When the arm returns a new   *)
(* state, execute_state_machine calls handle_msg and handle_sync again     *)
(* with the messages it has saved; those calls are the agenda in           *)
(* replays[p], taken one at a time.                                        *)
(***************************************************************************)
EXTENDS TemporalSafety, Sequences

CONSTANT MaxConfs   \* confirmations are counted up to here

Party == {"Alice", "Bob"}
peer(p) == IF p = "Alice" THEN "Bob" ELSE "Alice"

BtcTx   == {"Lock", "Buy", "Cancel", "Refund", "Punish"}
TxLabel == BtcTx \cup {"AccLock"}
Confs   == -1..MaxConfs         \* -1: neither in the mempool nor in a block

Outcome == {"SuccessSwap", "FailureRefund", "FailurePunish", "FailureAbort"}

BobState ==
    {"BobInitTaker", "BobTakerMakerCommit", "BobInitMaker", "BobReveal",
     "BobFeeEstimated", "BobFunded", "BobRefundProcedureSignatures",
     "BobAccordantLock", "BobAccordantLockFinal", "BobBuyFinal",
     "BobBuySweeping", "BobCanceled", "BobCancelFinal",
     "BobAbortAwaitingBitcoinSweep"}

AliceState ==
    {"AliceInitTaker", "AliceTakerMakerCommit", "AliceInitMaker",
     "AliceReveal", "AliceCoreArbitratingSetup", "AliceArbitratingLockFinal",
     "AliceAccordantLock", "AliceBuyProcedureSignature", "AliceCanceled",
     "AliceRefund", "AliceRefundSweeping"}

\* SwapEnd(outcome) is named by its outcome; "Down" is a process not running.
SwapStateMachine ==
    BobState \cup AliceState \cup Outcome \cup {"StartTaker", "StartMaker", "Down"}

PeerMsg == {"TakerCommit", "MakerCommit", "Reveal", "CoreArbitratingSetup",
            "RefundProcedureSignatures", "BuyProcedureSignature", "DealNotFound"}

(***************************************************************************)
(* A request: its kind, what it is about, and its number, which is the     *)
(* confirmations of a TransactionConfirmations event, and in an            *)
(* AddressTransaction the sign of the amount paid minus the amount asked.  *)
(***************************************************************************)
SyncEvent == {"TransactionConfirmations", "AddressTransaction", "Empty",
              "FeeEstimation", "TransactionRetrieved", "SweepSuccess", "TaskAborted"}
Subject == TxLabel \cup PeerMsg
           \cup {"Funding", "TakeSwap", "MakeSwap", "AbortSwap", "none"}
Request == [kind : {"P2p", "Ctl", "none"} \cup SyncEvent,
            label : Subject, n : Confs]
NoRequest == [kind |-> "none", label |-> "none", n |-> 0]

Sign == {-1, 0, 1}

CheckpointSwapd ==
    [state : SwapStateMachine, pending_msg : PeerMsg \cup {"none"},
     txs : SUBSET BtcTx, txids : SUBSET BtcTx,
     pending_broadcasts : SUBSET BtcTx, xmr_addr_addendum : BOOLEAN]
NoCheckpoint ==
    [state |-> "Down", pending_msg |-> "none", txs |-> {}, txids |-> {},
     pending_broadcasts |-> {}, xmr_addr_addendum |-> FALSE]

VARIABLES
    \* Runtime
    ssm,                      \* swap_state_machine
    txs,                      \* signed transactions, by label
    unhandled_peer_message,
    event,                    \* the request whose handler runs
    replays,                  \* calls execute_state_machine still has to make
    \* SyncerState
    watched_txs,
    watched_addrs,
    txids,
    retrieving_txs,
    broadcasting_txs,
    sweeping_addr,            \* "none", "ready" (in the state), "sent"
    saved,                    \* lock_tx_confs, cancel_tx_confs, buy_tx_confs
    confirmations,            \* labels that have an entry
    awaiting_funding,
    xmr_addr_addendum,        \* whether it is set
    \* what swapd hands to others
    checkpoint,               \* on disk, kept by databased
    inbox,                    \* peer messages on their way to p
    due,                      \* events the syncers owe p
    conf                      \* confirmations of each transaction on its ledger

flowVars == <<ssm, unhandled_peer_message, event, replays>>
watchVars == <<watched_txs, watched_addrs, txids, due>>
taskVars == <<retrieving_txs, broadcasting_txs, sweeping_addr>>
memVars == <<saved, confirmations, awaiting_funding, xmr_addr_addendum>>
runtimeVars == <<flowVars, txs, watchVars, taskVars, memVars, checkpoint, inbox>>

(***************************************************************************)
(* The handlers' view of the request.                                      *)
(***************************************************************************)
Received(p, msg) == event[p].kind = "P2p" /\ event[p].label = msg
Ordered(p, ctl) == event[p].kind = "Ctl" /\ event[p].label = ctl
Retrieved(p, l) == event[p].kind = "TransactionRetrieved" /\ event[p].label = l
                   /\ l \in retrieving_txs[p]
\* An AddressTransaction of a watched address.
Paid(p, l) == event[p].kind = "AddressTransaction" /\ event[p].label = l
              /\ l \in watched_addrs[p]
\* TransactionConfirmations of a watched transaction, with Some(confirmations).
Confirmed(p, l) == event[p].kind = "TransactionConfirmations"
                   /\ event[p].label = l /\ l \in watched_txs[p]
Confirmations(p) == event[p].n

(***************************************************************************)
(* How an arm of a handler ends (execute_state_machine).                   *)
(***************************************************************************)
\* Mutant: the message set aside is not handled again.
Replayable_OnlySync(p) ==
    (IF saved[p]["Buy"] < 0 THEN <<>> ELSE <<"Buy">>)
    \o (IF saved[p]["Lock"] < 0 THEN <<>> ELSE <<"Lock">>)
    \o (IF saved[p]["Cancel"] < 0 THEN <<>> ELSE <<"Cancel">>)

\* What was saved, in the order it is handled again.  Nothing is saved anew
\* while a replay runs, so it makes no difference to look when the agenda is
\* written.
Replayable(p) ==
    (IF unhandled_peer_message'[p] = "none" THEN <<>> ELSE <<"unhandled">>)
    \o (IF saved[p]["Buy"] < 0 THEN <<>> ELSE <<"Buy">>)
    \o (IF saved[p]["Lock"] < 0 THEN <<>> ELSE <<"Lock">>)
    \o (IF saved[p]["Cancel"] < 0 THEN <<>> ELSE <<"Cancel">>)

\* Ok(Some(s)): a message of the type that was set aside is set aside no more,
\* and what was saved is handled again.  SwapEnd returns before either.
Transition(p, s) ==
    /\ ssm' = [ssm EXCEPT ![p] = s]
    /\ event' = [event EXCEPT ![p] = NoRequest]
    /\ IF s \in Outcome
       THEN UNCHANGED <<unhandled_peer_message, replays>>
       ELSE /\ unhandled_peer_message' =
                 IF Received(p, unhandled_peer_message[p])
                 THEN [unhandled_peer_message EXCEPT ![p] = "none"]
                 ELSE unhandled_peer_message
            /\ replays' = [replays EXCEPT ![p] = Replayable(p) \o @]

\* Mutant: whatever no arm takes is set aside.
NoTransition_KeepsAll(p) ==
    /\ event' = [event EXCEPT ![p] = NoRequest]
    /\ unhandled_peer_message' = [unhandled_peer_message EXCEPT ![p] = event[p].label]
    /\ UNCHANGED <<ssm, replays>>

\* Ok(None): a peer message replaces the one set aside before.
NoTransition(p) ==
    /\ event' = [event EXCEPT ![p] = NoRequest]
    /\ unhandled_peer_message' =
         IF event[p].kind = "P2p"
         THEN [unhandled_peer_message EXCEPT ![p] = event[p].label]
         ELSE unhandled_peer_message
    /\ UNCHANGED <<ssm, replays>>

(***************************************************************************)
(* What an arm of a handler does on its way.                               *)
(***************************************************************************)
send_peer(p, msg) == inbox' = [inbox EXCEPT ![peer(p)] = Append(@, msg)]

\* The first query of a new task reports the transactions already there.
watch_tx_btc(p, labels) ==
    /\ watched_txs' = [watched_txs EXCEPT ![p] = @ \cup labels]
    /\ txids' = [txids EXCEPT ![p] = @ \cup labels]
    /\ due' = [due EXCEPT ![p] = @ \cup {l \in labels : conf[l] >= 0}]
    /\ UNCHANGED watched_addrs

\* The syncer answers a GetTx once, under these names in due.
GetTx == [Buy |-> "GetBuy", Refund |-> "GetRefund"]
retrieve_tx_btc(p, l) ==
    /\ txids' = [txids EXCEPT ![p] = @ \ {l}]
    /\ retrieving_txs' = [retrieving_txs EXCEPT ![p] = @ \cup {l}]
    /\ due' = [due EXCEPT ![p] = @ \cup {GetTx[l]}]
    /\ UNCHANGED <<watched_txs, watched_addrs>>

\* The address watch gives way to a watch on the transaction that paid it.
watch_tx_xmr(p) ==
    /\ watched_addrs' = [watched_addrs EXCEPT ![p] = @ \ {"AccLock"}]
    /\ watched_txs' = [watched_txs EXCEPT ![p] = @ \cup {"AccLock"}]
    /\ due' = [due EXCEPT ![p] = (@ \ {"AccLockAddr", "Empty"}) \cup {"AccLock"}]
    /\ UNCHANGED txids

\* Abort of all tasks, sent to both syncers when a swap ends.
abort_all(p) ==
    /\ due' = [due EXCEPT ![p] = {}]
    /\ UNCHANGED <<watched_txs, watched_addrs, txids>>

broadcast(p, l) ==
    broadcasting_txs' = [broadcasting_txs EXCEPT ![p] = @ \cup {l}]

\* Mutant: the checkpoint is written before the new transactions are entered.
checkpoint_state_Early(p, msg, s) ==
    checkpoint' = [checkpoint EXCEPT ![p] =
        [state |-> s, pending_msg |-> msg, txs |-> txs[p], txids |-> txids'[p],
         pending_broadcasts |-> broadcasting_txs'[p],
         xmr_addr_addendum |-> xmr_addr_addendum'[p]]]

checkpoint_state(p, msg, s) ==
    checkpoint' = [checkpoint EXCEPT ![p] =
        [state |-> s, pending_msg |-> msg, txs |-> txs'[p], txids |-> txids'[p],
         pending_broadcasts |-> broadcasting_txs'[p],
         xmr_addr_addendum |-> xmr_addr_addendum'[p]]]

\* remove txs to invalidate outdated states
clear_txs(p) == txs' = [txs EXCEPT ![p] = @ \ {"Cancel", "Refund", "Buy", "Punish"}]

(***************************************************************************)
(* handle_sync and handle_msg up to their call of execute_state_machine:   *)
(* the syncers' and the peer's requests reach the handler this way, and    *)
(* final confirmations are saved for the replays.                          *)
(***************************************************************************)
handle(p, kind, label, n) ==
    event' = [event EXCEPT ![p] = [kind |-> kind, label |-> label, n |-> n]]

handle_tx_confs(p, l, n) ==
    confirmations' = IF l \in watched_txs[p]
                     THEN [confirmations EXCEPT ![p] = @ \cup {l}]
                     ELSE confirmations

save_confs(p, l, n) ==
    saved' = IF /\ l \in {"Lock", "Cancel", "Buy"}
                /\ l \in watched_txs[p]
                /\ final_btc(n)
             THEN [saved EXCEPT ![p][l] = n]
             ELSE saved

\* The replays of execute_state_machine, one at a time.
Replay(p) ==
    /\ event[p] = NoRequest
    /\ replays[p] # <<>>
    /\ replays' = [replays EXCEPT ![p] = Tail(@)]
    /\ LET r == Head(replays[p])
       IN  IF r = "unhandled"
           THEN handle(p, "P2p", unhandled_peer_message[p], 0)
           ELSE handle(p, "TransactionConfirmations", r, saved[p][r])
    /\ UNCHANGED <<ssm, unhandled_peer_message, txs, watchVars, taskVars,
                   memVars, checkpoint, inbox, conf>>

Handling(p) == event[p] # NoRequest
Busy(p) == Handling(p) \/ replays[p] # <<>>
Idle == \A p \in Party : ~Busy(p)

===============================================================================
