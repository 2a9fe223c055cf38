------------------------------- MODULE BobSwap --------------------------------
(***************************************************************************)
(* Bob's handlers in src/src/swapd/swap_state.rs, from the fee estimate    *)
(* on.  Bob brings the bitcoin: he funds and publishes Lock, gives Alice   *)
(* the signature for Buy once her monero is locked for good, and takes     *)
(* the monero with what her Buy reveals.  When the swap stalls he          *)
(* publishes Cancel and then Refund.                                       *)
(***************************************************************************)
EXTENDS SwapHandshake

BobConfs == Confirmations("Bob")

(***************************************************************************)
(* The requests that an arm of a handler matches.                          *)
(***************************************************************************)
GetsFee == ssm["Bob"] = "BobReveal" /\ event["Bob"].kind = "FeeEstimation"
SeesFunding ==
    ssm["Bob"] = "BobFeeEstimated" /\ Paid("Bob", "Funding") /\ awaiting_funding["Bob"]
GetsRefundSignatures == ssm["Bob"] = "BobFunded" /\ Received("Bob", "RefundProcedureSignatures")
\* An amount below the agreed one is reported and otherwise ignored.
SeesAccLock ==
    ssm["Bob"] = "BobRefundProcedureSignatures" /\ Paid("Bob", "AccLock") /\ BobConfs >= 0
\* Mutant: the first sight of Alice's monero is enough.
SeesAccLockFinal_AtOnce ==
    ssm["Bob"] = "BobAccordantLock" /\ Confirmed("Bob", "AccLock")
SeesAccLockFinal ==
    ssm["Bob"] = "BobAccordantLock" /\ Confirmed("Bob", "AccLock") /\ final_xmr(BobConfs)
\* Mutant: Bob reads the key from a Buy that is not final.
SeesBuyFinal_AtOnce ==
    /\ ssm["Bob"] = "BobAccordantLockFinal"
    /\ Confirmed("Bob", "Buy") /\ "Buy" \in txids["Bob"]
SeesBuyFinal ==
    /\ ssm["Bob"] = "BobAccordantLockFinal"
    /\ Confirmed("Bob", "Buy") /\ final_btc(BobConfs) /\ "Buy" \in txids["Bob"]
GetsBuy == ssm["Bob"] = "BobAccordantLockFinal" /\ Retrieved("Bob", "Buy")
\* The confirmations may be those of any transaction.
BobMaySweep ==
    /\ ssm["Bob"] = "BobBuyFinal"
    /\ event["Bob"].kind = "TransactionConfirmations" /\ BobConfs >= sweep_monero_thr
BobSwept ==
    /\ ssm["Bob"] = "BobBuySweeping"
    /\ event["Bob"].kind = "SweepSuccess" /\ sweeping_addr["Bob"] = "sent"
BobAbortSwept ==
    /\ ssm["Bob"] = "BobAbortAwaitingBitcoinSweep"
    /\ event["Bob"].kind \in {"SweepSuccess", "TaskAborted"}
    /\ sweeping_addr["Bob"] = "sent"
\* Mutant: Bob refunds when Alice may punish.
SeesCancelFinal_Late ==
    /\ ssm["Bob"] = "BobCanceled"
    /\ Confirmed("Bob", "Cancel") /\ valid_punish(BobConfs) /\ "Refund" \in txs["Bob"]
SeesCancelFinal ==
    /\ ssm["Bob"] = "BobCanceled"
    /\ Confirmed("Bob", "Cancel") /\ final_btc(BobConfs) /\ "Refund" \in txs["Bob"]
SeesRefundFinal ==
    ssm["Bob"] = "BobCancelFinal" /\ Confirmed("Bob", "Refund") /\ final_btc(BobConfs)

\* Mutant: Bob heeds no Cancel while he waits for Buy.
BobAfterLock_ButForBuy ==
    ssm["Bob"] \in {"BobRefundProcedureSignatures", "BobAccordantLock"}
BobAfterLock == ssm["Bob"] \in {"BobRefundProcedureSignatures", "BobAccordantLock",
                         "BobAccordantLockFinal"}
BobMayCancel ==
    /\ BobAfterLock /\ Confirmed("Bob", "Lock")
    /\ valid_cancel(BobConfs) /\ "Cancel" \in txs["Bob"]
BobSeesCancel == BobAfterLock /\ Confirmed("Bob", "Cancel")

BobMatches ==
    \/ HandshakeMatches("Bob")
    \/ GetsFee \/ SeesFunding \/ GetsRefundSignatures
    \/ SeesAccLock \/ SeesAccLockFinal \/ SeesBuyFinal \/ GetsBuy
    \/ BobMaySweep \/ BobSwept \/ BobAbortSwept
    \/ SeesCancelFinal \/ SeesRefundFinal \/ BobMayCancel \/ BobSeesCancel

(***************************************************************************)
(* The arms, in the order of the states.                                   *)
(***************************************************************************)
bob_reveal_to_bob_fee_estimated ==
    /\ GetsFee
    /\ awaiting_funding' = [awaiting_funding EXCEPT !["Bob"] = TRUE]
    /\ watched_addrs' = [watched_addrs EXCEPT !["Bob"] = @ \cup {"Funding"}]
    /\ Transition("Bob", "BobFeeEstimated")
    /\ UNCHANGED <<txs, watched_txs, txids, due, taskVars, saved, confirmations,
                   xmr_addr_addendum, checkpoint, inbox>>

\* A wrong amount is swept back at once.
bob_fee_estimated_to_abort ==
    /\ SeesFunding
    /\ BobConfs # 0
    /\ awaiting_funding' = [awaiting_funding EXCEPT !["Bob"] = FALSE]
    /\ handle_bob_abort_swap
    /\ UNCHANGED <<txs, watchVars, saved, confirmations, xmr_addr_addendum,
                   checkpoint, inbox>>

bob_fee_estimated_to_bob_funded ==
    /\ SeesFunding
    /\ BobConfs = 0
    /\ awaiting_funding' = [awaiting_funding EXCEPT !["Bob"] = FALSE]
    /\ watch_tx_btc("Bob", {"Lock", "Cancel", "Refund"})
    /\ UNCHANGED <<txs, taskVars, saved, confirmations, xmr_addr_addendum>>
    /\ checkpoint_state("Bob", "CoreArbitratingSetup", "BobFunded")
    /\ send_peer("Bob", "CoreArbitratingSetup")
    /\ Transition("Bob", "BobFunded")

\* Lock is entered among the broadcasts before the checkpoint is written, and
\* handed to the syncer after it.
bob_funded_to_bob_refund_procedure_signature ==
    /\ GetsRefundSignatures
    /\ txs' = [txs EXCEPT !["Bob"] = @ \cup {"Cancel", "Refund"}]
    /\ watched_addrs' = [watched_addrs EXCEPT !["Bob"] = @ \cup {"AccLock"}]
    /\ xmr_addr_addendum' = [xmr_addr_addendum EXCEPT !["Bob"] = TRUE]
    /\ watched_txs' = [watched_txs EXCEPT !["Bob"] = @ \cup {"Buy"}]
    /\ txids' = [txids EXCEPT !["Bob"] = @ \cup {"Buy"}]
    /\ due' = [due EXCEPT !["Bob"] = @
                 \cup (IF conf["Buy"] >= 0 THEN {"Buy"} ELSE {})
                 \cup (IF conf["AccLock"] >= 0 THEN {"AccLockAddr"} ELSE {})]
    /\ broadcast("Bob", "Lock")
    /\ UNCHANGED <<retrieving_txs, sweeping_addr, saved, confirmations,
                   awaiting_funding, inbox>>
    /\ checkpoint_state("Bob", "none", "BobRefundProcedureSignatures")
    /\ Transition("Bob", "BobRefundProcedureSignatures")

bob_refund_procedure_signatures_to_bob_accordant_lock ==
    /\ SeesAccLock
    /\ watch_tx_xmr("Bob")
    /\ Transition("Bob", "BobAccordantLock")
    /\ UNCHANGED <<txs, taskVars, memVars, checkpoint, inbox>>

bob_accordant_lock_to_bob_accordant_lock_final ==
    /\ SeesAccLockFinal
    /\ send_peer("Bob", "BuyProcedureSignature")
    /\ Transition("Bob", "BobAccordantLockFinal")
    /\ UNCHANGED <<txs, watchVars, taskVars, memVars, checkpoint>>

\* Two steps to the monero key: fetch the final Buy, then read it.
bob_accordant_lock_final_retrieves_buy ==
    /\ SeesBuyFinal
    /\ retrieve_tx_btc("Bob", "Buy")
    /\ Transition("Bob", "BobAccordantLockFinal")
    /\ UNCHANGED <<txs, broadcasting_txs, sweeping_addr, memVars, checkpoint,
                   inbox>>

bob_accordant_lock_final_to_bob_buy_final ==
    /\ GetsBuy
    /\ retrieving_txs' = [retrieving_txs EXCEPT !["Bob"] = @ \ {"Buy"}]
    /\ sweeping_addr' = [sweeping_addr EXCEPT !["Bob"] = "ready"]
    /\ Transition("Bob", "BobBuyFinal")
    /\ UNCHANGED <<txs, watchVars, broadcasting_txs, memVars, checkpoint, inbox>>

bob_buy_final_to_bob_buy_sweeping ==
    /\ BobMaySweep
    /\ sweeping_addr' = [sweeping_addr EXCEPT !["Bob"] = "sent"]
    /\ Transition("Bob", "BobBuySweeping")
    /\ UNCHANGED <<txs, watchVars, retrieving_txs, broadcasting_txs, memVars,
                   checkpoint, inbox>>

bob_buy_sweeping_to_swap_end ==
    /\ BobSwept
    /\ awaiting_funding' = [awaiting_funding EXCEPT !["Bob"] = FALSE]
    /\ clear_txs("Bob")
    /\ Transition("Bob", "SuccessSwap")
    /\ abort_all("Bob")
    /\ UNCHANGED <<taskVars, saved, confirmations, xmr_addr_addendum,
                   checkpoint, inbox>>

bob_canceled_to_bob_cancel_final ==
    /\ SeesCancelFinal
    /\ txs' = [txs EXCEPT !["Bob"] = @ \ {"Refund"}]
    /\ broadcast("Bob", "Refund")
    /\ Transition("Bob", "BobCancelFinal")
    /\ UNCHANGED <<watchVars, retrieving_txs, sweeping_addr, memVars, checkpoint,
                   inbox>>

bob_cancel_final_to_swap_end ==
    /\ SeesRefundFinal
    /\ clear_txs("Bob")
    /\ Transition("Bob", "FailureRefund")
    /\ abort_all("Bob")
    /\ UNCHANGED <<taskVars, memVars, checkpoint, inbox>>

awaiting_sweep_to_swap_end ==
    /\ BobAbortSwept
    /\ Transition("Bob", "FailureAbort")
    /\ UNCHANGED <<txs, watchVars, taskVars, memVars, checkpoint, inbox>>

\* handle_bob_swap_interrupt_after_lock: publish Cancel and stay, ...
bob_broadcasts_cancel ==
    /\ BobMayCancel
    /\ txs' = [txs EXCEPT !["Bob"] = @ \ {"Cancel"}]
    /\ broadcast("Bob", "Cancel")
    /\ NoTransition("Bob")
    /\ UNCHANGED <<watchVars, retrieving_txs, sweeping_addr, memVars, checkpoint,
                   inbox>>

\* ... and leave once Cancel is seen at all, in the mempool even.
bob_canceled ==
    /\ BobSeesCancel
    /\ Transition("Bob", "BobCanceled")
    /\ UNCHANGED <<txs, watchVars, taskVars, memVars, checkpoint, inbox>>

\* The `_ => Ok(None)` arms, and those that only report.
bob_ignores ==
    /\ Handling("Bob")
    /\ ~BobMatches
    /\ NoTransition("Bob")
    /\ UNCHANGED <<txs, watchVars, taskVars, memVars, checkpoint, inbox>>

BobNext ==
    /\ \/ HandshakeNext("Bob")
       \/ bob_reveal_to_bob_fee_estimated
       \/ bob_fee_estimated_to_abort
       \/ bob_fee_estimated_to_bob_funded
       \/ bob_funded_to_bob_refund_procedure_signature
       \/ bob_refund_procedure_signatures_to_bob_accordant_lock
       \/ bob_accordant_lock_to_bob_accordant_lock_final
       \/ bob_accordant_lock_final_retrieves_buy
       \/ bob_accordant_lock_final_to_bob_buy_final
       \/ bob_buy_final_to_bob_buy_sweeping
       \/ bob_buy_sweeping_to_swap_end
       \/ bob_canceled_to_bob_cancel_final
       \/ bob_cancel_final_to_swap_end
       \/ awaiting_sweep_to_swap_end
       \/ bob_broadcasts_cancel
       \/ bob_canceled
       \/ bob_ignores
    /\ UNCHANGED conf

===============================================================================
