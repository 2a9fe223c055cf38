------------------------------ MODULE AliceSwap -------------------------------
(***************************************************************************)
(* Alice's handlers in src/src/swapd/swap_state.rs, from the core          *)
(* arbitrating setup on.  Alice brings the monero: she locks it once Lock  *)
(* is final, and takes the bitcoin with Buy.  When the swap is canceled    *)
(* she gets the monero back with what Bob's Refund reveals, or publishes   *)
(* Punish when he lets the second timelock pass.                           *)
(***************************************************************************)
EXTENDS SwapHandshake

AliceConfs == Confirmations("Alice")

(***************************************************************************)
(* The requests that an arm of a handler matches.                          *)
(***************************************************************************)
GetsCoreArbitratingSetup ==
    ssm["Alice"] = "AliceReveal" /\ Received("Alice", "CoreArbitratingSetup")
\* Mutant: Alice asks for monero on a Lock that is not final.
SeesLockFinal_AtOnce ==
    ssm["Alice"] = "AliceCoreArbitratingSetup" /\ Confirmed("Alice", "Lock")
SeesLockFinal ==
    /\ ssm["Alice"] = "AliceCoreArbitratingSetup"
    /\ Confirmed("Alice", "Lock") /\ final_btc(AliceConfs)
SeesNoAccLock ==
    /\ ssm["Alice"] = "AliceArbitratingLockFinal"
    /\ event["Alice"].kind = "Empty" /\ "AccLock" \in watched_addrs["Alice"]
ShouldStopFunding ==
    /\ ssm["Alice"] = "AliceArbitratingLockFinal"
    /\ Confirmed("Alice", "Lock") /\ stop_funding_before_cancel(AliceConfs)
    /\ awaiting_funding["Alice"]
SeesOwnAccLock ==
    ssm["Alice"] = "AliceArbitratingLockFinal" /\ Paid("Alice", "AccLock")
GetsBuySignature ==
    ssm["Alice"] = "AliceAccordantLock" /\ Received("Alice", "BuyProcedureSignature")
\* Mutant: Alice is done when Buy is in the mempool.
SeesOwnBuyFinal_AtOnce ==
    ssm["Alice"] = "AliceBuyProcedureSignature" /\ Confirmed("Alice", "Buy")
SeesOwnBuyFinal ==
    /\ ssm["Alice"] = "AliceBuyProcedureSignature"
    /\ Confirmed("Alice", "Buy") /\ final_btc(AliceConfs)

AliceIsCanceled == ssm["Alice"] = "AliceCanceled"
AliceSeesRefundFinal ==
    /\ AliceIsCanceled /\ Confirmed("Alice", "Refund") /\ final_btc(AliceConfs)
    /\ "Refund" \in txids["Alice"]
AliceMayPunish ==
    /\ AliceIsCanceled /\ Confirmed("Alice", "Cancel") /\ valid_punish(AliceConfs)
    /\ "Punish" \in txs["Alice"]
\* Mutant: a final Cancel is taken for a final Punish.
SeesPunishFinal_OnCancel ==
    AliceIsCanceled /\ Confirmed("Alice", "Cancel") /\ final_btc(AliceConfs)
SeesPunishFinal ==
    AliceIsCanceled /\ Confirmed("Alice", "Punish") /\ final_btc(AliceConfs)
CanceledAliceMayCancel ==
    /\ AliceIsCanceled /\ Confirmed("Alice", "Lock") /\ valid_cancel(AliceConfs)
    /\ "Cancel" \in txs["Alice"]
GetsRefund == AliceIsCanceled /\ Retrieved("Alice", "Refund")

\* The confirmations may be those of any transaction.
AliceMaySweep ==
    /\ ssm["Alice"] = "AliceRefund"
    /\ event["Alice"].kind = "TransactionConfirmations"
    /\ AliceConfs >= sweep_monero_thr
AliceSwept ==
    /\ ssm["Alice"] = "AliceRefundSweeping"
    /\ event["Alice"].kind = "SweepSuccess" /\ sweeping_addr["Alice"] = "sent"

AliceAfterLock ==
    \/ ssm["Alice"] \in {"AliceCoreArbitratingSetup", "AliceAccordantLock"}
    \/ ssm["Alice"] = "AliceArbitratingLockFinal" /\ ~ShouldStopFunding
AliceSeesCancel == AliceAfterLock /\ Confirmed("Alice", "Cancel")
AliceMayCancel ==
    /\ AliceAfterLock /\ ~SeesLockFinal /\ Confirmed("Alice", "Lock")
    /\ valid_cancel(AliceConfs) /\ "Cancel" \in txs["Alice"]

AliceMatches ==
    \/ HandshakeMatches("Alice")
    \/ GetsCoreArbitratingSetup \/ SeesLockFinal \/ SeesNoAccLock
    \/ ShouldStopFunding \/ SeesOwnAccLock \/ GetsBuySignature \/ SeesOwnBuyFinal
    \/ AliceSeesRefundFinal \/ AliceMayPunish \/ SeesPunishFinal
    \/ CanceledAliceMayCancel \/ GetsRefund \/ AliceMaySweep \/ AliceSwept
    \/ AliceSeesCancel \/ AliceMayCancel

(***************************************************************************)
(* The arms, in the order of the states.                                   *)
(***************************************************************************)
alice_reveal_to_alice_core_arbitrating_setup ==
    /\ GetsCoreArbitratingSetup
    /\ watch_tx_btc("Alice", {"Lock", "Cancel", "Refund"})
    /\ txs' = [txs EXCEPT !["Alice"] = @ \cup {"Cancel", "Punish"}]
    /\ UNCHANGED <<taskVars, memVars>>
    /\ checkpoint_state("Alice", "RefundProcedureSignatures", "AliceCoreArbitratingSetup")
    /\ send_peer("Alice", "RefundProcedureSignatures")
    /\ Transition("Alice", "AliceCoreArbitratingSetup")

\* The syncer answers the new watch with the payment, or with Empty.
alice_core_arbitrating_setup_to_alice_arbitrating_lock_final ==
    /\ SeesLockFinal
    /\ watched_addrs' = [watched_addrs EXCEPT !["Alice"] = @ \cup {"AccLock"}]
    /\ xmr_addr_addendum' = [xmr_addr_addendum EXCEPT !["Alice"] = TRUE]
    /\ due' = [due EXCEPT !["Alice"] = @ \cup
                 (IF conf["AccLock"] >= 0 THEN {"AccLockAddr"} ELSE {"Empty"})]
    /\ Transition("Alice", "AliceArbitratingLockFinal")
    /\ UNCHANGED <<txs, watched_txs, txids, taskVars, saved, confirmations,
                   awaiting_funding, checkpoint, inbox>>

\* The user is asked to fund, ...
alice_asks_for_funding ==
    /\ SeesNoAccLock
    /\ awaiting_funding' = [awaiting_funding EXCEPT !["Alice"] = TRUE]
    /\ Transition("Alice", "AliceArbitratingLockFinal")
    /\ UNCHANGED <<txs, watchVars, taskVars, saved, confirmations,
                   xmr_addr_addendum, checkpoint, inbox>>

\* Mutant: ... and stays asked.
alice_stops_funding_Again ==
    /\ ShouldStopFunding
    /\ Transition("Alice", "AliceArbitratingLockFinal")
    /\ UNCHANGED <<txs, watchVars, taskVars, memVars, checkpoint, inbox>>

\* ... and asked no more when cancel is close.
alice_stops_funding ==
    /\ ShouldStopFunding
    /\ awaiting_funding' = [awaiting_funding EXCEPT !["Alice"] = FALSE]
    /\ Transition("Alice", "AliceArbitratingLockFinal")
    /\ UNCHANGED <<txs, watchVars, taskVars, saved, confirmations,
                   xmr_addr_addendum, checkpoint, inbox>>

\* An amount above the agreed one goes straight to AliceCanceled; one below
\* it goes on, in the hope that Bob gives his signature all the same.
alice_arbitrating_lock_final_to_alice_accordant_lock ==
    /\ SeesOwnAccLock
    /\ watch_tx_xmr("Alice")
    /\ awaiting_funding' = [awaiting_funding EXCEPT !["Alice"] = FALSE]
    /\ Transition("Alice", IF AliceConfs > 0 THEN "AliceCanceled"
                                             ELSE "AliceAccordantLock")
    /\ UNCHANGED <<txs, taskVars, saved, confirmations, xmr_addr_addendum,
                   checkpoint, inbox>>

\* Buy, unless the lock confirmations last saved make Cancel valid.
MustCancel == valid_cancel(saved["Alice"]["Lock"])

alice_accordant_lock_to_alice_canceled ==
    /\ GetsBuySignature
    /\ MustCancel
    /\ watch_tx_btc("Alice", {"Buy"})
    /\ txs' = [txs EXCEPT !["Alice"] = @ \cup {"Cancel", "Buy"}]
    /\ broadcast("Alice", "Cancel")
    /\ Transition("Alice", "AliceCanceled")
    /\ UNCHANGED <<retrieving_txs, sweeping_addr, memVars, checkpoint, inbox>>

alice_accordant_lock_to_alice_buy_procedure_signature ==
    /\ GetsBuySignature
    /\ ~MustCancel
    /\ watch_tx_btc("Alice", {"Buy"})
    /\ txs' = [txs EXCEPT !["Alice"] = @ \cup {"Cancel", "Buy"}]
    /\ broadcast("Alice", "Buy")
    /\ UNCHANGED <<retrieving_txs, sweeping_addr, memVars, inbox>>
    /\ checkpoint_state("Alice", "none", "AliceBuyProcedureSignature")
    /\ Transition("Alice", "AliceBuyProcedureSignature")

alice_buy_procedure_signature_to_swap_end ==
    /\ SeesOwnBuyFinal
    /\ txs' = [txs EXCEPT !["Alice"] = @ \ {"Cancel", "Punish"}]
    /\ Transition("Alice", "SuccessSwap")
    /\ abort_all("Alice")
    /\ UNCHANGED <<taskVars, memVars, checkpoint, inbox>>

\* The first two arms of try_alice_canceled_to_alice_refund_or_alice_punish.
alice_canceled_retrieves_refund ==
    /\ AliceSeesRefundFinal
    /\ retrieve_tx_btc("Alice", "Refund")
    /\ Transition("Alice", "AliceCanceled")
    /\ UNCHANGED <<txs, broadcasting_txs, sweeping_addr, memVars, checkpoint,
                   inbox>>

alice_canceled_publishes(l) ==
    /\ txs' = [txs EXCEPT !["Alice"] = @ \ {l}]
    /\ watch_tx_btc("Alice", {l})
    /\ broadcast("Alice", l)
    /\ Transition("Alice", "AliceCanceled")
    /\ UNCHANGED <<retrieving_txs, sweeping_addr, memVars, checkpoint, inbox>>

alice_canceled_broadcasts_punish ==
    AliceMayPunish /\ alice_canceled_publishes("Punish")

\* Reached by an Alice who paid too much and could not cancel yet.
alice_canceled_broadcasts_cancel ==
    CanceledAliceMayCancel /\ alice_canceled_publishes("Cancel")

alice_canceled_to_punished ==
    /\ SeesPunishFinal
    /\ clear_txs("Alice")
    /\ Transition("Alice", "FailurePunish")
    /\ abort_all("Alice")
    /\ UNCHANGED <<taskVars, memVars, checkpoint, inbox>>

\* Alice sweeps if any confirmation of AccLock was ever reported to her ...
alice_canceled_to_alice_refund ==
    /\ GetsRefund
    /\ "AccLock" \in confirmations["Alice"]
    /\ retrieving_txs' = [retrieving_txs EXCEPT !["Alice"] = @ \ {"Refund"}]
    /\ sweeping_addr' = [sweeping_addr EXCEPT !["Alice"] = "ready"]
    /\ Transition("Alice", "AliceRefund")
    /\ UNCHANGED <<txs, watchVars, broadcasting_txs, memVars, checkpoint, inbox>>

\* ... and is done otherwise.
alice_canceled_to_swap_end ==
    /\ GetsRefund
    /\ "AccLock" \notin confirmations["Alice"]
    /\ retrieving_txs' = [retrieving_txs EXCEPT !["Alice"] = @ \ {"Refund"}]
    /\ awaiting_funding' = [awaiting_funding EXCEPT !["Alice"] = FALSE]
    /\ clear_txs("Alice")
    /\ Transition("Alice", "FailureRefund")
    /\ abort_all("Alice")
    /\ UNCHANGED <<broadcasting_txs, sweeping_addr, saved,
                   confirmations, xmr_addr_addendum, checkpoint, inbox>>

alice_refund_to_alice_refund_sweeping ==
    /\ AliceMaySweep
    /\ sweeping_addr' = [sweeping_addr EXCEPT !["Alice"] = "sent"]
    /\ Transition("Alice", "AliceRefundSweeping")
    /\ UNCHANGED <<txs, watchVars, retrieving_txs, broadcasting_txs, memVars,
                   checkpoint, inbox>>

alice_refund_sweeping_to_swap_end ==
    /\ AliceSwept
    /\ awaiting_funding' = [awaiting_funding EXCEPT !["Alice"] = FALSE]
    /\ clear_txs("Alice")
    /\ Transition("Alice", "FailureRefund")
    /\ abort_all("Alice")
    /\ UNCHANGED <<taskVars, saved, confirmations, xmr_addr_addendum,
                   checkpoint, inbox>>

\* handle_alice_swap_interrupt_after_lock: Cancel is seen, in the mempool even.
alice_canceled ==
    /\ AliceSeesCancel
    /\ awaiting_funding' = [awaiting_funding EXCEPT !["Alice"] = FALSE]
    /\ Transition("Alice", "AliceCanceled")
    /\ UNCHANGED <<txs, watchVars, taskVars, saved, confirmations,
                   xmr_addr_addendum, checkpoint, inbox>>

alice_broadcasts_cancel ==
    /\ AliceMayCancel
    /\ txs' = [txs EXCEPT !["Alice"] = @ \ {"Cancel"}]
    /\ broadcast("Alice", "Cancel")
    /\ NoTransition("Alice")
    /\ UNCHANGED <<watchVars, retrieving_txs, sweeping_addr, memVars, checkpoint,
                   inbox>>

\* The `_ => Ok(None)` arms, and those that only report.
alice_ignores ==
    /\ Handling("Alice")
    /\ ~AliceMatches
    /\ NoTransition("Alice")
    /\ UNCHANGED <<txs, watchVars, taskVars, memVars, checkpoint, inbox>>

AliceNext ==
    /\ \/ HandshakeNext("Alice")
       \/ alice_reveal_to_alice_core_arbitrating_setup
       \/ alice_core_arbitrating_setup_to_alice_arbitrating_lock_final
       \/ alice_asks_for_funding
       \/ alice_stops_funding
       \/ alice_arbitrating_lock_final_to_alice_accordant_lock
       \/ alice_accordant_lock_to_alice_canceled
       \/ alice_accordant_lock_to_alice_buy_procedure_signature
       \/ alice_buy_procedure_signature_to_swap_end
       \/ alice_canceled_retrieves_refund
       \/ alice_canceled_broadcasts_punish
       \/ alice_canceled_broadcasts_cancel
       \/ alice_canceled_to_punished
       \/ alice_canceled_to_alice_refund
       \/ alice_canceled_to_swap_end
       \/ alice_refund_to_alice_refund_sweeping
       \/ alice_refund_sweeping_to_swap_end
       \/ alice_canceled
       \/ alice_broadcasts_cancel
       \/ alice_ignores
    /\ UNCHANGED conf

===============================================================================
