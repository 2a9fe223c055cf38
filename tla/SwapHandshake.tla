---------------------------- MODULE SwapHandshake -----------------------------
(***************************************************************************)
(* The handlers of swap_state.rs that Alice and Bob share: the commit and  *)
(* reveal rounds between taker and maker, and aborting the swap.           *)
(***************************************************************************)
EXTENDS SwapRuntime

InitTaker == [Bob |-> "BobInitTaker", Alice |-> "AliceInitTaker"]
InitMaker == [Bob |-> "BobInitMaker", Alice |-> "AliceInitMaker"]
TakerMakerCommit == [Bob |-> "BobTakerMakerCommit", Alice |-> "AliceTakerMakerCommit"]
RevealState == [Bob |-> "BobReveal", Alice |-> "AliceReveal"]
Start == {"StartTaker", "StartMaker"}

\* Mutant: Bob may still abort once Lock is out.
Abortable_AfterLock(p) ==
    Start \cup {InitTaker[p], InitMaker[p], TakerMakerCommit[p], RevealState[p]}
    \cup (IF p = "Bob" THEN {"BobFeeEstimated", "BobFunded",
                             "BobRefundProcedureSignatures"} ELSE {})

\* The states whose handler takes AbortSwap.
Abortable(p) ==
    Start \cup {InitTaker[p], InitMaker[p], TakerMakerCommit[p], RevealState[p]}
    \cup (IF p = "Bob" THEN {"BobFeeEstimated", "BobFunded"} ELSE {})

(***************************************************************************)
(* The requests that an arm of these handlers matches.                     *)
(***************************************************************************)
TakesSwap(p) == ssm[p] = "StartTaker" /\ Ordered(p, "TakeSwap")
MakesSwap(p) == ssm[p] = "StartMaker" /\ Ordered(p, "MakeSwap")
GetsMakerCommit(p) == ssm[p] = InitTaker[p] /\ Received(p, "MakerCommit")
GetsReveal(p) ==
    ssm[p] \in {TakerMakerCommit[p], InitMaker[p]} /\ Received(p, "Reveal")
GetsAbort(p) ==
    \/ ssm[p] \in Abortable(p) /\ Ordered(p, "AbortSwap")
    \/ ssm[p] = InitTaker[p] /\ Received(p, "DealNotFound")

HandshakeMatches(p) ==
    TakesSwap(p) \/ MakesSwap(p) \/ GetsMakerCommit(p) \/ GetsReveal(p) \/ GetsAbort(p)

(***************************************************************************)
(* The arms.                                                               *)
(***************************************************************************)
attempt_transition_to_init_taker(p) ==
    /\ TakesSwap(p)
    /\ send_peer(p, "TakerCommit")
    /\ Transition(p, InitTaker[p])
    /\ UNCHANGED <<txs, watchVars, taskVars, memVars, checkpoint>>

attempt_transition_to_init_maker(p) ==
    /\ MakesSwap(p)
    /\ send_peer(p, "MakerCommit")
    /\ Transition(p, InitMaker[p])
    /\ UNCHANGED <<txs, watchVars, taskVars, memVars, checkpoint>>

handle_maker_commit(p) ==
    /\ GetsMakerCommit(p)
    /\ send_peer(p, "Reveal")
    /\ Transition(p, TakerMakerCommit[p])
    /\ UNCHANGED <<txs, watchVars, taskVars, memVars, checkpoint>>

\* The wallet returns a reveal to send only to the maker; Bob goes on to ask
\* for a fee estimate.
attempt_transition_to_reveal(p) ==
    /\ GetsReveal(p)
    /\ IF ssm[p] = InitMaker[p] THEN send_peer(p, "Reveal") ELSE UNCHANGED inbox
    /\ due' = IF p = "Bob" THEN [due EXCEPT ![p] = @ \cup {"Fee"}] ELSE due
    /\ Transition(p, RevealState[p])
    /\ UNCHANGED <<txs, watched_txs, watched_addrs, txids, taskVars, memVars,
                   checkpoint>>

\* Bob sweeps his funding address first, without retry (handle_bob_abort_swap).
handle_bob_abort_swap ==
    /\ sweeping_addr' = [sweeping_addr EXCEPT !["Bob"] = "sent"]
    /\ Transition("Bob", "BobAbortAwaitingBitcoinSweep")
    /\ UNCHANGED <<retrieving_txs, broadcasting_txs>>

handle_abort_swap(p) ==
    /\ GetsAbort(p)
    /\ IF p = "Bob" /\ ssm[p] \notin Start
       THEN handle_bob_abort_swap
       ELSE Transition(p, "FailureAbort") /\ UNCHANGED taskVars
    /\ UNCHANGED <<txs, watchVars, memVars, checkpoint, inbox>>

HandshakeNext(p) ==
    \/ attempt_transition_to_init_taker(p)
    \/ attempt_transition_to_init_maker(p)
    \/ handle_maker_commit(p)
    \/ attempt_transition_to_reveal(p)
    \/ handle_abort_swap(p)

===============================================================================
