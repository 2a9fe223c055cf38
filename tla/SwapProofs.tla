------------------------------ MODULE SwapProofs -------------------------------
(***************************************************************************)
(* What every proof about the swap rests on comes first: what the timing   *)
(* rules promise for all parameters that valid_params admits and all       *)
(* numbers of confirmations, and type correctness (TypeOK of               *)
(* SwapProperties is inductive).                                           *)
(*                                                                         *)
(* Then, that the coins follow each other: MoneroFollowsBitcoin and        *)
(* OutcomesTrue of SwapProperties hold for all thresholds, amounts, stops  *)
(* and failures; and so does BuySignatureBacked, in the last part.         *)
(*                                                                         *)
(* None is inductive.  What a process does rests on what it was told, so   *)
(* the first invariant says that whatever a process believes final, in an  *)
(* event, in its memory, in a retrieval or by the state it is in, is final *)
(* on the ledger; and a final transaction stays final.  The second follows *)
(* a message of the peer on its whole way, and says of the monero what the *)
(* first says of the bitcoin.                                              *)
(***************************************************************************)
EXTENDS SwapProperties, SequenceTheorems, TLAPS

(***************************************************************************)
(* The unsigned subtractions of stop_funding_before_cancel, safe_buy and   *)
(* safe_refund never go below zero once run() has called valid_params.     *)
(***************************************************************************)
THEOREM NoWrap ==
    /\ cancel_timelock - race_thr \in Nat
    /\ punish_timelock - race_thr \in Nat
BY TemporalSafetyAssumption DEF valid_params

(***************************************************************************)
(* No number of lock confirmations is at once safe for Buy and enough for  *)
(* Cancel, nor one of cancel confirmations safe for Refund and enough for  *)
(* Punish; and race_thr blocks at least lie between.                       *)
(***************************************************************************)
THEOREM SafeMeansUnraced ==
    ASSUME NEW n \in Int
    PROVE  /\ safe_buy(n) => ~valid_cancel(n) /\ blocks_until_cancel(n) >= race_thr
           /\ safe_refund(n) => /\ ~valid_punish(n)
                                /\ blocks_until_punish_after_cancel(n) >= race_thr
<1>1. race_thr > 0
  BY TemporalSafetyAssumption DEF valid_params
<1>2. safe_buy(n) => ~valid_cancel(n) /\ blocks_until_cancel(n) >= race_thr
  BY <1>1, TemporalSafetyAssumption
     DEF safe_buy, valid_cancel, final_btc, blocks_until_cancel
<1>3. safe_refund(n) => /\ ~valid_punish(n)
                        /\ blocks_until_punish_after_cancel(n) >= race_thr
  BY <1>1, TemporalSafetyAssumption
     DEF safe_refund, valid_punish, final_btc, blocks_until_punish_after_cancel
<1> QED
  BY <1>2, <1>3

(***************************************************************************)
(* Where finality takes a block at least, Alice's funding has stopped when *)
(* Cancel becomes valid (stop_funding_before_cancel and valid_cancel).     *)
(***************************************************************************)
THEOREM FundingStopsInTime ==
    ASSUME btc_finality_thr > 0, NEW n \in Int, valid_cancel(n)
    PROVE  stop_funding_before_cancel(n)
<1>1. race_thr > 1
  BY TemporalSafetyAssumption DEF valid_params
<1> QED
  BY <1>1, TemporalSafetyAssumption
     DEF valid_cancel, stop_funding_before_cancel, final_btc

(***************************************************************************)
(* The countdown of the report (blocks_until_stop_funding) reaches zero    *)
(* three blocks before stop_funding_before_cancel holds: its offset of one *)
(* is subtracted where the predicate adds it.                              *)
(***************************************************************************)
THEOREM CountdownIsEarly ==
    ASSUME NEW n \in Int, final_btc(n)
    PROVE  stop_funding_before_cancel(n) <=> blocks_until_stop_funding(n) + 3 <= 0
BY TemporalSafetyAssumption
   DEF stop_funding_before_cancel, blocks_until_stop_funding, final_btc

-------------------------------------------------------------------------------
(***************************************************************************)
(* A part of TypeOK whose variables a step leaves alone holds after it.    *)
(***************************************************************************)
LEMMA Frame ==
    /\ FlowOK /\ UNCHANGED flowVars => FlowOK'
    /\ WatchOK /\ UNCHANGED watchVars => WatchOK'
    /\ TaskOK /\ UNCHANGED taskVars => TaskOK'
    /\ MemOK /\ UNCHANGED memVars => MemOK'
    /\ TxsOK /\ UNCHANGED txs => TxsOK'
    /\ CheckpointOK /\ UNCHANGED checkpoint => CheckpointOK'
    /\ InboxOK /\ UNCHANGED inbox => InboxOK'
    /\ LedgerOK /\ UNCHANGED <<conf, ledgerVars>> => LedgerOK'
    /\ BudgetOK /\ UNCHANGED <<taker, budgets>> => BudgetOK'
BY DEF FlowOK, flowVars, WatchOK, watchVars, TaskOK, taskVars, MemOK, memVars,
       TxsOK, CheckpointOK, InboxOK, LedgerOK, ledgerVars, BudgetOK, budgets

(***************************************************************************)
(* Confirmations are numbers, and the signs of amounts are among them.     *)
(***************************************************************************)
LEMMA ConfsType == Confs = -1..MaxConfs /\ MaxConfs \in Nat \ {0} /\ Sign \subseteq Confs
BY SwapAssumption DEF Confs, Sign

\* The empty request.
LEMMA NoRequestType == NoRequest \in Request /\ NoRequest.kind # "P2p"
BY ConfsType DEF Request, NoRequest, Subject

\* The labels, spelled out.
LEMMA Labels ==
    /\ BtcTx = {"Lock", "Buy", "Cancel", "Refund", "Punish"}
    /\ TxLabel = {"Lock", "Buy", "Cancel", "Refund", "Punish", "AccLock"}
    /\ Due = TxLabel \cup {"Fee", "FundingAddr", "AccLockAddr", "Empty",
                           "GetBuy", "GetRefund"}
    /\ Party = {"Alice", "Bob"}
    /\ GetTx["Buy"] = "GetBuy" /\ GetTx["Refund"] = "GetRefund"
BY DEF BtcTx, TxLabel, Due, Party, GetTx

(***************************************************************************)
(* The endings of an arm.                                                  *)
(***************************************************************************)
LEMMA ReplayableType ==
    ASSUME NEW p \in Party
    PROVE  Replayable(p) \in Seq({"unhandled", "Buy", "Lock", "Cancel"})
<1> DEFINE Agenda == {"unhandled", "Buy", "Lock", "Cancel"}
<1>1. \A r \in Agenda : <<>> \in Seq(Agenda) /\ <<r>> \in Seq(Agenda)
  OBVIOUS
<1> HIDE DEF Agenda
<1>2. {"unhandled", "Buy", "Lock", "Cancel"} = Agenda
  BY DEF Agenda
<1>3. \A u, v \in Seq(Agenda) : u \o v \in Seq(Agenda)
  BY ConcatProperties
<1> QED
  BY <1>1, <1>2, <1>3 DEF Replayable

\* Ok(Some(s)).
LEMMA TransitionType ==
    ASSUME FlowOK, NEW p \in Party, NEW s \in SwapStateMachine, Transition(p, s)
    PROVE  FlowOK'
<1>1. /\ ssm' \in [Party -> SwapStateMachine]
      /\ event' \in [Party -> Request]
      /\ \A q \in Party : event'[q].kind = "P2p" => event'[q].label \in PeerMsg \cup {"none"}
  BY NoRequestType DEF FlowOK, Transition
<1>2. unhandled_peer_message' \in [Party -> PeerMsg \cup {"none"}]
  BY DEF FlowOK, Transition
<1>3. replays' \in [Party -> Seq({"unhandled", "Buy", "Lock", "Cancel"})]
  <2>1. Replayable(p) \o replays[p] \in Seq({"unhandled", "Buy", "Lock", "Cancel"})
    BY ReplayableType, ConcatProperties DEF FlowOK
  <2> QED
    BY <2>1 DEF FlowOK, Transition
<1> QED
  BY <1>1, <1>2, <1>3 DEF FlowOK

\* Ok(None).
LEMMA NoTransitionType ==
    ASSUME FlowOK, NEW p \in Party, NoTransition(p)
    PROVE  FlowOK'
BY NoRequestType DEF FlowOK, NoTransition

(***************************************************************************)
(* What an arm does on its way.                                            *)
(***************************************************************************)
LEMMA SendType ==
    ASSUME InboxOK, NEW p \in Party, NEW m \in PeerMsg, send_peer(p, m)
    PROVE  InboxOK'
BY AppendProperties DEF InboxOK, send_peer, peer, Party

\* watch_tx_btc.
LEMMA WatchTxType ==
    ASSUME WatchOK, NEW p \in Party, NEW S \in SUBSET BtcTx, watch_tx_btc(p, S)
    PROVE  WatchOK'
BY DEF WatchOK, watch_tx_btc, TxLabel, Due

\* retrieve_tx_btc.
LEMMA RetrieveType ==
    ASSUME WatchOK, TaskOK, NEW p \in Party, NEW l \in {"Buy", "Refund"},
           retrieve_tx_btc(p, l), UNCHANGED <<broadcasting_txs, sweeping_addr>>
    PROVE  WatchOK' /\ TaskOK'
BY Labels DEF WatchOK, TaskOK, retrieve_tx_btc

\* watch_tx_xmr.
LEMMA WatchAccLockType ==
    ASSUME WatchOK, NEW p \in Party, watch_tx_xmr(p)
    PROVE  WatchOK'
BY Labels DEF WatchOK, watch_tx_xmr

\* The abort of all tasks.
LEMMA AbortAllType ==
    ASSUME WatchOK, NEW p \in Party, abort_all(p)
    PROVE  WatchOK'
BY DEF WatchOK, abort_all

\* broadcast.
LEMMA BroadcastType ==
    ASSUME TaskOK, NEW p \in Party, NEW l \in BtcTx, broadcast(p, l),
           UNCHANGED <<retrieving_txs, sweeping_addr>>
    PROVE  TaskOK'
BY DEF TaskOK, broadcast

\* clear_txs.
LEMMA ClearType ==
    ASSUME TxsOK, NEW p \in Party, clear_txs(p)
    PROVE  TxsOK'
BY DEF TxsOK, clear_txs

\* checkpoint_state: what is saved has the types of what it is saved from.
LEMMA CheckpointType ==
    ASSUME CheckpointOK, NEW p \in Party, NEW m \in PeerMsg \cup {"none"},
           NEW s \in SwapStateMachine, TxsOK', TaskOK', WatchOK', MemOK',
           checkpoint_state(p, m, s)
    PROVE  CheckpointOK'
BY DEF CheckpointOK, checkpoint_state, CheckpointSwapd, TxsOK, TaskOK, WatchOK, MemOK

-------------------------------------------------------------------------------
(***************************************************************************)
(* The arms that Alice and Bob share.                                      *)
(***************************************************************************)
LEMMA AbortSweepType ==
    ASSUME FlowOK, TaskOK, handle_bob_abort_swap
    PROVE  FlowOK' /\ TaskOK'
<1>1. FlowOK'
  BY TransitionType, Labels DEF handle_bob_abort_swap, SwapStateMachine, BobState
<1>2. TaskOK'
  BY Labels DEF TaskOK, handle_bob_abort_swap
<1> QED
  BY <1>1, <1>2

\* All of them.
LEMMA HandshakeType ==
    ASSUME TypeOK, NEW p \in Party, HandshakeNext(p),
           UNCHANGED <<conf, taker, ledgerVars, budgets>>
    PROVE  TypeOK'
<1> USE DEF TypeOK
<1>1. {InitTaker[p], InitMaker[p], TakerMakerCommit[p], RevealState[p], "FailureAbort"}
        \subseteq SwapStateMachine
  BY Labels DEF InitTaker, InitMaker, TakerMakerCommit, RevealState,
                SwapStateMachine, BobState, AliceState, Outcome
<1>2. {"TakerCommit", "MakerCommit", "Reveal"} \subseteq PeerMsg
  BY DEF PeerMsg
<1>3. CASE attempt_transition_to_init_taker(p)
  BY <1>1, <1>2, <1>3, TransitionType, SendType, Frame
     DEF attempt_transition_to_init_taker
<1>4. CASE attempt_transition_to_init_maker(p)
  BY <1>1, <1>2, <1>4, TransitionType, SendType, Frame
     DEF attempt_transition_to_init_maker
<1>5. CASE handle_maker_commit(p)
  BY <1>1, <1>2, <1>5, TransitionType, SendType, Frame DEF handle_maker_commit
<1>6. CASE attempt_transition_to_reveal(p)
  <2>1. FlowOK'
    BY <1>1, <1>6, TransitionType DEF attempt_transition_to_reveal
  <2>2. WatchOK'
    BY <1>6, Labels DEF attempt_transition_to_reveal, WatchOK
  <2>3. InboxOK'
    BY <1>2, <1>6, SendType, Frame DEF attempt_transition_to_reveal
  <2> QED
    BY <1>6, <2>1, <2>2, <2>3, Frame DEF attempt_transition_to_reveal
<1>7. CASE handle_abort_swap(p)
  <2>1. FlowOK' /\ TaskOK'
    BY <1>1, <1>7, TransitionType, AbortSweepType, Frame DEF handle_abort_swap
  <2> QED
    BY <1>7, <2>1, Frame DEF handle_abort_swap
<1> QED
  BY <1>3, <1>4, <1>5, <1>6, <1>7 DEF HandshakeNext

(***************************************************************************)
(* Bob's arms.                                                             *)
(***************************************************************************)
LEMMA BobType ==
    ASSUME TypeOK, BobNext, UNCHANGED <<taker, ledgerVars, budgets>>
    PROVE  TypeOK'
<1> USE DEF TypeOK
<1>1. "Bob" \in Party /\ BobState \cup Outcome \subseteq SwapStateMachine
  BY DEF Party, SwapStateMachine
<1>2. {"CoreArbitratingSetup", "BuyProcedureSignature"} \subseteq PeerMsg
  BY DEF PeerMsg
<1>3. UNCHANGED conf
  BY DEF BobNext
<1> USE <1>1, <1>2, <1>3, TransitionType, Frame
<1>4. CASE HandshakeNext("Bob")
  BY <1>4, HandshakeType
<1>5. CASE bob_reveal_to_bob_fee_estimated
  <2>1. WatchOK' /\ MemOK'
    BY <1>5, Labels DEF bob_reveal_to_bob_fee_estimated, WatchOK, MemOK
  <2> QED
    BY <1>5, <2>1 DEF bob_reveal_to_bob_fee_estimated, BobState
<1>6. CASE bob_fee_estimated_to_abort
  <2>1. MemOK'
    BY <1>6 DEF bob_fee_estimated_to_abort, MemOK
  <2> QED
    BY <1>6, <2>1, AbortSweepType DEF bob_fee_estimated_to_abort
<1>7. CASE bob_fee_estimated_to_bob_funded
  <2>1. MemOK' /\ WatchOK' /\ TaskOK' /\ TxsOK'
    <3>1. MemOK'
      BY <1>7 DEF bob_fee_estimated_to_bob_funded, MemOK
    <3> QED
      BY <1>7, <3>1, WatchTxType, Labels DEF bob_fee_estimated_to_bob_funded
  <2> QED
    BY <1>7, <2>1, SendType, CheckpointType
       DEF bob_fee_estimated_to_bob_funded, BobState
<1>8. CASE bob_funded_to_bob_refund_procedure_signature
  <2>1. WatchOK'
    BY <1>8, Labels DEF bob_funded_to_bob_refund_procedure_signature, WatchOK
  <2>2. MemOK' /\ TxsOK'
    BY <1>8, Labels DEF bob_funded_to_bob_refund_procedure_signature, MemOK, TxsOK
  <2>3. TaskOK'
    BY <1>8, BroadcastType, Labels DEF bob_funded_to_bob_refund_procedure_signature
  <2> QED
    BY <1>8, <2>1, <2>2, <2>3, CheckpointType
       DEF bob_funded_to_bob_refund_procedure_signature, BobState
<1>9. CASE bob_refund_procedure_signatures_to_bob_accordant_lock
  BY <1>9, WatchAccLockType
     DEF bob_refund_procedure_signatures_to_bob_accordant_lock, BobState
<1>10. CASE bob_accordant_lock_to_bob_accordant_lock_final
  BY <1>10, SendType DEF bob_accordant_lock_to_bob_accordant_lock_final, BobState
<1>11. CASE bob_accordant_lock_final_retrieves_buy
  BY <1>11, RetrieveType DEF bob_accordant_lock_final_retrieves_buy, BobState
<1>12. CASE bob_accordant_lock_final_to_bob_buy_final
  <2>1. TaskOK'
    BY <1>12 DEF bob_accordant_lock_final_to_bob_buy_final, TaskOK
  <2> QED
    BY <1>12, <2>1 DEF bob_accordant_lock_final_to_bob_buy_final, BobState
<1>13. CASE bob_buy_final_to_bob_buy_sweeping
  <2>1. TaskOK'
    BY <1>13 DEF bob_buy_final_to_bob_buy_sweeping, TaskOK
  <2> QED
    BY <1>13, <2>1 DEF bob_buy_final_to_bob_buy_sweeping, BobState
<1>14. CASE bob_buy_sweeping_to_swap_end
  <2>1. MemOK'
    BY <1>14 DEF bob_buy_sweeping_to_swap_end, MemOK
  <2> QED
    BY <1>14, <2>1, ClearType, AbortAllType DEF bob_buy_sweeping_to_swap_end, Outcome
<1>15. CASE bob_canceled_to_bob_cancel_final
  <2>1. TxsOK'
    BY <1>15 DEF bob_canceled_to_bob_cancel_final, TxsOK
  <2> QED
    BY <1>15, <2>1, BroadcastType, Labels DEF bob_canceled_to_bob_cancel_final, BobState
<1>16. CASE bob_cancel_final_to_swap_end
  BY <1>16, ClearType, AbortAllType DEF bob_cancel_final_to_swap_end, Outcome
<1>17. CASE awaiting_sweep_to_swap_end
  BY <1>17 DEF awaiting_sweep_to_swap_end, Outcome
<1>18. CASE bob_broadcasts_cancel
  <2>1. TxsOK'
    BY <1>18 DEF bob_broadcasts_cancel, TxsOK
  <2> QED
    BY <1>18, <2>1, BroadcastType, NoTransitionType, Labels DEF bob_broadcasts_cancel
<1>19. CASE bob_canceled
  BY <1>19 DEF bob_canceled, BobState
<1>20. CASE bob_ignores
  BY <1>20, NoTransitionType DEF bob_ignores
<1> QED
  BY <1>4, <1>5, <1>6, <1>7, <1>8, <1>9, <1>10, <1>11, <1>12, <1>13, <1>14,
     <1>15, <1>16, <1>17, <1>18, <1>19, <1>20 DEF BobNext

(***************************************************************************)
(* Alice's arms.                                                           *)
(***************************************************************************)
LEMMA AliceType ==
    ASSUME TypeOK, AliceNext, UNCHANGED <<taker, ledgerVars, budgets>>
    PROVE  TypeOK'
<1> USE DEF TypeOK
<1>1. "Alice" \in Party /\ AliceState \cup Outcome \subseteq SwapStateMachine
  BY DEF Party, SwapStateMachine
<1>2. "RefundProcedureSignatures" \in PeerMsg
  BY DEF PeerMsg
<1>3. UNCHANGED conf
  BY DEF AliceNext
<1> USE <1>1, <1>2, <1>3, TransitionType, Frame
<1>4. CASE HandshakeNext("Alice")
  BY <1>4, HandshakeType
<1>5. CASE alice_reveal_to_alice_core_arbitrating_setup
  <2>1. TxsOK'
    BY <1>5, Labels DEF alice_reveal_to_alice_core_arbitrating_setup, TxsOK
  <2>2. WatchOK' /\ TaskOK' /\ MemOK'
    BY <1>5, WatchTxType, Labels DEF alice_reveal_to_alice_core_arbitrating_setup
  <2> QED
    BY <1>5, <2>1, <2>2, SendType, CheckpointType
       DEF alice_reveal_to_alice_core_arbitrating_setup, AliceState
<1>6. CASE alice_core_arbitrating_setup_to_alice_arbitrating_lock_final
  <2>1. WatchOK' /\ MemOK'
    BY <1>6, Labels
       DEF alice_core_arbitrating_setup_to_alice_arbitrating_lock_final, WatchOK, MemOK
  <2> QED
    BY <1>6, <2>1
       DEF alice_core_arbitrating_setup_to_alice_arbitrating_lock_final, AliceState
<1>7. CASE alice_asks_for_funding
  <2>1. MemOK'
    BY <1>7
       DEF alice_asks_for_funding, MemOK
  <2> QED
    BY <1>7, <2>1
       DEF alice_asks_for_funding, AliceState
<1>8. CASE alice_stops_funding
  <2>1. MemOK'
    BY <1>8
       DEF alice_stops_funding, MemOK
  <2> QED
    BY <1>8, <2>1
       DEF alice_stops_funding, AliceState
<1>9. CASE alice_arbitrating_lock_final_to_alice_accordant_lock
  <2>1. MemOK'
    BY <1>9
       DEF alice_arbitrating_lock_final_to_alice_accordant_lock, MemOK
  <2> QED
    BY <1>9, <2>1, WatchAccLockType
       DEF alice_arbitrating_lock_final_to_alice_accordant_lock, AliceState
<1>10. CASE alice_accordant_lock_to_alice_canceled
  <2>1. TxsOK'
    BY <1>10, Labels
       DEF alice_accordant_lock_to_alice_canceled, TxsOK
  <2> QED
    BY <1>10, <2>1, WatchTxType, BroadcastType, Labels
       DEF alice_accordant_lock_to_alice_canceled, AliceState
<1>11. CASE alice_accordant_lock_to_alice_buy_procedure_signature
  <2>1. TxsOK'
    BY <1>11, Labels DEF alice_accordant_lock_to_alice_buy_procedure_signature, TxsOK
  <2>2. WatchOK' /\ TaskOK' /\ MemOK'
    BY <1>11, WatchTxType, BroadcastType, Labels
       DEF alice_accordant_lock_to_alice_buy_procedure_signature
  <2> QED
    BY <1>11, <2>1, <2>2, CheckpointType
       DEF alice_accordant_lock_to_alice_buy_procedure_signature, AliceState
<1>12. CASE alice_buy_procedure_signature_to_swap_end
  <2>1. TxsOK'
    BY <1>12, Labels
       DEF alice_buy_procedure_signature_to_swap_end, TxsOK
  <2> QED
    BY <1>12, <2>1, AbortAllType
       DEF alice_buy_procedure_signature_to_swap_end, Outcome
<1>13. CASE alice_canceled_retrieves_refund
  BY <1>13, RetrieveType DEF alice_canceled_retrieves_refund, AliceState
<1>14. CASE alice_canceled_broadcasts_punish
  <2>1. TxsOK'
    BY <1>14, Labels
       DEF alice_canceled_broadcasts_punish, alice_canceled_publishes, TxsOK
  <2> QED
    BY <1>14, <2>1, WatchTxType, BroadcastType, Labels
       DEF alice_canceled_broadcasts_punish, alice_canceled_publishes, AliceState
<1>15. CASE alice_canceled_broadcasts_cancel
  <2>1. TxsOK'
    BY <1>15, Labels
       DEF alice_canceled_broadcasts_cancel, alice_canceled_publishes, TxsOK
  <2> QED
    BY <1>15, <2>1, WatchTxType, BroadcastType, Labels
       DEF alice_canceled_broadcasts_cancel, alice_canceled_publishes, AliceState
<1>16. CASE alice_canceled_to_punished
  BY <1>16, ClearType, AbortAllType DEF alice_canceled_to_punished, Outcome
<1>17. CASE alice_canceled_to_alice_refund
  <2>1. TaskOK'
    BY <1>17
       DEF alice_canceled_to_alice_refund, TaskOK
  <2> QED
    BY <1>17, <2>1
       DEF alice_canceled_to_alice_refund, AliceState
<1>18. CASE alice_canceled_to_swap_end
  <2>1. TaskOK' /\ MemOK'
    BY <1>18
       DEF alice_canceled_to_swap_end, TaskOK, MemOK
  <2> QED
    BY <1>18, <2>1, ClearType, AbortAllType
       DEF alice_canceled_to_swap_end, Outcome
<1>19. CASE alice_refund_to_alice_refund_sweeping
  <2>1. TaskOK'
    BY <1>19
       DEF alice_refund_to_alice_refund_sweeping, TaskOK
  <2> QED
    BY <1>19, <2>1
       DEF alice_refund_to_alice_refund_sweeping, AliceState
<1>20. CASE alice_refund_sweeping_to_swap_end
  <2>1. MemOK'
    BY <1>20
       DEF alice_refund_sweeping_to_swap_end, MemOK
  <2> QED
    BY <1>20, <2>1, ClearType, AbortAllType
       DEF alice_refund_sweeping_to_swap_end, Outcome
<1>21. CASE alice_canceled
  <2>1. MemOK'
    BY <1>21
       DEF alice_canceled, MemOK
  <2> QED
    BY <1>21, <2>1
       DEF alice_canceled, AliceState
<1>22. CASE alice_broadcasts_cancel
  <2>1. TxsOK'
    BY <1>22, Labels
       DEF alice_broadcasts_cancel, TxsOK
  <2> QED
    BY <1>22, <2>1, BroadcastType, NoTransitionType, Labels
       DEF alice_broadcasts_cancel
<1>23. CASE alice_ignores
  BY <1>23, NoTransitionType DEF alice_ignores
<1> QED
  BY <1>4, <1>5, <1>6, <1>7, <1>8, <1>9, <1>10, <1>11, <1>12, <1>13, <1>14,
     <1>15, <1>16, <1>17, <1>18, <1>19, <1>20, <1>21, <1>22, <1>23 DEF AliceNext

(***************************************************************************)
(* The replays, and what farcasterd, peerd and the users bring.            *)
(***************************************************************************)
LEMMA RequestType ==
    ASSUME NEW k \in {"P2p", "Ctl", "none"} \cup SyncEvent, NEW l \in Subject,
           NEW n \in Confs
    PROVE  [kind |-> k, label |-> l, n |-> n] \in Request
BY DEF Request

\* A request is handed to a process.
LEMMA HandleType ==
    ASSUME FlowOK, NEW p \in Party, NEW k \in {"P2p", "Ctl", "none"} \cup SyncEvent,
           NEW l \in Subject, NEW n \in Confs, handle(p, k, l, n),
           k = "P2p" => l \in PeerMsg \cup {"none"},
           UNCHANGED <<ssm, unhandled_peer_message, replays>>
    PROVE  FlowOK'
BY RequestType DEF FlowOK, handle

\* A replay is the saved message or the saved confirmations.
LEMMA ReplayType ==
    ASSUME TypeOK, NEW p \in Party, Replay(p), UNCHANGED <<taker, ledgerVars, budgets>>
    PROVE  TypeOK'
<1> DEFINE r == Head(replays[p])
<1>1. /\ r \in {"unhandled", "Buy", "Lock", "Cancel"}
      /\ Tail(replays[p]) \in Seq({"unhandled", "Buy", "Lock", "Cancel"})
  BY HeadTailProperties DEF TypeOK, FlowOK, Replay
<1>2. replays' \in [Party -> Seq({"unhandled", "Buy", "Lock", "Cancel"})]
  BY <1>1 DEF TypeOK, FlowOK, Replay
<1>3. /\ event' \in [Party -> Request]
      /\ \A q \in Party : event'[q].kind = "P2p" => event'[q].label \in PeerMsg \cup {"none"}
  <2>1. CASE r = "unhandled"
    <3>1. /\ unhandled_peer_message[p] \in PeerMsg \cup {"none"}
          /\ PeerMsg \cup {"none"} \subseteq Subject
      BY DEF TypeOK, FlowOK, Subject
    <3>2. [kind |-> "P2p", label |-> unhandled_peer_message[p], n |-> 0] \in Request
      BY <3>1, ConfsType, RequestType
    <3>3. event' = [event EXCEPT ![p] = [kind |-> "P2p",
                                         label |-> unhandled_peer_message[p], n |-> 0]]
      BY <2>1 DEF Replay, handle
    <3> QED
      BY <3>1, <3>2, <3>3 DEF TypeOK, FlowOK
  <2>2. CASE r # "unhandled"
    <3>1. saved[p][r] \in Confs /\ r \in Subject
      BY <1>1, <2>2, Labels DEF TypeOK, MemOK, Subject
    <3>2. [kind |-> "TransactionConfirmations", label |-> r, n |-> saved[p][r]] \in Request
      BY <3>1, RequestType DEF SyncEvent
    <3>3. event' = [event EXCEPT ![p] = [kind |-> "TransactionConfirmations",
                                         label |-> r, n |-> saved[p][r]]]
      BY <2>2 DEF Replay, handle
    <3> QED
      BY <3>2, <3>3 DEF TypeOK, FlowOK
  <2> QED
    BY <2>1, <2>2
<1> QED
  BY <1>2, <1>3, Frame DEF TypeOK, FlowOK, Replay

\* farcasterd's, peerd's and the users' requests.
LEMMA ControlType ==
    ASSUME TypeOK,
           FarcasterdStep \/ (\E p \in Party : PeerDelivers(p) \/ UserAborts(p))
    PROVE  TypeOK'
<1> USE DEF TypeOK
<1>1. {"TakeSwap", "MakeSwap", "AbortSwap"} \subseteq Subject /\ PeerMsg \subseteq Subject
  BY DEF Subject
<1>2. 0 \in Confs
  BY ConfsType
<1>3. ASSUME NEW p \in Party, inbox[p] # <<>>
      PROVE  Head(inbox[p]) \in PeerMsg /\ Tail(inbox[p]) \in Seq(PeerMsg)
  BY <1>3, HeadTailProperties DEF InboxOK
<1>4. CASE FarcasterdTakes
  <2>1. taker \in Party
    BY DEF BudgetOK
  <2> QED
    BY <1>1, <1>2, <1>4, <2>1, HandleType, Frame DEF FarcasterdTakes, ctlUnchanged
<1>5. ASSUME NEW p \in Party, FarcasterdMakes(p)
      PROVE  TypeOK'
  <2>1. InboxOK'
    BY <1>3, <1>5 DEF FarcasterdMakes, TakerCommitArrives, InboxOK
  <2> QED
    BY <1>1, <1>2, <1>5, <2>1, HandleType, Frame DEF FarcasterdMakes, ctlUnchanged
<1>6. ASSUME NEW p \in Party, FarcasterdHasNoDeal(p)
      PROVE  TypeOK'
  <2>1. InboxOK'
    <3>1. "DealNotFound" \in PeerMsg /\ peer(p) \in Party
      BY DEF PeerMsg, peer, Party
    <3>2. Append(inbox[peer(p)], "DealNotFound") \in Seq(PeerMsg)
      BY <3>1, AppendProperties DEF InboxOK
    <3>3. peer(p) # p
      BY DEF peer, Party
    <3> QED
      BY <1>3, <1>6, <3>1, <3>2, <3>3 DEF FarcasterdHasNoDeal, TakerCommitArrives, InboxOK
  <2>2. FlowOK'
    BY <1>6 DEF FarcasterdHasNoDeal, FlowOK, SwapStateMachine
  <2> QED
    BY <1>6, <2>1, <2>2, Frame DEF FarcasterdHasNoDeal
<1>7. ASSUME NEW p \in Party, FarcasterdCleansUp(p)
      PROVE  TypeOK'
  <2>1. CheckpointOK'
    BY <1>7 DEF FarcasterdCleansUp, CheckpointOK, CheckpointSwapd, NoCheckpoint,
                SwapStateMachine
  <2> QED
    BY <1>7, <2>1, Frame DEF FarcasterdCleansUp
<1>8. ASSUME NEW p \in Party, PeerDelivers(p)
      PROVE  TypeOK'
  <2>1. InboxOK'
    BY <1>3, <1>8 DEF PeerDelivers, InboxOK
  <2>2. FlowOK'
    BY <1>1, <1>2, <1>3, <1>8, HandleType DEF PeerDelivers, ctlUnchanged
  <2> QED
    BY <1>8, <2>1, <2>2, Frame DEF PeerDelivers, ctlUnchanged
<1>9. ASSUME NEW p \in Party, UserAborts(p)
      PROVE  TypeOK'
  BY <1>1, <1>2, <1>9, HandleType, Frame DEF UserAborts, ctlUnchanged
<1> QED
  BY <1>4, <1>5, <1>6, <1>7, <1>8, <1>9 DEF FarcasterdStep

(***************************************************************************)
(* The syncers' events.                                                    *)
(***************************************************************************)
LEMMA EventType ==
    ASSUME TypeOK, NEW p \in Party, NEW k \in SyncEvent, NEW l \in Subject,
           NEW n \in Confs, handle(p, k, l, n), syncUnchanged,
           due' \in [Party -> SUBSET Due], TaskOK', MemOK',
           funding' \in {"none", "exact", "wrong", "swept"},
           xmr_owner' \in Party \cup {"lock"}, failures' \in Nat
    PROVE  TypeOK'
<1> USE DEF TypeOK, syncUnchanged
<1>1. FlowOK'
  BY HandleType DEF SyncEvent
<1>2. WatchOK'
  BY DEF WatchOK
<1>3. LedgerOK' /\ BudgetOK'
  BY DEF LedgerOK, BudgetOK
<1> QED
  BY <1>1, <1>2, <1>3, Frame

\* All of the syncers' steps.
LEMMA SyncerType ==
    ASSUME TypeOK, SyncerStep
    PROVE  TypeOK'
<1>1. /\ 0 \in Confs /\ 1 \in Confs
      /\ Sign \subseteq Confs
      /\ TxLabel \cup {"Funding", "AccLock", "none"} \subseteq Subject
  BY ConfsType, Labels DEF Subject
<1>2. /\ due \in [Party -> SUBSET Due]
      /\ conf \in [TxLabel -> Confs] /\ acc_amount \in Sign
      /\ funding \in {"none", "exact", "wrong", "swept"}
      /\ xmr_owner \in Party \cup {"lock"} /\ failures \in Nat
  BY DEF TypeOK, WatchOK, LedgerOK, BudgetOK
<1>3. ASSUME NEW p \in Party, NEW l \in TxLabel, SyncerConfirms(p, l)
      PROVE  TypeOK'
  <2>1. MemOK'
    BY <1>2, <1>3 DEF SyncerConfirms, save_confs, handle_tx_confs, syncUnchanged,
                      TypeOK, MemOK
  <2>2. TaskOK'
    BY <1>3, Frame DEF SyncerConfirms, syncUnchanged, TypeOK, taskVars
  <2>3. due' \in [Party -> SUBSET Due] /\ conf[l] \in Confs
    BY <1>2, <1>3 DEF SyncerConfirms
  <2> QED
    BY <1>1, <1>2, <1>3, <2>1, <2>2, <2>3, EventType DEF SyncerConfirms, SyncEvent
<1>4. ASSUME eventUnchanged
      PROVE  /\ TaskOK' /\ MemOK' /\ syncUnchanged
             /\ funding' \in {"none", "exact", "wrong", "swept"}
             /\ xmr_owner' \in Party \cup {"lock"} /\ failures' \in Nat
  BY <1>2, <1>4, Frame DEF eventUnchanged, syncUnchanged, TypeOK, taskVars, memVars
<1>5. ASSUME NEW p \in Party, SyncerSeesAccLock(p)
      PROVE  TypeOK'
  <2>1. due' \in [Party -> SUBSET Due]
    BY <1>2, <1>5 DEF SyncerSeesAccLock
  <2> QED
    BY <1>1, <1>2, <1>4, <1>5, <2>1, EventType DEF SyncerSeesAccLock, SyncEvent
<1>6. ASSUME NEW p \in Party, NEW l \in {"Buy", "Refund"}, SyncerRetrieves(p, l)
      PROVE  TypeOK'
  <2>1. due' \in [Party -> SUBSET Due] /\ l \in TxLabel
    BY <1>2, <1>6, Labels DEF SyncerRetrieves
  <2> QED
    BY <1>1, <1>2, <1>4, <1>6, <2>1, EventType DEF SyncerRetrieves, SyncEvent
<1>7. ASSUME NEW p \in Party, SyncerSweepsMonero(p)
      PROVE  TypeOK'
  <2>1. TaskOK' /\ MemOK'
    BY <1>7, Frame DEF SyncerSweepsMonero, syncUnchanged, TypeOK, taskVars, memVars
  <2> QED
    BY <1>1, <1>2, <1>7, <2>1, EventType DEF SyncerSweepsMonero, SyncEvent
<1>8. ASSUME NEW p \in Party, NEW l \in BtcTx, SyncerBroadcasts(p, l)
      PROVE  TypeOK'
  <2> USE DEF SyncerBroadcasts, ledgerUnchanged
  <2>1. TaskOK'
    BY <1>8 DEF TypeOK, TaskOK
  <2>2. WatchOK'
    BY <1>8, Labels DEF TypeOK, WatchOK, Due
  <2>3. LedgerOK' /\ BudgetOK'
    BY <1>1, <1>2, <1>8, Labels DEF TypeOK, LedgerOK, BudgetOK
  <2> QED
    BY <1>8, <2>1, <2>2, <2>3, Frame DEF TypeOK
<1>9. CASE SyncerSeesFunding
  <2>1. due' \in [Party -> SUBSET Due]
    BY <1>2, <1>9 DEF SyncerSeesFunding
  <2> QED
    BY <1>1, <1>4, <1>9, <2>1, EventType, Labels DEF SyncerSeesFunding, SyncEvent
<1>10. CASE SyncerSeesNothing
  <2>1. due' \in [Party -> SUBSET Due]
    BY <1>2, <1>10 DEF SyncerSeesNothing
  <2> QED
    BY <1>1, <1>4, <1>10, <2>1, EventType, Labels DEF SyncerSeesNothing, SyncEvent
<1>11. CASE SyncerEstimatesFee
  <2>1. due' \in [Party -> SUBSET Due]
    BY <1>2, <1>11 DEF SyncerEstimatesFee
  <2> QED
    BY <1>1, <1>4, <1>11, <2>1, EventType, Labels DEF SyncerEstimatesFee, SyncEvent
<1>12. CASE SyncerSweepsBitcoin
  <2>1. TaskOK' /\ MemOK'
    BY <1>12, Frame DEF SyncerSweepsBitcoin, syncUnchanged, TypeOK, taskVars, memVars
  <2>2. /\ failures' \in Nat /\ funding' \in {"none", "exact", "wrong", "swept"}
        /\ due' \in [Party -> SUBSET Due] /\ xmr_owner' \in Party \cup {"lock"}
        /\ syncUnchanged
    BY <1>2, <1>12 DEF SyncerSweepsBitcoin
  <2>3. PICK k \in {"SweepSuccess", "TaskAborted"} : handle("Bob", k, "none", 0)
    BY <1>12 DEF SyncerSweepsBitcoin
  <2> QED
    BY <1>1, <2>1, <2>2, <2>3, EventType, Labels DEF SyncEvent
<1> QED
  BY <1>3, <1>5, <1>6, <1>7, <1>8, <1>9, <1>10, <1>11, <1>12 DEF SyncerStep

(***************************************************************************)
(* The ledgers and the users' payments.                                    *)
(***************************************************************************)
LEMMA LedgerType ==
    ASSUME TypeOK, ledgerUnchanged,
           due' \in [Party -> SUBSET Due], TaskOK', LedgerOK', BudgetOK'
    PROVE  TypeOK'
<1>1. WatchOK'
  BY DEF TypeOK, WatchOK, ledgerUnchanged
<1> QED
  BY <1>1, Frame DEF TypeOK, ledgerUnchanged

\* A block of either chain.
LEMMA MiningType ==
    ASSUME TypeOK, MineBitcoin \/ MineMonero
    PROVE  TypeOK'
<1>1. \A n \in Confs : grown(n) \in Confs
  BY ConfsType DEF grown
<1>2. -1 \in Confs
  BY ConfsType
<1>3. BudgetOK'
  BY DEF TypeOK, BudgetOK, MineBitcoin, MineMonero, Block, ledgerUnchanged
<1>4. TaskOK' /\ ledgerUnchanged
  BY Frame DEF TypeOK, taskVars, MineBitcoin, MineMonero, ledgerUnchanged
<1>5. CASE MineBitcoin
  <2>1. conf' \in [TxLabel -> Confs]
    BY <1>1, <1>2, <1>5 DEF MineBitcoin, TypeOK, LedgerOK
  <2>2. due' \in [Party -> SUBSET Due]
    BY <1>5, Labels DEF MineBitcoin, TypeOK, WatchOK, Due
  <2>3. LedgerOK'
    BY <1>5, <2>1 DEF MineBitcoin, ledgerUnchanged, TypeOK, LedgerOK
  <2> QED
    BY <1>3, <1>4, <2>2, <2>3, LedgerType
<1>6. CASE MineMonero
  <2>1. LedgerOK'
    BY <1>1, <1>6, Labels DEF MineMonero, ledgerUnchanged, TypeOK, LedgerOK
  <2>2. due' \in [Party -> SUBSET Due]
    BY <1>6, Labels DEF MineMonero, TypeOK, WatchOK, Due
  <2> QED
    BY <1>3, <1>4, <2>1, <2>2, LedgerType
<1> QED
  BY <1>5, <1>6

\* A payment of either user.
LEMMA FundingType ==
    ASSUME TypeOK,
           \/ \E a \in BtcAmounts : UserFundsBitcoin(a)
           \/ \E s \in XmrAmounts : UserFundsMonero(s)
    PROVE  TypeOK'
<1>1. ASSUME NEW a \in BtcAmounts, UserFundsBitcoin(a)
      PROVE  TypeOK'
  <2> USE DEF UserFundsBitcoin, ledgerUnchanged
  <2>1. LedgerOK' /\ BudgetOK'
    BY <1>1, SwapAssumption DEF TypeOK, LedgerOK, BudgetOK
  <2>2. due' \in [Party -> SUBSET Due] /\ TaskOK'
    BY <1>1, Frame, Labels DEF TypeOK, WatchOK, taskVars
  <2> QED
    BY <1>1, <2>1, <2>2, LedgerType
<1>2. ASSUME NEW s \in XmrAmounts, UserFundsMonero(s)
      PROVE  TypeOK'
  <2> USE DEF UserFundsMonero, ledgerUnchanged
  <2>1. LedgerOK' /\ BudgetOK'
    <3>1. s \in Sign /\ 0 \in Confs
      BY SwapAssumption, ConfsType
    <3> QED
      BY <1>2, <3>1 DEF TypeOK, LedgerOK, BudgetOK
  <2>2. due' \in [Party -> SUBSET Due] /\ TaskOK'
    BY <1>2, Frame, Labels DEF TypeOK, WatchOK, taskVars
  <2> QED
    BY <1>2, <2>1, <2>2, LedgerType
<1> QED
  BY <1>1, <1>2

(***************************************************************************)
(* A stop and a restoration.                                               *)
(***************************************************************************)
LEMMA CrashType ==
    ASSUME TypeOK, NEW p \in Party, Crash(p)
    PROVE  TypeOK'
<1> USE DEF TypeOK, Crash
<1>1. FlowOK'
  BY NoRequestType DEF FlowOK, SwapStateMachine
<1>2. WatchOK' /\ TxsOK'
  BY DEF WatchOK, TxsOK
<1>3. TaskOK'
  BY DEF TaskOK
<1>4. MemOK'
  BY ConfsType DEF MemOK
<1>5. InboxOK'
  BY DEF InboxOK
<1>6. BudgetOK'
  BY DEF BudgetOK
<1> QED
  BY <1>1, <1>2, <1>3, <1>4, <1>5, <1>6, Frame

\* What a checkpoint brings back has the types it was saved with.
LEMMA RestoreType ==
    ASSUME TypeOK, NEW p \in Party, Restore(p)
    PROVE  TypeOK'
<1> USE DEF TypeOK, Restore
<1>1. /\ checkpoint[p].state \in SwapStateMachine
      /\ checkpoint[p].pending_msg \in PeerMsg \cup {"none"}
      /\ checkpoint[p].txs \subseteq BtcTx /\ checkpoint[p].txids \subseteq BtcTx
      /\ checkpoint[p].pending_broadcasts \subseteq BtcTx
      /\ checkpoint[p].xmr_addr_addendum \in BOOLEAN
  BY DEF CheckpointOK, CheckpointSwapd
<1>2. FlowOK'
  BY <1>1 DEF FlowOK
<1>3. WatchOK' /\ TxsOK'
  BY <1>1, Labels DEF WatchOK, TxsOK
<1>4. TaskOK'
  BY <1>1 DEF TaskOK
<1>5. MemOK'
  BY <1>1 DEF MemOK
<1>6. InboxOK'
  BY <1>1, SendType, Frame
<1> QED
  BY <1>2, <1>3, <1>4, <1>5, <1>6, Frame

-------------------------------------------------------------------------------
\* The initial states.
LEMMA InitType == Init => TypeOK
<1> SUFFICES ASSUME Init PROVE TypeOK
  OBVIOUS
<1> USE DEF Init
<1>1. taker \in Party
  BY SwapAssumption
<1>2. FlowOK
  BY NoRequestType DEF FlowOK, SwapStateMachine
<1>3. WatchOK /\ TaskOK /\ TxsOK /\ InboxOK
  BY DEF WatchOK, TaskOK, TxsOK, InboxOK
<1>4. MemOK
  BY ConfsType DEF MemOK
<1>5. CheckpointOK
  BY DEF CheckpointOK, CheckpointSwapd, NoCheckpoint, SwapStateMachine
<1>6. LedgerOK /\ BudgetOK
  BY <1>1, ConfsType DEF LedgerOK, BudgetOK, Sign
<1> QED
  BY <1>2, <1>3, <1>4, <1>5, <1>6 DEF TypeOK

\* Every step.
LEMMA StepType == TypeOK /\ [Next]_vars => TypeOK'
<1> SUFFICES ASSUME TypeOK, [Next]_vars PROVE TypeOK'
  OBVIOUS
<1>1. CASE SwapdStep
  BY <1>1, BobType, AliceType, ReplayType DEF SwapdStep
<1>2. CASE FarcasterdStep \/ (\E p \in Party : PeerDelivers(p))
  BY <1>2, ControlType
<1>3. CASE SyncerStep
  BY <1>3, SyncerType
<1>4. CASE MineBitcoin \/ MineMonero
  BY <1>4, MiningType
<1>5. CASE UserStep
  BY <1>5, FundingType, ControlType DEF UserStep
<1>6. CASE \E p \in Party : Crash(p) \/ Restore(p)
  BY <1>6, CrashType, RestoreType
<1>7. CASE UNCHANGED vars
  BY <1>7, Frame DEF TypeOK, vars, runtimeVars, budgets
<1> QED
  BY <1>1, <1>2, <1>3, <1>4, <1>5, <1>6, <1>7 DEF Next

(***************************************************************************)
(* Whatever the two processes handle, in whatever order, set aside, replay *)
(* or lose in a stop, every variable keeps its type; a message from the    *)
(* peer is one of the protocol's also when it is handled a second time     *)
(* (Runtime::execute_state_machine).                                       *)
(***************************************************************************)
THEOREM TypeCorrect == Spec => []TypeOK
BY InitType, StepType, PTL DEF Spec

------------------------------------------------------------------------------

Final(l) == final_btc(conf[l])

\* An event being handled does not report too many confirmations.
EventTrue ==
    \A p \in Party, l \in BtcTx :
      event[p].kind = "TransactionConfirmations" /\ event[p].label = l
      /\ final_btc(event[p].n) => Final(l)

\* Neither do the confirmations saved for the replays.
SavedTrue ==
    \A p \in Party, l \in {"Lock", "Cancel", "Buy"} : final_btc(saved[p][l]) => Final(l)

\* Only final transactions are fetched for the key in them.
FetchedTrue ==
    \A p \in Party, l \in {"Buy", "Refund"} : l \in retrieving_txs[p] => Final(l)

\* What state s of p stands for.
Backed(p, s) ==
    /\ s \in {"BobBuyFinal", "BobBuySweeping"} => p = "Bob" /\ Final("Buy")
    /\ s \in {"AliceRefund", "AliceRefundSweeping"} => p = "Alice" /\ Final("Refund")
    /\ s = "SuccessSwap" => Final("Buy") /\ (p = "Bob" => xmr_owner = "Bob")
    /\ s = "FailureRefund" => Final("Refund")
    /\ s = "FailurePunish" => Final("Punish")
StateTrue == \A p \in Party : Backed(p, ssm[p])

\* Bob is told that his sweep of the monero succeeded only when it did.
SweptTrue ==
    event["Bob"].kind = "SweepSuccess" /\ ssm["Bob"] = "BobBuySweeping"
      => xmr_owner = "Bob"

\* No checkpoint restores a state that stands for anything.
Restorable == {"Down", "BobFunded", "BobRefundProcedureSignatures",
               "AliceCoreArbitratingSetup", "AliceBuyProcedureSignature"}
CheckpointTrue == \A p \in Party : checkpoint[p].state \in Restorable

CoinInv ==
    /\ EventTrue /\ SavedTrue /\ FetchedTrue
    /\ StateTrue /\ SweptTrue /\ CheckpointTrue
    /\ MoneroFollowsBitcoin

\* The invariant implies both properties (SwapEnd and process_buy_tx, process_refund_tx).
THEOREM CoinInvSuffices == CoinInv => MoneroFollowsBitcoin /\ OutcomesTrue
BY DEF CoinInv, StateTrue, Backed, OutcomesTrue, Party, Final

-------------------------------------------------------------------------------
(***************************************************************************)
(* The three kinds of step: an arm of a handler, a delivery, and a step of *)
(* the ledgers.                                                            *)
(***************************************************************************)
LEMMA ArmKeeps ==
    ASSUME TypeOK, CoinInv, NEW p \in Party, NEW s \in SwapStateMachine,
           ssm' = [ssm EXCEPT ![p] = s],
           event' = [event EXCEPT ![p] = NoRequest],
           Backed(p, s),
           UNCHANGED <<saved, conf, ledgerVars>>,
           \A q \in Party, l \in {"Buy", "Refund"} :
             l \in retrieving_txs'[q] => l \in retrieving_txs[q] \/ Final(l),
           CheckpointTrue'
    PROVE  CoinInv'
<1> USE DEF CoinInv, TypeOK, FlowOK, ledgerVars, Final
<1>1. EventTrue' /\ SweptTrue'
  BY DEF EventTrue, SweptTrue, NoRequest, Party
<1>2. SavedTrue' /\ FetchedTrue' /\ MoneroFollowsBitcoin'
  BY DEF SavedTrue, FetchedTrue, MoneroFollowsBitcoin
<1>3. StateTrue'
  BY DEF StateTrue, Backed
<1> QED
  BY <1>1, <1>2, <1>3

\* A request is handed to a process, and says what the ledgers say.
LEMMA DeliveryKeeps ==
    ASSUME TypeOK, CoinInv, NEW p \in Party, NEW r \in Request,
           event' = [event EXCEPT ![p] = r],
           r.kind = "TransactionConfirmations" =>
             \A l \in BtcTx : r.label = l /\ final_btc(r.n) => Final(l),
           p = "Bob" /\ r.kind = "SweepSuccess" /\ ssm["Bob"] = "BobBuySweeping"
             => xmr_owner' = "Bob",
           xmr_owner = "lock" \/ UNCHANGED xmr_owner,
           UNCHANGED <<ssm, conf, retrieving_txs, checkpoint>>,
           SavedTrue', MoneroFollowsBitcoin'
    PROVE  CoinInv'
<1> USE DEF CoinInv, TypeOK, FlowOK, Final
<1>1. EventTrue'
  BY DEF EventTrue
<1>2. SweptTrue'
  BY DEF SweptTrue, Party
<1>3. StateTrue'
  BY DEF StateTrue, Backed
<1>4. FetchedTrue' /\ CheckpointTrue'
  BY DEF FetchedTrue, CheckpointTrue
<1> QED
  BY <1>1, <1>2, <1>3, <1>4

\* The ledgers go on, and what is final stays final.
LEMMA LedgerKeeps ==
    ASSUME TypeOK, CoinInv, \A l \in BtcTx : Final(l) => Final(l)',
           UNCHANGED <<ssm, event, saved, retrieving_txs, checkpoint, xmr_owner>>
    PROVE  CoinInv'
<1> USE DEF CoinInv, Final, BtcTx
<1>1. EventTrue' /\ SavedTrue' /\ FetchedTrue'
  BY DEF EventTrue, SavedTrue, FetchedTrue
<1>2. StateTrue'
  BY DEF StateTrue, Backed
<1>3. SweptTrue' /\ CheckpointTrue' /\ MoneroFollowsBitcoin'
  BY DEF SweptTrue, CheckpointTrue, MoneroFollowsBitcoin
<1> QED
  BY <1>1, <1>2, <1>3

(***************************************************************************)
(* An arm that enters a state which stands for nothing, an arm that enters *)
(* none, and the two ways such an arm may leave the checkpoint.            *)
(***************************************************************************)
Weighty == {"BobBuyFinal", "BobBuySweeping", "AliceRefund", "AliceRefundSweeping",
            "SuccessSwap", "FailureRefund", "FailurePunish"}

\* An arm that enters a state which stands for nothing.
LEMMA QuietArm ==
    ASSUME TypeOK, CoinInv, NEW p \in Party, NEW s \in SwapStateMachine \ Weighty,
           Transition(p, s), CheckpointTrue',
           UNCHANGED <<saved, conf, ledgerVars, retrieving_txs>>
    PROVE  CoinInv'
<1>1. Backed(p, s)
  BY DEF Backed, Weighty
<1> QED
  BY <1>1, ArmKeeps DEF Transition

\* An arm that returns Ok(None).
LEMMA StayingArm ==
    ASSUME TypeOK, CoinInv, NEW p \in Party, NoTransition(p),
           UNCHANGED <<saved, conf, ledgerVars, retrieving_txs, checkpoint>>
    PROVE  CoinInv'
<1>1. Backed(p, ssm[p]) /\ ssm[p] \in SwapStateMachine
  BY DEF CoinInv, StateTrue, TypeOK, FlowOK
<1>2. ssm' = [ssm EXCEPT ![p] = ssm[p]]
  BY DEF NoTransition, TypeOK, FlowOK
<1>3. CheckpointTrue'
  BY DEF CoinInv, CheckpointTrue
<1> QED
  BY <1>1, <1>2, <1>3, ArmKeeps DEF NoTransition

\* A step that writes no checkpoint.
LEMMA CheckpointKept ==
    ASSUME CoinInv, UNCHANGED checkpoint
    PROVE  CheckpointTrue'
BY DEF CoinInv, CheckpointTrue

\* A step that writes one (checkpoint_state), for a state that stands for nothing.
LEMMA CheckpointWritten ==
    ASSUME TypeOK, CoinInv, NEW p \in Party, NEW m, NEW s \in Restorable,
           checkpoint_state(p, m, s)
    PROVE  CheckpointTrue'
BY DEF CoinInv, CheckpointTrue, TypeOK, CheckpointOK, checkpoint_state

\* The arms that Alice and Bob share.
LEMMA HandshakeCoin ==
    ASSUME TypeOK, CoinInv, NEW p \in Party, HandshakeNext(p),
           UNCHANGED <<conf, ledgerVars>>
    PROVE  CoinInv'
<1>1. {InitTaker[p], InitMaker[p], TakerMakerCommit[p], RevealState[p],
       "FailureAbort", "BobAbortAwaitingBitcoinSweep"} \subseteq SwapStateMachine \ Weighty
  BY DEF Party, InitTaker, InitMaker, TakerMakerCommit, RevealState, Weighty,
         SwapStateMachine, BobState, AliceState, Outcome
<1>2. UNCHANGED <<saved, retrieving_txs, checkpoint>>
  BY DEF HandshakeNext, attempt_transition_to_init_taker,
         attempt_transition_to_init_maker, handle_maker_commit,
         attempt_transition_to_reveal, handle_abort_swap, handle_bob_abort_swap,
         memVars, taskVars
<1>3. PICK s \in SwapStateMachine \ Weighty : Transition(p, s)
  BY <1>1 DEF HandshakeNext, attempt_transition_to_init_taker,
         attempt_transition_to_init_maker, handle_maker_commit,
         attempt_transition_to_reveal, handle_abort_swap, handle_bob_abort_swap
<1> QED
  BY <1>2, <1>3, QuietArm, CheckpointKept

\* Bob's arms: only a final Buy or Refund takes him where the coins follow.
LEMMA BobCoin ==
    ASSUME TypeOK, CoinInv, BobNext, UNCHANGED ledgerVars
    PROVE  CoinInv'
<1>1. "Bob" \in Party /\ BobState \cup Outcome \subseteq SwapStateMachine
  BY DEF Party, SwapStateMachine
<1>2. UNCHANGED conf
  BY DEF BobNext
<1> USE <1>1, <1>2 DEF memVars, taskVars
<1>3. CASE HandshakeNext("Bob")
  BY <1>3, HandshakeCoin
<1>4. CASE bob_broadcasts_cancel \/ bob_ignores
  BY <1>4, StayingArm DEF bob_broadcasts_cancel, bob_ignores
<1>5. ASSUME NEW s \in BobState \ Weighty, Transition("Bob", s),
             UNCHANGED <<saved, retrieving_txs, checkpoint>>
      PROVE  CoinInv'
  BY <1>5, QuietArm, CheckpointKept
<1>6. CASE bob_reveal_to_bob_fee_estimated
  BY <1>5, <1>6 DEF bob_reveal_to_bob_fee_estimated, BobState, Weighty
<1>7. CASE bob_fee_estimated_to_abort
  BY <1>5, <1>7 DEF bob_fee_estimated_to_abort, handle_bob_abort_swap, BobState, Weighty
<1>8. CASE bob_fee_estimated_to_bob_funded
  <2>1. CheckpointTrue'
    BY <1>8, CheckpointWritten DEF bob_fee_estimated_to_bob_funded, Restorable
  <2> QED
    BY <1>8, <2>1, QuietArm DEF bob_fee_estimated_to_bob_funded, BobState, Weighty
<1>9. CASE bob_funded_to_bob_refund_procedure_signature
  <2>1. CheckpointTrue'
    BY <1>9, CheckpointWritten
       DEF bob_funded_to_bob_refund_procedure_signature, Restorable
  <2> QED
    BY <1>9, <2>1, QuietArm
       DEF bob_funded_to_bob_refund_procedure_signature, BobState, Weighty
<1>10. CASE bob_refund_procedure_signatures_to_bob_accordant_lock
  BY <1>5, <1>10
     DEF bob_refund_procedure_signatures_to_bob_accordant_lock, BobState, Weighty
<1>11. CASE bob_accordant_lock_to_bob_accordant_lock_final
  BY <1>5, <1>11 DEF bob_accordant_lock_to_bob_accordant_lock_final, BobState, Weighty
<1>12. CASE bob_accordant_lock_final_retrieves_buy
  <2> USE DEF bob_accordant_lock_final_retrieves_buy
  <2>1. Final("Buy")
    BY <1>12 DEF SeesBuyFinal, Confirmed, Confirmations, BobConfs, CoinInv, EventTrue, BtcTx
  <2>2. Backed("Bob", "BobAccordantLockFinal")
    BY DEF Backed
  <2>3. \A q \in Party, l \in {"Buy", "Refund"} :
          l \in retrieving_txs'[q] => l \in retrieving_txs[q] \/ Final(l)
    BY <1>12, <2>1 DEF retrieve_tx_btc, TypeOK, TaskOK
  <2> QED
    BY <1>12, <2>2, <2>3, ArmKeeps, CheckpointKept DEF Transition, BobState
<1>13. CASE bob_accordant_lock_final_to_bob_buy_final
  <2> USE DEF bob_accordant_lock_final_to_bob_buy_final
  <2>1. Backed("Bob", "BobBuyFinal")
    BY <1>13 DEF GetsBuy, Retrieved, CoinInv, FetchedTrue, Backed
  <2>2. \A q \in Party, l \in {"Buy", "Refund"} :
          l \in retrieving_txs'[q] => l \in retrieving_txs[q]
    BY <1>13 DEF TypeOK, TaskOK
  <2> QED
    BY <1>13, <2>1, <2>2, ArmKeeps, CheckpointKept DEF Transition, BobState
<1>14. CASE bob_buy_final_to_bob_buy_sweeping
  <2> USE DEF bob_buy_final_to_bob_buy_sweeping
  <2>1. Backed("Bob", "BobBuySweeping")
    BY <1>14 DEF BobMaySweep, CoinInv, StateTrue, Backed
  <2> QED
    BY <1>14, <2>1, ArmKeeps, CheckpointKept DEF Transition, BobState
<1>15. CASE bob_buy_sweeping_to_swap_end
  <2> USE DEF bob_buy_sweeping_to_swap_end
  <2>1. Backed("Bob", "SuccessSwap")
    BY <1>15 DEF BobSwept, CoinInv, StateTrue, SweptTrue, Backed
  <2> QED
    BY <1>15, <2>1, ArmKeeps, CheckpointKept DEF Transition, Outcome
<1>16. CASE bob_canceled_to_bob_cancel_final
  BY <1>5, <1>16 DEF bob_canceled_to_bob_cancel_final, BobState, Weighty
<1>17. CASE bob_cancel_final_to_swap_end
  <2> USE DEF bob_cancel_final_to_swap_end
  <2>1. Backed("Bob", "FailureRefund")
    BY <1>17 DEF SeesRefundFinal, Confirmed, Confirmations, BobConfs, CoinInv,
                 EventTrue, BtcTx, Backed
  <2> QED
    BY <1>17, <2>1, ArmKeeps, CheckpointKept DEF Transition, Outcome
<1>18. CASE awaiting_sweep_to_swap_end
  BY <1>18, QuietArm, CheckpointKept DEF awaiting_sweep_to_swap_end, Outcome, Weighty
<1>19. CASE bob_canceled
  BY <1>5, <1>19 DEF bob_canceled, BobState, Weighty
<1> QED
  BY <1>3, <1>4, <1>6, <1>7, <1>8, <1>9, <1>10, <1>11, <1>12, <1>13, <1>14,
     <1>15, <1>16, <1>17, <1>18, <1>19 DEF BobNext

\* Alice's arms: only a final Buy, Refund or Punish does.
LEMMA AliceCoin ==
    ASSUME TypeOK, CoinInv, AliceNext, UNCHANGED ledgerVars
    PROVE  CoinInv'
<1>1. "Alice" \in Party /\ AliceState \cup Outcome \subseteq SwapStateMachine
  BY DEF Party, SwapStateMachine
<1>2. UNCHANGED conf
  BY DEF AliceNext
<1> USE <1>1, <1>2 DEF memVars, taskVars
<1>3. CASE HandshakeNext("Alice")
  BY <1>3, HandshakeCoin
<1>4. CASE alice_broadcasts_cancel \/ alice_ignores
  BY <1>4, StayingArm DEF alice_broadcasts_cancel, alice_ignores
<1>5. ASSUME NEW s \in AliceState \ Weighty, Transition("Alice", s),
             UNCHANGED <<saved, retrieving_txs, checkpoint>>
      PROVE  CoinInv'
  BY <1>5, QuietArm, CheckpointKept
<1>6. CASE alice_reveal_to_alice_core_arbitrating_setup
  <2>1. CheckpointTrue'
    BY <1>6, CheckpointWritten
       DEF alice_reveal_to_alice_core_arbitrating_setup, Restorable
  <2> QED
    BY <1>6, <2>1, QuietArm
       DEF alice_reveal_to_alice_core_arbitrating_setup, AliceState, Weighty
<1>7. CASE alice_core_arbitrating_setup_to_alice_arbitrating_lock_final
  BY <1>5, <1>7
     DEF alice_core_arbitrating_setup_to_alice_arbitrating_lock_final,
         AliceState, Weighty
<1>8. CASE alice_asks_for_funding \/ alice_stops_funding
  BY <1>5, <1>8 DEF alice_asks_for_funding, alice_stops_funding, AliceState, Weighty
<1>9. CASE alice_arbitrating_lock_final_to_alice_accordant_lock
  BY <1>5, <1>9
     DEF alice_arbitrating_lock_final_to_alice_accordant_lock, AliceState, Weighty
<1>10. CASE alice_accordant_lock_to_alice_canceled
  BY <1>5, <1>10 DEF alice_accordant_lock_to_alice_canceled, AliceState, Weighty
<1>11. CASE alice_accordant_lock_to_alice_buy_procedure_signature
  <2>1. CheckpointTrue'
    BY <1>11, CheckpointWritten
       DEF alice_accordant_lock_to_alice_buy_procedure_signature, Restorable
  <2> QED
    BY <1>11, <2>1, QuietArm
       DEF alice_accordant_lock_to_alice_buy_procedure_signature, AliceState, Weighty
<1>12. CASE alice_buy_procedure_signature_to_swap_end
  <2> USE DEF alice_buy_procedure_signature_to_swap_end
  <2>1. Backed("Alice", "SuccessSwap")
    BY <1>12 DEF SeesOwnBuyFinal, Confirmed, Confirmations, AliceConfs, CoinInv,
                 EventTrue, BtcTx, Backed
  <2> QED
    BY <1>12, <2>1, ArmKeeps, CheckpointKept DEF Transition, Outcome
<1>13. CASE alice_canceled_retrieves_refund
  <2> USE DEF alice_canceled_retrieves_refund
  <2>1. Final("Refund")
    BY <1>13 DEF AliceSeesRefundFinal, Confirmed, Confirmations, AliceConfs,
                 CoinInv, EventTrue, BtcTx
  <2>2. Backed("Alice", "AliceCanceled")
    BY DEF Backed
  <2>3. \A q \in Party, l \in {"Buy", "Refund"} :
          l \in retrieving_txs'[q] => l \in retrieving_txs[q] \/ Final(l)
    BY <1>13, <2>1 DEF retrieve_tx_btc, TypeOK, TaskOK
  <2> QED
    BY <1>13, <2>2, <2>3, ArmKeeps, CheckpointKept DEF Transition, AliceState
<1>14. CASE alice_canceled_broadcasts_punish \/ alice_canceled_broadcasts_cancel
  BY <1>5, <1>14 DEF alice_canceled_broadcasts_punish,
     alice_canceled_broadcasts_cancel, alice_canceled_publishes, AliceState, Weighty
<1>15. CASE alice_canceled_to_punished
  <2> USE DEF alice_canceled_to_punished
  <2>1. Backed("Alice", "FailurePunish")
    BY <1>15 DEF SeesPunishFinal, Confirmed, Confirmations, AliceConfs, CoinInv,
                 EventTrue, BtcTx, Backed
  <2> QED
    BY <1>15, <2>1, ArmKeeps, CheckpointKept DEF Transition, Outcome
<1>16. CASE alice_canceled_to_alice_refund \/ alice_canceled_to_swap_end
  <2> USE DEF alice_canceled_to_alice_refund, alice_canceled_to_swap_end
  <2>1. Backed("Alice", "AliceRefund") /\ Backed("Alice", "FailureRefund")
    BY <1>16 DEF GetsRefund, Retrieved, CoinInv, FetchedTrue, Backed
  <2>2. \A q \in Party, l \in {"Buy", "Refund"} :
          l \in retrieving_txs'[q] => l \in retrieving_txs[q]
    BY <1>16 DEF TypeOK, TaskOK
  <2>3. PICK s \in {"AliceRefund", "FailureRefund"} : Transition("Alice", s)
    BY <1>16
  <2> QED
    BY <1>16, <2>1, <2>2, <2>3, ArmKeeps, CheckpointKept
       DEF Transition, AliceState, Outcome
<1>17. CASE alice_refund_to_alice_refund_sweeping
  <2> USE DEF alice_refund_to_alice_refund_sweeping
  <2>1. Backed("Alice", "AliceRefundSweeping")
    BY <1>17 DEF AliceMaySweep, CoinInv, StateTrue, Backed
  <2> QED
    BY <1>17, <2>1, ArmKeeps, CheckpointKept DEF Transition, AliceState
<1>18. CASE alice_refund_sweeping_to_swap_end
  <2> USE DEF alice_refund_sweeping_to_swap_end
  <2>1. Backed("Alice", "FailureRefund")
    BY <1>18 DEF AliceSwept, CoinInv, StateTrue, Backed
  <2> QED
    BY <1>18, <2>1, ArmKeeps, CheckpointKept DEF Transition, Outcome
<1>19. CASE alice_canceled
  BY <1>5, <1>19 DEF alice_canceled, AliceState, Weighty
<1> QED
  BY <1>3, <1>4, <1>6, <1>7, <1>8, <1>9, <1>10, <1>11, <1>12, <1>13, <1>14,
     <1>15, <1>16, <1>17, <1>18, <1>19 DEF AliceNext

(***************************************************************************)
(* Deliveries.                                                             *)
(***************************************************************************)
LEMMA MemoryKept ==
    ASSUME CoinInv, UNCHANGED <<saved, conf>> PROVE SavedTrue'
BY DEF CoinInv, SavedTrue, Final

\* A step in which the monero does not move.
LEMMA OwnerKept ==
    ASSUME CoinInv, UNCHANGED <<xmr_owner, conf>> PROVE MoneroFollowsBitcoin'
BY DEF CoinInv, MoneroFollowsBitcoin

\* An event that reports neither confirmations nor Bob's sweep.
LEMMA PlainEvent ==
    ASSUME TypeOK, CoinInv, NEW p \in Party, NEW k \in {"P2p", "Ctl"} \cup SyncEvent,
           NEW l \in Subject, NEW n \in Confs, handle(p, k, l, n),
           k # "TransactionConfirmations",
           k = "SweepSuccess" => ssm["Bob"] = "BobAbortAwaitingBitcoinSweep",
           UNCHANGED <<ssm, conf, saved, retrieving_txs, checkpoint, xmr_owner>>
    PROVE  CoinInv'
<1> DEFINE r == [kind |-> k, label |-> l, n |-> n]
<1>1. r \in Request /\ r.kind = k
  BY RequestType
<1>2. event' = [event EXCEPT ![p] = r]
  BY DEF handle
<1> HIDE DEF r
<1> QED
  BY <1>1, <1>2, DeliveryKeeps, MemoryKept, OwnerKept

\* The replays of execute_state_machine.
LEMMA ReplayCoin ==
    ASSUME TypeOK, CoinInv, NEW p \in Party, Replay(p), UNCHANGED ledgerVars
    PROVE  CoinInv'
<1> DEFINE c == Head(replays[p])
<1> USE DEF Replay, taskVars, memVars, ledgerVars
<1>1. c \in {"unhandled", "Buy", "Lock", "Cancel"}
  BY HeadTailProperties DEF TypeOK, FlowOK
<1>2. UNCHANGED <<ssm, conf, saved, retrieving_txs, checkpoint, xmr_owner>>
  OBVIOUS
<1>3. CASE c = "unhandled"
  <2>1. unhandled_peer_message[p] \in Subject /\ 0 \in Confs
    BY ConfsType DEF TypeOK, FlowOK, Subject
  <2>2. handle(p, "P2p", unhandled_peer_message[p], 0)
    BY <1>3
  <2> QED
    BY <1>2, <2>1, <2>2, PlainEvent DEF SyncEvent
<1>4. CASE c # "unhandled"
  <2>1. /\ c \in {"Lock", "Cancel", "Buy"} /\ saved[p][c] \in Confs
        /\ c \in BtcTx /\ c \in Subject
    BY <1>1, <1>4, Labels DEF TypeOK, MemOK, Subject
  <2> DEFINE r == [kind |-> "TransactionConfirmations", label |-> c, n |-> saved[p][c]]
  <2>2. r \in Request /\ r.kind = "TransactionConfirmations"
    BY <2>1, RequestType DEF SyncEvent
  <2>3. \A l \in BtcTx : r.label = l /\ final_btc(r.n) => Final(l)
    BY <2>1 DEF CoinInv, SavedTrue
  <2>4. event' = [event EXCEPT ![p] = r]
    BY <1>4 DEF handle
  <2> HIDE DEF r
  <2> QED
    BY <1>2, <2>2, <2>3, <2>4, DeliveryKeeps, MemoryKept, OwnerKept
<1> QED
  BY <1>3, <1>4

\* What farcasterd, peerd and the users bring.
LEMMA ControlCoin ==
    ASSUME TypeOK, CoinInv,
           FarcasterdStep \/ (\E p \in Party : PeerDelivers(p) \/ UserAborts(p))
    PROVE  CoinInv'
<1> USE DEF ctlUnchanged, memVars, taskVars, ledgerVars
<1>1. /\ {"TakeSwap", "MakeSwap", "AbortSwap"} \cup PeerMsg \subseteq Subject
      /\ 0 \in Confs /\ {"P2p", "Ctl"} \cap SyncEvent = {}
  BY ConfsType DEF Subject, SyncEvent
<1>2. CASE FarcasterdTakes
  <2>1. taker \in Party
    BY DEF TypeOK, BudgetOK
  <2> QED
    BY <1>1, <1>2, <2>1, PlainEvent DEF FarcasterdTakes, SyncEvent
<1>3. ASSUME NEW p \in Party, FarcasterdMakes(p) \/ UserAborts(p) \/ PeerDelivers(p)
      PROVE  CoinInv'
  <2>1. inbox[p] # <<>> => Head(inbox[p]) \in PeerMsg
    BY HeadTailProperties DEF TypeOK, InboxOK
  <2> QED
    BY <1>1, <1>3, <2>1, PlainEvent
       DEF FarcasterdMakes, UserAborts, PeerDelivers, SyncEvent
<1>4. ASSUME NEW p \in Party, FarcasterdHasNoDeal(p)
      PROVE  CoinInv'
  <2> USE DEF FarcasterdHasNoDeal, CoinInv, Final
  <2>1. StateTrue'
    BY <1>4 DEF StateTrue, Backed, TypeOK, FlowOK
  <2>2. EventTrue' /\ FetchedTrue'
    BY <1>4 DEF EventTrue, FetchedTrue
  <2>3. SweptTrue'
    BY <1>4 DEF SweptTrue, TypeOK, FlowOK, Party
  <2> QED
    BY <1>4, <2>1, <2>2, <2>3, MemoryKept, OwnerKept, CheckpointKept
<1>5. ASSUME NEW p \in Party, FarcasterdCleansUp(p)
      PROVE  CoinInv'
  <2> USE DEF FarcasterdCleansUp, CoinInv, Final, flowVars
  <2>1. CheckpointTrue'
    BY <1>5 DEF CheckpointTrue, Restorable, NoCheckpoint, TypeOK, CheckpointOK
  <2>2. EventTrue' /\ FetchedTrue'
    BY <1>5 DEF EventTrue, FetchedTrue
  <2>3. SweptTrue' /\ StateTrue'
    BY <1>5 DEF SweptTrue, StateTrue, Backed
  <2> QED
    BY <1>5, <2>1, <2>2, <2>3, MemoryKept, OwnerKept
<1> QED
  BY <1>2, <1>3, <1>4, <1>5 DEF FarcasterdStep

\* What the syncers report, sweep and broadcast.
LEMMA SyncerCoin ==
    ASSUME TypeOK, CoinInv, SyncerStep
    PROVE  CoinInv'
<1>1. /\ TxLabel \cup {"Funding", "AccLock", "none"} \subseteq Subject
      /\ {0, 1} \subseteq Confs /\ acc_amount \in Confs /\ conf \in [TxLabel -> Confs]
      /\ {"Alice", "Bob"} = Party
  BY ConfsType, Labels DEF Subject, TypeOK, LedgerOK
<1>2. ASSUME NEW p \in Party, NEW l \in TxLabel, SyncerConfirms(p, l)
      PROVE  CoinInv'
  <2> DEFINE r == [kind |-> "TransactionConfirmations", label |-> l, n |-> conf[l]]
  <2> USE DEF SyncerConfirms, syncUnchanged
  <2>1. r \in Request /\ r.kind = "TransactionConfirmations"
    BY <1>1, <1>2, RequestType DEF SyncEvent
  <2>2. \A k \in BtcTx : r.label = k /\ final_btc(r.n) => Final(k)
    BY DEF Final
  <2>3. event' = [event EXCEPT ![p] = r]
    BY <1>2 DEF handle
  <2>4. SavedTrue'
    BY <1>2 DEF save_confs, CoinInv, SavedTrue, Final, TypeOK, MemOK
  <2> HIDE DEF r
  <2> QED
    BY <1>2, <2>1, <2>2, <2>3, <2>4, DeliveryKeeps, OwnerKept
<1>3. ASSUME NEW p \in Party,
             \/ SyncerSeesAccLock(p)
             \/ \E l \in {"Buy", "Refund"} : SyncerRetrieves(p, l)
      PROVE  CoinInv'
  BY <1>1, <1>3, PlainEvent, Labels
     DEF SyncerSeesAccLock, SyncerRetrieves, eventUnchanged, syncUnchanged, SyncEvent
<1>4. CASE SyncerSeesFunding \/ SyncerSeesNothing \/ SyncerEstimatesFee
  BY <1>1, <1>4, PlainEvent
     DEF SyncerSeesFunding, SyncerSeesNothing, SyncerEstimatesFee, eventUnchanged,
         syncUnchanged, SyncEvent
<1>5. CASE SyncerSweepsBitcoin
  <2>1. PICK k \in {"SweepSuccess", "TaskAborted"} : handle("Bob", k, "none", 0)
    BY <1>5 DEF SyncerSweepsBitcoin
  <2> QED
    BY <1>1, <1>5, <2>1, PlainEvent DEF SyncerSweepsBitcoin, syncUnchanged, SyncEvent
<1>6. ASSUME NEW p \in Party, SyncerSweepsMonero(p)
      PROVE  CoinInv'
  <2> DEFINE r == [kind |-> "SweepSuccess", label |-> "none", n |-> 0]
  <2> USE DEF SyncerSweepsMonero, syncUnchanged
  <2>1. r \in Request /\ r.kind = "SweepSuccess"
    BY <1>1, RequestType DEF SyncEvent
  <2>2. event' = [event EXCEPT ![p] = r]
    BY <1>6 DEF handle
  <2>3. MoneroFollowsBitcoin'
    <3>1. Backed(p, ssm[p])
      BY DEF CoinInv, StateTrue
    <3> QED
      BY <1>6, <3>1 DEF Backed, CoinInv, MoneroFollowsBitcoin, Final
  <2> HIDE DEF r
  <2> QED
    BY <1>6, <2>1, <2>2, <2>3, DeliveryKeeps, MemoryKept
<1>7. ASSUME NEW p \in Party, NEW l \in BtcTx, SyncerBroadcasts(p, l)
      PROVE  CoinInv'
  <2>1. \A k \in BtcTx : Final(k) => Final(k)'
    BY <1>7, ConfsType, Labels, TemporalSafetyAssumption
       DEF SyncerBroadcasts, Final, final_btc, TypeOK, LedgerOK
  <2> QED
    BY <1>7, <2>1, LedgerKeeps DEF SyncerBroadcasts, ledgerUnchanged, flowVars, memVars
<1> QED
  BY <1>2, <1>3, <1>4, <1>5, <1>6, <1>7 DEF SyncerStep

(***************************************************************************)
(* The ledgers: what is final stays final, if a transaction that is not in *)
(* a block yet is never called final.                                      *)
(***************************************************************************)
LEMMA LedgerCoin ==
    ASSUME TypeOK, CoinInv, btc_finality_thr > 0,
           \/ MineBitcoin \/ MineMonero
           \/ \E a \in BtcAmounts : UserFundsBitcoin(a)
           \/ \E s \in XmrAmounts : UserFundsMonero(s)
    PROVE  CoinInv'
<1>1. \A l \in BtcTx : Final(l) => Final(l)'
  <2>1. CASE MineBitcoin
    <3>1. PICK S \in SUBSET mempool :
            conf' = [l \in TxLabel |->
                       IF l = "AccLock" THEN conf[l]
                       ELSE IF l \in S \/ conf[l] > 0 THEN grown(conf[l])
                       ELSE IF rivals[l] \cap S # {} THEN -1
                       ELSE conf[l]]
      BY <2>1 DEF MineBitcoin
    <3>2. btc_finality_thr \in Nat
      BY TemporalSafetyAssumption
    <3>3. SUFFICES ASSUME NEW l \in BtcTx, conf[l] >= btc_finality_thr
                   PROVE  conf'[l] >= btc_finality_thr
      BY DEF Final, final_btc
    <3>4. l \in TxLabel /\ l # "AccLock" /\ conf[l] \in -1..MaxConfs
      BY Labels, ConfsType DEF TypeOK, LedgerOK
    <3>5. conf'[l] = grown(conf[l])
      BY <3>1, <3>2, <3>3, <3>4
    <3> QED
      BY <3>2, <3>3, <3>4, <3>5, ConfsType DEF grown
  <2>2. CASE ~MineBitcoin
    BY <2>2, Labels DEF MineMonero, UserFundsBitcoin, UserFundsMonero, Final,
                        TypeOK, LedgerOK
  <2> QED
    BY <2>1, <2>2
<1>2. UNCHANGED <<ssm, event, saved, retrieving_txs, checkpoint, xmr_owner>>
  BY DEF MineBitcoin, MineMonero, UserFundsBitcoin, UserFundsMonero,
         ledgerUnchanged, flowVars, memVars
<1> QED
  BY <1>1, <1>2, LedgerKeeps

\* A stop forgets, and a restoration brings back nothing that could be wrong.
LEMMA CrashCoin ==
    ASSUME TypeOK, CoinInv, NEW p \in Party, Crash(p) \/ Restore(p)
    PROVE  CoinInv'
<1> USE DEF CoinInv, TypeOK, Final, ledgerVars
<1>1. CheckpointTrue' /\ MoneroFollowsBitcoin'
  BY CheckpointKept, OwnerKept DEF Crash, Restore
<1>2. CASE Crash(p)
  <2> USE DEF Crash, FlowOK
  <2>1. EventTrue' /\ SweptTrue'
    BY <1>2 DEF EventTrue, SweptTrue, NoRequest, Party
  <2>2. SavedTrue'
    BY <1>2, TemporalSafetyAssumption DEF SavedTrue, MemOK, final_btc
  <2>3. FetchedTrue' /\ StateTrue'
    BY <1>2 DEF FetchedTrue, StateTrue, Backed, TaskOK
  <2> QED
    BY <1>1, <2>1, <2>2, <2>3
<1>3. CASE Restore(p)
  <2> USE DEF Restore, FlowOK
  <2>1. EventTrue' /\ SavedTrue' /\ FetchedTrue'
    BY <1>3 DEF EventTrue, SavedTrue, FetchedTrue
  <2>2. ssm' = [ssm EXCEPT ![p] = checkpoint[p].state] /\ checkpoint[p].state \in Restorable
    BY <1>3 DEF CheckpointTrue
  <2>3. StateTrue' /\ SweptTrue'
    BY <1>3, <2>2 DEF StateTrue, SweptTrue, Backed, Restorable, Party
  <2> QED
    BY <1>1, <2>1, <2>3
<1> QED
  BY <1>2, <1>3

-------------------------------------------------------------------------------
\* Nothing is believed at the start.
LEMMA CoinInvInit == Init => CoinInv
<1> SUFFICES ASSUME Init PROVE CoinInv
  OBVIOUS
<1> USE DEF Init
<1>1. EventTrue /\ FetchedTrue /\ SweptTrue
  BY DEF EventTrue, FetchedTrue, SweptTrue, NoRequest, Party
<1>2. SavedTrue
  BY TemporalSafetyAssumption DEF SavedTrue, final_btc
<1>3. StateTrue /\ CheckpointTrue /\ MoneroFollowsBitcoin
  BY DEF StateTrue, Backed, CheckpointTrue, Restorable, NoCheckpoint, MoneroFollowsBitcoin
<1> QED
  BY <1>1, <1>2, <1>3 DEF CoinInv

\* The three kinds of step, put together.
LEMMA CoinInvStep ==
    ASSUME btc_finality_thr > 0
    PROVE  TypeOK /\ CoinInv /\ [Next]_vars => CoinInv'
<1> SUFFICES ASSUME TypeOK, CoinInv, [Next]_vars PROVE CoinInv'
  OBVIOUS
<1>1. CASE SwapdStep
  BY <1>1, BobCoin, AliceCoin, ReplayCoin DEF SwapdStep
<1>2. CASE FarcasterdStep \/ (\E p \in Party : PeerDelivers(p))
  BY <1>2, ControlCoin
<1>3. CASE SyncerStep
  BY <1>3, SyncerCoin
<1>4. CASE MineBitcoin \/ MineMonero
  BY <1>4, LedgerCoin
<1>5. CASE UserStep
  BY <1>5, LedgerCoin, ControlCoin DEF UserStep
<1>6. CASE \E p \in Party : Crash(p) \/ Restore(p)
  BY <1>6, CrashCoin
<1>7. CASE UNCHANGED vars
  BY <1>7, LedgerKeeps
     DEF vars, runtimeVars, flowVars, taskVars, memVars, ledgerVars, Final
<1> QED
  BY <1>1, <1>2, <1>3, <1>4, <1>5, <1>6, <1>7 DEF Next

\* Whatever a process believes final is final (handle_sync, the arms and the replays).
THEOREM CoinInvCorrect ==
    ASSUME btc_finality_thr > 0
    PROVE  Spec => []CoinInv
BY TypeCorrect, CoinInvInit, CoinInvStep, PTL DEF Spec

(***************************************************************************)
(* The monero goes to Bob only when Alice's Buy is final and back to Alice *)
(* only when Bob's Refund is, whatever stops, fails or comes late          *)
(* (try_bob_accordant_lock_final_to_bob_buy_final,                         *)
(* try_alice_canceled_to_alice_refund_or_alice_punish).                    *)
(***************************************************************************)
THEOREM CoinsFollow ==
    ASSUME btc_finality_thr > 0
    PROVE  Spec => []MoneroFollowsBitcoin
BY CoinInvCorrect, CoinInvSuffices, PTL

(***************************************************************************)
(* The outcome a swapd reports to farcasterd (SwapEnd) is what the ledgers *)
(* say.                                                                    *)
(***************************************************************************)
THEOREM OutcomesCorrect ==
    ASSUME btc_finality_thr > 0
    PROVE  Spec => []OutcomesTrue
BY CoinInvCorrect, CoinInvSuffices, PTL

-------------------------------------------------------------------------------
(***************************************************************************)
(* What Bob's arms after the reveals do, and leave alone: only his own     *)
(* transactions are published and saved, two arms write to Alice, and two  *)
(* write a checkpoint.                                                     *)
(***************************************************************************)
LEMMA BobArm ==
    ASSUME TypeOK, BobNext, ~HandshakeNext("Bob")
    PROVE  /\ NoTransition("Bob") \/ (\E s : Transition("Bob", s))
           /\ \/ UNCHANGED inbox
              \/ bob_fee_estimated_to_bob_funded
              \/ bob_accordant_lock_to_bob_accordant_lock_final
           /\ \/ UNCHANGED checkpoint
              \/ checkpoint_state("Bob", "CoreArbitratingSetup", "BobFunded")
              \/ checkpoint_state("Bob", "none", "BobRefundProcedureSignatures")
           /\ \A q \in Party : "AccLockAddr" \in due'[q]
                => "AccLockAddr" \in due[q] \/ conf["AccLock"] >= 0
           /\ "Buy" \in broadcasting_txs'["Bob"] => "Buy" \in broadcasting_txs["Bob"]
           /\ UNCHANGED <<txs["Alice"], broadcasting_txs["Alice"], awaiting_funding["Alice"]>>
<1> USE DEF BobNext, bob_reveal_to_bob_fee_estimated, bob_fee_estimated_to_abort,
       handle_bob_abort_swap, bob_fee_estimated_to_bob_funded,
       bob_funded_to_bob_refund_procedure_signature,
       bob_refund_procedure_signatures_to_bob_accordant_lock,
       bob_accordant_lock_to_bob_accordant_lock_final,
       bob_accordant_lock_final_retrieves_buy, bob_accordant_lock_final_to_bob_buy_final,
       bob_buy_final_to_bob_buy_sweeping, bob_buy_sweeping_to_swap_end,
       bob_canceled_to_bob_cancel_final, bob_cancel_final_to_swap_end,
       awaiting_sweep_to_swap_end, bob_broadcasts_cancel, bob_canceled, bob_ignores,
       taskVars, watchVars, memVars
<1>1. NoTransition("Bob") \/ (\E s : Transition("Bob", s))
  OBVIOUS
<1>2. /\ \/ UNCHANGED inbox
         \/ bob_fee_estimated_to_bob_funded
         \/ bob_accordant_lock_to_bob_accordant_lock_final
      /\ \/ UNCHANGED checkpoint
         \/ checkpoint_state("Bob", "CoreArbitratingSetup", "BobFunded")
         \/ checkpoint_state("Bob", "none", "BobRefundProcedureSignatures")
  OBVIOUS
<1>3. \A q \in Party : "AccLockAddr" \in due'[q]
        => "AccLockAddr" \in due[q] \/ conf["AccLock"] >= 0
  BY Labels DEF watch_tx_btc, watch_tx_xmr, retrieve_tx_btc, abort_all, TypeOK, WatchOK
<1>4. "Buy" \in broadcasting_txs'["Bob"] => "Buy" \in broadcasting_txs["Bob"]
  BY Labels DEF broadcast, TypeOK, TaskOK
<1>5. UNCHANGED <<txs["Alice"], broadcasting_txs["Alice"], awaiting_funding["Alice"]>>
  BY Labels DEF broadcast, clear_txs, TypeOK, TaskOK, TxsOK, MemOK
<1> QED
  BY <1>1, <1>2, <1>3, <1>4, <1>5

(***************************************************************************)
(* What Alice's do: Buy enters her transactions only with the signature    *)
(* for it, one arm writes to Bob, and two write a checkpoint.              *)
(***************************************************************************)
LEMMA AliceArm ==
    ASSUME TypeOK, AliceNext, ~HandshakeNext("Alice")
    PROVE  /\ NoTransition("Alice") \/ (\E s : Transition("Alice", s))
           /\ UNCHANGED inbox \/ alice_reveal_to_alice_core_arbitrating_setup
           /\ \/ UNCHANGED checkpoint
              \/ /\ alice_reveal_to_alice_core_arbitrating_setup
                 /\ checkpoint_state("Alice", "RefundProcedureSignatures",
                                     "AliceCoreArbitratingSetup")
              \/ /\ alice_accordant_lock_to_alice_buy_procedure_signature
                 /\ checkpoint_state("Alice", "none", "AliceBuyProcedureSignature")
           /\ \A q \in Party : "AccLockAddr" \in due'[q]
                => "AccLockAddr" \in due[q] \/ conf["AccLock"] >= 0
           /\ "Buy" \in txs'["Alice"] \cup broadcasting_txs'["Alice"]
                => "Buy" \in txs["Alice"] \cup broadcasting_txs["Alice"] \/ GetsBuySignature
           /\ UNCHANGED broadcasting_txs["Bob"]
<1> USE DEF AliceNext, alice_reveal_to_alice_core_arbitrating_setup,
       alice_core_arbitrating_setup_to_alice_arbitrating_lock_final,
       alice_asks_for_funding, alice_stops_funding,
       alice_arbitrating_lock_final_to_alice_accordant_lock,
       alice_accordant_lock_to_alice_canceled,
       alice_accordant_lock_to_alice_buy_procedure_signature,
       alice_buy_procedure_signature_to_swap_end,
       alice_canceled_retrieves_refund, alice_canceled_broadcasts_punish,
       alice_canceled_broadcasts_cancel, alice_canceled_to_punished,
       alice_canceled_to_alice_refund, alice_canceled_to_swap_end,
       alice_refund_to_alice_refund_sweeping, alice_refund_sweeping_to_swap_end,
       alice_canceled, alice_broadcasts_cancel, alice_ignores,
       alice_canceled_publishes, taskVars, watchVars, memVars
<1>1. NoTransition("Alice") \/ (\E s : Transition("Alice", s))
  OBVIOUS
<1>2. /\ UNCHANGED inbox \/ alice_reveal_to_alice_core_arbitrating_setup
      /\ \/ UNCHANGED checkpoint
         \/ /\ alice_reveal_to_alice_core_arbitrating_setup
            /\ checkpoint_state("Alice", "RefundProcedureSignatures",
                                "AliceCoreArbitratingSetup")
         \/ /\ alice_accordant_lock_to_alice_buy_procedure_signature
            /\ checkpoint_state("Alice", "none", "AliceBuyProcedureSignature")
  OBVIOUS
<1>3. \A q \in Party : "AccLockAddr" \in due'[q]
        => "AccLockAddr" \in due[q] \/ conf["AccLock"] >= 0
  BY Labels DEF watch_tx_btc, watch_tx_xmr, retrieve_tx_btc, abort_all, TypeOK, WatchOK
<1>4. "Buy" \in txs'["Alice"] \cup broadcasting_txs'["Alice"]
        => "Buy" \in txs["Alice"] \cup broadcasting_txs["Alice"] \/ GetsBuySignature
  BY Labels DEF broadcast, clear_txs, TypeOK, TaskOK, TxsOK
<1>5. UNCHANGED broadcasting_txs["Bob"]
  BY Labels DEF broadcast, TypeOK, TaskOK
<1> QED
  BY <1>1, <1>2, <1>3, <1>4, <1>5

(***************************************************************************)
(* Messages: m is on its way to p, being handled, or set aside.            *)
(***************************************************************************)
Reached(p, m) ==
    \/ \E i \in 1..Len(inbox[p]) : inbox[p][i] = m
    \/ Received(p, m)
    \/ unhandled_peer_message[p] = m

\* The two messages that hand over signatures.
Signatures == {"RefundProcedureSignatures", "BuyProcedureSignature"}

(***************************************************************************)
(* The end of an arm brings no message to anyone: what it sets aside is    *)
(* what it was handed.                                                     *)
(***************************************************************************)
LEMMA EndingReaches ==
    ASSUME TypeOK, NEW p \in Party, NEW m \in PeerMsg,
           NoTransition(p) \/ (\E s : Transition(p, s))
    PROVE  \A q \in Party : /\ Received(q, m)' => Received(q, m)
                            /\ unhandled_peer_message'[q] = m
                                 => unhandled_peer_message[q] = m \/ Received(q, m)
<1>1. \A q \in Party : Received(q, m)' => Received(q, m)
  <2>1. event' = [event EXCEPT ![p] = NoRequest]
    BY DEF NoTransition, Transition
  <2> QED
    BY <2>1 DEF Received, NoRequest, TypeOK, FlowOK
<1>2. m # "none"
  BY DEF PeerMsg
<1> QED
  BY <1>1, <1>2 DEF NoTransition, Transition, Received, TypeOK, FlowOK

\* An arm that sends nothing.
LEMMA SilentArm ==
    ASSUME TypeOK, NEW p \in Party, NEW m \in PeerMsg,
           NoTransition(p) \/ (\E s : Transition(p, s)), UNCHANGED inbox,
           NEW q \in Party, Reached(q, m)'
    PROVE  Reached(q, m)
BY EndingReaches DEF Reached

\* An arm that sends another message.
LEMMA OtherSent ==
    ASSUME TypeOK, NEW p \in Party, NEW m \in PeerMsg,
           \E s : Transition(p, s), NEW k \in PeerMsg \ {m}, send_peer(p, k),
           NEW q \in Party, Reached(q, m)'
    PROVE  Reached(q, m)
<1>1. inbox'[q] = inbox[q] \/ inbox'[q] = Append(inbox[q], k)
  BY DEF send_peer, TypeOK, InboxOK
<1>2. \A i \in 1..Len(inbox'[q]) : inbox'[q][i] = m =>
        i \in 1..Len(inbox[q]) /\ inbox[q][i] = m
  BY <1>1, AppendProperties, SMTT(120) DEF TypeOK, InboxOK
<1> QED
  BY <1>2, EndingReaches DEF Reached

\* A request that is handed over is a message when it is one of the peer's.
LEMMA HandedOver ==
    ASSUME TypeOK, NEW p \in Party, NEW k, NEW l, NEW n, handle(p, k, l, n), NEW m,
           NEW q \in Party, Received(q, m)'
    PROVE  IF q = p THEN k = "P2p" /\ l = m ELSE Received(q, m)
<1>1. event'[q] = IF q = p THEN [kind |-> k, label |-> l, n |-> n] ELSE event[q]
  BY DEF handle, TypeOK, FlowOK
<1> QED
  BY <1>1 DEF Received

\* The head of an inbox is handed over.
LEMMA HeadReaches ==
    ASSUME TypeOK, NEW p \in Party, inbox[p] # <<>>,
           NEW m \in PeerMsg, NEW q \in Party,
           \E i \in 1..Len(IF q = p THEN Tail(inbox[q]) ELSE inbox[q]) :
             (IF q = p THEN Tail(inbox[q]) ELSE inbox[q])[i] = m
    PROVE  \E i \in 1..Len(inbox[q]) : inbox[q][i] = m
BY HeadTailProperties DEF TypeOK, InboxOK

\* Alice and Bob, up to the reveals.
LEMMA HandshakeReaches ==
    ASSUME TypeOK, NEW p \in Party, HandshakeNext(p), NEW m \in Signatures,
           NEW q \in Party, Reached(q, m)'
    PROVE  Reached(q, m)
<1>1. m \in PeerMsg /\ {"TakerCommit", "MakerCommit", "Reveal"} \subseteq PeerMsg \ {m}
  BY DEF Signatures, PeerMsg
<1>2. PICK s : Transition(p, s)
  BY DEF HandshakeNext, attempt_transition_to_init_taker,
         attempt_transition_to_init_maker, handle_maker_commit,
         attempt_transition_to_reveal, handle_abort_swap, handle_bob_abort_swap
<1>3. CASE UNCHANGED inbox
  BY <1>1, <1>2, <1>3, SilentArm
<1>4. CASE \E k \in {"TakerCommit", "MakerCommit", "Reveal"} : send_peer(p, k)
  BY <1>1, <1>2, <1>4, OtherSent
<1> QED
  BY <1>3, <1>4 DEF HandshakeNext, attempt_transition_to_init_taker,
         attempt_transition_to_init_maker, handle_maker_commit,
         attempt_transition_to_reveal, handle_abort_swap

\* Bob gives his signature for Buy in one arm only.
LEMMA BobReaches ==
    ASSUME TypeOK, BobNext, ~bob_accordant_lock_to_bob_accordant_lock_final,
           NEW m \in Signatures, NEW q \in Party, Reached(q, m)'
    PROVE  Reached(q, m)
<1>1. m \in PeerMsg /\ "CoreArbitratingSetup" \in PeerMsg \ {m} /\ "Bob" \in Party
  BY DEF Signatures, PeerMsg, Party
<1>2. CASE HandshakeNext("Bob")
  BY <1>1, <1>2, HandshakeReaches
<1>3. CASE bob_fee_estimated_to_bob_funded
  BY <1>1, <1>3, OtherSent DEF bob_fee_estimated_to_bob_funded
<1>4. CASE ~HandshakeNext("Bob") /\ ~bob_fee_estimated_to_bob_funded
  BY <1>1, <1>4, BobArm, SilentArm
<1> QED
  BY <1>2, <1>3, <1>4

\* Alice gives hers for Refund in one arm only.
LEMMA AliceReaches ==
    ASSUME TypeOK, AliceNext, ~alice_reveal_to_alice_core_arbitrating_setup,
           NEW m \in Signatures, NEW q \in Party, Reached(q, m)'
    PROVE  Reached(q, m)
<1>1. m \in PeerMsg /\ "Alice" \in Party
  BY DEF Signatures, PeerMsg, Party
<1>2. CASE HandshakeNext("Alice")
  BY <1>1, <1>2, HandshakeReaches
<1>3. CASE ~HandshakeNext("Alice")
  BY <1>1, <1>3, AliceArm, SilentArm
<1> QED
  BY <1>2, <1>3

\* What is delivered was on its way, and what is replayed was set aside.
LEMMA DeliveryReaches ==
    ASSUME TypeOK, NEW m \in Signatures, NEW q \in Party, Reached(q, m)',
           \/ FarcasterdStep \/ UserStep \/ SyncerStep \/ MineBitcoin \/ MineMonero
           \/ \E p \in Party : PeerDelivers(p) \/ Replay(p)
    PROVE  Reached(q, m)
<1>1. m \in PeerMsg /\ m # "DealNotFound" /\ "DealNotFound" \in PeerMsg
  BY DEF Signatures, PeerMsg
<1>2. ASSUME UNCHANGED <<inbox, unhandled_peer_message>>,
             \/ UNCHANGED event
             \/ \E p \in Party, k \in {"Ctl"} \cup SyncEvent : \E l, n : handle(p, k, l, n)
      PROVE  Reached(q, m)
  <2>1. Received(q, m)' => Received(q, m)
    <3>1. ASSUME NEW p \in Party, NEW k \in {"Ctl"} \cup SyncEvent, NEW l, NEW n,
                 handle(p, k, l, n)
          PROVE  Received(q, m)' => Received(q, m)
      BY <3>1, HandedOver DEF SyncEvent
    <3> QED
      BY <1>2, <3>1 DEF Received
  <2> QED
    BY <1>2, <2>1 DEF Reached
<1>3. ASSUME NEW p \in Party, PeerDelivers(p)
      PROVE  Reached(q, m)
  <2>1. inbox[p] # <<>> /\ UNCHANGED unhandled_peer_message
        /\ inbox' = [inbox EXCEPT ![p] = Tail(inbox[p])]
        /\ handle(p, "P2p", Head(inbox[p]), 0)
    BY <1>3 DEF PeerDelivers, ctlUnchanged
  <2>2. inbox'[q] = IF q = p THEN Tail(inbox[q]) ELSE inbox[q]
    BY <2>1 DEF TypeOK, InboxOK
  <2>3. CASE \E i \in 1..Len(inbox'[q]) : inbox'[q][i] = m
    BY <1>1, <2>1, <2>2, <2>3, HeadReaches DEF Reached
  <2>4. CASE Received(q, m)'
    <3>1. q # p => Received(q, m)
      BY <2>1, <2>4, HandedOver
    <3>2. q = p => inbox[q][1] = m /\ 1 \in 1..Len(inbox[q])
      BY <2>1, <2>4, HandedOver, HeadTailProperties DEF TypeOK, InboxOK
    <3> QED
      BY <3>1, <3>2 DEF Reached
  <2> QED
    BY <2>1, <2>3, <2>4 DEF Reached
<1>4. ASSUME NEW p \in Party, Replay(p)
      PROVE  Reached(q, m)
  <2>1. UNCHANGED <<inbox, unhandled_peer_message>>
        /\ \/ handle(p, "P2p", unhandled_peer_message[p], 0)
           \/ \E l, n : handle(p, "TransactionConfirmations", l, n)
    BY <1>4 DEF Replay
  <2>2. Received(q, m)' => Received(q, m) \/ unhandled_peer_message[q] = m
    BY <2>1, HandedOver
  <2> QED
    BY <2>1, <2>2 DEF Reached
<1>5. ASSUME NEW p \in Party, FarcasterdMakes(p) \/ FarcasterdHasNoDeal(p)
      PROVE  Reached(q, m)
  <2>1. /\ inbox[p] # <<>> /\ UNCHANGED unhandled_peer_message
        /\ UNCHANGED event \/ handle(p, "Ctl", "MakeSwap", 0)
    BY <1>5 DEF FarcasterdMakes, FarcasterdHasNoDeal, TakerCommitArrives, ctlUnchanged
  <2>2. Received(q, m)' => Received(q, m)
    BY <2>1, HandedOver DEF Received
  <2>3. \/ inbox'[q] = IF q = p THEN Tail(inbox[q]) ELSE inbox[q]
        \/ q # p /\ inbox'[q] = Append(inbox[q], "DealNotFound")
    BY <1>5, Labels DEF FarcasterdMakes, FarcasterdHasNoDeal, TypeOK, InboxOK, peer
  <2>4. CASE \E i \in 1..Len(inbox'[q]) : inbox'[q][i] = m
    <3>1. CASE inbox'[q] = IF q = p THEN Tail(inbox[q]) ELSE inbox[q]
      BY <1>1, <2>1, <2>4, <3>1, HeadReaches DEF Reached
    <3>2. CASE inbox'[q] = Append(inbox[q], "DealNotFound")
      BY <1>1, <2>4, <3>2, AppendProperties DEF Reached, TypeOK, InboxOK
    <3> QED
      BY <2>3, <3>1, <3>2
  <2> QED
    BY <2>1, <2>2, <2>4 DEF Reached
<1>6. CASE FarcasterdTakes \/ (\E p \in Party : FarcasterdCleansUp(p) \/ UserAborts(p))
  BY <1>2, <1>6 DEF FarcasterdTakes, FarcasterdCleansUp, UserAborts, ctlUnchanged,
                    flowVars, TypeOK, BudgetOK
<1>7. CASE SyncerStep
  BY <1>2, <1>7, Labels, SMTT(120)
     DEF SyncerStep, SyncerConfirms, SyncerSeesAccLock, SyncerRetrieves,
         SyncerSweepsMonero, SyncerBroadcasts, SyncerSeesFunding, SyncerSeesNothing,
         SyncerEstimatesFee, SyncerSweepsBitcoin, eventUnchanged, syncUnchanged,
         ledgerUnchanged, flowVars, SyncEvent
<1>8. CASE \/ MineBitcoin \/ MineMonero
           \/ \E a \in BtcAmounts : UserFundsBitcoin(a)
           \/ \E s \in XmrAmounts : UserFundsMonero(s)
  BY <1>2, <1>8 DEF MineBitcoin, MineMonero, UserFundsBitcoin, UserFundsMonero,
                    ledgerUnchanged, flowVars
<1> QED
  BY <1>3, <1>4, <1>5, <1>6, <1>7, <1>8 DEF FarcasterdStep, UserStep

\* A stop brings no message, ...
LEMMA CrashReaches ==
    ASSUME TypeOK, NEW p \in Party, Crash(p), NEW m \in PeerMsg,
           NEW q \in Party, Reached(q, m)'
    PROVE  Reached(q, m)
<1>1. m # "none"
  BY DEF PeerMsg
<1>2. inbox'[q] = <<>> \/ inbox'[q] = inbox[q]
  BY DEF Crash
<1>3. /\ Received(q, m)' => Received(q, m)
      /\ unhandled_peer_message'[q] = m => unhandled_peer_message[q] = m
  BY <1>1 DEF Crash, Received, NoRequest, TypeOK, FlowOK
<1> QED
  BY <1>2, <1>3 DEF Reached

\* ... and a restoration the one in the checkpoint.
LEMMA RestoreReaches ==
    ASSUME TypeOK, NEW p \in Party, Restore(p), NEW m \in PeerMsg,
           checkpoint[p].pending_msg # m, NEW q \in Party, Reached(q, m)'
    PROVE  Reached(q, m)
<1> DEFINE k == checkpoint[p].pending_msg
<1>1. inbox'[q] = inbox[q] \/ (k \in PeerMsg /\ inbox'[q] = Append(inbox[q], k))
  BY DEF Restore, send_peer, TypeOK, InboxOK, CheckpointOK, CheckpointSwapd
<1>2. UNCHANGED <<event, unhandled_peer_message>>
  BY DEF Restore
<1>3. \A i \in 1..Len(inbox'[q]) : inbox'[q][i] = m =>
        i \in 1..Len(inbox[q]) /\ inbox[q][i] = m
  BY <1>1, AppendProperties DEF TypeOK, InboxOK
<1> QED
  BY <1>2, <1>3 DEF Reached, Received

-------------------------------------------------------------------------------
(***************************************************************************)
(* Bob's signature for Buy: BuySignatureBacked of SwapProperties.  It is   *)
(* not inductive either: the signature leaves Bob because of what he was   *)
(* told of Alice's monero, which must be what its ledger says; and it may  *)
(* come back from a checkpoint.                                            *)
(***************************************************************************)
AccSeen == conf["AccLock"] >= 0 /\ acc_amount >= 0
AccSafe == final_xmr(conf["AccLock"]) /\ acc_amount >= 0

\* What was, or will be, said of the shared address.
MoneroTold ==
    \A p \in Party :
      /\ "AccLockAddr" \in due[p] => conf["AccLock"] >= 0
      /\ event[p].kind = "AddressTransaction" /\ event[p].label = "AccLock"
           => conf["AccLock"] >= 0 /\ event[p].n = acc_amount
      /\ event[p].kind = "TransactionConfirmations" /\ event[p].label = "AccLock"
           => event[p].n <= conf["AccLock"]

MoneroSeen == ssm["Bob"] = "BobAccordantLock" => AccSeen

\* Bob has no Buy to publish, and no checkpoint of his sends the signature.
BobApart ==
    /\ "Buy" \notin broadcasting_txs["Bob"] \cup checkpoint["Bob"].pending_broadcasts
    /\ checkpoint["Bob"].pending_msg # "BuyProcedureSignature"
    /\ checkpoint["Bob"].state # "BobAccordantLock"

BuyOut ==
    \/ Reached("Alice", "BuyProcedureSignature")
    \/ "Buy" \in txs["Alice"] \cup broadcasting_txs["Alice"]
    \/ "Buy" \in checkpoint["Alice"].txs \cup checkpoint["Alice"].pending_broadcasts
    \/ conf["Buy"] >= 0

BuyInv == MoneroTold /\ MoneroSeen /\ BobApart /\ (BuyOut => AccSafe)

\* The invariant implies the property.
LEMMA BuyInvSuffices == BuyInv => BuySignatureBacked
BY DEF BuyInv, BuyOut, BuySignatureBacked, BuySignatureOut, Reached, AccSafe

\* What was paid at the shared address stays there.
LEMMA MoneroForGood ==
    ASSUME TypeOK, conf'["AccLock"] >= conf["AccLock"],
           conf["AccLock"] >= 0 => UNCHANGED acc_amount,
           TypeOK'
    PROVE  (AccSeen => AccSeen') /\ (AccSafe => AccSafe') /\ (AccSafe => AccSeen)
<1>1. conf["AccLock"] \in Int /\ conf'["AccLock"] \in Int
  BY ConfsType, Labels DEF TypeOK, LedgerOK
<1> QED
  BY <1>1, TemporalSafetyAssumption DEF AccSeen, AccSafe, final_xmr

\* An arm of a handler.
LEMMA ArmBacked ==
    ASSUME TypeOK, BuyInv, NEW p \in Party,
           NoTransition(p) \/ (\E s : Transition(p, s)),
           UNCHANGED <<conf, acc_amount>>,
           \A q \in Party : "AccLockAddr" \in due'[q]
             => "AccLockAddr" \in due[q] \/ conf["AccLock"] >= 0,
           ssm'["Bob"] = "BobAccordantLock" => ssm["Bob"] = "BobAccordantLock" \/ AccSeen,
           BobApart', BuyOut' => BuyOut \/ AccSafe
    PROVE  BuyInv'
<1>1. event' = [event EXCEPT ![p] = NoRequest]
  BY DEF NoTransition, Transition
<1>2. MoneroTold'
  BY <1>1 DEF BuyInv, MoneroTold, NoRequest, TypeOK, FlowOK
<1>3. MoneroSeen' /\ (BuyOut' => AccSafe')
  BY DEF BuyInv, MoneroSeen, AccSeen, AccSafe
<1> QED
  BY <1>2, <1>3 DEF BuyInv

\* A request that is handed over.
LEMMA HandedBacked ==
    ASSUME TypeOK, BuyInv, NEW p \in Party, NEW k, NEW l, NEW n, handle(p, k, l, n),
           k = "AddressTransaction" /\ l = "AccLock"
             => conf["AccLock"] >= 0 /\ n = acc_amount,
           k = "TransactionConfirmations" /\ l = "AccLock" => n <= conf["AccLock"],
           \A q \in Party : "AccLockAddr" \in due'[q] => "AccLockAddr" \in due[q],
           UNCHANGED <<ssm, txs, broadcasting_txs, checkpoint, conf, acc_amount>>,
           Reached("Alice", "BuyProcedureSignature")'
             => Reached("Alice", "BuyProcedureSignature")
    PROVE  BuyInv'
<1>1. \A q \in Party :
        event'[q] = IF q = p THEN [kind |-> k, label |-> l, n |-> n] ELSE event[q]
  BY DEF handle, TypeOK, FlowOK
<1>2. MoneroTold'
  BY <1>1 DEF BuyInv, MoneroTold
<1>3. MoneroSeen' /\ BobApart' /\ (BuyOut' => AccSafe')
  BY DEF BuyInv, MoneroSeen, BobApart, BuyOut, AccSeen, AccSafe
<1> QED
  BY <1>2, <1>3 DEF BuyInv

\* A step of the ledgers or of the users.
LEMMA LedgerBacked ==
    ASSUME TypeOK, TypeOK', BuyInv,
           UNCHANGED <<ssm, event, unhandled_peer_message, inbox, txs, checkpoint>>,
           conf'["AccLock"] >= conf["AccLock"],
           conf["AccLock"] >= 0 => UNCHANGED acc_amount,
           \A q \in Party : /\ broadcasting_txs'[q] \subseteq broadcasting_txs[q]
                            /\ "AccLockAddr" \in due'[q]
                                 => "AccLockAddr" \in due[q] \/ conf'["AccLock"] >= 0,
           conf'["Buy"] >= 0 =>
             conf["Buy"] >= 0 \/ (\E q \in Party : "Buy" \in broadcasting_txs[q])
    PROVE  BuyInv'
<1>1. /\ AccSeen => AccSeen'
      /\ AccSafe => AccSafe'
  BY MoneroForGood
<1>2. conf["AccLock"] \in Int /\ conf'["AccLock"] \in Int
  BY ConfsType, Labels DEF TypeOK, LedgerOK
<1>3. \A q \in Party : event[q].n \in Int
  BY ConfsType DEF TypeOK, FlowOK, Request
<1>4. MoneroTold'
  BY <1>2, <1>3 DEF BuyInv, MoneroTold
<1>5. MoneroSeen' /\ BobApart'
  BY <1>1, Labels DEF BuyInv, MoneroSeen, BobApart
<1>6. BuyOut' => BuyOut
  BY Labels DEF BuyInv, BobApart, BuyOut, Reached, Received
<1> QED
  BY <1>1, <1>4, <1>5, <1>6 DEF BuyInv

-------------------------------------------------------------------------------
\* Alice and Bob, up to the reveals.
LEMMA HandshakeBacked ==
    ASSUME TypeOK, BuyInv, NEW p \in Party, HandshakeNext(p), UNCHANGED <<conf, acc_amount>>
    PROVE  BuyInv'
<1>1. UNCHANGED <<broadcasting_txs, checkpoint, txs>>
  BY DEF attempt_transition_to_init_taker, attempt_transition_to_init_maker,
         handle_maker_commit, attempt_transition_to_reveal, handle_abort_swap,
         handle_bob_abort_swap, HandshakeNext, taskVars
<1>2. \A q \in Party : "AccLockAddr" \in due'[q] => "AccLockAddr" \in due[q]
  BY DEF attempt_transition_to_init_taker, attempt_transition_to_init_maker,
         handle_maker_commit, attempt_transition_to_reveal, handle_abort_swap,
         handle_bob_abort_swap, HandshakeNext, watchVars, TypeOK, WatchOK
<1>3. PICK s : Transition(p, s) /\ s # "BobAccordantLock"
  BY DEF attempt_transition_to_init_taker, attempt_transition_to_init_maker,
         handle_maker_commit, attempt_transition_to_reveal, handle_abort_swap,
         handle_bob_abort_swap, HandshakeNext, InitTaker, InitMaker,
         TakerMakerCommit, RevealState, Party
<1>4. ssm'["Bob"] = "BobAccordantLock" => ssm["Bob"] = "BobAccordantLock"
  BY <1>3 DEF Transition, TypeOK, FlowOK
<1>5. BobApart' /\ (BuyOut' => BuyOut)
  BY <1>1, HandshakeReaches, Labels DEF BuyInv, BobApart, BuyOut, Signatures
<1> QED
  BY <1>2, <1>3, <1>4, <1>5, ArmBacked

\* Bob's arms: the signature leaves him on a final AccLock that paid enough.
LEMMA BobBacked ==
    ASSUME TypeOK, BuyInv, BobNext, UNCHANGED acc_amount
    PROVE  BuyInv'
<1>1. "Bob" \in Party /\ "Alice" \in Party /\ UNCHANGED conf
  BY DEF Party, BobNext
<1>2. CASE HandshakeNext("Bob")
  BY <1>1, <1>2, HandshakeBacked
<1>3. CASE ~HandshakeNext("Bob")
  <2>1. BobApart'
    BY <1>1, <1>3, BobArm
       DEF BuyInv, BobApart, checkpoint_state, TypeOK, CheckpointOK
  <2>2. ssm'["Bob"] = "BobAccordantLock" => ssm["Bob"] = "BobAccordantLock" \/ AccSeen
    <3>1. CASE bob_refund_procedure_signatures_to_bob_accordant_lock
      BY <1>1, <3>1 DEF bob_refund_procedure_signatures_to_bob_accordant_lock, SeesAccLock,
         Paid, BobConfs, Confirmations, BuyInv, MoneroTold, AccSeen
    <3>2. CASE ~bob_refund_procedure_signatures_to_bob_accordant_lock
      BY <1>1, <1>3, <3>2 DEF BobNext, bob_reveal_to_bob_fee_estimated,
       bob_fee_estimated_to_abort, handle_bob_abort_swap, bob_fee_estimated_to_bob_funded,
       bob_funded_to_bob_refund_procedure_signature,
       bob_accordant_lock_to_bob_accordant_lock_final,
       bob_accordant_lock_final_retrieves_buy, bob_accordant_lock_final_to_bob_buy_final,
       bob_buy_final_to_bob_buy_sweeping, bob_buy_sweeping_to_swap_end,
       bob_canceled_to_bob_cancel_final, bob_cancel_final_to_swap_end,
       awaiting_sweep_to_swap_end, bob_broadcasts_cancel, bob_canceled, bob_ignores,
       Transition, NoTransition, TypeOK, FlowOK
    <3> QED
      BY <3>1, <3>2
  <2>3. BuyOut' => BuyOut \/ AccSafe
    <3>1. CASE bob_accordant_lock_to_bob_accordant_lock_final
      <4>1. final_xmr(event["Bob"].n) /\ event["Bob"].n <= conf["AccLock"] /\ AccSeen
        BY <1>1, <3>1 DEF bob_accordant_lock_to_bob_accordant_lock_final, SeesAccLockFinal,
           Confirmed, BobConfs, Confirmations, BuyInv, MoneroTold, MoneroSeen
      <4>2. conf["AccLock"] \in Int /\ event["Bob"].n \in Int
        BY <1>1, ConfsType, Labels DEF TypeOK, LedgerOK, FlowOK, Request
      <4> QED
        BY <4>1, <4>2, TemporalSafetyAssumption DEF AccSeen, AccSafe, final_xmr
    <3>2. CASE ~bob_accordant_lock_to_bob_accordant_lock_final
      <4>1. UNCHANGED checkpoint["Alice"]
        BY <1>1, <1>3, BobArm, Labels DEF checkpoint_state, TypeOK, CheckpointOK
      <4> QED
        BY <1>1, <1>3, <3>2, <4>1, BobArm, BobReaches DEF BuyOut, Signatures
    <3> QED
      BY <3>1, <3>2
  <2> QED
    BY <1>1, <1>3, <2>1, <2>2, <2>3, BobArm, ArmBacked
<1> QED
  BY <1>2, <1>3

\* Alice's arms: whatever has Buy in it came of the signature.
LEMMA AliceBacked ==
    ASSUME TypeOK, BuyInv, AliceNext, UNCHANGED acc_amount
    PROVE  BuyInv'
<1>1. "Bob" \in Party /\ "Alice" \in Party /\ UNCHANGED conf
  BY DEF Party, AliceNext
<1>2. CASE HandshakeNext("Alice")
  BY <1>1, <1>2, HandshakeBacked
<1>3. CASE ~HandshakeNext("Alice")
  <2>1. ssm'["Bob"] = ssm["Bob"]
    BY <1>1, <1>3, AliceArm, Labels DEF NoTransition, Transition, TypeOK, FlowOK
  <2>2. /\ UNCHANGED checkpoint["Bob"]
        /\ \/ UNCHANGED checkpoint["Alice"]
           \/ /\ checkpoint'["Alice"].txs = txs'["Alice"]
              /\ checkpoint'["Alice"].pending_broadcasts = broadcasting_txs'["Alice"]
    BY <1>1, <1>3, AliceArm, Labels DEF checkpoint_state, TypeOK, CheckpointOK
  <2>3. BobApart'
    BY <1>3, <2>2, AliceArm DEF BuyInv, BobApart
  <2>4. BuyOut' => BuyOut
    <3>1. GetsBuySignature => BuyOut
      BY DEF GetsBuySignature, BuyOut, Reached
    <3>2. Reached("Alice", "BuyProcedureSignature")'
            => Reached("Alice", "BuyProcedureSignature")
      <4>1. CASE alice_reveal_to_alice_core_arbitrating_setup
        <5>1. Transition("Alice", "AliceCoreArbitratingSetup")
              /\ send_peer("Alice", "RefundProcedureSignatures")
          BY <4>1 DEF alice_reveal_to_alice_core_arbitrating_setup
        <5> QED
          BY <1>1, <5>1, OtherSent DEF PeerMsg
      <4>2. CASE ~alice_reveal_to_alice_core_arbitrating_setup
        BY <1>1, <4>2, AliceReaches DEF Signatures
      <4> QED
        BY <4>1, <4>2
    <3> QED
      BY <1>1, <1>3, <2>2, <3>1, <3>2, AliceArm DEF BuyOut
  <2> QED
    BY <1>1, <1>3, <2>1, <2>3, <2>4, AliceArm, ArmBacked
<1> QED
  BY <1>2, <1>3

\* Everything that hands a request to a process.
LEMMA DeliveryBacked ==
    ASSUME TypeOK, BuyInv,
           \/ FarcasterdTakes \/ SyncerSeesFunding \/ SyncerSeesNothing
           \/ SyncerEstimatesFee \/ SyncerSweepsBitcoin
           \/ \E p \in Party : \/ FarcasterdMakes(p) \/ PeerDelivers(p) \/ UserAborts(p)
                               \/ SyncerSeesAccLock(p) \/ SyncerSweepsMonero(p)
                               \/ \E l \in TxLabel : SyncerConfirms(p, l)
                               \/ \E l \in {"Buy", "Refund"} : SyncerRetrieves(p, l)
    PROVE  BuyInv'
<1> USE DEF ctlUnchanged, eventUnchanged, syncUnchanged, watchVars, taskVars, ledgerVars
<1>1. Reached("Alice", "BuyProcedureSignature")'
        => Reached("Alice", "BuyProcedureSignature")
  BY DeliveryReaches, Labels DEF FarcasterdStep, SyncerStep, UserStep, Signatures
<1>2. CASE FarcasterdTakes
  BY <1>1, <1>2, HandedBacked DEF FarcasterdTakes, TypeOK, BudgetOK
<1>3. ASSUME NEW p \in Party, FarcasterdMakes(p) \/ PeerDelivers(p) \/ UserAborts(p)
      PROVE  BuyInv'
  BY <1>1, <1>3, HandedBacked DEF FarcasterdMakes, PeerDelivers, UserAborts
<1>4. ASSUME NEW p \in Party, NEW l \in TxLabel, SyncerConfirms(p, l)
      PROVE  BuyInv'
  <2>1. \A q \in Party : "AccLockAddr" \in due'[q] => "AccLockAddr" \in due[q]
    BY <1>4 DEF SyncerConfirms, TypeOK, WatchOK
  <2>2. conf["AccLock"] <= conf["AccLock"]
    BY ConfsType, Labels DEF TypeOK, LedgerOK
  <2> QED
    BY <1>1, <1>4, <2>1, <2>2, HandedBacked DEF SyncerConfirms
<1>5. ASSUME NEW p \in Party, SyncerSeesAccLock(p)
      PROVE  BuyInv'
  <2>1. \A q \in Party : "AccLockAddr" \in due'[q] => "AccLockAddr" \in due[q]
    BY <1>5 DEF SyncerSeesAccLock, TypeOK, WatchOK
  <2>2. conf["AccLock"] >= 0
    BY <1>5 DEF SyncerSeesAccLock, owes, BuyInv, MoneroTold
  <2> QED
    BY <1>1, <1>5, <2>1, <2>2, HandedBacked DEF SyncerSeesAccLock
<1>6. ASSUME NEW p \in Party, NEW l \in {"Buy", "Refund"}, SyncerRetrieves(p, l)
      PROVE  BuyInv'
  <2>1. \A q \in Party : "AccLockAddr" \in due'[q] => "AccLockAddr" \in due[q]
    BY <1>6 DEF SyncerRetrieves, TypeOK, WatchOK
  <2> QED
    BY <1>1, <1>6, <2>1, HandedBacked DEF SyncerRetrieves
<1>7. ASSUME NEW p \in Party, SyncerSweepsMonero(p)
      PROVE  BuyInv'
  BY <1>1, <1>7, HandedBacked DEF SyncerSweepsMonero
<1>8. CASE SyncerSeesFunding \/ SyncerSeesNothing \/ SyncerEstimatesFee
  <2>1. \A q \in Party : "AccLockAddr" \in due'[q] => "AccLockAddr" \in due[q]
    BY <1>8 DEF SyncerSeesFunding, SyncerSeesNothing, SyncerEstimatesFee, TypeOK, WatchOK
  <2> QED
    BY <1>1, <1>8, <2>1, HandedBacked, Labels
       DEF SyncerSeesFunding, SyncerSeesNothing, SyncerEstimatesFee
<1>9. CASE SyncerSweepsBitcoin
  BY <1>1, <1>9, HandedBacked, Labels DEF SyncerSweepsBitcoin
<1> QED
  BY <1>2, <1>3, <1>4, <1>5, <1>6, <1>7, <1>8, <1>9

\* A replay is of an event that says nothing of the monero.
LEMMA ReplayBacked ==
    ASSUME TypeOK, BuyInv, NEW p \in Party, Replay(p), UNCHANGED ledgerVars
    PROVE  BuyInv'
<1> USE DEF Replay, ledgerVars, watchVars, taskVars
<1>1. Reached("Alice", "BuyProcedureSignature")'
        => Reached("Alice", "BuyProcedureSignature")
  BY DeliveryReaches, Labels DEF Signatures
<1>2. Head(replays[p]) \in {"unhandled", "Buy", "Lock", "Cancel"}
  BY HeadTailProperties DEF TypeOK, FlowOK
<1>3. CASE Head(replays[p]) = "unhandled"
  BY <1>1, <1>3, HandedBacked
<1>4. CASE Head(replays[p]) # "unhandled"
  BY <1>1, <1>2, <1>4, HandedBacked
<1> QED
  BY <1>3, <1>4

\* farcasterd starts no maker, or takes a checkpoint away.
LEMMA FarcasterdBacked ==
    ASSUME TypeOK, BuyInv, NEW p \in Party,
           FarcasterdHasNoDeal(p) \/ FarcasterdCleansUp(p)
    PROVE  BuyInv'
<1>1. Reached("Alice", "BuyProcedureSignature")'
        => Reached("Alice", "BuyProcedureSignature")
  BY DeliveryReaches, Labels DEF FarcasterdStep, Signatures
<1>2. UNCHANGED <<event, due, txs, broadcasting_txs, conf, acc_amount>>
      /\ ssm'["Bob"] \in {ssm["Bob"], "Down"}
  BY Labels DEF FarcasterdHasNoDeal, FarcasterdCleansUp, flowVars, watchVars, taskVars,
                ledgerVars, TypeOK, FlowOK
<1>3. \A q \in Party : checkpoint'[q] \in {checkpoint[q], NoCheckpoint}
  BY DEF FarcasterdHasNoDeal, FarcasterdCleansUp, TypeOK, CheckpointOK
<1>4. MoneroTold' /\ MoneroSeen'
  BY <1>2 DEF BuyInv, MoneroTold, MoneroSeen, AccSeen
<1>5. BobApart' /\ (BuyOut' => BuyOut)
  BY <1>1, <1>2, <1>3, Labels DEF BuyInv, BobApart, BuyOut, NoCheckpoint
<1> QED
  BY <1>2, <1>4, <1>5 DEF BuyInv, AccSafe

\* The ledgers, and the users.
LEMMA LedgersBacked ==
    ASSUME TypeOK, TypeOK', BuyInv,
           \/ MineBitcoin \/ MineMonero
           \/ \E a \in BtcAmounts : UserFundsBitcoin(a)
           \/ \E s \in XmrAmounts : UserFundsMonero(s)
           \/ \E p \in Party, l \in BtcTx : SyncerBroadcasts(p, l)
    PROVE  BuyInv'
<1> USE DEF ledgerUnchanged, flowVars
<1>1. /\ \A l \in TxLabel : conf[l] \in -1..MaxConfs
      /\ "AccLock" \in TxLabel /\ "AccLock" \notin BtcTx /\ "Buy" \in TxLabel
      /\ "Lock" \in TxLabel /\ conf \in [TxLabel -> Confs]
  BY ConfsType, Labels DEF TypeOK, LedgerOK
<1>2. CASE MineBitcoin
  <2>1. PICK S \in SUBSET mempool :
          conf' = [l \in TxLabel |->
                     IF l = "AccLock" THEN conf[l]
                     ELSE IF l \in S \/ conf[l] > 0 THEN grown(conf[l])
                     ELSE IF rivals[l] \cap S # {} THEN -1
                     ELSE conf[l]]
    BY <1>2 DEF MineBitcoin
  <2>2. conf'["AccLock"] = conf["AccLock"] /\ (conf'["Buy"] >= 0 => conf["Buy"] >= 0)
    BY <1>1, <2>1, ConfsType DEF mempool
  <2>3. \A q \in Party : "AccLockAddr" \in due'[q] => "AccLockAddr" \in due[q]
    BY <1>2, Labels DEF MineBitcoin, TypeOK, WatchOK
  <2>4. UNCHANGED <<ssm, event, unhandled_peer_message, inbox, txs, checkpoint,
                    broadcasting_txs, acc_amount>>
    BY <1>2 DEF MineBitcoin
  <2> QED
    BY <1>1, <2>2, <2>3, <2>4, LedgerBacked
<1>3. CASE MineMonero
  <2>1. conf'["AccLock"] >= conf["AccLock"] /\ conf'["Buy"] = conf["Buy"]
    BY <1>1, <1>3, ConfsType DEF MineMonero, grown
  <2>2. \A q \in Party : "AccLockAddr" \in due'[q] => "AccLockAddr" \in due[q]
    BY <1>3, Labels DEF MineMonero, TypeOK, WatchOK
  <2> QED
    BY <1>3, <2>1, <2>2, LedgerBacked DEF MineMonero
<1>4. ASSUME NEW a \in BtcAmounts, UserFundsBitcoin(a)
      PROVE  BuyInv'
  <2>1. \A q \in Party : "AccLockAddr" \in due'[q] => "AccLockAddr" \in due[q]
    BY <1>4, Labels DEF UserFundsBitcoin, TypeOK, WatchOK
  <2> QED
    BY <1>1, <1>4, <2>1, LedgerBacked DEF UserFundsBitcoin
<1>5. ASSUME NEW s \in XmrAmounts, UserFundsMonero(s)
      PROVE  BuyInv'
  <2>1. conf["AccLock"] = -1 /\ conf'["AccLock"] = 0 /\ conf'["Buy"] = conf["Buy"]
    BY <1>1, <1>5 DEF UserFundsMonero
  <2> QED
    BY <1>1, <1>5, <2>1, LedgerBacked DEF UserFundsMonero
<1>6. ASSUME NEW p \in Party, NEW l \in BtcTx, SyncerBroadcasts(p, l)
      PROVE  BuyInv'
  <2>1. /\ conf'["AccLock"] = conf["AccLock"]
        /\ conf'["Buy"] >= 0 => conf["Buy"] >= 0 \/ "Buy" \in broadcasting_txs[p]
    BY <1>1, <1>6 DEF SyncerBroadcasts
  <2>2. \A q \in Party : /\ broadcasting_txs'[q] \subseteq broadcasting_txs[q]
                         /\ "AccLockAddr" \in due'[q] => "AccLockAddr" \in due[q]
    BY <1>6, Labels DEF SyncerBroadcasts, TypeOK, WatchOK, TaskOK
  <2>3. UNCHANGED <<ssm, event, unhandled_peer_message, inbox, txs, checkpoint, acc_amount>>
    BY <1>6 DEF SyncerBroadcasts
  <2> QED
    BY <1>1, <2>1, <2>2, <2>3, LedgerBacked
<1> QED
  BY <1>2, <1>3, <1>4, <1>5, <1>6

\* A stop, and a restoration.
LEMMA CrashBacked ==
    ASSUME TypeOK, BuyInv, NEW p \in Party, Crash(p) \/ Restore(p)
    PROVE  BuyInv'
<1>1. UNCHANGED <<checkpoint, conf, acc_amount>>
  BY DEF Crash, Restore, ledgerVars
<1>2. Reached("Alice", "BuyProcedureSignature")'
        => Reached("Alice", "BuyProcedureSignature") \/ (p = "Alice" /\ Restore(p))
  BY CrashReaches, RestoreReaches, Labels DEF BuyInv, BobApart, PeerMsg
<1>3. p = "Alice" /\ Restore(p) => UNCHANGED inbox["Alice"]
  BY Labels DEF Restore, send_peer, peer, TypeOK, InboxOK
<1>4. Reached("Alice", "BuyProcedureSignature")'
        => Reached("Alice", "BuyProcedureSignature")
  BY <1>2, <1>3 DEF Reached, Received, Restore
<1>5. \A q \in Party :
        /\ txs'[q] \subseteq txs[q] \cup checkpoint[q].txs
        /\ broadcasting_txs'[q] \subseteq broadcasting_txs[q]
                                          \cup checkpoint[q].pending_broadcasts
        /\ "AccLockAddr" \in due'[q] => "AccLockAddr" \in due[q] \/ conf["AccLock"] >= 0
        /\ event'[q] \in {event[q], NoRequest}
        /\ ssm'[q] \in {ssm[q], "Down", checkpoint[q].state}
  <2>1. ASSUME NEW q \in Party, Crash(p)
        PROVE  /\ txs'[q] \subseteq txs[q] /\ broadcasting_txs'[q] \subseteq broadcasting_txs[q]
               /\ due'[q] \subseteq due[q] /\ event'[q] \in {event[q], NoRequest}
               /\ ssm'[q] \in {ssm[q], "Down"}
    BY <2>1 DEF Crash, TypeOK, FlowOK, WatchOK, TaskOK, TxsOK
  <2>2. ASSUME NEW q \in Party, Restore(p)
        PROVE  /\ txs'[q] \subseteq txs[q] \cup checkpoint[q].txs
               /\ broadcasting_txs'[q] \subseteq broadcasting_txs[q]
                                                 \cup checkpoint[q].pending_broadcasts
               /\ "AccLockAddr" \in due'[q] => "AccLockAddr" \in due[q] \/ conf["AccLock"] >= 0
               /\ UNCHANGED event /\ ssm'[q] \in {ssm[q], checkpoint[q].state}
    <3>1. "AccLockAddr" \notin TxLabel /\ checkpoint[p].txids \subseteq TxLabel
      BY Labels DEF TypeOK, CheckpointOK, CheckpointSwapd
    <3> QED
      BY <2>2, <3>1 DEF Restore, TypeOK, FlowOK, WatchOK, TaskOK, TxsOK
  <2> QED
    BY <2>1, <2>2
<1>6. MoneroTold'
  BY <1>1, <1>5 DEF BuyInv, MoneroTold, NoRequest
<1>7. MoneroSeen' /\ BobApart'
  BY <1>1, <1>5, Labels DEF BuyInv, MoneroSeen, BobApart, AccSeen
<1>8. BuyOut' => BuyOut
  BY <1>1, <1>4, <1>5, Labels DEF BuyOut
<1> QED
  BY <1>1, <1>6, <1>7, <1>8 DEF BuyInv, AccSafe

-------------------------------------------------------------------------------
\* Nothing has been said at the start.
LEMMA BuyInvInit == Init => BuyInv
BY Labels DEF Init, BuyInv, MoneroTold, MoneroSeen, BobApart, BuyOut, Reached, Received,
              NoRequest, NoCheckpoint

\* Every step, put together.
LEMMA BuyInvStep == TypeOK /\ TypeOK' /\ BuyInv /\ [Next]_vars => BuyInv'
<1> SUFFICES ASSUME TypeOK, TypeOK', BuyInv, [Next]_vars PROVE BuyInv'
  OBVIOUS
<1>1. CASE SwapdStep
  BY <1>1, BobBacked, AliceBacked, ReplayBacked DEF SwapdStep, ledgerVars
<1>2. CASE FarcasterdStep \/ (\E p \in Party : PeerDelivers(p))
  BY <1>2, FarcasterdBacked, DeliveryBacked DEF FarcasterdStep
<1>3. CASE SyncerStep
  BY <1>3, DeliveryBacked, LedgersBacked DEF SyncerStep
<1>4. CASE MineBitcoin \/ MineMonero
  BY <1>4, LedgersBacked
<1>5. CASE UserStep
  BY <1>5, DeliveryBacked, LedgersBacked DEF UserStep
<1>6. CASE \E p \in Party : Crash(p) \/ Restore(p)
  BY <1>6, CrashBacked
<1>7. CASE UNCHANGED vars
  BY <1>7 DEF vars, runtimeVars, flowVars, watchVars, taskVars, ledgerVars, BuyInv,
              MoneroTold, MoneroSeen, BobApart, BuyOut, Reached, Received, AccSeen, AccSafe
<1> QED
  BY <1>1, <1>2, <1>3, <1>4, <1>5, <1>6, <1>7 DEF Next

(***************************************************************************)
(* Bob's signature for Buy is nowhere, on its way, set aside, in use, on   *)
(* disk or on the ledger, before monero enough is final at the shared      *)
(* address (try_bob_accordant_lock_to_bob_accordant_lock_final), whatever  *)
(* stops, fails or comes late.                                             *)
(***************************************************************************)
THEOREM SignatureIsBacked == Spec => []BuySignatureBacked
<1>1. Spec => []BuyInv
  BY TypeCorrect, BuyInvInit, BuyInvStep, PTL DEF Spec
<1> QED
  BY <1>1, BuyInvSuffices, PTL

===============================================================================
