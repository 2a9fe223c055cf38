-------------------------- MODULE SwapRecoveryProofs --------------------------
(***************************************************************************)
(* The coins can always be brought back, and nothing that came too early   *)
(* is forgotten: LockRecoverable, NoAbortAfterLock, FundingRecoverable,    *)
(* NothingLeftBehind and OutcomesAgree of SwapProperties hold for any      *)
(* number of stops and restorations, NeverPunished when there are none.    *)
(*                                                                         *)
(* LockRecoverable is not inductive: a restoration publishes what the      *)
(* checkpoint lists, and a later checkpoint would replace the one that     *)
(* matters.  The invariant adds that nobody but Bob ever publishes Lock,   *)
(* that Bob is past every state that writes an earlier checkpoint, and     *)
(* that he can only be restored past them.  The next two rest on the same  *)
(* facts about Alice, and on lemmas that sum up what may move her, the     *)
(* ledgers and the messages.  NothingLeftBehind speaks of idle processes   *)
(* only; its invariant says of busy ones that what a state has a use for   *)
(* is still on the agenda, or in the handler, and that some arm takes it.  *)
(* OutcomesAgree follows from what the ledger excludes, and NeverPunished  *)
(* from all of these: Bob's answer to a final Cancel is never left behind. *)
(***************************************************************************)
EXTENDS SwapProofs

\* Lock is out, or a restoration would send it out.
LockOut == "Lock" \in broadcasting_txs["Bob"] \/ conf["Lock"] >= 0
LockSaved == "Lock" \in checkpoint["Bob"].pending_broadcasts

BeforeLock ==
    {"StartTaker", "StartMaker", "BobInitTaker", "BobInitMaker",
     "BobTakerMakerCommit", "BobReveal", "BobFeeEstimated", "BobFunded",
     "BobAbortAwaitingBitcoinSweep", "FailureAbort"}

OnlyBobLocks ==
    "Lock" \notin broadcasting_txs["Alice"] \cup checkpoint["Alice"].pending_broadcasts
PastLock == LockOut \/ LockSaved => ssm["Bob"] \notin BeforeLock
Durable ==
    LockOut \/ LockSaved =>
      \/ /\ {"Cancel", "Refund"} \subseteq checkpoint["Bob"].txs
         /\ checkpoint["Bob"].state = "BobRefundProcedureSignatures"
      \/ Ended("Bob") /\ checkpoint["Bob"] = NoCheckpoint

RecoveryInv == OnlyBobLocks /\ PastLock /\ Durable

\* The invariant implies the property.
LEMMA RecoveryInvSuffices == RecoveryInv => LockRecoverable
BY DEF RecoveryInv, Durable, LockOut, LockRecoverable

-------------------------------------------------------------------------------
(***************************************************************************)
(* A step that sends out no Lock, writes no checkpoint, and takes Bob      *)
(* neither back to a state before Lock nor out of an outcome.              *)
(***************************************************************************)
LEMMA PlainStep ==
    ASSUME RecoveryInv,
           "Lock" \in broadcasting_txs'["Bob"] => "Lock" \in broadcasting_txs["Bob"],
           "Lock" \in broadcasting_txs'["Alice"] => "Lock" \in broadcasting_txs["Alice"],
           conf'["Lock"] >= 0 => LockOut,
           UNCHANGED checkpoint,
           \/ ssm'["Bob"] = ssm["Bob"]
           \/ ssm["Bob"] \in BeforeLock
           \/ ssm["Bob"] \notin Outcome /\ ssm'["Bob"] \notin BeforeLock
    PROVE  RecoveryInv'
<1> USE DEF RecoveryInv, LockOut, LockSaved
<1>1. OnlyBobLocks'
  BY DEF OnlyBobLocks
<1>2. PastLock'
  BY DEF PastLock
<1>3. Durable'
  BY DEF Durable, PastLock, Ended
<1> QED
  BY <1>1, <1>2, <1>3

\* A transition of p changes no other process.
LEMMA TransitionState ==
    ASSUME TypeOK, NEW p \in Party, NEW s, Transition(p, s)
    PROVE  ssm'[p] = s /\ \A q \in Party \ {p} : ssm'[q] = ssm[q]
BY DEF TypeOK, FlowOK, Transition

\* The arms that Alice and Bob share are Bob's before Lock.
LEMMA HandshakeRecovery ==
    ASSUME TypeOK, RecoveryInv, NEW p \in Party, HandshakeNext(p), UNCHANGED conf
    PROVE  RecoveryInv'
<1>1. UNCHANGED <<broadcasting_txs, checkpoint>>
  BY DEF attempt_transition_to_init_taker, attempt_transition_to_init_maker,
         handle_maker_commit, attempt_transition_to_reveal, handle_abort_swap,
         handle_bob_abort_swap, HandshakeNext, taskVars
<1>2. p = "Bob" => ssm["Bob"] \in BeforeLock
  BY DEF attempt_transition_to_init_taker, attempt_transition_to_init_maker,
         handle_maker_commit, attempt_transition_to_reveal, handle_abort_swap,
         HandshakeNext, TakesSwap, MakesSwap, GetsMakerCommit, GetsReveal,
         GetsAbort, Abortable, Start, InitTaker, InitMaker, TakerMakerCommit,
         RevealState, BeforeLock
<1>3. p # "Bob" => ssm'["Bob"] = ssm["Bob"]
  <2>1. \E s : Transition(p, s)
    BY DEF attempt_transition_to_init_taker, attempt_transition_to_init_maker,
           handle_maker_commit, attempt_transition_to_reveal, handle_abort_swap,
           handle_bob_abort_swap, HandshakeNext
  <2> QED
    BY <2>1, TransitionState, Labels
<1> QED
  BY <1>1, <1>2, <1>3, PlainStep DEF LockOut

(***************************************************************************)
(* Bob's arms: up to Lock they start from a state before it, and after it  *)
(* none leads back.                                                        *)
(***************************************************************************)
LEMMA BobRecovery ==
    ASSUME TypeOK, RecoveryInv, BobNext
    PROVE  RecoveryInv'
<1>1. "Bob" \in Party /\ "Alice" \in Party /\ UNCHANGED conf
  BY DEF Party, BobNext
<1> USE <1>1
<1>2. ASSUME UNCHANGED <<broadcasting_txs, checkpoint>>,
             NEW s, Transition("Bob", s),
             \/ ssm["Bob"] \in BeforeLock
             \/ ssm["Bob"] \notin Outcome /\ s \notin BeforeLock
      PROVE  RecoveryInv'
  BY <1>2, TransitionState, PlainStep DEF LockOut
<1>3. CASE HandshakeNext("Bob")
  BY <1>3, HandshakeRecovery
<1>4. CASE bob_reveal_to_bob_fee_estimated
  BY <1>2, <1>4 DEF bob_reveal_to_bob_fee_estimated, GetsFee, BeforeLock, taskVars
<1>5. CASE bob_fee_estimated_to_abort
  BY <1>2, <1>5 DEF bob_fee_estimated_to_abort, handle_bob_abort_swap,
                    SeesFunding, BeforeLock
<1>6. CASE bob_fee_estimated_to_bob_funded
  <2> USE DEF bob_fee_estimated_to_bob_funded, checkpoint_state
  <2>1. ~LockOut
    BY <1>6 DEF RecoveryInv, PastLock, SeesFunding, BeforeLock
  <2>2. UNCHANGED broadcasting_txs /\ ~LockOut'
    BY <1>6, <2>1 DEF LockOut, taskVars
  <2>3. checkpoint'["Bob"].pending_broadcasts = broadcasting_txs["Bob"]
        /\ checkpoint'["Alice"] = checkpoint["Alice"]
    BY <1>6, <2>2 DEF TypeOK, CheckpointOK
  <2>4. ~LockSaved' /\ OnlyBobLocks'
    BY <2>1, <2>2, <2>3 DEF LockOut, LockSaved, RecoveryInv, OnlyBobLocks
  <2> QED
    BY <2>2, <2>4 DEF RecoveryInv, PastLock, Durable
<1>7. CASE bob_funded_to_bob_refund_procedure_signature
  <2> USE DEF bob_funded_to_bob_refund_procedure_signature, checkpoint_state
  <2>1. {"Cancel", "Refund"} \subseteq txs'["Bob"]
    BY <1>7 DEF TypeOK, TxsOK
  <2>2. /\ checkpoint'["Bob"].txs = txs'["Bob"]
        /\ checkpoint'["Bob"].state = "BobRefundProcedureSignatures"
        /\ checkpoint'["Alice"] = checkpoint["Alice"]
    BY <1>7 DEF TypeOK, CheckpointOK
  <2>3. OnlyBobLocks'
    BY <1>7, <2>2 DEF RecoveryInv, OnlyBobLocks, broadcast, TypeOK, TaskOK
  <2>4. PastLock'
    BY <1>7, TransitionState DEF PastLock, BeforeLock
  <2> QED
    BY <2>1, <2>2, <2>3, <2>4 DEF RecoveryInv, Durable
<1>8. CASE \/ bob_refund_procedure_signatures_to_bob_accordant_lock
           \/ bob_accordant_lock_to_bob_accordant_lock_final
           \/ bob_accordant_lock_final_retrieves_buy
           \/ bob_accordant_lock_final_to_bob_buy_final
           \/ bob_buy_final_to_bob_buy_sweeping
           \/ bob_buy_sweeping_to_swap_end
           \/ bob_cancel_final_to_swap_end
           \/ bob_canceled
  <2>1. UNCHANGED <<broadcasting_txs, checkpoint>>
    BY <1>8 DEF bob_refund_procedure_signatures_to_bob_accordant_lock,
       bob_accordant_lock_to_bob_accordant_lock_final,
       bob_accordant_lock_final_retrieves_buy, bob_accordant_lock_final_to_bob_buy_final,
       bob_buy_final_to_bob_buy_sweeping, bob_buy_sweeping_to_swap_end,
       bob_cancel_final_to_swap_end, bob_canceled, taskVars
  <2>2. ssm["Bob"] \notin Outcome
    BY <1>8 DEF bob_refund_procedure_signatures_to_bob_accordant_lock, SeesAccLock,
       bob_accordant_lock_to_bob_accordant_lock_final, SeesAccLockFinal,
       bob_accordant_lock_final_retrieves_buy, SeesBuyFinal,
       bob_accordant_lock_final_to_bob_buy_final, GetsBuy,
       bob_buy_final_to_bob_buy_sweeping, BobMaySweep,
       bob_buy_sweeping_to_swap_end, BobSwept,
       bob_cancel_final_to_swap_end, SeesRefundFinal,
       bob_canceled, BobSeesCancel, BobAfterLock, Outcome
  <2>3. \E s : s \notin BeforeLock /\ Transition("Bob", s)
    BY <1>8 DEF bob_refund_procedure_signatures_to_bob_accordant_lock,
       bob_accordant_lock_to_bob_accordant_lock_final,
       bob_accordant_lock_final_retrieves_buy, bob_accordant_lock_final_to_bob_buy_final,
       bob_buy_final_to_bob_buy_sweeping, bob_buy_sweeping_to_swap_end,
       bob_cancel_final_to_swap_end, bob_canceled, BeforeLock
  <2> QED
    BY <1>2, <2>1, <2>2, <2>3
<1>9. CASE bob_canceled_to_bob_cancel_final
  <2>1. ssm'["Bob"] = "BobCancelFinal"
    BY <1>9, TransitionState DEF bob_canceled_to_bob_cancel_final
  <2>2. ssm["Bob"] \notin Outcome /\ ssm'["Bob"] \notin BeforeLock /\ UNCHANGED checkpoint
    BY <1>9, <2>1 DEF bob_canceled_to_bob_cancel_final, SeesCancelFinal, Outcome, BeforeLock
  <2> QED
    BY <1>9, <2>2, PlainStep
       DEF bob_canceled_to_bob_cancel_final, broadcast, TypeOK, TaskOK, LockOut
<1>10. CASE awaiting_sweep_to_swap_end
  BY <1>2, <1>10 DEF awaiting_sweep_to_swap_end, BobAbortSwept, BeforeLock, taskVars
<1>11. CASE bob_broadcasts_cancel \/ bob_ignores
  BY <1>11, PlainStep
     DEF bob_broadcasts_cancel, bob_ignores, NoTransition, taskVars, broadcast,
         TypeOK, TaskOK, LockOut
<1> QED
  BY <1>3, <1>4, <1>5, <1>6, <1>7, <1>8, <1>9, <1>10, <1>11 DEF BobNext

(***************************************************************************)
(* Alice's arms: she publishes anything but Lock.                          *)
(***************************************************************************)
LEMMA AliceRecovery ==
    ASSUME TypeOK, RecoveryInv, AliceNext
    PROVE  RecoveryInv'
<1>1. "Alice" \in Party /\ "Bob" \in Party \ {"Alice"} /\ UNCHANGED conf
  BY DEF Party, AliceNext
<1>2. CASE HandshakeNext("Alice")
  BY <1>1, <1>2, HandshakeRecovery
<1>3. CASE ~HandshakeNext("Alice")
  <2>1. /\ (\E s : Transition("Alice", s)) \/ UNCHANGED ssm
        /\ \/ UNCHANGED broadcasting_txs
           \/ \E l \in {"Cancel", "Buy", "Punish"} : broadcast("Alice", l)
        /\ UNCHANGED checkpoint \/ (\E m, s : checkpoint_state("Alice", m, s))
    BY <1>3 DEF AliceNext, taskVars, alice_reveal_to_alice_core_arbitrating_setup,
           alice_core_arbitrating_setup_to_alice_arbitrating_lock_final,
           alice_asks_for_funding, alice_stops_funding,
           alice_arbitrating_lock_final_to_alice_accordant_lock,
           alice_accordant_lock_to_alice_canceled,
           alice_accordant_lock_to_alice_buy_procedure_signature,
           alice_buy_procedure_signature_to_swap_end,
           alice_canceled_retrieves_refund, alice_canceled_broadcasts_punish,
           alice_canceled_broadcasts_cancel, alice_canceled_to_punished,
           alice_canceled_to_alice_refund, alice_canceled_to_swap_end,
           alice_refund_to_alice_refund_sweeping,
           alice_refund_sweeping_to_swap_end, alice_canceled,
           alice_broadcasts_cancel, alice_ignores, alice_canceled_publishes,
           NoTransition
  <2>2. ssm'["Bob"] = ssm["Bob"]
    BY <1>1, <2>1, TransitionState
  <2>3. \A p \in Party : "Lock" \in broadcasting_txs'[p] => "Lock" \in broadcasting_txs[p]
    BY <2>1 DEF broadcast, TypeOK, TaskOK
  <2>4. CASE UNCHANGED checkpoint
    BY <1>1, <2>2, <2>3, <2>4, PlainStep DEF LockOut
  <2>5. CASE \E m, s : checkpoint_state("Alice", m, s)
    <3>1. /\ checkpoint'["Bob"] = checkpoint["Bob"]
          /\ checkpoint'["Alice"].pending_broadcasts = broadcasting_txs'["Alice"]
      BY <1>1, <2>5 DEF checkpoint_state, TypeOK, CheckpointOK
    <3>2. OnlyBobLocks'
      BY <1>1, <2>3, <3>1 DEF RecoveryInv, OnlyBobLocks
    <3>3. PastLock' /\ Durable'
      BY <1>1, <2>2, <2>3, <3>1
         DEF RecoveryInv, PastLock, Durable, LockOut, LockSaved, Ended
    <3> QED
      BY <3>2, <3>3 DEF RecoveryInv
  <2> QED
    BY <2>1, <2>4, <2>5
<1> QED
  BY <1>2, <1>3

(***************************************************************************)
(* Everything that is not an arm.                                          *)
(***************************************************************************)
LEMMA AroundRecovery ==
    ASSUME TypeOK, RecoveryInv,
           \/ \E p \in Party : Replay(p) \/ PeerDelivers(p) \/ UserAborts(p)
           \/ FarcasterdTakes
           \/ \E p \in Party : FarcasterdMakes(p)
           \/ \E p \in Party, l \in TxLabel : SyncerConfirms(p, l)
           \/ \E p \in Party : SyncerSeesAccLock(p) \/ SyncerSweepsMonero(p)
           \/ \E p \in Party, l \in {"Buy", "Refund"} : SyncerRetrieves(p, l)
           \/ SyncerSeesFunding \/ SyncerSeesNothing \/ SyncerEstimatesFee
           \/ SyncerSweepsBitcoin
           \/ \E a \in BtcAmounts : UserFundsBitcoin(a)
    PROVE  RecoveryInv'
<1>1. UNCHANGED <<ssm, broadcasting_txs, conf, checkpoint>>
  BY DEF Replay, PeerDelivers, UserAborts, FarcasterdTakes, FarcasterdMakes,
         SyncerConfirms, SyncerSeesAccLock, SyncerSweepsMonero, SyncerRetrieves,
         SyncerSeesFunding, SyncerSeesNothing, SyncerEstimatesFee,
         SyncerSweepsBitcoin, UserFundsBitcoin, ctlUnchanged, eventUnchanged,
         syncUnchanged, ledgerUnchanged, taskVars, flowVars
<1> QED
  BY <1>1, PlainStep DEF LockOut

\* farcasterd takes the checkpoint away only from a swap that has ended.
LEMMA FarcasterdRecovery ==
    ASSUME TypeOK, RecoveryInv, NEW p \in Party,
           FarcasterdHasNoDeal(p) \/ FarcasterdCleansUp(p)
    PROVE  RecoveryInv'
<1>1. CASE FarcasterdHasNoDeal(p)
  <2>1. UNCHANGED <<broadcasting_txs, conf, checkpoint>>
    BY <1>1 DEF FarcasterdHasNoDeal, taskVars
  <2>2. ssm["Bob"] \in BeforeLock \/ ssm'["Bob"] = ssm["Bob"]
    BY <1>1 DEF FarcasterdHasNoDeal, TakerCommitArrives, BeforeLock, TypeOK, FlowOK, Party
  <2> QED
    BY <2>1, <2>2, PlainStep DEF LockOut
<1>2. CASE FarcasterdCleansUp(p)
  <2>1. /\ UNCHANGED <<ssm, broadcasting_txs, conf>> /\ Ended(p)
        /\ checkpoint'[p] = NoCheckpoint
        /\ \A q \in Party \ {p} : checkpoint'[q] = checkpoint[q]
    BY <1>2 DEF FarcasterdCleansUp, flowVars, taskVars, TypeOK, CheckpointOK
  <2>2. p = "Alice" \/ p = "Bob"
    BY DEF Party
  <2>3. "Alice" \in Party /\ "Bob" \in Party
    BY DEF Party
  <2>4. OnlyBobLocks'
    BY <2>1, <2>2, <2>3 DEF RecoveryInv, OnlyBobLocks, NoCheckpoint
  <2>5. PastLock' /\ Durable'
    BY <2>1, <2>2, <2>3
       DEF RecoveryInv, PastLock, Durable, LockOut, LockSaved, Ended, NoCheckpoint
  <2> QED
    BY <2>4, <2>5 DEF RecoveryInv
<1> QED
  BY <1>1, <1>2

\* Lock gets on the ledger only through Bob's broadcast.
LEMMA LockOnLedger ==
    ASSUME TypeOK, RecoveryInv, conf'["Lock"] >= 0,
           \/ MineBitcoin \/ MineMonero
           \/ \E s \in XmrAmounts : UserFundsMonero(s)
           \/ \E p \in Party, l \in BtcTx : SyncerBroadcasts(p, l)
    PROVE  LockOut
<1> USE Labels DEF LockOut, TypeOK, LedgerOK
<1>1. CASE MineBitcoin
  <2>1. "Lock" \in TxLabel /\ "Lock" # "AccLock" /\ rivals["Lock"] = {}
    BY DEF rivals
  <2>2. PICK S \in SUBSET mempool :
          conf'["Lock"] = IF "Lock" \in S \/ conf["Lock"] > 0 THEN grown(conf["Lock"])
                          ELSE IF rivals["Lock"] \cap S # {} THEN -1
                          ELSE conf["Lock"]
    BY <1>1, <2>1 DEF MineBitcoin
  <2>3. conf["Lock"] \in -1..MaxConfs
    BY <2>1, ConfsType
  <2> QED
    BY <2>1, <2>2, <2>3 DEF mempool
<1>2. CASE MineMonero \/ (\E s \in XmrAmounts : UserFundsMonero(s))
  BY <1>2 DEF MineMonero, UserFundsMonero
<1>3. ASSUME NEW p \in Party, NEW l \in BtcTx, SyncerBroadcasts(p, l)
      PROVE  LockOut
  BY <1>3 DEF SyncerBroadcasts, RecoveryInv, OnlyBobLocks
<1> QED
  BY <1>1, <1>2, <1>3

\* A step of the ledgers.
LEMMA LedgerRecovery ==
    ASSUME TypeOK, RecoveryInv,
           \/ MineBitcoin \/ MineMonero
           \/ \E s \in XmrAmounts : UserFundsMonero(s)
           \/ \E p \in Party, l \in BtcTx : SyncerBroadcasts(p, l)
    PROVE  RecoveryInv'
<1>1. UNCHANGED <<ssm, checkpoint>>
  BY DEF MineBitcoin, MineMonero, UserFundsMonero, SyncerBroadcasts,
         ledgerUnchanged, flowVars
<1>2. \A p \in Party : broadcasting_txs'[p] \subseteq broadcasting_txs[p]
  BY DEF MineBitcoin, MineMonero, UserFundsMonero, SyncerBroadcasts, TypeOK, TaskOK
<1> QED
  BY <1>1, <1>2, LockOnLedger, PlainStep, Labels

\* A stop of a swap that has ended only before farcasterd cleaned up.
LEMMA CrashRecovery ==
    ASSUME TypeOK, RecoveryInv, NEW p \in Party, Crash(p)
    PROVE  RecoveryInv'
<1>1. UNCHANGED <<checkpoint, conf>> /\ ssm'[p] = "Down"
      /\ \A q \in Party \ {p} : ssm'[q] = ssm[q]
  BY DEF Crash, TypeOK, FlowOK
<1>2. \A q \in Party : broadcasting_txs'[q] \subseteq broadcasting_txs[q]
  BY DEF Crash, TypeOK, TaskOK
<1>3. Ended(p) => checkpoint[p] # NoCheckpoint
  BY DEF Crash
<1> USE DEF RecoveryInv
<1>4. OnlyBobLocks'
  BY <1>1, <1>2, Labels DEF OnlyBobLocks
<1>5. PastLock' /\ Durable'
  BY <1>1, <1>2, <1>3, Labels
     DEF PastLock, Durable, LockOut, LockSaved, BeforeLock, Ended
<1> QED
  BY <1>4, <1>5

\* A restoration from the checkpoint past Lock.
LEMMA RestoreRecovery ==
    ASSUME TypeOK, RecoveryInv, NEW p \in Party, Restore(p)
    PROVE  RecoveryInv'
<1>1. /\ UNCHANGED <<checkpoint, conf>> /\ ssm[p] = "Down"
      /\ ssm'[p] = checkpoint[p].state
      /\ \A q \in Party \ {p} : ssm'[q] = ssm[q]
      /\ broadcasting_txs'[p] = broadcasting_txs[p] \cup checkpoint[p].pending_broadcasts
      /\ \A q \in Party \ {p} : broadcasting_txs'[q] = broadcasting_txs[q]
  BY DEF Restore, TypeOK, FlowOK, TaskOK
<1> USE DEF RecoveryInv
<1>2. OnlyBobLocks'
  BY <1>1, Labels DEF OnlyBobLocks
<1>3. LockOut' \/ LockSaved' => LockOut \/ LockSaved
  BY <1>1, Labels DEF LockOut, LockSaved
<1>4. PastLock' /\ Durable'
  BY <1>1, <1>3, Labels DEF PastLock, Durable, BeforeLock, Ended, Outcome
<1> QED
  BY <1>2, <1>4

-------------------------------------------------------------------------------
\* There is no Lock at the start.
LEMMA RecoveryInvInit == Init => RecoveryInv
BY Labels DEF Init, RecoveryInv, OnlyBobLocks, PastLock, Durable, LockOut, LockSaved,
              NoCheckpoint

\* Every step, put together.
LEMMA RecoveryInvStep == TypeOK /\ RecoveryInv /\ [Next]_vars => RecoveryInv'
<1> SUFFICES ASSUME TypeOK, RecoveryInv, [Next]_vars PROVE RecoveryInv'
  OBVIOUS
<1>1. CASE SwapdStep
  BY <1>1, BobRecovery, AliceRecovery, AroundRecovery DEF SwapdStep
<1>2. CASE FarcasterdStep \/ (\E p \in Party : PeerDelivers(p))
  BY <1>2, FarcasterdRecovery, AroundRecovery DEF FarcasterdStep
<1>3. CASE SyncerStep
  BY <1>3, AroundRecovery, LedgerRecovery DEF SyncerStep
<1>4. CASE MineBitcoin \/ MineMonero
  BY <1>4, LedgerRecovery
<1>5. CASE UserStep
  BY <1>5, AroundRecovery, LedgerRecovery DEF UserStep
<1>6. CASE \E p \in Party : Crash(p) \/ Restore(p)
  BY <1>6, CrashRecovery, RestoreRecovery
<1>7. CASE UNCHANGED vars
  BY <1>7, PlainStep DEF vars, runtimeVars, flowVars, taskVars, LockOut
<1> QED
  BY <1>1, <1>2, <1>3, <1>4, <1>5, <1>6, <1>7 DEF Next

(***************************************************************************)
(* Whenever Lock is on its way or on the ledger, Bob has ended or his      *)
(* checkpoint holds Cancel and Refund, however often the two processes     *)
(* stop (try_bob_funded_to_bob_refund_procedure_signature writes it before *)
(* it broadcasts).                                                         *)
(***************************************************************************)
THEOREM LockIsRecoverable == Spec => []LockRecoverable
<1>1. Spec => []RecoveryInv
  BY TypeCorrect, RecoveryInvInit, RecoveryInvStep, PTL DEF Spec
<1> QED
  BY <1>1, RecoveryInvSuffices, PTL

-------------------------------------------------------------------------------
(***************************************************************************)
(* What moves Alice: her own arms, farcasterd, a stop and a restoration.   *)
(***************************************************************************)
AliceApart == <<ssm["Alice"], txs["Alice"], checkpoint["Alice"], awaiting_funding["Alice"]>>

LEMMA AliceMoves ==
    ASSUME TypeOK, [Next]_vars
    PROVE  \/ UNCHANGED AliceApart
           \/ AliceNext
           \/ FarcasterdHasNoDeal("Alice") \/ FarcasterdCleansUp("Alice")
           \/ Crash("Alice") \/ Restore("Alice")
<1> USE Labels DEF AliceApart, flowVars, memVars
<1>1. CASE BobNext
  <2>1. CASE HandshakeNext("Bob")
    BY <2>1 DEF HandshakeNext, attempt_transition_to_init_taker,
         attempt_transition_to_init_maker, handle_maker_commit,
         attempt_transition_to_reveal, handle_abort_swap, handle_bob_abort_swap,
         Transition, TypeOK, FlowOK
  <2>2. CASE ~HandshakeNext("Bob")
    BY <1>1, <2>2, BobArm DEF checkpoint_state, Transition, NoTransition, TypeOK, FlowOK,
                              CheckpointOK
  <2> QED
    BY <2>1, <2>2
<1>2. ASSUME NEW p \in Party, Replay(p) \/ PeerDelivers(p) \/ UserAborts(p)
                              \/ FarcasterdMakes(p)
      PROVE  UNCHANGED AliceApart
  BY <1>2 DEF Replay, PeerDelivers, UserAborts, FarcasterdMakes, ctlUnchanged
<1>3. CASE FarcasterdTakes
  BY <1>3 DEF FarcasterdTakes, ctlUnchanged
<1>4. CASE FarcasterdHasNoDeal("Bob") \/ FarcasterdCleansUp("Bob")
  BY <1>4 DEF FarcasterdHasNoDeal, FarcasterdCleansUp, TypeOK, FlowOK, CheckpointOK
<1>5. CASE SyncerStep
  BY <1>5 DEF SyncerStep, SyncerConfirms, SyncerSeesAccLock, SyncerRetrieves,
         SyncerSweepsMonero, SyncerBroadcasts, SyncerSeesFunding, SyncerSeesNothing,
         SyncerEstimatesFee, SyncerSweepsBitcoin, eventUnchanged, syncUnchanged,
         ledgerUnchanged
<1>6. CASE \/ MineBitcoin \/ MineMonero
           \/ \E a \in BtcAmounts : UserFundsBitcoin(a)
           \/ \E s \in XmrAmounts : UserFundsMonero(s)
  BY <1>6 DEF MineBitcoin, MineMonero, UserFundsBitcoin, UserFundsMonero, ledgerUnchanged
<1>7. CASE Crash("Bob")
  BY <1>7 DEF Crash, TypeOK, FlowOK, TxsOK, MemOK
<1>8. CASE Restore("Bob")
  BY <1>8 DEF Restore, TypeOK, FlowOK, TxsOK
<1>9. CASE UNCHANGED vars
  BY <1>9 DEF vars, runtimeVars
<1> QED
  BY <1>1, <1>2, <1>3, <1>4, <1>5, <1>6, <1>7, <1>8, <1>9
     DEF Next, SwapdStep, FarcasterdStep, UserStep

-------------------------------------------------------------------------------
(***************************************************************************)
(* A swap that has its bitcoin locked is not aborted: NoAbortAfterLock of  *)
(* SwapProperties.  For Bob it is PastLock.  For Alice: Lock goes out only *)
(* on her signatures for Refund, and once they are on their way she is,    *)
(* and will be restored, past every state with an abort.                   *)
(***************************************************************************)
EarlyAlice ==
    {"StartTaker", "StartMaker", "AliceInitTaker", "AliceInitMaker",
     "AliceTakerMakerCommit", "AliceReveal", "FailureAbort",
     "BobAbortAwaitingBitcoinSweep"}

SignaturesOut ==
    LockOut \/ LockSaved \/ Reached("Bob", "RefundProcedureSignatures")

CommitInv ==
    /\ checkpoint["Alice"].state \notin EarlyAlice
    /\ SignaturesOut => ssm["Alice"] \notin EarlyAlice

\* The two invariants imply the property.
LEMMA CommitInvSuffices == TypeOK /\ RecoveryInv /\ CommitInv => NoAbortAfterLock
<1> SUFFICES ASSUME TypeOK, RecoveryInv, CommitInv PROVE NoAbortAfterLock
  OBVIOUS
<1>1. ASSUME NEW p \in Party, ssm[p] \in {"FailureAbort", "BobAbortAwaitingBitcoinSweep"}
      PROVE  ~LockOut
  BY <1>1, Labels DEF CommitInv, EarlyAlice, SignaturesOut, RecoveryInv, PastLock, BeforeLock
<1>2. conf["Lock"] \in -1..MaxConfs
  BY ConfsType, Labels DEF TypeOK, LedgerOK
<1> QED
  BY <1>1, <1>2 DEF NoAbortAfterLock, LockOut

\* Alice does not come back to where she could abort.
LEMMA EarlyBefore ==
    ASSUME TypeOK, CommitInv, [Next]_vars
    PROVE  /\ checkpoint'["Alice"].state \notin EarlyAlice
           /\ ssm'["Alice"] \in EarlyAlice => ssm["Alice"] \in EarlyAlice
<1> USE Labels
<1>1. CASE UNCHANGED AliceApart
  BY <1>1 DEF AliceApart, CommitInv
<1>2. CASE AliceNext
  <2>1. CASE HandshakeNext("Alice")
    <3>1. UNCHANGED checkpoint /\ ssm["Alice"] \in EarlyAlice
      BY <2>1 DEF HandshakeNext, attempt_transition_to_init_taker,
         attempt_transition_to_init_maker, handle_maker_commit,
         attempt_transition_to_reveal, handle_abort_swap, handle_bob_abort_swap,
         TakesSwap, MakesSwap, GetsMakerCommit, GetsReveal, GetsAbort, Abortable, Start,
         InitTaker, InitMaker, TakerMakerCommit, RevealState, EarlyAlice
    <3> QED
      BY <3>1 DEF CommitInv
  <2>2. CASE ~HandshakeNext("Alice")
    <3>1. checkpoint'["Alice"].state \notin EarlyAlice
      BY <1>2, <2>2, AliceArm DEF CommitInv, checkpoint_state, TypeOK, CheckpointOK, EarlyAlice
    <3>2. ssm'["Alice"] \in EarlyAlice => ssm["Alice"] \in EarlyAlice
      BY <1>2, <2>2 DEF AliceNext, alice_reveal_to_alice_core_arbitrating_setup,
       alice_core_arbitrating_setup_to_alice_arbitrating_lock_final,
       alice_asks_for_funding, alice_stops_funding,
       alice_arbitrating_lock_final_to_alice_accordant_lock,
       alice_accordant_lock_to_alice_canceled,
       alice_accordant_lock_to_alice_buy_procedure_signature,
       alice_buy_procedure_signature_to_swap_end,
       alice_canceled_retrieves_refund, alice_canceled_broadcasts_punish,
       alice_canceled_broadcasts_cancel, alice_canceled_to_punished,
       alice_canceled_to_alice_refund, alice_canceled_to_swap_end,
       alice_refund_to_alice_refund_sweeping, alice_refund_sweeping_to_swap_end,
       alice_canceled, alice_broadcasts_cancel, alice_ignores,
       alice_canceled_publishes, Transition, NoTransition, TypeOK, FlowOK, EarlyAlice
    <3> QED
      BY <3>1, <3>2
  <2> QED
    BY <2>1, <2>2
<1>3. CASE FarcasterdHasNoDeal("Alice") \/ Crash("Alice")
  BY <1>3 DEF FarcasterdHasNoDeal, Crash, CommitInv, TypeOK, FlowOK, EarlyAlice
<1>4. CASE FarcasterdCleansUp("Alice")
  BY <1>4 DEF FarcasterdCleansUp, flowVars, TypeOK, CheckpointOK, NoCheckpoint, EarlyAlice
<1>5. CASE Restore("Alice")
  BY <1>5 DEF Restore, CommitInv, TypeOK, FlowOK
<1> QED
  BY <1>1, <1>2, <1>3, <1>4, <1>5, AliceMoves

\* Lock comes of the signatures.
LEMMA LockComes ==
    ASSUME TypeOK, RecoveryInv, [Next]_vars, (LockOut \/ LockSaved)'
    PROVE  LockOut \/ LockSaved \/ bob_funded_to_bob_refund_procedure_signature
<1> USE Labels DEF LockOut, LockSaved
<1>1. CASE BobNext
  <2>1. CASE HandshakeNext("Bob")
    BY <1>1, <2>1 DEF BobNext, HandshakeNext, attempt_transition_to_init_taker,
         attempt_transition_to_init_maker, handle_maker_commit,
         attempt_transition_to_reveal, handle_abort_swap, handle_bob_abort_swap, taskVars
  <2>2. CASE ~HandshakeNext("Bob") /\ ~bob_funded_to_bob_refund_procedure_signature
    BY <1>1, <2>2 DEF BobNext, bob_reveal_to_bob_fee_estimated, bob_fee_estimated_to_abort,
       handle_bob_abort_swap, bob_fee_estimated_to_bob_funded,
       bob_refund_procedure_signatures_to_bob_accordant_lock,
       bob_accordant_lock_to_bob_accordant_lock_final,
       bob_accordant_lock_final_retrieves_buy, bob_accordant_lock_final_to_bob_buy_final,
       bob_buy_final_to_bob_buy_sweeping, bob_buy_sweeping_to_swap_end,
       bob_canceled_to_bob_cancel_final, bob_cancel_final_to_swap_end,
       awaiting_sweep_to_swap_end, bob_broadcasts_cancel, bob_canceled, bob_ignores,
       taskVars, broadcast, checkpoint_state, TypeOK, TaskOK, CheckpointOK
  <2> QED
    BY <2>1, <2>2
<1>2. CASE AliceNext
  <2>1. UNCHANGED conf
    BY <1>2 DEF AliceNext
  <2>2. UNCHANGED <<broadcasting_txs["Bob"], checkpoint["Bob"]>>
    <3>1. CASE HandshakeNext("Alice")
      BY <3>1 DEF HandshakeNext, attempt_transition_to_init_taker,
         attempt_transition_to_init_maker, handle_maker_commit,
         attempt_transition_to_reveal, handle_abort_swap, handle_bob_abort_swap, taskVars
    <3>2. CASE ~HandshakeNext("Alice")
      BY <1>2, <3>2, AliceArm DEF checkpoint_state, TypeOK, CheckpointOK
    <3> QED
      BY <3>1, <3>2
  <2> QED
    BY <2>1, <2>2
<1>3. CASE \/ \E p \in Party : Replay(p) \/ PeerDelivers(p) \/ UserAborts(p)
           \/ FarcasterdTakes
           \/ \E p \in Party : FarcasterdMakes(p) \/ FarcasterdHasNoDeal(p)
                               \/ FarcasterdCleansUp(p)
           \/ \E a \in BtcAmounts : UserFundsBitcoin(a)
  BY <1>3 DEF Replay, PeerDelivers, UserAborts, FarcasterdTakes, FarcasterdMakes,
         FarcasterdHasNoDeal, FarcasterdCleansUp, UserFundsBitcoin, ctlUnchanged,
         ledgerUnchanged, taskVars, flowVars, TypeOK, CheckpointOK, NoCheckpoint
<1>4. CASE \/ \E p \in Party, l \in TxLabel : SyncerConfirms(p, l)
           \/ \E p \in Party : SyncerSeesAccLock(p) \/ SyncerSweepsMonero(p)
           \/ \E p \in Party, l \in {"Buy", "Refund"} : SyncerRetrieves(p, l)
           \/ SyncerSeesFunding \/ SyncerSeesNothing \/ SyncerEstimatesFee
           \/ SyncerSweepsBitcoin
  BY <1>4 DEF SyncerConfirms, SyncerSeesAccLock, SyncerSweepsMonero, SyncerRetrieves,
         SyncerSeesFunding, SyncerSeesNothing, SyncerEstimatesFee, SyncerSweepsBitcoin,
         eventUnchanged, syncUnchanged
<1>5. CASE \/ MineBitcoin \/ MineMonero
           \/ \E s \in XmrAmounts : UserFundsMonero(s)
           \/ \E p \in Party, l \in BtcTx : SyncerBroadcasts(p, l)
  <2>1. UNCHANGED checkpoint /\ broadcasting_txs'["Bob"] \subseteq broadcasting_txs["Bob"]
    BY <1>5 DEF MineBitcoin, MineMonero, UserFundsMonero, SyncerBroadcasts,
                ledgerUnchanged, TypeOK, TaskOK
  <2> QED
    BY <1>5, <2>1, LockOnLedger
<1>6. CASE \E p \in Party : Crash(p) \/ Restore(p)
  BY <1>6 DEF Crash, Restore, TypeOK, TaskOK
<1>7. CASE UNCHANGED vars
  BY <1>7 DEF vars, runtimeVars, taskVars
<1> QED
  BY <1>1, <1>2, <1>3, <1>4, <1>5, <1>6, <1>7
     DEF Next, SwapdStep, FarcasterdStep, SyncerStep, UserStep

\* The signatures come of Alice's setup, or of her checkpoint.
LEMMA SignaturesCome ==
    ASSUME TypeOK, [Next]_vars, Reached("Bob", "RefundProcedureSignatures")'
    PROVE  \/ Reached("Bob", "RefundProcedureSignatures")
           \/ alice_reveal_to_alice_core_arbitrating_setup
           \/ Restore("Alice")
<1> DEFINE m == "RefundProcedureSignatures"
<1>1. m \in Signatures /\ m \in PeerMsg /\ "Bob" \in Party
  BY DEF Signatures, PeerMsg, Party
<1>2. CASE BobNext
  <2>1. CASE bob_accordant_lock_to_bob_accordant_lock_final
    <3>1. Transition("Bob", "BobAccordantLockFinal") /\ send_peer("Bob", "BuyProcedureSignature")
      BY <2>1 DEF bob_accordant_lock_to_bob_accordant_lock_final
    <3>2. "BuyProcedureSignature" \in PeerMsg \ {m}
      BY DEF PeerMsg
    <3> QED
      BY <1>1, <3>1, <3>2, OtherSent
  <2> QED
    BY <1>1, <1>2, <2>1, BobReaches
<1>3. CASE AliceNext
  BY <1>1, <1>3, AliceReaches
<1>4. CASE \/ FarcasterdStep \/ UserStep \/ SyncerStep \/ MineBitcoin \/ MineMonero
           \/ \E p \in Party : PeerDelivers(p) \/ Replay(p)
  BY <1>1, <1>4, DeliveryReaches
<1>5. CASE \E p \in Party : Crash(p)
  BY <1>1, <1>5, CrashReaches
<1>6. CASE Restore("Bob")
  <2>1. UNCHANGED <<event, unhandled_peer_message>> /\ UNCHANGED inbox["Bob"]
    BY <1>6 DEF Restore, send_peer, peer, TypeOK, InboxOK, Party
  <2> QED
    BY <2>1 DEF Reached, Received
<1>7. CASE UNCHANGED vars
  BY <1>7 DEF vars, runtimeVars, flowVars, Reached, Received
<1> QED
  BY <1>2, <1>3, <1>4, <1>5, <1>6, <1>7, Labels DEF Next, SwapdStep

\* No signature is out, and nothing is saved, at the start.
LEMMA CommitInvInit == Init => CommitInv
BY Labels DEF Init, CommitInv, SignaturesOut, LockOut, LockSaved, Reached, Received,
              NoRequest, NoCheckpoint, EarlyAlice

\* A step, put together.
LEMMA CommitInvStep == TypeOK /\ RecoveryInv /\ CommitInv /\ [Next]_vars => CommitInv'
<1> SUFFICES ASSUME TypeOK, RecoveryInv, CommitInv, [Next]_vars PROVE CommitInv'
  OBVIOUS
<1>1. bob_funded_to_bob_refund_procedure_signature => SignaturesOut
  BY DEF bob_funded_to_bob_refund_procedure_signature, GetsRefundSignatures, SignaturesOut,
         Reached
<1>2. alice_reveal_to_alice_core_arbitrating_setup => ssm'["Alice"] \notin EarlyAlice
  BY Labels DEF alice_reveal_to_alice_core_arbitrating_setup, Transition, TypeOK, FlowOK,
                EarlyAlice
<1>3. Restore("Alice") => ssm'["Alice"] \notin EarlyAlice
  BY Labels DEF Restore, CommitInv, TypeOK, FlowOK
<1>4. SignaturesOut' => SignaturesOut \/ ssm'["Alice"] \notin EarlyAlice
  BY <1>1, <1>2, <1>3, LockComes, SignaturesCome DEF SignaturesOut
<1> QED
  BY <1>4, EarlyBefore DEF CommitInv

(***************************************************************************)
(* No swap is aborted, by either process, that has its bitcoin locked or   *)
(* about to be (handle_abort_swap, handle_bob_abort_swap), whatever stops, *)
(* fails or comes late.                                                    *)
(***************************************************************************)
THEOREM NoLateAbort == Spec => []NoAbortAfterLock
<1>1. Spec => []RecoveryInv
  BY TypeCorrect, RecoveryInvInit, RecoveryInvStep, PTL DEF Spec
<1>2. Spec => []CommitInv
  BY <1>1, TypeCorrect, CommitInvInit, CommitInvStep, PTL DEF Spec
<1> QED
  BY <1>1, <1>2, TypeCorrect, CommitInvSuffices, PTL

-------------------------------------------------------------------------------
(***************************************************************************)
(* The monero is locked, and Alice is asked for it, only when she can get  *)
(* it back: FundingRecoverable of SwapProperties.  The invariant adds what *)
(* she was told of Lock, that her checkpoint lists Cancel and Punish       *)
(* whenever there is one, that there is one from her signatures on, and    *)
(* that Punish is still at hand when she writes the second.                *)
(***************************************************************************)
Committed ==
    {"AliceCoreArbitratingSetup", "AliceArbitratingLockFinal", "AliceAccordantLock",
     "AliceBuyProcedureSignature", "AliceCanceled", "AliceRefund",
     "AliceRefundSweeping"}
Funded == awaiting_funding["Alice"] \/ conf["AccLock"] >= 0
Saved == checkpoint["Alice"] # NoCheckpoint

LockTold ==
    /\ event["Alice"].kind = "TransactionConfirmations" /\ event["Alice"].label = "Lock"
       /\ final_btc(event["Alice"].n) => Final("Lock")
    /\ final_btc(saved["Alice"]["Lock"]) => Final("Lock")

\* Her checkpoint.
DiskTrue ==
    /\ Saved => {"Cancel", "Punish"} \subseteq checkpoint["Alice"].txs
    /\ checkpoint["Alice"].state
         \in {"Down", "AliceCoreArbitratingSetup", "AliceBuyProcedureSignature"}
    /\ ssm["Alice"] \in Committed => Saved
    /\ Funded => Ended("Alice") \/ Saved

FundInv ==
    /\ LockTold /\ DiskTrue
    /\ ssm["Alice"] \in {"AliceCoreArbitratingSetup", "AliceArbitratingLockFinal",
                         "AliceAccordantLock"} => "Punish" \in txs["Alice"]
    /\ ssm["Alice"] = "AliceArbitratingLockFinal" \/ Funded => Final("Lock")

\* The invariant implies the property.
LEMMA FundInvSuffices == FundInv => FundingRecoverable
BY DEF FundInv, DiskTrue, FundingRecoverable, Funded, Saved, Final

-------------------------------------------------------------------------------
\* What moves the ledgers.
LEMMA LedgersMove ==
    ASSUME [Next]_vars
    PROVE  \/ UNCHANGED conf
           \/ MineBitcoin \/ MineMonero
           \/ \E s \in XmrAmounts : UserFundsMonero(s)
           \/ \E p \in Party, l \in BtcTx : SyncerBroadcasts(p, l)
<1> USE DEF Next, SwapdStep, FarcasterdStep, SyncerStep, UserStep
<1>1. CASE \/ BobNext \/ AliceNext \/ FarcasterdStep
           \/ \E p \in Party : \/ Replay(p) \/ PeerDelivers(p) \/ UserAborts(p)
                               \/ Crash(p) \/ Restore(p)
           \/ UNCHANGED vars
  BY <1>1 DEF BobNext, AliceNext, Replay, PeerDelivers, UserAborts, Crash, Restore,
              FarcasterdTakes, FarcasterdMakes, FarcasterdHasNoDeal, FarcasterdCleansUp,
              ctlUnchanged, vars
<1>2. CASE \/ \E p \in Party, l \in TxLabel : SyncerConfirms(p, l)
           \/ \E p \in Party : SyncerSeesAccLock(p) \/ SyncerSweepsMonero(p)
           \/ \E p \in Party, l \in {"Buy", "Refund"} : SyncerRetrieves(p, l)
           \/ SyncerSeesFunding \/ SyncerSeesNothing \/ SyncerEstimatesFee
           \/ SyncerSweepsBitcoin
           \/ \E a \in BtcAmounts : UserFundsBitcoin(a)
  BY <1>2 DEF SyncerConfirms, SyncerSeesAccLock, SyncerSweepsMonero, SyncerRetrieves,
         SyncerSeesFunding, SyncerSeesNothing, SyncerEstimatesFee, SyncerSweepsBitcoin,
         UserFundsBitcoin, eventUnchanged, syncUnchanged
<1> QED
  BY <1>1, <1>2

\* Lock has no rival: it stays on the ledger, with no fewer confirmations.
LEMMA LockForGood ==
    ASSUME TypeOK, [Next]_vars
    PROVE  conf'["Lock"] >= conf["Lock"] /\ (Final("Lock") => Final("Lock")')
<1> USE Labels DEF TypeOK, LedgerOK
<1>1. conf["Lock"] \in -1..MaxConfs /\ MaxConfs \in Nat /\ "Lock" \in TxLabel
  BY ConfsType
<1>2. conf'["Lock"] \in Int /\ conf'["Lock"] >= conf["Lock"]
  <2>1. CASE UNCHANGED conf
    BY <1>1, <2>1
  <2>2. CASE MineBitcoin
    <3>1. PICK S \in SUBSET mempool :
            conf'["Lock"] = IF "Lock" \in S \/ conf["Lock"] > 0 THEN grown(conf["Lock"])
                            ELSE IF rivals["Lock"] \cap S # {} THEN -1
                            ELSE conf["Lock"]
      BY <1>1, <2>2 DEF MineBitcoin
    <3>2. rivals["Lock"] = {}
      BY DEF rivals
    <3> QED
      BY <1>1, <3>1, <3>2 DEF grown
  <2>3. CASE MineMonero \/ (\E s \in XmrAmounts : UserFundsMonero(s))
    BY <1>1, <2>3 DEF MineMonero, UserFundsMonero
  <2>4. ASSUME NEW p \in Party, NEW l \in BtcTx, SyncerBroadcasts(p, l)
        PROVE  conf'["Lock"] \in Int /\ conf'["Lock"] >= conf["Lock"]
    BY <1>1, <2>4 DEF SyncerBroadcasts
  <2> QED
    BY <2>1, <2>2, <2>3, <2>4, LedgersMove
<1> QED
  BY <1>1, <1>2, TemporalSafetyAssumption DEF Final, final_btc

\* What Alice is told of Lock is true of the ledger.
LEMMA LockToldKept ==
    ASSUME TypeOK, LockTold, [Next]_vars
    PROVE  LockTold'
<1> USE Labels
<1>1. Final("Lock") => Final("Lock")'
  BY LockForGood
<1>2. ASSUME event'["Alice"] \in {event["Alice"], NoRequest},
             final_btc(saved'["Alice"]["Lock"]) => Final("Lock")
      PROVE  LockTold'
  BY <1>1, <1>2 DEF LockTold, NoRequest
<1>3. ASSUME NEW p \in Party, NEW k, NEW l, NEW n, handle(p, k, l, n),
             p = "Alice" /\ k = "TransactionConfirmations" /\ l = "Lock" /\ final_btc(n)
               => Final("Lock"),
             final_btc(saved'["Alice"]["Lock"]) => Final("Lock")
      PROVE  LockTold'
  <2>1. event'["Alice"] = IF p = "Alice" THEN [kind |-> k, label |-> l, n |-> n]
                                         ELSE event["Alice"]
    BY <1>3 DEF handle, TypeOK, FlowOK
  <2> QED
    BY <1>1, <1>3, <2>1 DEF LockTold
<1>4. UNCHANGED saved => (final_btc(saved'["Alice"]["Lock"]) => Final("Lock"))
  BY DEF LockTold
<1>5. CASE BobNext \/ AliceNext
  <2>1. UNCHANGED saved
    BY <1>5 DEF memVars, BobNext, HandshakeNext, attempt_transition_to_init_taker,
         attempt_transition_to_init_maker, handle_maker_commit,
         attempt_transition_to_reveal, handle_abort_swap, handle_bob_abort_swap,
       bob_reveal_to_bob_fee_estimated, bob_fee_estimated_to_abort,
       bob_fee_estimated_to_bob_funded, bob_funded_to_bob_refund_procedure_signature,
       bob_refund_procedure_signatures_to_bob_accordant_lock,
       bob_accordant_lock_to_bob_accordant_lock_final,
       bob_accordant_lock_final_retrieves_buy, bob_accordant_lock_final_to_bob_buy_final,
       bob_buy_final_to_bob_buy_sweeping, bob_buy_sweeping_to_swap_end,
       bob_canceled_to_bob_cancel_final, bob_cancel_final_to_swap_end,
       awaiting_sweep_to_swap_end, bob_broadcasts_cancel, bob_canceled, bob_ignores,
       AliceNext, alice_reveal_to_alice_core_arbitrating_setup,
       alice_core_arbitrating_setup_to_alice_arbitrating_lock_final,
       alice_asks_for_funding, alice_stops_funding,
       alice_arbitrating_lock_final_to_alice_accordant_lock,
       alice_accordant_lock_to_alice_canceled,
       alice_accordant_lock_to_alice_buy_procedure_signature,
       alice_buy_procedure_signature_to_swap_end,
       alice_canceled_retrieves_refund, alice_canceled_broadcasts_punish,
       alice_canceled_broadcasts_cancel, alice_canceled_to_punished,
       alice_canceled_to_alice_refund, alice_canceled_to_swap_end,
       alice_refund_to_alice_refund_sweeping, alice_refund_sweeping_to_swap_end,
       alice_canceled, alice_broadcasts_cancel, alice_ignores, alice_canceled_publishes
  <2>2. \E p \in Party : NoTransition(p) \/ (\E s : Transition(p, s))
    <3>1. ASSUME NEW p \in Party, HandshakeNext(p) PROVE \E s : Transition(p, s)
      BY <3>1 DEF HandshakeNext, attempt_transition_to_init_taker,
         attempt_transition_to_init_maker, handle_maker_commit,
         attempt_transition_to_reveal, handle_abort_swap, handle_bob_abort_swap
    <3> QED
      BY <1>5, <3>1, BobArm, AliceArm
  <2>3. event'["Alice"] \in {event["Alice"], NoRequest}
    BY <2>2 DEF NoTransition, Transition, TypeOK, FlowOK
  <2> QED
    BY <1>2, <1>4, <2>1, <2>3
<1>6. ASSUME NEW p \in Party, Replay(p)
      PROVE  LockTold'
  <2>1. UNCHANGED saved /\ (p = "Alice" => (final_btc(saved[p]["Lock"]) => Final("Lock")))
    BY <1>6 DEF Replay, memVars, LockTold
  <2>2. CASE Head(replays[p]) = "unhandled"
    BY <1>3, <1>4, <1>6, <2>1, <2>2 DEF Replay
  <2>3. CASE Head(replays[p]) # "unhandled"
    BY <1>3, <1>4, <1>6, <2>1, <2>3 DEF Replay
  <2> QED
    BY <2>2, <2>3
<1>7. ASSUME NEW p \in Party, NEW l \in TxLabel, SyncerConfirms(p, l)
      PROVE  LockTold'
  <2>1. final_btc(saved'["Alice"]["Lock"]) => Final("Lock")
    BY <1>7 DEF SyncerConfirms, save_confs, LockTold, Final, TypeOK, MemOK
  <2> QED
    BY <1>3, <1>7, <2>1 DEF SyncerConfirms, Final
<1>8. CASE \/ FarcasterdTakes
           \/ \E p \in Party : FarcasterdMakes(p) \/ PeerDelivers(p) \/ UserAborts(p)
  BY <1>3, <1>4, <1>8 DEF FarcasterdTakes, FarcasterdMakes, PeerDelivers, UserAborts,
                          ctlUnchanged, memVars, TypeOK, BudgetOK
<1>9. CASE \/ \E p \in Party : SyncerSeesAccLock(p) \/ SyncerSweepsMonero(p)
           \/ \E p \in Party, l \in {"Buy", "Refund"} : SyncerRetrieves(p, l)
           \/ SyncerSeesFunding \/ SyncerSeesNothing \/ SyncerEstimatesFee
           \/ SyncerSweepsBitcoin
  BY <1>3, <1>4, <1>9 DEF SyncerSeesAccLock, SyncerSweepsMonero, SyncerRetrieves,
         SyncerSeesFunding, SyncerSeesNothing, SyncerEstimatesFee, SyncerSweepsBitcoin,
         eventUnchanged
<1>10. CASE \/ MineBitcoin \/ MineMonero
            \/ \E a \in BtcAmounts : UserFundsBitcoin(a)
            \/ \E s \in XmrAmounts : UserFundsMonero(s)
            \/ \E p \in Party, l \in BtcTx : SyncerBroadcasts(p, l)
            \/ \E p \in Party : FarcasterdHasNoDeal(p) \/ FarcasterdCleansUp(p)
                                \/ Restore(p)
            \/ UNCHANGED vars
  BY <1>2, <1>4, <1>10 DEF MineBitcoin, MineMonero, UserFundsBitcoin, UserFundsMonero,
         SyncerBroadcasts, FarcasterdHasNoDeal, FarcasterdCleansUp, Restore,
         ledgerUnchanged, vars, runtimeVars, flowVars, memVars
<1>11. ASSUME NEW p \in Party, Crash(p)
       PROVE  LockTold'
  <2>1. saved'["Alice"]["Lock"] \in {-1, saved["Alice"]["Lock"]}
    BY <1>11 DEF Crash, TypeOK, MemOK
  <2>2. ~final_btc(-1)
    BY TemporalSafetyAssumption DEF final_btc
  <2>3. event'["Alice"] \in {event["Alice"], NoRequest}
    BY <1>11 DEF Crash, TypeOK, FlowOK
  <2> QED
    BY <1>2, <1>4, <2>1, <2>2, <2>3 DEF LockTold
<1> QED
  BY <1>5, <1>6, <1>7, <1>8, <1>9, <1>10, <1>11
     DEF Next, SwapdStep, FarcasterdStep, SyncerStep, UserStep

\* Monero comes of asking for it.
LEMMA FundingComes ==
    ASSUME TypeOK, [Next]_vars, Funded'
    PROVE  Funded \/ alice_asks_for_funding
<1> USE Labels DEF Funded
<1>1. CASE awaiting_funding'["Alice"]
  <2>1. CASE UNCHANGED AliceApart
    BY <1>1, <2>1 DEF AliceApart
  <2>2. CASE AliceNext /\ ~alice_asks_for_funding
    <3>1. CASE HandshakeNext("Alice")
      BY <1>1, <3>1 DEF HandshakeNext, attempt_transition_to_init_taker,
         attempt_transition_to_init_maker, handle_maker_commit,
         attempt_transition_to_reveal, handle_abort_swap, handle_bob_abort_swap, memVars
    <3>2. CASE ~HandshakeNext("Alice")
      BY <1>1, <2>2, <3>2 DEF AliceNext, alice_reveal_to_alice_core_arbitrating_setup,
       alice_core_arbitrating_setup_to_alice_arbitrating_lock_final,
       alice_stops_funding, alice_arbitrating_lock_final_to_alice_accordant_lock,
       alice_accordant_lock_to_alice_canceled,
       alice_accordant_lock_to_alice_buy_procedure_signature,
       alice_buy_procedure_signature_to_swap_end,
       alice_canceled_retrieves_refund, alice_canceled_broadcasts_punish,
       alice_canceled_broadcasts_cancel, alice_canceled_to_punished,
       alice_canceled_to_alice_refund, alice_canceled_to_swap_end,
       alice_refund_to_alice_refund_sweeping, alice_refund_sweeping_to_swap_end,
       alice_canceled, alice_broadcasts_cancel, alice_ignores,
       alice_canceled_publishes, memVars, TypeOK, MemOK
    <3> QED
      BY <3>1, <3>2
  <2>3. CASE \/ FarcasterdHasNoDeal("Alice") \/ FarcasterdCleansUp("Alice")
             \/ Crash("Alice") \/ Restore("Alice")
    BY <1>1, <2>3 DEF FarcasterdHasNoDeal, FarcasterdCleansUp, Crash, Restore, memVars,
                      TypeOK, MemOK
  <2> QED
    BY <2>1, <2>2, <2>3, AliceMoves
<1>2. CASE conf'["AccLock"] >= 0
  <2>1. CASE UNCHANGED conf
    BY <1>2, <2>1
  <2>2. CASE MineBitcoin
    <3>1. conf'["AccLock"] = conf["AccLock"]
      BY <2>2 DEF MineBitcoin
    <3> QED
      BY <1>2, <3>1
  <2>3. CASE MineMonero \/ (\E s \in XmrAmounts : UserFundsMonero(s))
    BY <2>3 DEF MineMonero, UserFundsMonero
  <2>4. ASSUME NEW p \in Party, NEW l \in BtcTx, SyncerBroadcasts(p, l)
        PROVE  Funded
    BY <1>2, <2>4 DEF SyncerBroadcasts, TypeOK, LedgerOK
  <2> QED
    BY <2>1, <2>2, <2>3, <2>4, LedgersMove
<1> QED
  BY <1>1, <1>2

\* What Alice's arms do to her state and her transactions.
LEMMA AliceCommits ==
    ASSUME TypeOK, AliceNext
    PROVE  /\ ssm'["Alice"] \in Committed
                => ssm["Alice"] \in Committed \/ alice_reveal_to_alice_core_arbitrating_setup
           /\ ssm["Alice"] \in Committed => ssm'["Alice"] \in Committed \cup Outcome
           /\ ssm["Alice"] \in Outcome => UNCHANGED ssm["Alice"]
           /\ ssm'["Alice"] \in {"AliceCoreArbitratingSetup", "AliceArbitratingLockFinal",
                                 "AliceAccordantLock"}
                => \/ alice_reveal_to_alice_core_arbitrating_setup
                   \/ /\ "Punish" \in txs["Alice"] => "Punish" \in txs'["Alice"]
                      /\ ssm["Alice"] \in {"AliceCoreArbitratingSetup",
                                           "AliceArbitratingLockFinal",
                                           "AliceAccordantLock"}
           /\ ssm'["Alice"] = "AliceArbitratingLockFinal"
                => \/ ssm["Alice"] = "AliceArbitratingLockFinal"
                   \/ alice_core_arbitrating_setup_to_alice_arbitrating_lock_final
<1> USE Labels DEF Committed, Outcome
<1>1. CASE HandshakeNext("Alice")
  <2>1. UNCHANGED txs
    BY <1>1 DEF HandshakeNext, attempt_transition_to_init_taker,
         attempt_transition_to_init_maker, handle_maker_commit,
         attempt_transition_to_reveal, handle_abort_swap
  <2>2. ssm["Alice"] \in {"StartTaker", "StartMaker", "AliceInitTaker", "AliceInitMaker",
                          "AliceTakerMakerCommit", "AliceReveal"}
    BY <1>1 DEF HandshakeNext, attempt_transition_to_init_taker,
         attempt_transition_to_init_maker, handle_maker_commit,
         attempt_transition_to_reveal, handle_abort_swap,
         TakesSwap, MakesSwap, GetsMakerCommit, GetsReveal, GetsAbort, Abortable, Start,
         InitTaker, InitMaker, TakerMakerCommit, RevealState
  <2>3. ssm'["Alice"] \in {"AliceInitTaker", "AliceInitMaker",
                           "AliceTakerMakerCommit", "AliceReveal", "FailureAbort"}
    BY <1>1 DEF HandshakeNext, attempt_transition_to_init_taker,
         attempt_transition_to_init_maker, handle_maker_commit,
         attempt_transition_to_reveal, handle_abort_swap, Transition, TypeOK, FlowOK,
         InitTaker, InitMaker, TakerMakerCommit, RevealState
  <2> QED
    BY <2>2, <2>3
<1>2. CASE ~HandshakeNext("Alice")
  <2> USE <1>2 DEF AliceNext, alice_reveal_to_alice_core_arbitrating_setup,
       alice_core_arbitrating_setup_to_alice_arbitrating_lock_final,
       alice_asks_for_funding, alice_stops_funding,
       alice_arbitrating_lock_final_to_alice_accordant_lock,
       alice_accordant_lock_to_alice_canceled,
       alice_accordant_lock_to_alice_buy_procedure_signature,
       alice_buy_procedure_signature_to_swap_end,
       alice_canceled_retrieves_refund, alice_canceled_broadcasts_punish,
       alice_canceled_broadcasts_cancel, alice_canceled_to_punished,
       alice_canceled_to_alice_refund, alice_canceled_to_swap_end,
       alice_refund_to_alice_refund_sweeping, alice_refund_sweeping_to_swap_end,
       alice_canceled, alice_broadcasts_cancel, alice_ignores,
       alice_canceled_publishes, Transition, NoTransition, TypeOK, FlowOK,
       GetsCoreArbitratingSetup, SeesLockFinal, SeesNoAccLock, ShouldStopFunding,
       SeesOwnAccLock, GetsBuySignature, SeesOwnBuyFinal, AliceIsCanceled,
       AliceSeesRefundFinal, AliceMayPunish, SeesPunishFinal, CanceledAliceMayCancel,
       GetsRefund, AliceMaySweep, AliceSwept, AliceAfterLock, AliceSeesCancel,
       AliceMayCancel
  <2>1. /\ ssm'["Alice"] \in Committed
             => ssm["Alice"] \in Committed \/ alice_reveal_to_alice_core_arbitrating_setup
        /\ ssm["Alice"] \in Committed => ssm'["Alice"] \in Committed \cup Outcome
        /\ ssm["Alice"] \in Outcome => UNCHANGED ssm["Alice"]
    OBVIOUS
  <2>2. ssm'["Alice"] \in {"AliceCoreArbitratingSetup", "AliceArbitratingLockFinal",
                           "AliceAccordantLock"}
          => \/ alice_reveal_to_alice_core_arbitrating_setup
             \/ /\ "Punish" \in txs["Alice"] => "Punish" \in txs'["Alice"]
                /\ ssm["Alice"] \in {"AliceCoreArbitratingSetup",
                                     "AliceArbitratingLockFinal", "AliceAccordantLock"}
    BY SMTT(120) DEF TxsOK
  <2>3. ssm'["Alice"] = "AliceArbitratingLockFinal"
          => \/ ssm["Alice"] = "AliceArbitratingLockFinal"
             \/ alice_core_arbitrating_setup_to_alice_arbitrating_lock_final
    OBVIOUS
  <2> QED
    BY <2>1, <2>2, <2>3
<1> QED
  BY <1>1, <1>2

\* What Alice may be in without an arm of hers.
LEMMA AliceElse ==
    ASSUME TypeOK, FundInv, [Next]_vars, ~AliceNext
    PROVE  \/ UNCHANGED <<ssm["Alice"], txs["Alice"]>>
           \/ ssm'["Alice"] = "Down"
           \/ /\ Saved /\ txs'["Alice"] = checkpoint["Alice"].txs
              /\ ssm'["Alice"] \in {"Down", "AliceCoreArbitratingSetup",
                                    "AliceBuyProcedureSignature"}
<1>1. CASE UNCHANGED AliceApart
  BY <1>1 DEF AliceApart
<1>2. CASE FarcasterdHasNoDeal("Alice") \/ FarcasterdCleansUp("Alice") \/ Crash("Alice")
  BY <1>2, Labels DEF FarcasterdHasNoDeal, FarcasterdCleansUp, Crash, flowVars, TypeOK, FlowOK
<1>3. CASE Restore("Alice")
  BY <1>3, Labels DEF Restore, FundInv, DiskTrue, Saved, TypeOK, FlowOK, TxsOK
<1> QED
  BY <1>1, <1>2, <1>3, AliceMoves

\* What becomes of Alice's checkpoint.
LEMMA DiskMoves ==
    ASSUME TypeOK, FundInv, [Next]_vars
    PROVE  \/ UNCHANGED checkpoint["Alice"]
           \/ /\ AliceNext /\ Saved'
              /\ {"Cancel", "Punish"} \subseteq checkpoint'["Alice"].txs
              /\ checkpoint'["Alice"].state
                   \in {"AliceCoreArbitratingSetup", "AliceBuyProcedureSignature"}
           \/ Ended("Alice") /\ UNCHANGED ssm["Alice"] /\ checkpoint'["Alice"] = NoCheckpoint
<1> USE Labels
<1>1. CASE UNCHANGED AliceApart
  BY <1>1 DEF AliceApart
<1>2. CASE AliceNext
  <2>1. CASE HandshakeNext("Alice")
    BY <2>1 DEF HandshakeNext, attempt_transition_to_init_taker,
         attempt_transition_to_init_maker, handle_maker_commit,
         attempt_transition_to_reveal, handle_abort_swap
  <2>2. CASE alice_reveal_to_alice_core_arbitrating_setup
    <3>1. {"Cancel", "Punish"} \subseteq txs'["Alice"]
      BY <2>2 DEF alice_reveal_to_alice_core_arbitrating_setup, TypeOK, TxsOK
    <3>2. checkpoint'["Alice"].txs = txs'["Alice"]
          /\ checkpoint'["Alice"].state = "AliceCoreArbitratingSetup"
      BY <2>2 DEF alice_reveal_to_alice_core_arbitrating_setup, checkpoint_state,
                  TypeOK, CheckpointOK
    <3> QED
      BY <1>2, <3>1, <3>2 DEF Saved, NoCheckpoint
  <2>3. CASE alice_accordant_lock_to_alice_buy_procedure_signature
    <3>1. {"Cancel", "Punish"} \subseteq txs'["Alice"]
      BY <2>3 DEF alice_accordant_lock_to_alice_buy_procedure_signature, GetsBuySignature,
                  FundInv, TypeOK, TxsOK
    <3>2. checkpoint'["Alice"].txs = txs'["Alice"]
          /\ checkpoint'["Alice"].state = "AliceBuyProcedureSignature"
      BY <2>3 DEF alice_accordant_lock_to_alice_buy_procedure_signature, checkpoint_state,
                  TypeOK, CheckpointOK
    <3> QED
      BY <1>2, <3>1, <3>2 DEF Saved, NoCheckpoint
  <2>4. CASE ~HandshakeNext("Alice") /\ UNCHANGED checkpoint
    BY <2>4
  <2> QED
    BY <1>2, <2>1, <2>2, <2>3, <2>4, AliceArm
<1>3. CASE FarcasterdCleansUp("Alice")
  BY <1>3 DEF FarcasterdCleansUp, flowVars, TypeOK, CheckpointOK
<1>4. CASE FarcasterdHasNoDeal("Alice") \/ Crash("Alice") \/ Restore("Alice")
  BY <1>4 DEF FarcasterdHasNoDeal, Crash, Restore
<1> QED
  BY <1>1, <1>2, <1>3, <1>4, AliceMoves

\* Nothing is asked for at the start.
LEMMA FundInvInit == Init => FundInv
BY Labels, TemporalSafetyAssumption
   DEF Init, FundInv, LockTold, DiskTrue, Saved, Funded, Committed, NoRequest,
       NoCheckpoint, final_btc

\* A step, put together.
LEMMA FundInvStep == TypeOK /\ FundInv /\ [Next]_vars => FundInv'
<1> SUFFICES ASSUME TypeOK, FundInv, [Next]_vars PROVE FundInv'
  OBVIOUS
<1> USE Labels
<1>1. LockTold'
  BY LockToldKept DEF FundInv
<1>2. ssm'["Alice"] = "AliceArbitratingLockFinal" \/ Funded' => Final("Lock")'
  <2>1. Final("Lock") => Final("Lock")'
    BY LockForGood
  <2>2. Funded' => Final("Lock")
    BY FundingComes DEF FundInv, alice_asks_for_funding, SeesNoAccLock
  <2>3. alice_core_arbitrating_setup_to_alice_arbitrating_lock_final => Final("Lock")
    BY DEF alice_core_arbitrating_setup_to_alice_arbitrating_lock_final, SeesLockFinal,
           Confirmed, AliceConfs, Confirmations, FundInv, LockTold
  <2>4. ssm'["Alice"] = "AliceArbitratingLockFinal" => Final("Lock")
    BY <2>3, AliceCommits, AliceElse DEF FundInv
  <2> QED
    BY <2>1, <2>2, <2>4
<1>3. ssm'["Alice"] \in {"AliceCoreArbitratingSetup", "AliceArbitratingLockFinal",
                         "AliceAccordantLock"} => "Punish" \in txs'["Alice"]
  <2>1. alice_reveal_to_alice_core_arbitrating_setup => "Punish" \in txs'["Alice"]
    BY DEF alice_reveal_to_alice_core_arbitrating_setup, TypeOK, TxsOK
  <2> QED
    BY <2>1, AliceCommits, AliceElse DEF FundInv, DiskTrue
<1>4. DiskTrue'
  <2>1. /\ Saved' => {"Cancel", "Punish"} \subseteq checkpoint'["Alice"].txs
        /\ checkpoint'["Alice"].state
             \in {"Down", "AliceCoreArbitratingSetup", "AliceBuyProcedureSignature"}
    BY DiskMoves DEF FundInv, DiskTrue, Saved, NoCheckpoint
  <2>2. ssm'["Alice"] \in Committed => Saved'
    <3>1. alice_reveal_to_alice_core_arbitrating_setup => Saved'
      BY DEF alice_reveal_to_alice_core_arbitrating_setup, checkpoint_state, Saved,
             NoCheckpoint, TypeOK, CheckpointOK
    <3>2. ssm'["Alice"] \in Committed => Saved \/ Saved'
      BY <3>1, AliceCommits, AliceElse DEF FundInv, DiskTrue, Committed
    <3>3. Saved /\ ~Saved' => ssm'["Alice"] \in Outcome
      BY DiskMoves DEF Saved, Ended
    <3> QED
      BY <3>2, <3>3 DEF Committed, Outcome
  <2>3. Funded' => Ended("Alice")' \/ Saved'
    <3>1. Funded' => Ended("Alice") \/ Saved
      BY FundingComes DEF FundInv, DiskTrue, alice_asks_for_funding, SeesNoAccLock, Committed
    <3>2. Ended("Alice") => Ended("Alice")' \/ Saved'
      <4>1. CASE AliceNext
        BY <4>1, AliceCommits DEF Ended
      <4>2. CASE ~AliceNext
        BY <4>2, AliceMoves DEF AliceApart, Ended, FarcasterdHasNoDeal, TakerCommitArrives,
           FarcasterdCleansUp, flowVars, Crash, Restore, Saved, Outcome
      <4> QED
        BY <4>1, <4>2
    <3>3. Saved => Ended("Alice")' \/ Saved'
      BY DiskMoves DEF Saved, Ended
    <3> QED
      BY <3>1, <3>2, <3>3
  <2> QED
    BY <2>1, <2>2, <2>3 DEF DiskTrue
<1> QED
  BY <1>1, <1>2, <1>3, <1>4 DEF FundInv

(***************************************************************************)
(* Alice is asked for monero, and has locked monero, only on a final Lock  *)
(* and with Cancel and Punish on disk                                      *)
(* (try_alice_reveal_to_alice_core_arbitrating_setup writes them,          *)
(* try_alice_core_arbitrating_setup_to_alice_arbitrating_lock_final asks), *)
(* whatever stops, fails or comes late.                                    *)
(***************************************************************************)
THEOREM FundingIsRecoverable == Spec => []FundingRecoverable
<1>1. Spec => []FundInv
  BY TypeCorrect, FundInvInit, FundInvStep, PTL DEF Spec
<1> QED
  BY <1>1, FundInvSuffices, PTL

-------------------------------------------------------------------------------
(***************************************************************************)
(* What is due again: r is still on the agenda of p, or its handler is     *)
(* being called with what was saved.                                       *)
(***************************************************************************)
OnAgenda(p, r) == \E i \in 1..Len(replays[p]) : replays[p][i] = r
CalledWith(p, l, n) ==
    event[p].kind = "TransactionConfirmations" /\ event[p].label = l /\ event[p].n = n

\* The saved confirmations that the state of p has a use for.
SavedLabel == {"Lock", "Cancel", "Buy"}
Wanted(p, l) ==
    \/ p = "Alice" /\ l = "Buy" /\ ssm[p] = "AliceBuyProcedureSignature"
    \/ p = "Alice" /\ l = "Cancel" /\ ssm[p] = "AliceCanceled"
       /\ valid_punish(saved[p][l]) /\ "Punish" \in txs[p]
    \/ p = "Bob" /\ l = "Buy" /\ ssm[p] = "BobAccordantLockFinal"
       /\ l \notin retrieving_txs[p]
    \/ p = "Bob" /\ l = "Cancel" /\ ssm[p] = "BobCanceled" /\ "Refund" \in txs[p]
    \/ p = "Bob" /\ l = "Lock" /\ BobAfterLock
       /\ valid_cancel(saved[p][l]) /\ "Cancel" \in txs[p]

\* What is wanted is due again.
ConfsDue ==
    \A p \in Party : \A l \in SavedLabel :
      saved[p][l] # -1 /\ Wanted(p, l)
        => OnAgenda(p, l) \/ CalledWith(p, l, saved[p][l])
MessageDue ==
    \A p \in Party :
      unhandled_peer_message[p] = Awaited[ssm[p]]
        => OnAgenda(p, "unhandled") \/ Received(p, unhandled_peer_message[p])

\* Only final confirmations of watched transactions are saved.
SavedSeen ==
    \A p \in Party : \A l \in SavedLabel :
      saved[p][l] # -1 => l \in watched_txs[p] /\ final_btc(saved[p][l])

\* A process that has not begun, or has stopped, has nothing to handle again.
Fresh ==
    \A p \in Party : ssm[p] \in {"Down", "StartMaker"} =>
      /\ watched_txs[p] = {} /\ unhandled_peer_message[p] = "none"
      /\ event[p].kind # "P2p" /\ replays[p] = <<>>
      /\ ssm[p] = "Down" => event[p] = NoRequest

\* Bob does not forget the id of Buy before he has asked for it.
BuyKnown ==
    /\ BobAfterLock => "Buy" \in txids["Bob"] \cup retrieving_txs["Bob"]
    /\ checkpoint["Bob"].state = "BobRefundProcedureSignatures"
         => "Buy" \in checkpoint["Bob"].txids

\* Each keeps to the states of its side.
Own == [Alice |-> AliceState, Bob |-> BobState]
Sides ==
    \A p \in Party :
      /\ ssm[p] \in Own[p] \cup Outcome \cup {"StartTaker", "StartMaker", "Down"}
      /\ checkpoint[p].state \in Own[p] \cap Restorable \/ checkpoint[p] = NoCheckpoint

LeftInv == ConfsDue /\ MessageDue /\ SavedSeen /\ Fresh /\ BuyKnown /\ Sides

-------------------------------------------------------------------------------
\* Nothing that is wanted stays behind when no handler runs.
LEMMA LeftInvSuffices == TypeOK /\ LeftInv => NothingLeftBehind
<1> SUFFICES ASSUME TypeOK, LeftInv, Idle PROVE NothingLeftBehind
  BY DEF NothingLeftBehind
<1>1. \A p \in Party : event[p] = NoRequest /\ replays[p] = <<>>
  BY DEF Idle, Busy, Handling
<1>2. \A p \in Party, r \in {"unhandled", "Lock", "Cancel", "Buy"} : ~OnAgenda(p, r)
  BY <1>1 DEF OnAgenda
<1>3. \A p \in Party : /\ unhandled_peer_message[p] # Awaited[ssm[p]]
                       /\ \A l \in SavedLabel : saved[p][l] # -1 => ~Wanted(p, l)
  BY <1>1, <1>2 DEF LeftInv, MessageDue, ConfsDue, CalledWith, Received, NoRequest, SavedLabel
<1>4. ~valid_punish(-1) /\ ~valid_cancel(-1)
  BY TemporalSafetyAssumption DEF valid_punish, valid_cancel, final_btc
<1> QED
  BY <1>3, <1>4, Labels DEF NothingLeftBehind, Wanted, SavedLabel

\* What is written on the agenda, with what was there after it.
LEMMA AgendaWritten ==
    ASSUME TypeOK, NEW p \in Party, NEW s, s \notin Outcome, Transition(p, s),
           unhandled_peer_message'[p] \in PeerMsg \cup {"none"}
    PROVE  /\ \A l \in SavedLabel : saved[p][l] # -1 => OnAgenda(p, l)'
           /\ unhandled_peer_message'[p] # "none" => OnAgenda(p, "unhandled")'
<1> DEFINE Agenda == {"unhandled", "Buy", "Lock", "Cancel"}
           A == IF unhandled_peer_message'[p] = "none" THEN <<>> ELSE <<"unhandled">>
           B == IF saved[p]["Buy"] < 0 THEN <<>> ELSE <<"Buy">>
           L == IF saved[p]["Lock"] < 0 THEN <<>> ELSE <<"Lock">>
           C == IF saved[p]["Cancel"] < 0 THEN <<>> ELSE <<"Cancel">>
           Holds(u, r) == \E i \in 1..Len(u) : u[i] = r
<1>1. A \in Seq(Agenda) /\ B \in Seq(Agenda) /\ L \in Seq(Agenda) /\ C \in Seq(Agenda)
      /\ replays[p] \in Seq(Agenda)
  <2>1. replays[p] \in Seq(Agenda)
    BY DEF TypeOK, FlowOK
  <2>2. \A r \in Agenda : <<>> \in Seq(Agenda) /\ <<r>> \in Seq(Agenda)
    OBVIOUS
  <2>3. {"unhandled", "Buy", "Lock", "Cancel"} = Agenda
    OBVIOUS
  <2> HIDE DEF Agenda
  <2> QED
    BY <2>1, <2>2, <2>3
<1>2. /\ unhandled_peer_message'[p] # "none" => Holds(A, "unhandled")
      /\ saved[p]["Buy"] # -1 => Holds(B, "Buy")
      /\ saved[p]["Lock"] # -1 => Holds(L, "Lock")
      /\ saved[p]["Cancel"] # -1 => Holds(C, "Cancel")
  <2>1. \A l \in {"Lock", "Cancel", "Buy"} : saved[p][l] \in -1..MaxConfs
    BY ConfsType DEF TypeOK, MemOK
  <2>2. \A r : Holds(<<r>>, r)
    OBVIOUS
  <2> QED
    BY <2>1, <2>2, ConfsType
<1>3. replays'[p] = (((A \o B) \o L) \o C) \o replays[p]
  BY DEF Transition, Replayable, TypeOK, FlowOK
<1> HIDE DEF Agenda, A, B, L, C
<1>4. ASSUME NEW u \in Seq(Agenda), NEW v \in Seq(Agenda), NEW r
      PROVE  /\ u \o v \in Seq(Agenda)
             /\ Holds(u, r) \/ Holds(v, r) => Holds(u \o v, r)
  <2>1. /\ u \o v \in Seq(Agenda) /\ Len(u \o v) = Len(u) + Len(v)
        /\ \A i \in 1..Len(u) : (u \o v)[i] = u[i]
        /\ \A i \in 1..Len(v) : (u \o v)[Len(u) + i] = v[i]
        /\ Len(u) \in Nat /\ Len(v) \in Nat
    BY ConcatProperties
  <2>2. Holds(u, r) => Holds(u \o v, r)
    BY <2>1
  <2>3. Holds(v, r) => Holds(u \o v, r)
    <3> SUFFICES ASSUME NEW i \in 1..Len(v), v[i] = r PROVE Holds(u \o v, r)
      OBVIOUS
    <3>1. Len(u) + i \in 1..Len(u \o v) /\ (u \o v)[Len(u) + i] = r
      BY <2>1
    <3> QED
      BY <3>1
  <2> QED
    BY <2>1, <2>2, <2>3
<1> HIDE DEF Holds
<1>5. A \o B \in Seq(Agenda) /\ (A \o B) \o L \in Seq(Agenda)
      /\ ((A \o B) \o L) \o C \in Seq(Agenda)
  BY <1>1, <1>4
<1>6. \A r : Holds(A, r) \/ Holds(B, r) \/ Holds(L, r) \/ Holds(C, r)
               => Holds((((A \o B) \o L) \o C) \o replays[p], r)
  BY <1>1, <1>4, <1>5
<1>7. \A r : Holds(A, r) \/ Holds(B, r) \/ Holds(L, r) \/ Holds(C, r) => OnAgenda(p, r)'
  BY <1>3, <1>6 DEF OnAgenda, Holds
<1> QED
  BY <1>2, <1>7 DEF SavedLabel

\* What the states await is a message, or nothing.
LEMMA AwaitedStates ==
    \A s \in SwapStateMachine :
      /\ Awaited[s] # "none"
      /\ s \in Outcome \cup {"Down", "StartTaker", "StartMaker"} => Awaited[s] = "nothing"
BY DEF Awaited, Outcome

\* An arm of p touches the other side in nothing that matters here.
LEMMA OtherSide ==
    ASSUME TypeOK, LeftInv, NEW p \in Party, NEW q \in Party \ {p},
           NoTransition(p) \/ (\E s : Transition(p, s)), UNCHANGED saved,
           UNCHANGED <<txs[q], retrieving_txs[q], watched_txs[q]>>
    PROVE  /\ UNCHANGED <<ssm[q], event[q], replays[q], unhandled_peer_message[q]>>
           /\ \A l \in SavedLabel : saved[q][l] # -1 /\ Wanted(q, l)'
                => (OnAgenda(q, l) \/ CalledWith(q, l, saved[q][l]))'
           /\ unhandled_peer_message'[q] = Awaited[ssm'[q]]
                => (OnAgenda(q, "unhandled") \/ Received(q, unhandled_peer_message[q]))'
<1>1. UNCHANGED <<ssm[q], event[q], replays[q], unhandled_peer_message[q]>>
  BY DEF NoTransition, Transition, TypeOK, FlowOK
<1>2. \A l \in SavedLabel : Wanted(q, l)' => Wanted(q, l)
  BY <1>1 DEF Wanted, BobAfterLock
<1>3. \A l \in SavedLabel : saved[q][l] # -1 /\ Wanted(q, l)
        => OnAgenda(q, l) \/ CalledWith(q, l, saved[q][l])
  BY DEF LeftInv, ConfsDue
<1>4. \A l \in SavedLabel : OnAgenda(q, l) \/ CalledWith(q, l, saved[q][l])
        => (OnAgenda(q, l) \/ CalledWith(q, l, saved[q][l]))'
  BY <1>1 DEF OnAgenda, CalledWith
<1>5. unhandled_peer_message[q] = Awaited[ssm[q]]
        => OnAgenda(q, "unhandled") \/ Received(q, unhandled_peer_message[q])
  BY DEF LeftInv, MessageDue
<1>6. OnAgenda(q, "unhandled") \/ Received(q, unhandled_peer_message[q])
        => (OnAgenda(q, "unhandled") \/ Received(q, unhandled_peer_message[q]))'
  BY <1>1 DEF OnAgenda, Received
<1> QED
  BY <1>1, <1>2, <1>3, <1>4, <1>5, <1>6

(***************************************************************************)
(* An arm of p keeps the invariant when it ends in a state of its side, or *)
(* returns Ok(None) on a request that was not wanted.                      *)
(***************************************************************************)
LEMMA ArmLeft ==
    ASSUME TypeOK, TypeOK', LeftInv, NEW p \in Party, UNCHANGED saved,
           \A q \in Party \ {p} : UNCHANGED <<txs[q], retrieving_txs[q], watched_txs[q]>>,
           watched_txs[p] \subseteq watched_txs'[p],
           \/ \E s \in Own[p] \cup Outcome : Transition(p, s)
           \/ /\ NoTransition(p) /\ Handling(p)
              /\ txs'[p] \subseteq txs[p]
              /\ UNCHANGED <<retrieving_txs[p], watched_txs[p]>>
              /\ ~Received(p, Awaited[ssm[p]])
              /\ \A l \in SavedLabel :
                   saved[p][l] # -1 /\ CalledWith(p, l, saved[p][l]) => ~Wanted(p, l)',
           BuyKnown',
           \A q \in Party : checkpoint'[q].state \in Own[q] \cap Restorable
                            \/ checkpoint'[q] = NoCheckpoint
    PROVE  LeftInv'
<1>1. NoTransition(p) \/ (\E s : Transition(p, s))
  OBVIOUS
<1>2. \A q \in Party \ {p} :
        UNCHANGED <<ssm[q], event[q], replays[q], unhandled_peer_message[q]>>
  BY <1>1, OtherSide
<1>3. SavedSeen'
  <2>1. \A q \in Party : watched_txs[q] \subseteq watched_txs'[q]
    OBVIOUS
  <2> QED
    BY <2>1 DEF LeftInv, SavedSeen
<1>4. ASSUME NEW s \in Own[p] \cup Outcome, Transition(p, s)
      PROVE  /\ ConfsDue' /\ MessageDue' /\ Fresh' /\ Sides'
  <2>1. ssm'[p] = s
    BY <1>4 DEF Transition, TypeOK, FlowOK
  <2>2. s \notin {"Down", "StartTaker", "StartMaker"} /\ s \in SwapStateMachine
    <3>1. Own[p] \in {AliceState, BobState}
      BY Labels DEF Own
    <3> QED
      BY <3>1 DEF AliceState, BobState, Outcome, SwapStateMachine
  <2>3. Fresh' /\ Sides'
    BY <1>2, <2>1, <2>2 DEF LeftInv, Fresh, Sides
  <2>4. CASE s \in Outcome
    <3>1. \A l \in SavedLabel : ~Wanted(p, l)'
      BY <2>1, <2>4 DEF Wanted, BobAfterLock, Outcome
    <3>2. unhandled_peer_message'[p] # Awaited[ssm'[p]]
      BY <2>1, <2>2, <2>4, AwaitedStates DEF TypeOK, FlowOK, PeerMsg
    <3> QED
      BY <1>1, <2>3, <3>1, <3>2, OtherSide DEF ConfsDue, MessageDue
  <2>5. CASE s \notin Outcome
    <3>1. unhandled_peer_message'[p] \in PeerMsg \cup {"none"}
      BY DEF TypeOK, FlowOK
    <3>2. /\ \A l \in SavedLabel : saved[p][l] # -1 => OnAgenda(p, l)'
          /\ unhandled_peer_message'[p] # "none" => OnAgenda(p, "unhandled")'
      BY <1>4, <2>5, <3>1, AgendaWritten
    <3>3. Awaited[ssm'[p]] # "none"
      BY <2>1, <2>2, AwaitedStates
    <3> QED
      BY <1>1, <2>3, <3>2, <3>3, OtherSide DEF ConfsDue, MessageDue
  <2> QED
    BY <2>4, <2>5, <2>3
<1>5. ASSUME NoTransition(p), Handling(p), txs'[p] \subseteq txs[p],
             UNCHANGED <<retrieving_txs[p], watched_txs[p]>>,
             ~Received(p, Awaited[ssm[p]]),
             \A l \in SavedLabel :
               saved[p][l] # -1 /\ CalledWith(p, l, saved[p][l]) => ~Wanted(p, l)'
      PROVE  /\ ConfsDue' /\ MessageDue' /\ Fresh' /\ Sides'
  <2>1. /\ UNCHANGED <<ssm[p], replays[p]>> /\ event'[p] = NoRequest
        /\ unhandled_peer_message'[p]
             = IF event[p].kind = "P2p" THEN event[p].label ELSE unhandled_peer_message[p]
    BY <1>5 DEF NoTransition, TypeOK, FlowOK
  <2>2. ssm[p] # "Down"
    BY <1>5 DEF LeftInv, Fresh, Handling
  <2>3. Fresh'
    BY <1>2, <1>5, <2>1, <2>2, NoRequestType DEF LeftInv, Fresh
  <2>4. Sides'
    BY <1>2, <2>1 DEF LeftInv, Sides
  <2>5. \A l \in SavedLabel : saved[p][l] # -1 /\ Wanted(p, l)' => OnAgenda(p, l)'
    <3>1. \A l \in SavedLabel : Wanted(p, l)' => Wanted(p, l)
      BY <1>5, <2>1 DEF Wanted, BobAfterLock
    <3>2. \A l \in SavedLabel : saved[p][l] # -1 /\ Wanted(p, l)
            => OnAgenda(p, l) \/ CalledWith(p, l, saved[p][l])
      BY DEF LeftInv, ConfsDue
    <3>3. \A l \in SavedLabel : OnAgenda(p, l) => OnAgenda(p, l)'
      BY <2>1 DEF OnAgenda
    <3> QED
      BY <1>5, <3>1, <3>2, <3>3
  <2>6. unhandled_peer_message'[p] = Awaited[ssm'[p]] => OnAgenda(p, "unhandled")'
    <3>1. CASE event[p].kind = "P2p"
      BY <1>5, <2>1, <3>1 DEF Received
    <3>2. CASE event[p].kind # "P2p"
      BY <2>1, <3>2 DEF LeftInv, MessageDue, Received, OnAgenda
    <3> QED
      BY <3>1, <3>2
  <2>7. ConfsDue' /\ MessageDue'
    BY <1>1, <2>5, <2>6, OtherSide DEF ConfsDue, MessageDue
  <2> QED
    BY <2>3, <2>4, <2>7
<1> QED
  BY <1>3, <1>4, <1>5 DEF LeftInv

(***************************************************************************)
(* What is wanted has an arm that takes it: the `_ => Ok(None)` arms drop  *)
(* nothing that was due.                                                   *)
(***************************************************************************)
LEMMA WantedTaken ==
    ASSUME TypeOK, LeftInv, NEW l \in SavedLabel
    PROVE  /\ saved["Alice"][l] # -1 /\ CalledWith("Alice", l, saved["Alice"][l])
              /\ Wanted("Alice", l) => AliceMatches
           /\ saved["Bob"][l] # -1 /\ CalledWith("Bob", l, saved["Bob"][l])
              /\ Wanted("Bob", l) => BobMatches
<1>1. \A p \in Party : saved[p][l] # -1 /\ CalledWith(p, l, saved[p][l])
        => Confirmed(p, l) /\ Confirmations(p) = saved[p][l] /\ final_btc(saved[p][l])
  BY DEF LeftInv, SavedSeen, CalledWith, Confirmed, Confirmations
<1>2. ASSUME saved["Alice"][l] # -1, CalledWith("Alice", l, saved["Alice"][l]),
             Wanted("Alice", l)
      PROVE  SeesOwnBuyFinal \/ AliceMayPunish
  BY <1>1, <1>2, Labels DEF Wanted, SeesOwnBuyFinal, AliceMayPunish, AliceIsCanceled,
                            AliceConfs
<1>3. ASSUME saved["Bob"][l] # -1, CalledWith("Bob", l, saved["Bob"][l]), Wanted("Bob", l)
      PROVE  SeesBuyFinal \/ SeesCancelFinal \/ BobMayCancel
  <2>1. ssm["Bob"] = "BobAccordantLockFinal" /\ "Buy" \notin retrieving_txs["Bob"]
          => "Buy" \in txids["Bob"]
    BY DEF LeftInv, BuyKnown, BobAfterLock
  <2> QED
    BY <1>1, <1>3, <2>1, Labels
       DEF Wanted, SeesBuyFinal, SeesCancelFinal, BobMayCancel, BobConfs
<1> QED
  BY <1>2, <1>3 DEF AliceMatches, BobMatches

\* And so has every message that is awaited.
LEMMA MessageTaken ==
    ASSUME TypeOK, LeftInv
    PROVE  /\ Received("Alice", Awaited[ssm["Alice"]]) => AliceMatches
           /\ Received("Bob", Awaited[ssm["Bob"]]) => BobMatches
<1> USE Labels
<1>1. \A p \in Party : ssm[p] \in Own[p] \cup Outcome \cup {"StartTaker", "StartMaker", "Down"}
                       /\ ssm[p] \in SwapStateMachine
  BY DEF LeftInv, Sides, TypeOK, FlowOK
<1>2. ~Received("Alice", "nothing") /\ ~Received("Bob", "nothing")
  BY DEF Received, TypeOK, FlowOK, PeerMsg
<1>3. ASSUME Received("Alice", Awaited[ssm["Alice"]])
      PROVE  AliceMatches
  <2>1. ssm["Alice"] \in AliceState
    BY <1>1, <1>2, <1>3, AwaitedStates DEF Own
  <2>2. \/ ssm["Alice"] = "AliceInitTaker" /\ Received("Alice", "MakerCommit")
        \/ ssm["Alice"] \in {"AliceInitMaker", "AliceTakerMakerCommit"}
           /\ Received("Alice", "Reveal")
        \/ ssm["Alice"] = "AliceReveal" /\ Received("Alice", "CoreArbitratingSetup")
        \/ ssm["Alice"] = "AliceAccordantLock" /\ Received("Alice", "BuyProcedureSignature")
    BY <1>1, <1>2, <1>3, <2>1 DEF Awaited, AliceState
  <2> QED
    BY <2>2 DEF AliceMatches, HandshakeMatches, GetsMakerCommit, GetsReveal, InitTaker,
                InitMaker, TakerMakerCommit, GetsCoreArbitratingSetup, GetsBuySignature
<1>4. ASSUME Received("Bob", Awaited[ssm["Bob"]])
      PROVE  BobMatches
  <2>1. ssm["Bob"] \in BobState
    BY <1>1, <1>2, <1>4, AwaitedStates DEF Own
  <2>2. \/ ssm["Bob"] = "BobInitTaker" /\ Received("Bob", "MakerCommit")
        \/ ssm["Bob"] \in {"BobInitMaker", "BobTakerMakerCommit"} /\ Received("Bob", "Reveal")
        \/ ssm["Bob"] = "BobFunded" /\ Received("Bob", "RefundProcedureSignatures")
    BY <1>1, <1>2, <1>4, <2>1 DEF Awaited, BobState
  <2> QED
    BY <2>2 DEF BobMatches, HandshakeMatches, GetsMakerCommit, GetsReveal, InitTaker,
                InitMaker, TakerMakerCommit, GetsRefundSignatures
<1> QED
  BY <1>3, <1>4

\* The arms that Alice and Bob share.
LEMMA HandshakeLeft ==
    ASSUME TypeOK, TypeOK', LeftInv, NEW p \in Party, HandshakeNext(p)
    PROVE  LeftInv'
<1> USE Labels
<1>1. UNCHANGED <<saved, txs, retrieving_txs, watched_txs, txids, checkpoint>>
  BY DEF HandshakeNext, attempt_transition_to_init_taker,
         attempt_transition_to_init_maker, handle_maker_commit,
         attempt_transition_to_reveal, handle_abort_swap, handle_bob_abort_swap,
         watchVars, taskVars, memVars
<1>2. /\ {InitTaker[p], InitMaker[p], TakerMakerCommit[p], RevealState[p]} \subseteq Own[p]
      /\ "FailureAbort" \in Outcome /\ "BobAbortAwaitingBitcoinSweep" \in Own["Bob"]
      /\ {InitTaker[p], InitMaker[p], TakerMakerCommit[p], RevealState[p], "FailureAbort",
          "BobAbortAwaitingBitcoinSweep"}
           \cap {"BobRefundProcedureSignatures", "BobAccordantLock",
                 "BobAccordantLockFinal"} = {}
  BY DEF Own, InitTaker, InitMaker, TakerMakerCommit, RevealState, AliceState, BobState, Outcome
<1>3. PICK s \in {InitTaker[p], InitMaker[p], TakerMakerCommit[p], RevealState[p],
                  "FailureAbort", "BobAbortAwaitingBitcoinSweep"} :
        Transition(p, s) /\ s \in Own[p] \cup Outcome
  BY <1>2 DEF HandshakeNext, attempt_transition_to_init_taker,
         attempt_transition_to_init_maker, handle_maker_commit,
         attempt_transition_to_reveal, handle_abort_swap, handle_bob_abort_swap
<1>4. BuyKnown'
  <2>1. BobAfterLock' => BobAfterLock
    BY <1>2, <1>3 DEF BobAfterLock, Transition, TypeOK, FlowOK
  <2> QED
    BY <1>1, <2>1 DEF LeftInv, BuyKnown
<1>5. \A q \in Party : checkpoint'[q].state \in Own[q] \cap Restorable
                            \/ checkpoint'[q] = NoCheckpoint
  BY <1>1 DEF LeftInv, Sides
<1> QED
  BY <1>1, <1>3, <1>4, <1>5, ArmLeft

\* Bob's arms.
LEMMA BobLeft ==
    ASSUME TypeOK, TypeOK', LeftInv, BobNext
    PROVE  LeftInv'
<1> USE Labels
<1>1. CASE HandshakeNext("Bob")
  BY <1>1, HandshakeLeft
<1>2. CASE ~HandshakeNext("Bob")
  <2> USE DEF BobNext, bob_reveal_to_bob_fee_estimated, bob_fee_estimated_to_abort,
       handle_bob_abort_swap, bob_fee_estimated_to_bob_funded,
       bob_funded_to_bob_refund_procedure_signature,
       bob_refund_procedure_signatures_to_bob_accordant_lock,
       bob_accordant_lock_to_bob_accordant_lock_final,
       bob_accordant_lock_final_retrieves_buy, bob_accordant_lock_final_to_bob_buy_final,
       bob_buy_final_to_bob_buy_sweeping, bob_buy_sweeping_to_swap_end,
       bob_canceled_to_bob_cancel_final, bob_cancel_final_to_swap_end,
       awaiting_sweep_to_swap_end, bob_broadcasts_cancel, bob_canceled, bob_ignores,
       taskVars, watchVars, memVars
  <2>1. UNCHANGED saved
    BY <1>2
  <2>2. /\ UNCHANGED <<txs["Alice"], retrieving_txs["Alice"], watched_txs["Alice"]>>
        /\ watched_txs["Bob"] \subseteq watched_txs'["Bob"]
    BY <1>2 DEF watch_tx_btc, watch_tx_xmr, retrieve_tx_btc, abort_all, clear_txs,
                TypeOK, WatchOK, TaskOK, TxsOK
  <2>3. \/ \E s \in BobState \cup Outcome : Transition("Bob", s)
        \/ bob_broadcasts_cancel \/ bob_ignores
    BY <1>2 DEF BobState, Outcome
  <2>4. \/ UNCHANGED checkpoint
        \/ checkpoint_state("Bob", "CoreArbitratingSetup", "BobFunded")
        \/ /\ checkpoint_state("Bob", "none", "BobRefundProcedureSignatures")
           /\ txids' = [txids EXCEPT !["Bob"] = @ \cup {"Buy"}]
    BY <1>2
  <2>5. BobAfterLock' => \/ BobAfterLock /\ "Buy" \in txids["Bob"] \cup retrieving_txs["Bob"]
                            /\ \/ UNCHANGED <<txids, retrieving_txs>>
                               \/ retrieve_tx_btc("Bob", "Buy")
                         \/ txids' = [txids EXCEPT !["Bob"] = @ \cup {"Buy"}]
    <3>1. BobAfterLock => "Buy" \in txids["Bob"] \cup retrieving_txs["Bob"]
      BY DEF LeftInv, BuyKnown
    <3> QED
      BY <1>2, <3>1 DEF BobAfterLock, Transition, NoTransition, TypeOK, FlowOK, watch_tx_xmr,
                SeesAccLock, SeesAccLockFinal, SeesBuyFinal
  <2>6. BuyKnown'
    <3>1. BobAfterLock' => "Buy" \in txids'["Bob"] \cup retrieving_txs'["Bob"]
      BY <2>5 DEF retrieve_tx_btc, TypeOK, WatchOK, TaskOK
    <3>2. checkpoint'["Bob"].state = "BobRefundProcedureSignatures"
            => "Buy" \in checkpoint'["Bob"].txids
      BY <2>4 DEF LeftInv, BuyKnown, checkpoint_state, TypeOK, CheckpointOK, WatchOK
    <3> QED
      BY <3>1, <3>2 DEF BuyKnown
  <2>7. \A q \in Party : checkpoint'[q].state \in Own[q] \cap Restorable
                            \/ checkpoint'[q] = NoCheckpoint
    BY <2>4 DEF LeftInv, Sides, checkpoint_state, TypeOK, CheckpointOK, Own, BobState,
                Restorable
  <2>8. CASE \E s \in BobState \cup Outcome : Transition("Bob", s)
    BY <2>1, <2>2, <2>6, <2>7, <2>8, ArmLeft DEF Own
  <2>9. CASE bob_broadcasts_cancel
    <3>1. /\ NoTransition("Bob") /\ Handling("Bob") /\ txs'["Bob"] \subseteq txs["Bob"]
          /\ "Cancel" \notin txs'["Bob"]
          /\ UNCHANGED <<retrieving_txs["Bob"], watched_txs["Bob"]>>
      BY <2>9 DEF BobMayCancel, Confirmed, Handling, NoRequest, TypeOK, TxsOK
    <3>2. event["Bob"].kind = "TransactionConfirmations" /\ event["Bob"].label = "Lock"
      BY <2>9 DEF BobMayCancel, Confirmed
    <3>3. ~Received("Bob", Awaited[ssm["Bob"]])
          /\ \A l \in SavedLabel : CalledWith("Bob", l, saved["Bob"][l]) => ~Wanted("Bob", l)'
      BY <3>1, <3>2 DEF Received, CalledWith, Wanted
    <3> QED
      BY <2>1, <2>2, <2>6, <2>7, <3>1, <3>3, ArmLeft
  <2>10. CASE bob_ignores
    <3>1. /\ NoTransition("Bob") /\ Handling("Bob") /\ txs'["Bob"] \subseteq txs["Bob"]
          /\ UNCHANGED <<retrieving_txs["Bob"], watched_txs["Bob"]>>
      BY <2>10
    <3>2. ~Received("Bob", Awaited[ssm["Bob"]])
      BY <2>10, MessageTaken
    <3>3. ASSUME NEW l \in SavedLabel, saved["Bob"][l] # -1,
                 CalledWith("Bob", l, saved["Bob"][l])
          PROVE  ~Wanted("Bob", l)'
      <4>1. ~Wanted("Bob", l)
        BY <2>10, <3>3, WantedTaken
      <4>2. UNCHANGED <<ssm, txs, retrieving_txs, saved>>
        BY <2>10 DEF NoTransition
      <4> QED
        BY <4>1, <4>2 DEF Wanted, BobAfterLock
    <3> QED
      BY <2>1, <2>2, <2>6, <2>7, <3>1, <3>2, <3>3, ArmLeft
  <2> QED
    BY <2>3, <2>8, <2>9, <2>10
<1> QED
  BY <1>1, <1>2

\* Alice's arms.
LEMMA AliceLeft ==
    ASSUME TypeOK, TypeOK', LeftInv, AliceNext
    PROVE  LeftInv'
<1> USE Labels
<1>1. CASE HandshakeNext("Alice")
  BY <1>1, HandshakeLeft
<1>2. CASE ~HandshakeNext("Alice")
  <2> USE DEF AliceNext, alice_reveal_to_alice_core_arbitrating_setup,
       alice_core_arbitrating_setup_to_alice_arbitrating_lock_final,
       alice_asks_for_funding, alice_stops_funding,
       alice_arbitrating_lock_final_to_alice_accordant_lock,
       alice_accordant_lock_to_alice_canceled,
       alice_accordant_lock_to_alice_buy_procedure_signature,
       alice_buy_procedure_signature_to_swap_end,
       alice_canceled_retrieves_refund, alice_canceled_broadcasts_punish,
       alice_canceled_broadcasts_cancel, alice_canceled_to_punished,
       alice_canceled_to_alice_refund, alice_canceled_to_swap_end,
       alice_refund_to_alice_refund_sweeping, alice_refund_sweeping_to_swap_end,
       alice_canceled, alice_broadcasts_cancel, alice_ignores,
       alice_canceled_publishes, taskVars, watchVars, memVars
  <2>1. UNCHANGED saved
    BY <1>2
  <2>2. /\ UNCHANGED <<txs["Bob"], retrieving_txs["Bob"], watched_txs["Bob"]>>
        /\ watched_txs["Alice"] \subseteq watched_txs'["Alice"]
    BY <1>2 DEF watch_tx_btc, watch_tx_xmr, retrieve_tx_btc, abort_all, clear_txs,
                TypeOK, WatchOK, TaskOK, TxsOK
  <2>3. \/ \E s \in AliceState \cup Outcome : Transition("Alice", s)
        \/ alice_broadcasts_cancel \/ alice_ignores
    BY <1>2 DEF AliceState, Outcome
  <2>4. \/ UNCHANGED checkpoint
        \/ checkpoint_state("Alice", "RefundProcedureSignatures", "AliceCoreArbitratingSetup")
        \/ checkpoint_state("Alice", "none", "AliceBuyProcedureSignature")
    BY <1>2
  <2>5. BuyKnown'
    <3>1. UNCHANGED <<ssm["Bob"], txids["Bob"]>>
      BY <1>2, SMTT(120) DEF NoTransition, Transition, watch_tx_btc, watch_tx_xmr, retrieve_tx_btc,
                  abort_all, TypeOK, FlowOK, WatchOK
    <3>2. UNCHANGED checkpoint["Bob"]
      BY <2>4 DEF checkpoint_state, TypeOK, CheckpointOK
    <3> QED
      BY <2>2, <3>1, <3>2 DEF LeftInv, BuyKnown, BobAfterLock
  <2>6. \A q \in Party : checkpoint'[q].state \in Own[q] \cap Restorable
                            \/ checkpoint'[q] = NoCheckpoint
    BY <2>4 DEF LeftInv, Sides, checkpoint_state, TypeOK, CheckpointOK, Own, AliceState,
                Restorable
  <2>7. CASE \E s \in AliceState \cup Outcome : Transition("Alice", s)
    BY <2>1, <2>2, <2>5, <2>6, <2>7, ArmLeft DEF Own
  <2>8. CASE alice_broadcasts_cancel
    <3>1. /\ NoTransition("Alice") /\ Handling("Alice") /\ txs'["Alice"] \subseteq txs["Alice"]
          /\ UNCHANGED <<retrieving_txs["Alice"], watched_txs["Alice"], ssm>>
      BY <2>8 DEF AliceMayCancel, Confirmed, Handling, NoRequest, TypeOK, TxsOK, NoTransition
    <3>2. event["Alice"].kind = "TransactionConfirmations" /\ event["Alice"].label = "Lock"
      BY <2>8 DEF AliceMayCancel, Confirmed
    <3>3. ~Received("Alice", Awaited[ssm["Alice"]])
          /\ \A l \in SavedLabel :
               CalledWith("Alice", l, saved["Alice"][l]) => ~Wanted("Alice", l)'
      BY <3>1, <3>2 DEF Received, CalledWith, Wanted
    <3> QED
      BY <2>1, <2>2, <2>5, <2>6, <3>1, <3>3, ArmLeft
  <2>9. CASE alice_ignores
    <3>1. /\ NoTransition("Alice") /\ Handling("Alice") /\ txs'["Alice"] \subseteq txs["Alice"]
          /\ UNCHANGED <<retrieving_txs["Alice"], watched_txs["Alice"]>>
      BY <2>9
    <3>2. ~Received("Alice", Awaited[ssm["Alice"]])
      BY <2>9, MessageTaken
    <3>3. ASSUME NEW l \in SavedLabel, saved["Alice"][l] # -1,
                 CalledWith("Alice", l, saved["Alice"][l])
          PROVE  ~Wanted("Alice", l)'
      <4>1. ~Wanted("Alice", l)
        BY <2>9, <3>3, WantedTaken
      <4>2. UNCHANGED <<ssm, txs, retrieving_txs, saved>>
        BY <2>9 DEF NoTransition
      <4> QED
        BY <4>1, <4>2 DEF Wanted, BobAfterLock
    <3> QED
      BY <2>1, <2>2, <2>5, <2>6, <3>1, <3>2, <3>3, ArmLeft
  <2> QED
    BY <2>3, <2>7, <2>8, <2>9
<1> QED
  BY <1>1, <1>2

-------------------------------------------------------------------------------
(***************************************************************************)
(* A request handed to an idle process: nothing was due, so nothing is     *)
(* wanted but what the request itself brought.                             *)
(***************************************************************************)
LeftApart == <<ssm, unhandled_peer_message, replays, txs, watched_txs, txids,
               retrieving_txs, checkpoint>>

LEMMA HandedLeft ==
    ASSUME TypeOK, TypeOK', LeftInv, Idle, NEW p \in Party, NEW k, NEW l, NEW n,
           handle(p, k, l, n), UNCHANGED LeftApart,
           ssm[p] # "Down", k = "P2p" => ssm[p] # "StartMaker",
           \/ UNCHANGED saved
           \/ save_confs(p, l, n) /\ k = "TransactionConfirmations"
    PROVE  LeftInv'
<1> USE Labels DEF LeftApart
<1>1. \A q \in Party : event'[q] = IF q = p THEN [kind |-> k, label |-> l, n |-> n]
                                            ELSE event[q]
  BY DEF handle, TypeOK, FlowOK
<1>2. \A q \in Party, r \in {"unhandled", "Lock", "Cancel", "Buy"} : ~OnAgenda(q, r)
  BY DEF OnAgenda, Idle, Busy
<1>3. \A q \in Party : event[q] = NoRequest /\ replays[q] = <<>>
  BY DEF Idle, Busy, Handling
<1>4. \A q \in Party, m \in SavedLabel :
        \/ saved'[q][m] = saved[q][m]
        \/ /\ q = p /\ m = l /\ saved'[q][m] = n /\ k = "TransactionConfirmations"
           /\ m \in watched_txs[q] /\ final_btc(n)
  BY DEF save_confs, SavedLabel, TypeOK, MemOK
<1>5. ConfsDue'
  <2> SUFFICES ASSUME NEW q \in Party, NEW m \in SavedLabel, saved'[q][m] # -1, Wanted(q, m)'
               PROVE  CalledWith(q, m, saved[q][m])'
    BY DEF ConfsDue
  <2>1. CASE saved'[q][m] = saved[q][m]
    <3>1. Wanted(q, m)
      BY <2>1 DEF Wanted, BobAfterLock
    <3>2. CalledWith(q, m, saved[q][m])
      BY <1>2, <2>1, <3>1 DEF LeftInv, ConfsDue, SavedLabel
    <3> QED
      BY <1>3, <3>2 DEF CalledWith, NoRequest
  <2>2. CASE q = p /\ m = l /\ saved'[q][m] = n /\ k = "TransactionConfirmations"
    BY <1>1, <2>2 DEF CalledWith
  <2> QED
    BY <1>4, <2>1, <2>2
<1>6. MessageDue'
  BY <1>2, <1>3 DEF LeftInv, MessageDue, Received, NoRequest
<1>7. SavedSeen'
  BY <1>4 DEF LeftInv, SavedSeen
<1>8. Fresh'
  BY <1>1 DEF LeftInv, Fresh
<1>9. BuyKnown' /\ Sides'
  BY DEF LeftInv, BuyKnown, BobAfterLock, Sides
<1> QED
  BY <1>5, <1>6, <1>7, <1>8, <1>9 DEF LeftInv

\* farcasterd's, peerd's, the users' and the syncers' requests.
LEMMA DeliveryLeft ==
    ASSUME TypeOK, TypeOK', LeftInv,
           \/ FarcasterdTakes \/ SyncerSeesFunding \/ SyncerSeesNothing
           \/ SyncerEstimatesFee \/ SyncerSweepsBitcoin
           \/ \E p \in Party : \/ FarcasterdMakes(p) \/ PeerDelivers(p) \/ UserAborts(p)
                               \/ SyncerSeesAccLock(p) \/ SyncerSweepsMonero(p)
                               \/ \E l \in TxLabel : SyncerConfirms(p, l)
                               \/ \E l \in {"Buy", "Refund"} : SyncerRetrieves(p, l)
    PROVE  LeftInv'
<1> USE Labels DEF LeftApart, ctlUnchanged, eventUnchanged, syncUnchanged, watchVars,
        taskVars, memVars
<1>1. CASE FarcasterdTakes
  BY <1>1, HandedLeft DEF FarcasterdTakes, TypeOK, BudgetOK
<1>2. ASSUME NEW p \in Party, FarcasterdMakes(p) \/ PeerDelivers(p) \/ UserAborts(p)
      PROVE  LeftInv'
  BY <1>2, HandedLeft DEF FarcasterdMakes, TakerCommitArrives, PeerDelivers, UserAborts, Live
<1>3. ASSUME NEW p \in Party, NEW l \in TxLabel, SyncerConfirms(p, l)
      PROVE  LeftInv'
  BY <1>3, HandedLeft DEF SyncerConfirms, owes, Live
<1>4. ASSUME NEW p \in Party, SyncerSeesAccLock(p)
      PROVE  LeftInv'
  BY <1>4, HandedLeft DEF SyncerSeesAccLock, owes, Live
<1>5. ASSUME NEW p \in Party, NEW l \in {"Buy", "Refund"}, SyncerRetrieves(p, l)
      PROVE  LeftInv'
  BY <1>5, HandedLeft DEF SyncerRetrieves, owes, Live
<1>6. ASSUME NEW p \in Party, SyncerSweepsMonero(p)
      PROVE  LeftInv'
  BY <1>6, HandedLeft DEF SyncerSweepsMonero
<1>7. CASE SyncerSeesFunding \/ SyncerSeesNothing \/ SyncerEstimatesFee
  BY <1>7, HandedLeft DEF SyncerSeesFunding, SyncerSeesNothing, SyncerEstimatesFee, owes, Live
<1>8. CASE SyncerSweepsBitcoin
  BY <1>8, HandedLeft DEF SyncerSweepsBitcoin
<1> QED
  BY <1>1, <1>2, <1>3, <1>4, <1>5, <1>6, <1>7, <1>8

\* A replay takes from the agenda what it hands to the handler.
LEMMA ReplayLeft ==
    ASSUME TypeOK, LeftInv, NEW p \in Party, Replay(p)
    PROVE  LeftInv'
<1> USE Labels DEF Replay, watchVars, taskVars, memVars
<1> DEFINE r == Head(replays[p])
           Agenda == {"unhandled", "Buy", "Lock", "Cancel"}
<1>1. /\ replays[p] \in Seq(Agenda) /\ replays[p] # <<>>
      /\ \A q \in Party : replays'[q] = IF q = p THEN Tail(replays[q]) ELSE replays[q]
  BY DEF TypeOK, FlowOK
<1>2. \A x : OnAgenda(p, x) => x = r \/ OnAgenda(p, x)'
  <2> HIDE DEF Agenda
  <2>1. /\ Len(replays[p]) \in Nat /\ Len(Tail(replays[p])) = Len(replays[p]) - 1
        /\ \A i \in 1..Len(Tail(replays[p])) : Tail(replays[p])[i] = replays[p][i + 1]
        /\ r = replays[p][1]
    BY <1>1, HeadTailProperties
  <2> SUFFICES ASSUME NEW x, NEW i \in 1..Len(replays[p]), replays[p][i] = x, i # 1
               PROVE  OnAgenda(p, x)'
    BY <2>1 DEF OnAgenda
  <2>2. i - 1 \in 1..Len(Tail(replays[p])) /\ Tail(replays[p])[i - 1] = x
    BY <2>1
  <2> QED
    BY <1>1, <2>2 DEF OnAgenda
<1>3. \A q \in Party \ {p} : \A x : OnAgenda(q, x) => OnAgenda(q, x)'
  BY <1>1 DEF OnAgenda
<1>4. /\ event[p] = NoRequest
      /\ \A q \in Party \ {p} : event'[q] = event[q]
      /\ r = "unhandled"
           => event'[p] = [kind |-> "P2p", label |-> unhandled_peer_message[p], n |-> 0]
      /\ r # "unhandled"
           => event'[p] = [kind |-> "TransactionConfirmations", label |-> r,
                           n |-> saved[p][r]]
  BY DEF handle, TypeOK, FlowOK
<1>5. ConfsDue'
  <2>1. \A q \in Party, l \in SavedLabel : Wanted(q, l)' => Wanted(q, l)
    BY DEF Wanted, BobAfterLock
  <2>2. \A q \in Party, l \in SavedLabel :
          OnAgenda(q, l) \/ CalledWith(q, l, saved[q][l])
            => (OnAgenda(q, l) \/ CalledWith(q, l, saved[q][l]))'
    <3>1. \A l \in SavedLabel : l # "unhandled"
      BY DEF SavedLabel
    <3> QED
      BY <1>2, <1>3, <1>4, <3>1 DEF CalledWith, NoRequest
  <2> QED
    BY <2>1, <2>2 DEF LeftInv, ConfsDue
<1>6. MessageDue'
  BY <1>2, <1>3, <1>4 DEF LeftInv, MessageDue, Received, NoRequest
<1>7. SavedSeen' /\ BuyKnown' /\ Sides'
  BY DEF LeftInv, SavedSeen, BuyKnown, BobAfterLock, Sides
<1>8. Fresh'
  <2>1. ssm[p] \notin {"Down", "StartMaker"}
    BY <1>1 DEF LeftInv, Fresh
  <2> QED
    BY <1>1, <1>4, <2>1 DEF LeftInv, Fresh
<1> QED
  BY <1>5, <1>6, <1>7, <1>8 DEF LeftInv

\* A step in which no process does anything.
LEMMA QuietLeft ==
    ASSUME LeftInv, UNCHANGED LeftApart, UNCHANGED <<event, saved>>
    PROVE  LeftInv'
BY DEF LeftApart, LeftInv, ConfsDue, OnAgenda, CalledWith, Wanted, BobAfterLock, MessageDue,
       Received, SavedSeen, Fresh, BuyKnown, Sides

\* farcasterd starts no maker, or takes a checkpoint away.
LEMMA FarcasterdLeft ==
    ASSUME TypeOK, LeftInv, NEW p \in Party, FarcasterdHasNoDeal(p) \/ FarcasterdCleansUp(p)
    PROVE  LeftInv'
<1> USE Labels DEF flowVars, watchVars, taskVars, memVars
<1>1. CASE FarcasterdHasNoDeal(p)
  <2> USE DEF FarcasterdHasNoDeal
  <2>1. /\ ssm[p] = "StartMaker" /\ ssm'[p] = "Down" /\ Idle
        /\ \A q \in Party \ {p} : ssm'[q] = ssm[q]
        /\ UNCHANGED <<unhandled_peer_message, event, replays, txs, watched_txs, txids,
                       retrieving_txs, saved, checkpoint>>
    BY <1>1 DEF TakerCommitArrives, TypeOK, FlowOK
  <2>2. event[p] = NoRequest
    BY <2>1 DEF Idle, Busy, Handling
  <2>3. ConfsDue'
    BY <2>1 DEF LeftInv, ConfsDue, Wanted, BobAfterLock, OnAgenda, CalledWith
  <2>4. unhandled_peer_message[p] # Awaited[ssm'[p]]
    <3>1. "Down" \in SwapStateMachine
      BY DEF SwapStateMachine
    <3> QED
      BY <2>1, <3>1, AwaitedStates DEF LeftInv, Fresh
  <2>5. MessageDue'
    BY <2>1, <2>4 DEF LeftInv, MessageDue, OnAgenda, Received
  <2>6. SavedSeen' /\ Fresh' /\ BuyKnown' /\ Sides'
    BY <2>1, <2>2 DEF LeftInv, SavedSeen, Fresh, BuyKnown, BobAfterLock, Sides
  <2> QED
    BY <2>3, <2>5, <2>6 DEF LeftInv
<1>2. CASE FarcasterdCleansUp(p)
  <2> USE DEF FarcasterdCleansUp
  <2>1. /\ UNCHANGED <<ssm, unhandled_peer_message, event, replays, txs, watched_txs,
                       txids, retrieving_txs, saved>>
        /\ \A q \in Party : checkpoint'[q] \in {checkpoint[q], NoCheckpoint}
    BY <1>2 DEF TypeOK, CheckpointOK
  <2>2. ConfsDue' /\ MessageDue'
    BY <2>1 DEF LeftInv, ConfsDue, Wanted, BobAfterLock, OnAgenda, CalledWith, MessageDue,
                Received
  <2>3. SavedSeen' /\ Fresh' /\ Sides'
    BY <2>1 DEF LeftInv, SavedSeen, Fresh, Sides
  <2>4. BuyKnown'
    BY <2>1 DEF LeftInv, BuyKnown, BobAfterLock, NoCheckpoint
  <2> QED
    BY <2>2, <2>3, <2>4 DEF LeftInv
<1> QED
  BY <1>1, <1>2

\* A process stops, and forgets all that was set aside.
LEMMA CrashLeft ==
    ASSUME TypeOK, LeftInv, NEW p \in Party, Crash(p)
    PROVE  LeftInv'
<1> USE Labels DEF Crash
<1>1. /\ ssm'[p] = "Down" /\ event'[p] = NoRequest /\ replays'[p] = <<>>
      /\ unhandled_peer_message'[p] = "none" /\ watched_txs'[p] = {}
      /\ \A l \in SavedLabel : saved'[p][l] = -1
      /\ UNCHANGED checkpoint
  BY DEF TypeOK, FlowOK, WatchOK, MemOK, SavedLabel
<1>2. \A q \in Party \ {p} :
        UNCHANGED <<ssm[q], event[q], replays[q], unhandled_peer_message[q], watched_txs[q],
                    txids[q], retrieving_txs[q], txs[q], saved[q]>>
  BY DEF TypeOK, FlowOK, WatchOK, MemOK, TaskOK, TxsOK
<1>3. ConfsDue'
  <2> SUFFICES ASSUME NEW q \in Party \ {p}, NEW l \in SavedLabel,
                      saved'[q][l] # -1, Wanted(q, l)'
               PROVE  (OnAgenda(q, l) \/ CalledWith(q, l, saved[q][l]))'
    BY <1>1 DEF ConfsDue
  <2>1. Wanted(q, l)
    BY <1>2 DEF Wanted, BobAfterLock
  <2>2. OnAgenda(q, l) \/ CalledWith(q, l, saved[q][l])
    BY <1>2, <2>1 DEF LeftInv, ConfsDue
  <2> QED
    BY <1>2, <2>2 DEF OnAgenda, CalledWith
<1>4. MessageDue'
  <2>1. unhandled_peer_message'[p] # Awaited[ssm'[p]]
    <3>1. "Down" \in SwapStateMachine
      BY DEF SwapStateMachine
    <3> QED
      BY <1>1, <3>1, AwaitedStates
  <2>2. \A q \in Party \ {p} : unhandled_peer_message'[q] = Awaited[ssm'[q]]
          => (OnAgenda(q, "unhandled") \/ Received(q, unhandled_peer_message[q]))'
    BY <1>2 DEF LeftInv, MessageDue, OnAgenda, Received
  <2> QED
    BY <2>1, <2>2 DEF MessageDue
<1>5. SavedSeen' /\ Sides'
  BY <1>1, <1>2 DEF LeftInv, SavedSeen, Sides
<1>6. Fresh'
  BY <1>1, <1>2, NoRequestType DEF LeftInv, Fresh
<1>7. BuyKnown'
  BY <1>1, <1>2 DEF LeftInv, BuyKnown, BobAfterLock
<1> QED
  BY <1>3, <1>4, <1>5, <1>6, <1>7 DEF LeftInv

\* A process restored has saved nothing yet.
LEMMA RestoreLeft ==
    ASSUME TypeOK, LeftInv, NEW p \in Party, Restore(p)
    PROVE  LeftInv'
<1> USE Labels DEF Restore
<1>1. /\ ssm[p] = "Down" /\ checkpoint[p] # NoCheckpoint
      /\ ssm'[p] = checkpoint[p].state /\ txids'[p] = checkpoint[p].txids
      /\ UNCHANGED <<event, unhandled_peer_message, replays, retrieving_txs, saved, checkpoint>>
  BY DEF TypeOK, FlowOK, WatchOK
<1>2. \A q \in Party \ {p} : UNCHANGED <<ssm[q], watched_txs[q], txids[q], txs[q]>>
  BY DEF TypeOK, FlowOK, WatchOK, TxsOK
<1>3. \A l \in SavedLabel : saved[p][l] = -1
  BY <1>1 DEF LeftInv, Fresh, SavedSeen
<1>4. ssm'[p] \in Own[p] \cap Restorable
  BY <1>1 DEF LeftInv, Sides
<1>5. ssm'[p] \notin {"Down", "StartMaker"} /\ ssm'[p] \in SwapStateMachine
  BY <1>1, <1>4 DEF Own, AliceState, BobState, TypeOK, CheckpointOK, CheckpointSwapd
<1>6. ConfsDue'
  <2> SUFFICES ASSUME NEW q \in Party \ {p}, NEW l \in SavedLabel,
                      saved[q][l] # -1, Wanted(q, l)'
               PROVE  (OnAgenda(q, l) \/ CalledWith(q, l, saved[q][l]))'
    BY <1>1, <1>3 DEF ConfsDue
  <2>1. Wanted(q, l)
    BY <1>1, <1>2 DEF Wanted, BobAfterLock
  <2>2. OnAgenda(q, l) \/ CalledWith(q, l, saved[q][l])
    BY <2>1 DEF LeftInv, ConfsDue
  <2> QED
    BY <1>1, <2>2 DEF OnAgenda, CalledWith
<1>7. MessageDue'
  <2>1. unhandled_peer_message'[p] # Awaited[ssm'[p]]
    BY <1>1, <1>5, AwaitedStates DEF LeftInv, Fresh
  <2>2. \A q \in Party \ {p} : unhandled_peer_message'[q] = Awaited[ssm'[q]]
          => (OnAgenda(q, "unhandled") \/ Received(q, unhandled_peer_message[q]))'
    BY <1>1, <1>2 DEF LeftInv, MessageDue, OnAgenda, Received
  <2> QED
    BY <2>1, <2>2 DEF MessageDue
<1>8. SavedSeen' /\ Sides'
  BY <1>1, <1>2, <1>3, <1>4 DEF LeftInv, SavedSeen, Sides
<1>9. Fresh'
  BY <1>1, <1>2, <1>5 DEF LeftInv, Fresh
<1>10. BuyKnown'
  BY <1>1, <1>2, <1>4 DEF LeftInv, BuyKnown, BobAfterLock, Restorable
<1> QED
  BY <1>6, <1>7, <1>8, <1>9, <1>10 DEF LeftInv

-------------------------------------------------------------------------------
\* Nothing has come at the start.
LEMMA LeftInvInit == Init => LeftInv
<1> SUFFICES ASSUME Init PROVE LeftInv
  OBVIOUS
<1> USE Labels DEF Init
<1>1. ConfsDue /\ SavedSeen /\ Fresh
  BY NoRequestType DEF ConfsDue, SavedSeen, Fresh, SavedLabel
<1>2. MessageDue
  <2>1. \A p \in Party : ssm[p] \in {"StartTaker", "StartMaker"}
                         /\ unhandled_peer_message[p] = "none"
    OBVIOUS
  <2>2. {"StartTaker", "StartMaker"} \subseteq SwapStateMachine
    BY DEF SwapStateMachine
  <2> QED
    BY <2>1, <2>2, AwaitedStates DEF MessageDue
<1>3. BuyKnown /\ Sides
  BY DEF BuyKnown, BobAfterLock, Sides, NoCheckpoint
<1> QED
  BY <1>1, <1>2, <1>3 DEF LeftInv

\* Every step, put together.
LEMMA LeftInvStep == TypeOK /\ TypeOK' /\ LeftInv /\ [Next]_vars => LeftInv'
<1> SUFFICES ASSUME TypeOK, TypeOK', LeftInv, [Next]_vars PROVE LeftInv'
  OBVIOUS
<1>1. CASE SwapdStep
  BY <1>1, BobLeft, AliceLeft, ReplayLeft DEF SwapdStep
<1>2. CASE FarcasterdStep \/ (\E p \in Party : PeerDelivers(p))
  BY <1>2, FarcasterdLeft, DeliveryLeft DEF FarcasterdStep
<1>3. ASSUME NEW p \in Party, NEW l \in BtcTx, SyncerBroadcasts(p, l)
      PROVE  LeftInv'
  BY <1>3, QuietLeft DEF SyncerBroadcasts, ledgerUnchanged, flowVars, memVars, LeftApart
<1>4. CASE SyncerStep
  BY <1>3, <1>4, DeliveryLeft DEF SyncerStep
<1>5. CASE MineBitcoin \/ MineMonero
  BY <1>5, QuietLeft DEF MineBitcoin, MineMonero, ledgerUnchanged, flowVars, memVars, LeftApart
<1>6. CASE \/ \E a \in BtcAmounts : UserFundsBitcoin(a)
           \/ \E s \in XmrAmounts : UserFundsMonero(s)
  BY <1>6, QuietLeft DEF UserFundsBitcoin, UserFundsMonero, ledgerUnchanged, flowVars,
                         memVars, LeftApart
<1>7. CASE UserStep
  BY <1>6, <1>7, DeliveryLeft DEF UserStep
<1>8. CASE \E p \in Party : Crash(p) \/ Restore(p)
  BY <1>8, CrashLeft, RestoreLeft
<1>9. CASE UNCHANGED vars
  BY <1>9, QuietLeft DEF vars, runtimeVars, flowVars, watchVars, taskVars, memVars, LeftApart
<1> QED
  BY <1>1, <1>2, <1>4, <1>5, <1>7, <1>8, <1>9 DEF Next

(***************************************************************************)
(* Whatever came too early and was set aside, a message of the peer or     *)
(* final confirmations, is handled again before swapd is idle in a state   *)
(* that has a use for it (execute_state_machine and its replays), in       *)
(* whatever order requests come and wherever a process stops.              *)
(***************************************************************************)
THEOREM NothingIsLeftBehind == Spec => []NothingLeftBehind
<1>1. Spec => []LeftInv
  BY TypeCorrect, LeftInvInit, LeftInvStep, PTL DEF Spec
<1> QED
  BY <1>1, TypeCorrect, LeftInvSuffices, PTL

-------------------------------------------------------------------------------
(***************************************************************************)
(* Two processes that end, end alike: OutcomesAgree of SwapProperties.     *)
(* What is mined excludes what spends the same output, and its parent is   *)
(* mined; so the outcomes, which are true, exclude each other.             *)
(***************************************************************************)
Mined(l) == conf[l] > 0
LedgerInv ==
    /\ Mined("Buy") => conf["Cancel"] = -1
    /\ Mined("Cancel") => conf["Buy"] = -1 /\ Mined("Lock")
    /\ Mined("Buy") => Mined("Lock")
    /\ Mined("Refund") => conf["Punish"] = -1 /\ Mined("Cancel")
    /\ Mined("Punish") => conf["Refund"] = -1 /\ Mined("Cancel")

\* The ledger at the start is empty.
LEMMA LedgerInvInit == Init => LedgerInv
BY Labels DEF Init, LedgerInv, Mined

\* What a block does to each transaction.
LEMMA BlockMines ==
    ASSUME TypeOK, MineBitcoin
    PROVE  \E S \in SUBSET mempool :
             /\ minable(S)
             /\ \A l \in BtcTx :
                  conf'[l] = IF l \in S \/ conf[l] > 0 THEN grown(conf[l])
                             ELSE IF rivals[l] \cap S # {} THEN -1
                             ELSE conf[l]
BY DEF MineBitcoin, BtcTx, TxLabel

\* Every step keeps what is mined apart.
LEMMA LedgerInvStep == TypeOK /\ LedgerInv /\ [Next]_vars => LedgerInv'
<1> SUFFICES ASSUME TypeOK, LedgerInv, [Next]_vars PROVE LedgerInv'
  OBVIOUS
<1>1. /\ conf \in [TxLabel -> -1..MaxConfs] /\ MaxConfs \in Nat \ {0}
      /\ BtcTx \subseteq TxLabel
      /\ \A l \in BtcTx : conf[l] \in -1..MaxConfs
  BY ConfsType, Labels DEF TypeOK, LedgerOK
<1>2. CASE UNCHANGED conf
  BY <1>2 DEF LedgerInv, Mined
<1>3. CASE MineMonero \/ (\E s \in XmrAmounts : UserFundsMonero(s))
  <2>1. \A l \in BtcTx : conf'[l] = conf[l]
    BY <1>1, <1>3 DEF MineMonero, UserFundsMonero, BtcTx
  <2> QED
    BY <2>1 DEF LedgerInv, Mined, BtcTx
<1>4. CASE MineBitcoin
  <2>1. PICK S \in SUBSET mempool :
             /\ minable(S)
             /\ \A l \in BtcTx :
                  conf'[l] = IF l \in S \/ conf[l] > 0 THEN grown(conf[l])
                             ELSE IF rivals[l] \cap S # {} THEN -1
                             ELSE conf[l]
    BY <1>4, BlockMines
  <2>2. \A l \in S : l \in BtcTx /\ conf[l] = 0
    BY <2>1 DEF mempool
  <2>3. \A l \in BtcTx : /\ l \in S \/ conf[l] > 0 => conf'[l] > 0
                         /\ l \notin S /\ conf[l] <= 0 => conf'[l] \in {-1, conf[l]}
                         /\ l \notin S /\ conf[l] <= 0 /\ rivals[l] \cap S # {} => conf'[l] = -1
    BY <1>1, <2>1, <2>2 DEF grown
  <2>4. /\ "Cancel" \in S => "Buy" \notin S /\ ("Lock" \in S \/ conf["Lock"] > 0)
        /\ "Buy" \in S => "Cancel" \notin S /\ ("Lock" \in S \/ conf["Lock"] > 0)
        /\ "Refund" \in S => "Punish" \notin S /\ ("Cancel" \in S \/ conf["Cancel"] > 0)
        /\ "Punish" \in S => "Refund" \notin S /\ ("Cancel" \in S \/ conf["Cancel"] > 0)
    BY <2>1 DEF minable, rivals, spends
  <2>5. /\ "Buy" \in S => rivals["Cancel"] \cap S # {}
        /\ "Cancel" \in S => rivals["Buy"] \cap S # {}
        /\ "Punish" \in S => rivals["Refund"] \cap S # {}
        /\ "Refund" \in S => rivals["Punish"] \cap S # {}
    BY DEF rivals
  <2>6. /\ "Lock" \in BtcTx /\ "Buy" \in BtcTx /\ "Cancel" \in BtcTx
        /\ "Refund" \in BtcTx /\ "Punish" \in BtcTx
    BY DEF BtcTx
  <2> QED
    BY <1>1, <2>2, <2>3, <2>4, <2>5, <2>6 DEF LedgerInv, Mined
<1>5. ASSUME NEW p \in Party, NEW l \in BtcTx, SyncerBroadcasts(p, l) PROVE LedgerInv'
  <2>1. CASE UNCHANGED conf
    BY <1>2, <2>1
  <2>2. CASE conf[l] = -1 /\ acceptable(l) /\ conf' = [conf EXCEPT ![l] = 0]
    <3>1. \A r \in BtcTx : conf'[r] = IF r = l THEN 0 ELSE conf[r]
      BY <1>1, <2>2
    <3>2. \A r \in rivals[l] : conf[r] <= 0
      BY <2>2 DEF acceptable
    <3>3. /\ l = "Buy" => conf["Cancel"] <= 0
          /\ l = "Cancel" => conf["Buy"] <= 0
          /\ l = "Punish" => conf["Refund"] <= 0
          /\ l = "Refund" => conf["Punish"] <= 0
      BY <3>2 DEF rivals
    <3> QED
      BY <1>1, <2>2, <3>1, <3>3 DEF LedgerInv, Mined, BtcTx
  <2> QED
    BY <1>5, <2>1, <2>2 DEF SyncerBroadcasts
<1> QED
  BY <1>2, <1>3, <1>4, <1>5, LedgersMove

\* Outcomes that the ledger excludes are not both reported.
LEMMA LedgerAgrees ==
    ASSUME btc_finality_thr > 0, TypeOK, CoinInv, LedgerInv, NoAbortAfterLock
    PROVE  OutcomesAgree
<1>1. \A l \in BtcTx : Final(l) => Mined(l)
  <2>1. \A l \in BtcTx : conf[l] \in Int
    BY ConfsType, Labels DEF TypeOK, LedgerOK
  <2> QED
    BY <2>1, TemporalSafetyAssumption DEF Final, final_btc, Mined
<1>2. \A p \in Party : /\ ssm[p] = "SuccessSwap" => Mined("Buy")
                       /\ ssm[p] = "FailureRefund" => Mined("Refund")
                       /\ ssm[p] = "FailurePunish" => Mined("Punish")
  BY <1>1 DEF CoinInv, StateTrue, Backed, BtcTx
<1>3. \A p \in Party : ssm[p] = "FailureAbort" => ~Mined("Lock")
  BY DEF NoAbortAfterLock, Mined
<1>4. Mined("Buy") \/ Mined("Refund") \/ Mined("Punish") => Mined("Lock")
  BY DEF LedgerInv
<1>5. /\ ~(Mined("Buy") /\ (Mined("Refund") \/ Mined("Punish")))
      /\ ~(Mined("Refund") /\ Mined("Punish"))
  BY DEF LedgerInv, Mined
<1>6. "Alice" \in Party /\ "Bob" \in Party
  BY DEF Party
<1> HIDE DEF Mined
<1> QED
  BY <1>2, <1>3, <1>4, <1>5, <1>6 DEF OutcomesAgree, Ended, Outcome

(***************************************************************************)
(* When both swapd processes report an outcome (SwapEnd), it is the same   *)
(* one, whatever stops, fails or comes late.                               *)
(***************************************************************************)
THEOREM OutcomesDoAgree ==
    ASSUME btc_finality_thr > 0
    PROVE  Spec => []OutcomesAgree
<1>1. Spec => []LedgerInv
  BY TypeCorrect, LedgerInvInit, LedgerInvStep, PTL DEF Spec
<1>2. TypeOK /\ CoinInv /\ LedgerInv /\ NoAbortAfterLock => OutcomesAgree
  BY LedgerAgrees
<1> QED
  BY <1>1, <1>2, TypeCorrect, CoinInvCorrect, NoLateAbort, PTL

-------------------------------------------------------------------------------
(***************************************************************************)
(* Bob is never punished when blocks wait for him: NeverPunished of        *)
(* SwapProperties.  From Lock on he watches Cancel and holds Refund; a     *)
(* final Cancel is due to him, or he has noted it; and since no block      *)
(* comes before he is idle, and nothing idle is left behind, his Refund is *)
(* out when the next block comes, which is before Punish is valid.         *)
(***************************************************************************)
BobWaits == BobAfterLock \/ ssm["Bob"] = "BobCanceled"
RefundOut == "Refund" \in broadcasting_txs["Bob"] \/ conf["Refund"] >= 0

\* A Bob who is not there has nothing to be restored from, and no Lock out.
Started ==
    /\ ssm["Bob"] \in {"Down", "StartMaker"} => checkpoint["Bob"] = NoCheckpoint
    /\ ssm["Bob"] = "Down" => ~LockOut
\* Bob watches Cancel and can refund.
Ready ==
    /\ BobWaits \/ ssm["Bob"] = "BobFunded" => "Cancel" \in watched_txs["Bob"]
    /\ BobWaits => "Refund" \in txs["Bob"]
\* A final Cancel is about to be reported to him, or he has noted it.
CancelHeard ==
    Final("Cancel") /\ BobWaits =>
      \/ "Cancel" \in due["Bob"]
      \/ /\ saved["Bob"]["Cancel"] # -1
         /\ ssm["Bob"] = "BobCanceled" \/ CalledWith("Bob", "Cancel", saved["Bob"]["Cancel"])
\* He answers it with Refund, ...
RefundGoes ==
    /\ "Refund" \in broadcasting_txs["Bob"] => Final("Cancel")
    /\ ssm["Bob"] = "BobCancelFinal" => RefundOut
\* ... before Punish is valid.
RefundInTime == conf["Cancel"] >= punish_timelock => conf["Refund"] >= 0

PromptInv ==
    Started /\ Ready /\ CancelHeard /\ RefundGoes /\ RefundInTime /\ NeverPunished

\* What the invariant rests on.
Known == TypeOK /\ RecoveryInv /\ CoinInv /\ LeftInv /\ LedgerInv

-------------------------------------------------------------------------------
\* Nothing has begun.
LEMMA PromptInvInit == Init => PromptInv
<1> SUFFICES ASSUME Init PROVE PromptInv
  OBVIOUS
<1>1. /\ ssm["Bob"] \in {"StartTaker", "StartMaker"} /\ checkpoint["Bob"] = NoCheckpoint
      /\ broadcasting_txs["Bob"] = {} /\ \A l \in TxLabel : conf[l] = -1
  BY Labels DEF Init
<1>2. ~(conf["Cancel"] >= punish_timelock) /\ ~LockOut
  BY <1>1, Labels, TemporalSafetyAssumption DEF LockOut
<1> QED
  BY <1>1, <1>2, Labels DEF PromptInv, Started, Ready, CancelHeard, RefundGoes, RefundInTime,
     NeverPunished, BobWaits, BobAfterLock

\* On the way to the next block, a Cancel that is final has been answered.
LEMMA RefundByNow ==
    ASSUME btc_finality_thr > 0, Known, PromptInv, CaughtUp, Final("Cancel")
    PROVE  conf["Refund"] >= 0
<1> USE Labels DEF Known
<1>1. \A l \in BtcTx : conf[l] \in Int /\ (Final(l) => conf[l] > 0)
  BY ConfsType, TemporalSafetyAssumption DEF Final, final_btc, TypeOK, LedgerOK
<1>2. Mined("Cancel") /\ Mined("Lock") /\ conf["Buy"] = -1
  BY <1>1 DEF Mined, LedgerInv
<1>3. ssm["Bob"] \notin BeforeLock \cup {"Down"}
  BY <1>1, <1>2 DEF PromptInv, Started, RecoveryInv, PastLock, LockOut, Mined
<1>4. /\ ssm["Bob"] \notin {"BobBuyFinal", "BobBuySweeping", "SuccessSwap", "FailurePunish"}
      /\ ssm["Bob"] = "FailureRefund" => conf["Refund"] > 0
  BY <1>1, <1>2 DEF CoinInv, StateTrue, Backed, PromptInv, NeverPunished
<1>5. broadcasting_txs["Bob"] = {} /\ (Live("Bob") => due["Bob"] = {})
      /\ event["Bob"] = NoRequest /\ Idle
  BY DEF CaughtUp, Idle, Busy, Handling
<1>6. ssm["Bob"] = "BobCancelFinal" => conf["Refund"] >= 0
  BY <1>5 DEF PromptInv, RefundGoes, RefundOut
<1>7. ~BobWaits
  <2> SUFFICES ASSUME BobWaits PROVE FALSE
    OBVIOUS
  <2>1. Live("Bob")
    BY DEF BobWaits, BobAfterLock, Live, Ended, Outcome
  <2>2. saved["Bob"]["Cancel"] # -1 /\ ssm["Bob"] = "BobCanceled" /\ "Refund" \in txs["Bob"]
    BY <1>5, <2>1 DEF PromptInv, CancelHeard, Ready, CalledWith, NoRequest
  <2>3. saved["Bob"]["Cancel"] >= 0
    BY <2>2, ConfsType DEF TypeOK, MemOK
  <2>4. NothingLeftBehind
    BY LeftInvSuffices
  <2> QED
    BY <1>5, <2>2, <2>3, <2>4 DEF NothingLeftBehind
<1>8. ssm["Bob"] \in BobState \cup Outcome \cup {"StartTaker", "StartMaker", "Down"}
  BY DEF LeftInv, Sides, Own
<1> QED
  BY <1>1, <1>3, <1>4, <1>6, <1>7, <1>8 DEF BobState, Outcome, BeforeLock, BobWaits, BobAfterLock

-------------------------------------------------------------------------------
\* A step that leaves Bob and the bitcoin ledger alone, or only hands him a request.
BobStill ==
    /\ UNCHANGED <<ssm["Bob"], txs["Bob"], checkpoint["Bob"], saved["Bob"]["Cancel"],
                   broadcasting_txs["Bob"], watched_txs["Bob"]>>
    /\ "Cancel" \in due["Bob"] => "Cancel" \in due'["Bob"]
    /\ event["Bob"] = NoRequest \/ UNCHANGED event["Bob"]
    /\ \A l \in BtcTx : conf'[l] = conf[l]

\* Such a step keeps the invariant.
LEMMA StillPrompt ==
    ASSUME PromptInv, BobStill
    PROVE  PromptInv'
<1> USE Labels DEF BobStill
<1>1. Started' /\ Ready' /\ RefundGoes' /\ RefundInTime' /\ NeverPunished'
  BY DEF PromptInv, Started, Ready, RefundGoes, RefundInTime, NeverPunished, BobWaits,
         BobAfterLock, RefundOut, LockOut, Final
<1>2. CancelHeard'
  <2>1. CalledWith("Bob", "Cancel", saved["Bob"]["Cancel"]) => UNCHANGED event["Bob"]
    BY DEF CalledWith, NoRequest
  <2> QED
    BY <2>1 DEF PromptInv, CancelHeard, BobWaits, BobAfterLock, Final, CalledWith
<1> QED
  BY <1>1, <1>2 DEF PromptInv

\* Alice's arms.
LEMMA AliceStill ==
    ASSUME TypeOK, AliceNext
    PROVE  BobStill
<1> USE Labels DEF BobStill
<1>1. CASE HandshakeNext("Alice")
  BY <1>1 DEF AliceNext, HandshakeNext, attempt_transition_to_init_taker,
         attempt_transition_to_init_maker, handle_maker_commit,
         attempt_transition_to_reveal, handle_abort_swap,
         Transition, TypeOK, FlowOK, watchVars, taskVars, memVars
<1>2. CASE ~HandshakeNext("Alice")
  <2>1. NoTransition("Alice") \/ (\E s : Transition("Alice", s))
    BY <1>2, AliceArm
  <2>2. UNCHANGED <<ssm["Bob"], event["Bob"]>>
    BY <2>1 DEF NoTransition, Transition, TypeOK, FlowOK
  <2> USE <1>2 DEF AliceNext, alice_reveal_to_alice_core_arbitrating_setup,
       alice_core_arbitrating_setup_to_alice_arbitrating_lock_final,
       alice_asks_for_funding, alice_stops_funding,
       alice_arbitrating_lock_final_to_alice_accordant_lock,
       alice_accordant_lock_to_alice_canceled,
       alice_accordant_lock_to_alice_buy_procedure_signature,
       alice_buy_procedure_signature_to_swap_end,
       alice_canceled_retrieves_refund, alice_canceled_broadcasts_punish,
       alice_canceled_broadcasts_cancel, alice_canceled_to_punished,
       alice_canceled_to_alice_refund, alice_canceled_to_swap_end,
       alice_refund_to_alice_refund_sweeping, alice_refund_sweeping_to_swap_end,
       alice_canceled, alice_broadcasts_cancel, alice_ignores,
       alice_canceled_publishes, taskVars, watchVars, memVars
  <2>3. UNCHANGED <<saved, conf>>
    OBVIOUS
  <2>4. UNCHANGED <<txs["Bob"], checkpoint["Bob"]>>
    BY DEF clear_txs, checkpoint_state, TypeOK, TxsOK, CheckpointOK
  <2>5. UNCHANGED broadcasting_txs["Bob"]
    BY AliceArm
  <2>6. UNCHANGED <<watched_txs["Bob"], due["Bob"]>>
    BY DEF watch_tx_btc, watch_tx_xmr, retrieve_tx_btc, abort_all, TypeOK, WatchOK
  <2> QED
    BY <2>2, <2>3, <2>4, <2>5, <2>6
<1> QED
  BY <1>1, <1>2

\* A request handed to a process that is idle.
LEMMA HandedStill ==
    ASSUME TypeOK,
           \/ FarcasterdTakes
           \/ \E p \in Party : \/ Replay(p) \/ FarcasterdMakes(p) \/ PeerDelivers(p)
                               \/ UserAborts(p) \/ SyncerSeesAccLock(p)
                               \/ SyncerSweepsMonero(p)
           \/ \E p \in Party, l \in {"Buy", "Refund"} : SyncerRetrieves(p, l)
           \/ SyncerSeesFunding \/ SyncerSeesNothing \/ SyncerEstimatesFee
           \/ SyncerSweepsBitcoin
    PROVE  BobStill
<1> USE Labels DEF BobStill
<1>1. Idle => event["Bob"] = NoRequest
  BY DEF Idle, Busy, Handling
<1>2. ASSUME NEW p \in Party, Replay(p) PROVE BobStill
  <2>1. UNCHANGED <<ssm, txs, checkpoint, saved, broadcasting_txs, watched_txs, due, conf>>
    BY <1>2 DEF Replay, memVars, watchVars, taskVars
  <2>2. event["Bob"] = NoRequest \/ UNCHANGED event["Bob"]
    BY <1>2 DEF Replay, handle, TypeOK, FlowOK
  <2> QED
    BY <2>1, <2>2
<1>3. CASE \/ FarcasterdTakes
           \/ \E p \in Party : FarcasterdMakes(p) \/ PeerDelivers(p) \/ UserAborts(p)
  BY <1>1, <1>3 DEF FarcasterdTakes, FarcasterdMakes, TakerCommitArrives, PeerDelivers,
                    UserAborts, ctlUnchanged, memVars, watchVars, taskVars
<1>4. CASE \/ \E p \in Party : SyncerSeesAccLock(p) \/ SyncerSweepsMonero(p)
           \/ \E p \in Party, l \in {"Buy", "Refund"} : SyncerRetrieves(p, l)
           \/ SyncerSeesFunding \/ SyncerSeesNothing \/ SyncerEstimatesFee
           \/ SyncerSweepsBitcoin
  <2> USE DEF SyncerSeesAccLock, SyncerSweepsMonero, SyncerRetrieves,
         SyncerSeesFunding, SyncerSeesNothing, SyncerEstimatesFee, SyncerSweepsBitcoin,
         eventUnchanged, syncUnchanged, owes
  <2>1. UNCHANGED <<ssm, txs, checkpoint, broadcasting_txs, watched_txs, conf, saved>> /\ Idle
    BY <1>4
  <2>2. "Cancel" \in due["Bob"] => "Cancel" \in due'["Bob"]
    BY <1>4 DEF TypeOK, WatchOK
  <2> QED
    BY <1>1, <2>1, <2>2
<1> QED
  BY <1>2, <1>3, <1>4

\* Bob's arms up to the reveals lead to no state of the invariant.
LEMMA HandshakePrompt ==
    ASSUME TypeOK, PromptInv, HandshakeNext("Bob"), UNCHANGED conf
    PROVE  PromptInv'
<1> USE Labels
<1>1. /\ UNCHANGED <<txs, checkpoint, saved, broadcasting_txs, watched_txs>>
      /\ \E s \in {"BobInitTaker", "BobInitMaker", "BobTakerMakerCommit", "BobReveal",
                   "BobAbortAwaitingBitcoinSweep", "FailureAbort"} : Transition("Bob", s)
  BY DEF HandshakeNext, attempt_transition_to_init_taker, attempt_transition_to_init_maker,
         handle_maker_commit, attempt_transition_to_reveal, handle_abort_swap,
         handle_bob_abort_swap, taskVars, watchVars, memVars,
         InitTaker, InitMaker, TakerMakerCommit, RevealState
<1>2. ssm'["Bob"] \in {"BobInitTaker", "BobInitMaker", "BobTakerMakerCommit", "BobReveal",
                       "BobAbortAwaitingBitcoinSweep", "FailureAbort"}
  BY <1>1 DEF Transition, TypeOK, FlowOK
<1> QED
  BY <1>1, <1>2 DEF PromptInv, Started, Ready, CancelHeard, RefundGoes, RefundInTime,
     NeverPunished, BobWaits, BobAfterLock, RefundOut, Final

(***************************************************************************)
(* Bob's arms: he watches Cancel from his funding on, takes the signatures *)
(* for Cancel and Refund before Cancel can be final, leaves his waiting    *)
(* states as soon as Cancel is reported, and Refund is his way out.        *)
(***************************************************************************)
LEMMA BobPrompt ==
    ASSUME btc_finality_thr > 0, Known, PromptInv, BobNext
    PROVE  PromptInv'
<1> USE Labels
<1>1. CASE HandshakeNext("Bob")
  BY <1>1, HandshakePrompt DEF BobNext, Known
<1>2. Final("Cancel") => ssm["Bob"] # "BobFunded"
  <2>1. Final("Cancel") => conf["Cancel"] > 0
    BY ConfsType, TemporalSafetyAssumption DEF Final, final_btc, Known, TypeOK, LedgerOK
  <2>2. conf["Cancel"] > 0 => LockOut
    BY ConfsType DEF Known, LedgerInv, Mined, LockOut, TypeOK, LedgerOK
  <2> QED
    BY <2>1, <2>2 DEF Known, RecoveryInv, PastLock, BeforeLock
<1>3. SeesCancelFinal => Final("Cancel")
  BY DEF Known, CoinInv, EventTrue, SeesCancelFinal, Confirmed, BobConfs, Confirmations
<1>4. CASE ~HandshakeNext("Bob")
  <2> USE <1>4 DEF BobNext, bob_reveal_to_bob_fee_estimated, bob_fee_estimated_to_abort,
       handle_bob_abort_swap, bob_fee_estimated_to_bob_funded,
       bob_funded_to_bob_refund_procedure_signature,
       bob_refund_procedure_signatures_to_bob_accordant_lock,
       bob_accordant_lock_to_bob_accordant_lock_final,
       bob_accordant_lock_final_retrieves_buy, bob_accordant_lock_final_to_bob_buy_final,
       bob_buy_final_to_bob_buy_sweeping, bob_buy_sweeping_to_swap_end,
       bob_canceled_to_bob_cancel_final, bob_cancel_final_to_swap_end,
       awaiting_sweep_to_swap_end, bob_broadcasts_cancel, bob_canceled, bob_ignores,
       taskVars, watchVars, memVars, Known
  <2>1. UNCHANGED <<saved, conf>>
    OBVIOUS
  <2>2. \/ bob_ignores \/ bob_broadcasts_cancel
        \/ ssm'["Bob"] \in BobState \cup Outcome
    BY DEF Transition, TypeOK, FlowOK, BobState, Outcome
  <2>3. Started'
    <3>1. CASE ssm'["Bob"] \in BobState \cup Outcome
      BY <3>1 DEF Started, BobState, Outcome
    <3>2. CASE bob_ignores
      BY <3>2, <2>1 DEF NoTransition, PromptInv, Started, LockOut
    <3>3. CASE bob_broadcasts_cancel
      BY <3>3 DEF NoTransition, Started, BobMayCancel, BobAfterLock
    <3> QED
      BY <2>2, <3>1, <3>2, <3>3
  <2>4. Ready'
    <3>1. watched_txs["Bob"] \subseteq watched_txs'["Bob"]
      BY DEF watch_tx_btc, watch_tx_xmr, retrieve_tx_btc, abort_all, TypeOK, WatchOK
    <3>2. \/ BobWaits' => BobWaits /\ ("Refund" \in txs["Bob"] => "Refund" \in txs'["Bob"])
          \/ bob_funded_to_bob_refund_procedure_signature
      BY SMTT(120) DEF BobWaits, BobAfterLock, Transition, NoTransition, TypeOK, FlowOK, TxsOK,
             SeesAccLock, SeesAccLockFinal, SeesBuyFinal, BobSeesCancel
    <3>3. ssm'["Bob"] = "BobFunded" => ssm["Bob"] = "BobFunded" \/ "Cancel" \in watched_txs'["Bob"]
      BY SMTT(120) DEF Transition, NoTransition, TypeOK, FlowOK, WatchOK, watch_tx_btc
    <3>4. bob_funded_to_bob_refund_procedure_signature
            => ssm["Bob"] = "BobFunded" /\ "Refund" \in txs'["Bob"]
      BY SMTT(120) DEF GetsRefundSignatures, TypeOK, TxsOK
    <3> QED
      BY <3>1, <3>2, <3>3, <3>4 DEF PromptInv, Ready
  <2>5. CancelHeard'
    <3> SUFFICES ASSUME Final("Cancel"), BobWaits'
                 PROVE  \/ "Cancel" \in due'["Bob"]
                        \/ /\ saved["Bob"]["Cancel"] # -1
                           /\ ssm'["Bob"] = "BobCanceled"
      BY <2>1 DEF CancelHeard, Final
    <3>1. /\ BobWaits
          /\ "Cancel" \in due["Bob"] => "Cancel" \in due'["Bob"]
          /\ ssm["Bob"] = "BobCanceled" => ssm'["Bob"] = "BobCanceled"
      BY <1>2, SMTT(120) DEF BobWaits, BobAfterLock, Transition, NoTransition, TypeOK, FlowOK, WatchOK,
             GetsRefundSignatures, SeesAccLock, SeesAccLockFinal, SeesBuyFinal, BobSeesCancel,
             watch_tx_xmr, retrieve_tx_btc, GetTx, BobMayCancel
    <3>2. ASSUME BobAfterLock, CalledWith("Bob", "Cancel", saved["Bob"]["Cancel"])
          PROVE  ssm'["Bob"] = "BobCanceled"
      <4>1. BobSeesCancel
        BY <3>2 DEF PromptInv, Ready, BobWaits, BobSeesCancel, Confirmed, CalledWith
      <4>2. bob_canceled
        BY <3>2, <4>1 DEF BobAfterLock, CalledWith, BobMatches, GetsFee, SeesFunding,
           GetsRefundSignatures, SeesAccLock, SeesAccLockFinal, SeesBuyFinal, GetsBuy,
           BobMaySweep, BobSwept, BobAbortSwept, SeesCancelFinal, SeesRefundFinal,
           BobMayCancel, Confirmed, Paid, Received, Retrieved
      <4> QED
        BY <4>2 DEF Transition, TypeOK, FlowOK
    <3> QED
      BY <3>1, <3>2 DEF PromptInv, CancelHeard, BobWaits
  <2>6. RefundGoes'
    <3>1. \/ /\ "Refund" \in broadcasting_txs'["Bob"] <=> "Refund" \in broadcasting_txs["Bob"]
             /\ ssm'["Bob"] = "BobCancelFinal" => ssm["Bob"] = "BobCancelFinal"
          \/ bob_canceled_to_bob_cancel_final
      BY SMTT(120) DEF broadcast, Transition, NoTransition, TypeOK, FlowOK, TaskOK
    <3>2. bob_canceled_to_bob_cancel_final
            => Final("Cancel") /\ "Refund" \in broadcasting_txs'["Bob"]
      BY <1>3 DEF broadcast, TypeOK, TaskOK
    <3> QED
      BY <2>1, <3>1, <3>2 DEF PromptInv, RefundGoes, RefundOut, Final
  <2>7. RefundInTime' /\ NeverPunished'
    BY <2>1 DEF PromptInv, RefundInTime, NeverPunished
  <2> QED
    BY <2>3, <2>4, <2>5, <2>6, <2>7 DEF PromptInv
<1> QED
  BY <1>1, <1>4

\* The report of Cancel is saved, and handed to Bob.
LEMMA ConfirmsPrompt ==
    ASSUME Known, PromptInv, NEW p \in Party, NEW l \in TxLabel, SyncerConfirms(p, l)
    PROVE  PromptInv'
<1> USE Labels DEF Known, SyncerConfirms, syncUnchanged, owes
<1>1. event["Bob"] = NoRequest
  BY DEF Idle, Busy, Handling
<1>2. UNCHANGED <<ssm, txs, checkpoint, broadcasting_txs, watched_txs, conf>>
  OBVIOUS
<1>3. CASE p = "Bob" /\ l = "Cancel"
  <2>1. Final("Cancel") /\ BobWaits
          => /\ saved'["Bob"]["Cancel"] = conf["Cancel"] /\ conf["Cancel"] # -1
             /\ CalledWith("Bob", "Cancel", conf["Cancel"])'
    BY <1>2, <1>3, ConfsType, SMTT(120) DEF save_confs, handle, CalledWith, PromptInv, Ready, Final, TypeOK,
       MemOK, FlowOK, LedgerOK
  <2>2. CancelHeard'
    BY <1>2, <2>1 DEF CancelHeard, BobWaits, BobAfterLock, Final, CalledWith
  <2>3. Started' /\ Ready' /\ RefundGoes' /\ RefundInTime' /\ NeverPunished'
    BY <1>2 DEF PromptInv, Started, Ready, RefundGoes, RefundInTime, NeverPunished, BobWaits,
                BobAfterLock, RefundOut, LockOut, Final
  <2> QED
    BY <2>2, <2>3 DEF PromptInv
<1>4. CASE ~(p = "Bob" /\ l = "Cancel")
  <2>1. UNCHANGED saved["Bob"]["Cancel"]
    BY <1>4 DEF save_confs, TypeOK, MemOK
  <2>2. "Cancel" \in due["Bob"] => "Cancel" \in due'["Bob"]
    BY <1>4 DEF TypeOK, WatchOK
  <2> QED
    BY <1>1, <1>2, <2>1, <2>2, StillPrompt DEF BobStill
<1> QED
  BY <1>3, <1>4

(***************************************************************************)
(* Bob's Refund is accepted, for Cancel is on the ledger and Punish is     *)
(* not; and Punish is not, for when it is valid Refund is on the ledger.   *)
(***************************************************************************)
LEMMA BroadcastsPrompt ==
    ASSUME btc_finality_thr > 0, MaxFailures = 0, ~SplitMempool,
           Known, PromptInv, NEW p \in Party, NEW l \in BtcTx, SyncerBroadcasts(p, l)
    PROVE  PromptInv'
<1> USE Labels DEF Known, SyncerBroadcasts, ledgerUnchanged, flowVars, memVars
<1>1. /\ UNCHANGED <<ssm, event, txs, checkpoint, saved, watched_txs>>
      /\ \A q \in Party, r \in BtcTx :
           r \in broadcasting_txs'[q] <=> r \in broadcasting_txs[q] /\ ~(q = p /\ r = l)
      /\ "Cancel" \in due["Bob"] => "Cancel" \in due'["Bob"]
  BY DEF TypeOK, TaskOK, WatchOK
<1>2. \A r \in BtcTx : conf[r] \in -1..MaxConfs
  BY ConfsType DEF TypeOK, LedgerOK
<1>3. \/ /\ conf[l] = -1 /\ acceptable(l)
         /\ \A r \in BtcTx : conf'[r] = IF r = l THEN 0 ELSE conf[r]
      \/ /\ ~(conf[l] = -1 /\ acceptable(l))
         /\ \A r \in BtcTx : conf'[r] = conf[r]
  <2>1. ~(failures < MaxFailures)
    BY DEF TypeOK, BudgetOK
  <2> QED
    BY <2>1 DEF TypeOK, LedgerOK
<1>4. acceptable("Punish") => conf["Cancel"] >= punish_timelock /\ conf["Refund"] = -1
  BY DEF acceptable, rivals
<1>5. conf["Cancel"] >= 0 /\ conf["Punish"] = -1 => acceptable("Refund")
  BY DEF acceptable, rivals, spends
<1>6. NeverPunished'
  BY <1>3, <1>4 DEF PromptInv, NeverPunished, RefundInTime
<1>7. Final("Cancel")' <=> Final("Cancel")
  BY <1>2, <1>3, TemporalSafetyAssumption DEF Final, final_btc
<1>8. Final("Cancel") => conf["Cancel"] >= 0
  BY <1>2, TemporalSafetyAssumption DEF Final, final_btc
<1>9. RefundGoes'
  <2>1. "Refund" \in broadcasting_txs["Bob"]
          => "Refund" \in broadcasting_txs'["Bob"] \/ conf'["Refund"] >= 0
    BY <1>1, <1>2, <1>3, <1>5, <1>8 DEF PromptInv, RefundGoes, NeverPunished
  <2>2. conf["Refund"] >= 0 => conf'["Refund"] >= 0
    BY <1>3
  <2> QED
    BY <1>1, <1>7, <2>1, <2>2 DEF PromptInv, RefundGoes, RefundOut
<1>10. RefundInTime'
  <2>1. conf'["Cancel"] >= punish_timelock => conf["Cancel"] >= punish_timelock
    BY <1>3, TemporalSafetyAssumption DEF valid_params
  <2> QED
    BY <1>3, <2>1 DEF PromptInv, RefundInTime
<1>11. LockOut' => LockOut
  BY <1>1, <1>3 DEF LockOut, RecoveryInv, OnlyBobLocks
<1> QED
  BY <1>1, <1>6, <1>7, <1>9, <1>10, <1>11 DEF PromptInv, Started, Ready, CancelHeard, BobWaits,
     BobAfterLock, CalledWith

\* A block reports a final Cancel to a Bob who waits, and comes after his answer.
LEMMA BlockPrompt ==
    ASSUME btc_finality_thr > 0, MaxLate = 0, Known, PromptInv, MineBitcoin
    PROVE  PromptInv'
<1> USE Labels DEF Known
<1>1. CaughtUp
  BY DEF MineBitcoin, Block, TypeOK, BudgetOK
<1>2. /\ UNCHANGED <<ssm, event, txs, checkpoint, saved, watched_txs, broadcasting_txs>>
      /\ due' = [p \in Party |->
                      IF Live(p)
                      THEN (due[p] \ {l \in BtcTx : conf'[l] = -1})
                           \cup {l \in BtcTx \cap watched_txs[p] : conf'[l] > 0}
                      ELSE due[p]]
  BY DEF MineBitcoin, ledgerUnchanged, flowVars, memVars
<1>3. \A l \in BtcTx : conf[l] \in -1..MaxConfs /\ MaxConfs \in Nat
  BY ConfsType DEF TypeOK, LedgerOK
<1>4. conf["Punish"] = -1
  BY DEF PromptInv, NeverPunished
<1>5. PICK S \in SUBSET mempool :
             /\ minable(S)
             /\ \A l \in BtcTx :
                  conf'[l] = IF l \in S \/ conf[l] > 0 THEN grown(conf[l])
                             ELSE IF rivals[l] \cap S # {} THEN -1
                             ELSE conf[l]
  BY BlockMines
<1>6. "Punish" \notin S /\ rivals["Refund"] = {"Punish"} /\ \A l \in S : conf[l] = 0
  BY <1>4, <1>5 DEF mempool, rivals
<1>7. /\ conf'["Punish"] = -1
      /\ conf["Refund"] >= 0 => conf'["Refund"] >= 0
      /\ conf'["Lock"] >= 0 => conf["Lock"] >= 0
      /\ conf'["Cancel"] \in Int
      /\ conf'["Cancel"] > 1 => conf["Cancel"] >= conf'["Cancel"] - 1
      /\ conf["Cancel"] > 0 => conf'["Cancel"] >= conf["Cancel"]
  BY <1>3, <1>4, <1>5, <1>6 DEF grown
<1>8. Final("Cancel") => Final("Cancel")'
  BY <1>3, <1>7, TemporalSafetyAssumption DEF Final, final_btc
<1>9. Final("Cancel") => conf["Refund"] >= 0
  BY <1>1, RefundByNow
<1>10. RefundInTime'
  <2>1. conf'["Cancel"] >= punish_timelock => Final("Cancel")
    BY <1>3, <1>7, TemporalSafetyAssumption DEF Final, final_btc, valid_params
  <2> QED
    BY <1>7, <1>9, <2>1 DEF RefundInTime
<1>11. CancelHeard'
  <2> SUFFICES ASSUME Final("Cancel")', BobWaits' PROVE "Cancel" \in due'["Bob"]
    BY DEF CancelHeard
  <2>1. Live("Bob") /\ "Cancel" \in watched_txs["Bob"]
    BY <1>2 DEF PromptInv, Ready, BobWaits, BobAfterLock, Live, Ended, Outcome
  <2>2. conf'["Cancel"] > 0
    BY <1>3, <1>5, TemporalSafetyAssumption DEF Final, final_btc, grown
  <2> QED
    BY <1>2, <2>1, <2>2
<1>12. RefundGoes' /\ Started' /\ Ready'
  BY <1>2, <1>7, <1>8 DEF PromptInv, RefundGoes, RefundOut, Started, LockOut, Ready, BobWaits,
                          BobAfterLock
<1> QED
  BY <1>7, <1>10, <1>11, <1>12 DEF PromptInv, NeverPunished

\* farcasterd finds no deal for a maker who never was, and removes what is done with.
LEMMA FarcasterdPrompt ==
    ASSUME Known, PromptInv, NEW p \in Party, FarcasterdHasNoDeal(p) \/ FarcasterdCleansUp(p)
    PROVE  PromptInv'
<1> USE Labels DEF Known, flowVars, watchVars, taskVars, memVars
<1>1. UNCHANGED <<event, txs, saved, watched_txs, broadcasting_txs, due, conf>>
  BY DEF FarcasterdHasNoDeal, FarcasterdCleansUp
<1>2. CASE FarcasterdHasNoDeal("Bob") /\ p = "Bob"
  <2>1. ssm["Bob"] = "StartMaker" /\ ssm'["Bob"] = "Down" /\ UNCHANGED checkpoint
    BY <1>2 DEF FarcasterdHasNoDeal, TakerCommitArrives, TypeOK, FlowOK
  <2>2. ~LockOut
    BY <2>1 DEF RecoveryInv, PastLock, BeforeLock
  <2> QED
    BY <1>1, <2>1, <2>2 DEF PromptInv, Started, LockOut, Ready, CancelHeard, RefundGoes,
       RefundInTime, NeverPunished, BobWaits, BobAfterLock, Final
<1>3. CASE FarcasterdCleansUp("Bob") /\ p = "Bob"
  <2>1. UNCHANGED ssm /\ checkpoint'["Bob"] = NoCheckpoint
    BY <1>3 DEF FarcasterdCleansUp, TypeOK, CheckpointOK
  <2> QED
    BY <1>1, <2>1 DEF PromptInv, Started, LockOut, Ready, CancelHeard, RefundGoes, RefundOut,
       RefundInTime, NeverPunished, BobWaits, BobAfterLock, Final, CalledWith
<1>4. CASE p # "Bob"
  <2>1. UNCHANGED <<ssm["Bob"], checkpoint["Bob"]>>
    BY <1>4 DEF FarcasterdHasNoDeal, FarcasterdCleansUp, TypeOK, FlowOK, CheckpointOK
  <2> QED
    BY <1>1, <2>1, StillPrompt DEF BobStill
<1> QED
  BY <1>2, <1>3, <1>4

\* No process stops, and none that is down was ever up.
LEMMA RestorePrompt ==
    ASSUME MaxCrashes = 0, Known, PromptInv, NEW p \in Party, Crash(p) \/ Restore(p)
    PROVE  PromptInv'
<1> USE Labels DEF Known
<1>1. ~Crash(p)
  BY DEF Crash, TypeOK, BudgetOK
<1>2. p # "Bob"
  BY <1>1 DEF Restore, PromptInv, Started
<1>3. BobStill
  BY <1>1, <1>2 DEF Restore, BobStill, TypeOK, FlowOK, TxsOK, WatchOK, TaskOK, Party
<1> QED
  BY <1>3, StillPrompt

\* Every step, put together.
LEMMA PromptInvStep ==
    ASSUME btc_finality_thr > 0, MaxLate = 0, MaxCrashes = 0, MaxFailures = 0, ~SplitMempool,
           Known, PromptInv, [Next]_vars
    PROVE  PromptInv'
<1> USE Labels
<1>1. TypeOK
  BY DEF Known
<1>2. CASE SwapdStep
  BY <1>1, <1>2, BobPrompt, AliceStill, HandedStill, StillPrompt DEF SwapdStep
<1>3. CASE FarcasterdStep \/ (\E p \in Party : PeerDelivers(p))
  BY <1>1, <1>3, FarcasterdPrompt, HandedStill, StillPrompt DEF FarcasterdStep
<1>4. CASE SyncerStep
  BY <1>1, <1>4, ConfirmsPrompt, BroadcastsPrompt, HandedStill, StillPrompt DEF SyncerStep
<1>5. CASE MineMonero
  <2>1. \A l \in BtcTx : conf'[l] = conf[l]
    BY <1>1, <1>5 DEF MineMonero, TypeOK, LedgerOK
  <2>2. BobStill
    BY <1>5, <2>1 DEF MineMonero, ledgerUnchanged, flowVars, memVars, BobStill
  <2> QED
    BY <2>2, StillPrompt
<1>6. CASE UserStep
  <2>1. CASE \E a \in BtcAmounts : UserFundsBitcoin(a)
    BY <1>1, <2>1, StillPrompt DEF UserFundsBitcoin, ledgerUnchanged, flowVars, memVars,
                                   BobStill, TypeOK, WatchOK
  <2>2. CASE \E s \in XmrAmounts : UserFundsMonero(s)
    <3>1. \A l \in BtcTx : conf'[l] = conf[l]
      BY <1>1, <2>2 DEF UserFundsMonero, TypeOK, LedgerOK
    <3>2. BobStill
      BY <2>2, <3>1 DEF UserFundsMonero, ledgerUnchanged, flowVars, memVars, BobStill
    <3> QED
      BY <3>2, StillPrompt
  <2> QED
    BY <1>1, <1>6, <2>1, <2>2, HandedStill, StillPrompt DEF UserStep
<1>7. CASE UNCHANGED vars
  BY <1>7, StillPrompt DEF vars, runtimeVars, flowVars, watchVars, taskVars, memVars, BobStill
<1> QED
  BY <1>2, <1>3, <1>4, <1>5, <1>6, <1>7, BlockPrompt, RestorePrompt DEF Next

(***************************************************************************)
(* When blocks wait for both processes, neither stops, and every broadcast *)
(* arrives, the timelocks leave Bob the time to refund: Alice's Punish     *)
(* never comes on the ledger (valid_params, valid_punish,                  *)
(* try_bob_canceled_to_bob_cancel_final), whatever the parameters.         *)
(***************************************************************************)
THEOREM NeverPunishedInTime ==
    ASSUME btc_finality_thr > 0, MaxLate = 0, MaxCrashes = 0, MaxFailures = 0, ~SplitMempool
    PROVE  Spec => []NeverPunished
<1>1. Spec => []RecoveryInv
  BY TypeCorrect, RecoveryInvInit, RecoveryInvStep, PTL DEF Spec
<1>2. Spec => []LeftInv
  BY TypeCorrect, LeftInvInit, LeftInvStep, PTL DEF Spec
<1>3. Spec => []LedgerInv
  BY TypeCorrect, LedgerInvInit, LedgerInvStep, PTL DEF Spec
<1>4. TypeOK /\ RecoveryInv /\ CoinInv /\ LeftInv /\ LedgerInv => Known
  BY DEF Known
<1>5. Known /\ PromptInv /\ [Next]_vars => PromptInv'
  BY PromptInvStep
<1>6. PromptInv => NeverPunished
  BY DEF PromptInv
<1> QED
  BY <1>1, <1>2, <1>3, <1>4, <1>5, <1>6, TypeCorrect, CoinInvCorrect, PromptInvInit, PTL DEF Spec

===============================================================================
