---------------------------- MODULE SwapProperties ----------------------------
(***************************************************************************)
(* What a swap promises to the two users.                                  *)
(***************************************************************************)
EXTENDS Swap

Due == TxLabel \cup {"Fee", "FundingAddr", "AccLockAddr", "Empty",
                   "GetBuy", "GetRefund"}

(***************************************************************************)
(* Every variable has its type, and a message from the peer is one of the  *)
(* protocol's, also when it was set aside before (unhandled_peer_message). *)
(***************************************************************************)
FlowOK ==
    /\ ssm \in [Party -> SwapStateMachine]
    /\ event \in [Party -> Request]
    /\ \A p \in Party : event[p].kind = "P2p" => event[p].label \in PeerMsg \cup {"none"}
    /\ unhandled_peer_message \in [Party -> PeerMsg \cup {"none"}]
    /\ replays \in [Party -> Seq({"unhandled", "Buy", "Lock", "Cancel"})]
WatchOK ==
    /\ watched_txs \in [Party -> SUBSET TxLabel]
    /\ watched_addrs \in [Party -> SUBSET {"Funding", "AccLock"}]
    /\ txids \in [Party -> SUBSET BtcTx]
    /\ due \in [Party -> SUBSET Due]
TaskOK ==
    /\ retrieving_txs \in [Party -> SUBSET BtcTx]
    /\ broadcasting_txs \in [Party -> SUBSET BtcTx]
    /\ sweeping_addr \in [Party -> {"none", "ready", "sent"}]
MemOK ==
    /\ saved \in [Party -> [{"Lock", "Cancel", "Buy"} -> Confs]]
    /\ confirmations \in [Party -> SUBSET TxLabel]
    /\ awaiting_funding \in [Party -> BOOLEAN]
    /\ xmr_addr_addendum \in [Party -> BOOLEAN]
TxsOK == txs \in [Party -> SUBSET BtcTx]
CheckpointOK == checkpoint \in [Party -> CheckpointSwapd]
InboxOK == inbox \in [Party -> Seq(PeerMsg)]
LedgerOK ==
    /\ conf \in [TxLabel -> Confs]
    /\ funding \in {"none", "exact", "wrong", "swept"}
    /\ acc_amount \in Sign
    /\ xmr_owner \in Party \cup {"lock"}
BudgetOK == taker \in Party /\ late \in Nat /\ crashes \in Nat /\ failures \in Nat

TypeOK ==
    /\ FlowOK
    /\ WatchOK
    /\ TaskOK
    /\ MemOK
    /\ TxsOK /\ CheckpointOK /\ InboxOK
    /\ LedgerOK /\ BudgetOK

(***************************************************************************)
(* Lock leaves Bob's hands only when his checkpoint on disk holds the two  *)
(* transactions that bring the bitcoin back (checkpoint_state before       *)
(* broadcast in try_bob_funded_to_bob_refund_procedure_signature).         *)
(***************************************************************************)
LockRecoverable ==
    "Lock" \in broadcasting_txs["Bob"] \/ conf["Lock"] >= 0
      => Ended("Bob") \/ {"Cancel", "Refund"} \subseteq checkpoint["Bob"].txs

(***************************************************************************)
(* Alice is asked for monero, and has locked monero, only on a final Lock  *)
(* and with Cancel and Punish on disk.                                     *)
(***************************************************************************)
FundingRecoverable ==
    awaiting_funding["Alice"] \/ conf["AccLock"] >= 0
      => /\ final_btc(conf["Lock"])
         /\ Ended("Alice") \/ {"Cancel", "Punish"} \subseteq checkpoint["Alice"].txs

(***************************************************************************)
(* Bob's signature for Buy is nowhere, on its way, set aside, in use or on *)
(* the ledger, before monero enough is final at the shared address         *)
(* (try_bob_accordant_lock_to_bob_accordant_lock_final).                   *)
(***************************************************************************)
BuySignatureOut ==
    \/ \E i \in 1..Len(inbox["Alice"]) : inbox["Alice"][i] = "BuyProcedureSignature"
    \/ Received("Alice", "BuyProcedureSignature")
    \/ unhandled_peer_message["Alice"] = "BuyProcedureSignature"
    \/ "Buy" \in txs["Alice"] \cup broadcasting_txs["Alice"]
    \/ conf["Buy"] >= 0
BuySignatureBacked ==
    BuySignatureOut => final_xmr(conf["AccLock"]) /\ acc_amount >= 0

(***************************************************************************)
(* The monero goes with the bitcoin: to Bob only when Alice's Buy is       *)
(* final, back to Alice only when Bob's Refund is.  The key that moves it  *)
(* comes out of one of the two (process_buy_tx, process_refund_tx).        *)
(***************************************************************************)
MoneroFollowsBitcoin ==
    /\ xmr_owner = "Bob" => final_btc(conf["Buy"])
    /\ xmr_owner = "Alice" => final_btc(conf["Refund"])

(***************************************************************************)
(* An outcome reported to farcasterd is what the ledgers say.              *)
(***************************************************************************)
OutcomesTrue ==
    /\ ssm["Alice"] = "SuccessSwap" => final_btc(conf["Buy"])
    /\ ssm["Alice"] = "FailurePunish" => final_btc(conf["Punish"])
    /\ ssm["Bob"] = "SuccessSwap" => xmr_owner = "Bob" /\ final_btc(conf["Buy"])
    /\ \A p \in Party : ssm[p] = "FailureRefund" => final_btc(conf["Refund"])

(***************************************************************************)
(* No swap is aborted that has its bitcoin locked, or about to be.         *)
(***************************************************************************)
NoAbortAfterLock ==
    \A p \in Party :
      ssm[p] \in {"FailureAbort", "BobAbortAwaitingBitcoinSweep"}
        => conf["Lock"] = -1 /\ "Lock" \notin broadcasting_txs["Bob"]

(***************************************************************************)
(* Two processes that end, end alike.                                      *)
(***************************************************************************)
OutcomesAgree == Ended("Alice") /\ Ended("Bob") => ssm["Alice"] = ssm["Bob"]

(***************************************************************************)
(* The timelocks leave Bob the time to refund: when blocks wait for him he *)
(* is never punished.                                                      *)
(***************************************************************************)
NeverPunished == conf["Punish"] = -1

(***************************************************************************)
(* When nothing is being handled, nothing that came too early and was set  *)
(* aside is still waiting in a state that has a use for it                 *)
(* (execute_state_machine replays it on every transition).                 *)
(***************************************************************************)
Awaited == [s \in SwapStateMachine |->
    CASE s \in {"BobInitTaker", "AliceInitTaker"} -> "MakerCommit"
      [] s \in {"BobInitMaker", "AliceInitMaker",
                "BobTakerMakerCommit", "AliceTakerMakerCommit"} -> "Reveal"
      [] s = "AliceReveal" -> "CoreArbitratingSetup"
      [] s = "BobFunded" -> "RefundProcedureSignatures"
      [] s = "AliceAccordantLock" -> "BuyProcedureSignature"
      [] OTHER -> "nothing"]
NothingLeftBehind ==
    Idle =>
      /\ \A p \in Party : unhandled_peer_message[p] # Awaited[ssm[p]]
      /\ ssm["Alice"] = "AliceBuyProcedureSignature" => saved["Alice"]["Buy"] = -1
      /\ ssm["Bob"] = "BobAccordantLockFinal" /\ saved["Bob"]["Buy"] >= 0
           => "Buy" \in retrieving_txs["Bob"]
      /\ ssm["Bob"] = "BobCanceled" /\ saved["Bob"]["Cancel"] >= 0
           => "Refund" \notin txs["Bob"]
      /\ ssm["Alice"] = "AliceCanceled" /\ valid_punish(saved["Alice"]["Cancel"])
           => "Punish" \notin txs["Alice"]
      /\ BobAfterLock /\ valid_cancel(saved["Bob"]["Lock"])
           => "Cancel" \notin txs["Bob"]

(***************************************************************************)
(* A request is handled in a finite number of replays.                     *)
(***************************************************************************)
HandlersReturn == \A p \in Party : Busy(p) ~> ~Busy(p)

(***************************************************************************)
(* Once the bitcoin is locked, both processes come to an end.              *)
(***************************************************************************)
LockedSwapEnds == (conf["Lock"] > 0) ~> (Ended("Alice") /\ Ended("Bob"))

-------------------------------------------------------------------------------
(***************************************************************************)
(* What comments and documentation say, and the code does not do.          *)
(***************************************************************************)

(***************************************************************************)
(* "buy shall not be raced with cancel" (safe_buy in temporal_safety.rs):  *)
(* when Alice publishes Buy, the confirmations of Lock known to her leave  *)
(* it race_thr blocks.                                                     *)
(***************************************************************************)
NoRacingBuy ==
    [][ "Buy" \in broadcasting_txs'["Alice"] \ broadcasting_txs["Alice"]
          => safe_buy(saved["Alice"]["Lock"]) ]_vars

(***************************************************************************)
(* "coins are swapped successfully, or - less ideally - refunded"          *)
(* (docs/Usage.md): an Alice who reports a refund has her monero back if   *)
(* she had locked any.                                                     *)
(***************************************************************************)
RefundedInFull ==
    ssm["Alice"] = "FailureRefund" => conf["AccLock"] = -1 \/ xmr_owner = "Alice"

(***************************************************************************)
(* "If Cancel Broadcast failed, then we need to go into Buy"               *)
(* (try_bob_canceled_to_bob_cancel_final): a Bob who counted on Cancel     *)
(* does so no more when Buy is final instead, and every event of it has    *)
(* been handled.                                                           *)
(***************************************************************************)
BuyAfterFailedCancel ==
    final_btc(conf["Buy"]) /\ CaughtUp => ssm["Bob"] # "BobCanceled"

===============================================================================
