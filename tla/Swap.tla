--------------------------------- MODULE Swap ---------------------------------
(***************************************************************************)
(* One swap: the swapd of Alice and the swapd of Bob, with what stands     *)
(* around them.  The two ledgers, the syncers, peerd, databased and        *)
(* farcasterd are seen through what swapd uses of them.                    *)
(*                                                                         *)
(* Requests are delivered one at a time, and none while a handler runs or  *)
(* has replays left: a handler writes to its peer and its syncers, and     *)
(* reads only its own state, so that its steps commute with theirs.  An    *)
(* event that waits in a queue is one whose effects come late: broadcasts, *)
(* peer messages and the users may all wait as long as they like.          *)
(***************************************************************************)
EXTENDS BobSwap, AliceSwap

CONSTANTS
    Takers,         \* the parties that may have taken the deal
    XmrAmounts,     \* what Alice may lock: -1 too little, 0 right, 1 too much
    BtcAmounts,     \* what Bob may fund: "exact", "wrong"
    AllowAbort,     \* whether a user may abort
    SplitMempool,   \* whether conflicting transactions may both be relayed
    MaxLate,        \* how many blocks may come before the processes catch up
    MaxCrashes,     \* how often a swapd may stop and be restored
    MaxFailures     \* how many broadcasts and sweeps may fail in transit

ASSUME SwapAssumption ==
    /\ Takers \subseteq Party
    /\ XmrAmounts \subseteq Sign
    /\ BtcAmounts \subseteq {"exact", "wrong"}
    /\ {AllowAbort, SplitMempool} \subseteq BOOLEAN
    /\ {MaxConfs, MaxLate, MaxCrashes, MaxFailures} \subseteq Nat
    /\ {punish_timelock, sweep_monero_thr, xmr_finality_thr} \subseteq 1..MaxConfs

VARIABLES
    taker,        \* the party that took the deal; the other one made it
    funding,      \* Bob's funding address
    acc_amount,   \* what the AccLock transaction paid, once there is one
    xmr_owner,    \* who holds the locked monero
    late, crashes, failures

budgets == <<late, crashes, failures>>
ledgerVars == <<funding, acc_amount, xmr_owner>>
vars == <<runtimeVars, conf, taker, ledgerVars, budgets>>

Init ==
    /\ taker \in Takers
    /\ ssm = [p \in Party |-> IF p = taker THEN "StartTaker" ELSE "StartMaker"]
    /\ event = [p \in Party |-> NoRequest]
    /\ unhandled_peer_message = [p \in Party |-> "none"]
    /\ replays = [p \in Party |-> <<>>]
    /\ inbox = [p \in Party |-> <<>>]
    /\ txs = [p \in Party |-> {}]
    /\ watched_txs = [p \in Party |-> {}]
    /\ watched_addrs = [p \in Party |-> {}]
    /\ txids = [p \in Party |-> {}]
    /\ due = [p \in Party |-> {}]
    /\ retrieving_txs = [p \in Party |-> {}]
    /\ broadcasting_txs = [p \in Party |-> {}]
    /\ sweeping_addr = [p \in Party |-> "none"]
    /\ saved = [p \in Party |-> [l \in {"Lock", "Cancel", "Buy"} |-> -1]]
    /\ confirmations = [p \in Party |-> {}]
    /\ awaiting_funding = [p \in Party |-> FALSE]
    /\ xmr_addr_addendum = [p \in Party |-> FALSE]
    /\ checkpoint = [p \in Party |-> NoCheckpoint]
    /\ conf = [l \in TxLabel |-> -1]
    /\ funding = "none" /\ acc_amount = 0 /\ xmr_owner = "lock"
    /\ late = 0 /\ crashes = 0 /\ failures = 0

Ended(p) == ssm[p] \in Outcome
Live(p) == ~Ended(p) /\ ssm[p] # "Down"

(***************************************************************************)
(* The two processes.                                                      *)
(***************************************************************************)
SwapdStep ==
    /\ \/ BobNext
       \/ AliceNext
       \/ \E p \in Party : Replay(p)
    /\ UNCHANGED <<taker, ledgerVars, budgets>>

(***************************************************************************)
(* farcasterd starts the two processes, and passes on the user's abort.    *)
(***************************************************************************)
ctlUnchanged == UNCHANGED <<ssm, unhandled_peer_message, replays, txs, watchVars,
                            taskVars, memVars, checkpoint, conf, taker,
                            ledgerVars, budgets>>

FarcasterdTakes ==
    /\ Idle
    /\ ssm[taker] = "StartTaker"
    /\ handle(taker, "Ctl", "TakeSwap", 0)
    /\ UNCHANGED inbox /\ ctlUnchanged

TakerCommitArrives(p) ==
    /\ Idle
    /\ ssm[p] = "StartMaker" /\ inbox[p] # <<>> /\ Head(inbox[p]) = "TakerCommit"

FarcasterdMakes(p) ==
    /\ TakerCommitArrives(p)
    /\ inbox' = [inbox EXCEPT ![p] = Tail(@)]
    /\ handle(p, "Ctl", "MakeSwap", 0)
    /\ ctlUnchanged

\* The deal is gone: no swapd is started, and the taker is told.
FarcasterdHasNoDeal(p) ==
    /\ TakerCommitArrives(p)
    /\ inbox' = [inbox EXCEPT ![p] = Tail(@), ![peer(p)] = Append(@, "DealNotFound")]
    /\ ssm' = [ssm EXCEPT ![p] = "Down"]
    /\ UNCHANGED <<event, unhandled_peer_message, replays, txs, watchVars, taskVars,
                   memVars, checkpoint, conf, taker, ledgerVars, budgets>>

UserAborts(p) ==
    /\ AllowAbort
    /\ Idle /\ Live(p)
    /\ handle(p, "Ctl", "AbortSwap", 0)
    /\ UNCHANGED inbox /\ ctlUnchanged

\* clean_up_after_swap removes the checkpoint, after the outcome is reported.
FarcasterdCleansUp(p) ==
    /\ Idle /\ Ended(p) /\ checkpoint[p] # NoCheckpoint
    /\ checkpoint' = [checkpoint EXCEPT ![p] = NoCheckpoint]
    /\ UNCHANGED <<flowVars, txs, watchVars, taskVars, memVars, inbox, conf, taker,
                   ledgerVars, budgets>>

(***************************************************************************)
(* peerd delivers in order.                                                *)
(***************************************************************************)
PeerDelivers(p) ==
    /\ Idle /\ Live(p) /\ ssm[p] # "StartMaker"
    /\ inbox[p] # <<>>
    /\ inbox' = [inbox EXCEPT ![p] = Tail(@)]
    /\ handle(p, "P2p", Head(inbox[p]), 0)
    /\ ctlUnchanged

(***************************************************************************)
(* The syncers' events.                                                    *)
(***************************************************************************)
owes(p, e) == Idle /\ Live(p) /\ e \in due[p]
syncUnchanged == UNCHANGED <<ssm, unhandled_peer_message, replays, txs, watched_txs,
                             watched_addrs, txids, broadcasting_txs,
                             awaiting_funding, xmr_addr_addendum, checkpoint,
                             inbox, conf, taker, acc_amount, late, crashes>>
eventUnchanged == /\ UNCHANGED <<saved, confirmations, retrieving_txs, sweeping_addr,
                                 funding, xmr_owner, failures>>
                  /\ syncUnchanged

SyncerConfirms(p, l) ==
    /\ owes(p, l)
    /\ conf[l] >= 0
    /\ due' = [due EXCEPT ![p] = @ \ {l}]
    /\ save_confs(p, l, conf[l])
    /\ handle_tx_confs(p, l, conf[l])
    /\ handle(p, "TransactionConfirmations", l, conf[l])
    /\ UNCHANGED <<retrieving_txs, sweeping_addr, funding, xmr_owner, failures>>
    /\ syncUnchanged

SyncerSeesFunding ==
    /\ owes("Bob", "FundingAddr")
    /\ due' = [due EXCEPT !["Bob"] = @ \ {"FundingAddr"}]
    /\ handle("Bob", "AddressTransaction", "Funding", IF funding = "exact" THEN 0 ELSE 1)
    /\ eventUnchanged

SyncerSeesAccLock(p) ==
    /\ owes(p, "AccLockAddr")
    /\ due' = [due EXCEPT ![p] = @ \ {"AccLockAddr"}]
    /\ handle(p, "AddressTransaction", "AccLock", acc_amount)
    /\ eventUnchanged

\* Bob's watch of the same address is also answered with Empty; his handlers
\* ignore it.
SyncerSeesNothing ==
    /\ owes("Alice", "Empty")
    /\ due' = [due EXCEPT !["Alice"] = @ \ {"Empty"}]
    /\ handle("Alice", "Empty", "none", 0)
    /\ eventUnchanged

SyncerEstimatesFee ==
    /\ owes("Bob", "Fee")
    /\ due' = [due EXCEPT !["Bob"] = @ \ {"Fee"}]
    /\ handle("Bob", "FeeEstimation", "none", 0)
    /\ eventUnchanged

\* A retrieval that finds nothing is asked for again.
SyncerRetrieves(p, l) ==
    /\ owes(p, GetTx[l])
    /\ conf[l] >= 0
    /\ due' = [due EXCEPT ![p] = @ \ {GetTx[l]}]
    /\ handle(p, "TransactionRetrieved", l, 0)
    /\ eventUnchanged

\* The monero syncer tries until the balance is unlocked and large enough.
SyncerSweepsMonero(p) ==
    /\ Idle
    /\ ssm[p] \in {"BobBuySweeping", "AliceRefundSweeping"} /\ sweeping_addr[p] = "sent"
    /\ conf["AccLock"] >= sweep_monero_thr
    /\ xmr_owner = "lock" /\ acc_amount >= 0
    /\ xmr_owner' = p
    /\ handle(p, "SweepSuccess", "none", 0)
    /\ UNCHANGED <<due, saved, confirmations, retrieving_txs, sweeping_addr,
                   funding, failures>>
    /\ syncUnchanged

\* The bitcoin syncer tries once, and finds nothing when the address is empty
\* or, failures permitting, when its server does not answer.
Sweepable == funding \in {"exact", "wrong"} /\ conf["Lock"] = -1
SyncerSweepsBitcoin ==
    /\ Idle /\ ssm["Bob"] = "BobAbortAwaitingBitcoinSweep"
    /\ \/ /\ Sweepable
          /\ funding' = "swept"
          /\ handle("Bob", "SweepSuccess", "none", 0)
          /\ UNCHANGED failures
       \/ /\ Sweepable => failures < MaxFailures
          /\ failures' = IF Sweepable THEN failures + 1 ELSE failures
          /\ handle("Bob", "TaskAborted", "none", 0)
          /\ UNCHANGED funding
    /\ UNCHANGED <<due, saved, confirmations, retrieving_txs, sweeping_addr, xmr_owner>>
    /\ syncUnchanged

(***************************************************************************)
(* The ledgers.  Buy and Cancel both spend Lock, Refund and Punish both    *)
(* spend Cancel; Cancel and Punish are timelocked.                         *)
(***************************************************************************)
rivals == [Lock |-> {}, Buy |-> {"Cancel"}, Cancel |-> {"Buy"},
           Refund |-> {"Punish"}, Punish |-> {"Refund"}]
spends == [Lock |-> "none", Buy |-> "Lock", Cancel |-> "Lock",
           Refund |-> "Cancel", Punish |-> "Cancel"]

\* What a node accepts into its mempool.
acceptable(l) ==
    /\ CASE l = "Lock"   -> funding = "exact"
         [] l = "Cancel" -> conf["Lock"] >= cancel_timelock
         [] l = "Punish" -> conf["Cancel"] >= punish_timelock
         [] OTHER        -> conf[spends[l]] >= 0
    /\ \A r \in rivals[l] : conf[r] = -1 \/ (SplitMempool /\ conf[r] = 0)

ledgerUnchanged == UNCHANGED <<flowVars, txs, watched_txs, watched_addrs, txids,
                               retrieving_txs, sweeping_addr, memVars, checkpoint,
                               inbox, taker, xmr_owner, crashes>>

\* One attempt per broadcast: TransactionBroadcasted, with or without an
\* error, takes the transaction off broadcasting_txs.
SyncerBroadcasts(p, l) ==
    /\ Idle /\ l \in broadcasting_txs[p]
    /\ broadcasting_txs' = [broadcasting_txs EXCEPT ![p] = @ \ {l}]
    /\ \/ /\ conf[l] = -1 /\ acceptable(l)
          /\ conf' = [conf EXCEPT ![l] = 0]
          /\ due' = [q \in Party |-> IF Live(q) /\ l \in watched_txs[q]
                                     THEN due[q] \cup {l} ELSE due[q]]
          /\ UNCHANGED failures
       \/ /\ conf[l] = -1 /\ acceptable(l) => failures < MaxFailures
          /\ failures' = IF conf[l] = -1 /\ acceptable(l) THEN failures + 1
                                                          ELSE failures
          /\ UNCHANGED <<conf, due>>
    /\ UNCHANGED <<funding, acc_amount, late>> /\ ledgerUnchanged

\* A block comes when nothing is left to do before it, or late for someone.
CaughtUp ==
    /\ Idle
    /\ \A p \in Party :
         /\ broadcasting_txs[p] = {}
         /\ Live(p) => /\ due[p] = {}
                       /\ inbox[p] = <<>> \/ ssm[p] = "StartMaker"

Block == \/ CaughtUp /\ UNCHANGED late
         \/ Idle /\ ~CaughtUp /\ late < MaxLate /\ late' = late + 1

grown(n) == IF n < MaxConfs THEN n + 1 ELSE n

mempool == {l \in BtcTx : conf[l] = 0}
minable(S) == \A l \in S : /\ rivals[l] \cap S = {}
                           /\ spends[l] # "none" =>
                                spends[l] \in S \/ conf[spends[l]] > 0

\* A block holds any part of the mempool that fits together, all that does
\* when everyone has caught up; the rivals of what it holds are gone.
MineBitcoin ==
    /\ Block
    /\ \E S \in SUBSET mempool :
         /\ minable(S)
         /\ CaughtUp => \A l \in mempool \ S : ~minable(S \cup {l})
         /\ conf' = [l \in TxLabel |->
                       IF l = "AccLock" THEN conf[l]
                       ELSE IF l \in S \/ conf[l] > 0 THEN grown(conf[l])
                       ELSE IF rivals[l] \cap S # {} THEN -1
                       ELSE conf[l]]
         /\ due' = [p \in Party |->
                      IF Live(p)
                      THEN (due[p] \ {l \in BtcTx : conf'[l] = -1})
                           \cup {l \in BtcTx \cap watched_txs[p] : conf'[l] > 0}
                      ELSE due[p]]
    /\ UNCHANGED <<broadcasting_txs, failures, funding, acc_amount>> /\ ledgerUnchanged

MineMonero ==
    /\ Block
    /\ conf["AccLock"] >= 0
    /\ conf' = [conf EXCEPT !["AccLock"] = grown(@)]
    /\ due' = [p \in Party |-> IF Live(p) /\ "AccLock" \in watched_txs[p]
                               THEN due[p] \cup {"AccLock"} ELSE due[p]]
    /\ UNCHANGED <<broadcasting_txs, failures, funding, acc_amount>> /\ ledgerUnchanged

(***************************************************************************)
(* The users fund while they are asked to.                                 *)
(***************************************************************************)
UserFundsBitcoin(a) ==
    /\ Idle /\ Live("Bob") /\ awaiting_funding["Bob"] /\ funding = "none"
    /\ funding' = a
    /\ due' = [due EXCEPT !["Bob"] = @ \cup {"FundingAddr"}]
    /\ UNCHANGED <<broadcasting_txs, failures, conf, acc_amount, late>> /\ ledgerUnchanged

UserFundsMonero(s) ==
    /\ Idle /\ Live("Alice") /\ awaiting_funding["Alice"] /\ conf["AccLock"] = -1
    /\ acc_amount' = s
    /\ conf' = [conf EXCEPT !["AccLock"] = 0]
    /\ due' = [p \in Party |-> IF Live(p) /\ "AccLock" \in watched_addrs[p]
                               THEN due[p] \cup {"AccLockAddr"} ELSE due[p]]
    /\ UNCHANGED <<broadcasting_txs, failures, funding, late>> /\ ledgerUnchanged

(***************************************************************************)
(* A swapd stops, at any moment, and is restored from its checkpoint.      *)
(* What it had handed to peerd or to a syncer may be lost with it.         *)
(***************************************************************************)
Crash(p) ==
    /\ crashes < MaxCrashes
    /\ ssm[p] # "Down" /\ (Ended(p) => checkpoint[p] # NoCheckpoint)
    /\ crashes' = crashes + 1
    /\ ssm' = [ssm EXCEPT ![p] = "Down"]
    /\ event' = [event EXCEPT ![p] = NoRequest]
    /\ unhandled_peer_message' = [unhandled_peer_message EXCEPT ![p] = "none"]
    /\ replays' = [replays EXCEPT ![p] = <<>>]
    /\ txs' = [txs EXCEPT ![p] = {}]
    /\ watched_txs' = [watched_txs EXCEPT ![p] = {}]
    /\ watched_addrs' = [watched_addrs EXCEPT ![p] = {}]
    /\ txids' = [txids EXCEPT ![p] = {}]
    /\ due' = [due EXCEPT ![p] = {}]
    /\ retrieving_txs' = [retrieving_txs EXCEPT ![p] = {}]
    /\ sweeping_addr' = [sweeping_addr EXCEPT ![p] = "none"]
    /\ saved' = [saved EXCEPT ![p] = [l \in {"Lock", "Cancel", "Buy"} |-> -1]]
    /\ confirmations' = [confirmations EXCEPT ![p] = {}]
    /\ awaiting_funding' = [awaiting_funding EXCEPT ![p] = FALSE]
    /\ xmr_addr_addendum' = [xmr_addr_addendum EXCEPT ![p] = FALSE]
    /\ \E lost \in SUBSET {"broadcasts", "sent", "received"} :
         /\ broadcasting_txs' = IF "broadcasts" \in lost
                                THEN [broadcasting_txs EXCEPT ![p] = {}]
                                ELSE broadcasting_txs
         /\ inbox' = [q \in Party |->
                        IF (IF q = p THEN "received" ELSE "sent") \in lost
                        THEN <<>> ELSE inbox[q]]
    /\ UNCHANGED <<checkpoint, conf, taker, ledgerVars, late, failures>>

\* handle_ctl on Checkpoint.
Restore(p) ==
    /\ Idle /\ ssm[p] = "Down" /\ checkpoint[p] # NoCheckpoint
    /\ LET c == checkpoint[p]
       IN  /\ ssm' = [ssm EXCEPT ![p] = c.state]
           /\ txs' = [txs EXCEPT ![p] = c.txs]
           /\ watched_txs' = [watched_txs EXCEPT ![p] = c.txids]
           /\ txids' = [txids EXCEPT ![p] = c.txids]
           /\ broadcasting_txs' =
                [broadcasting_txs EXCEPT ![p] = @ \cup c.pending_broadcasts]
           /\ watched_addrs' = [watched_addrs EXCEPT ![p] =
                IF c.xmr_addr_addendum THEN {"AccLock"} ELSE {}]
           /\ xmr_addr_addendum' =
                [xmr_addr_addendum EXCEPT ![p] = c.xmr_addr_addendum]
           /\ due' = [due EXCEPT ![p] = {l \in c.txids : conf[l] >= 0} \cup
                (IF c.xmr_addr_addendum /\ conf["AccLock"] >= 0
                 THEN {"AccLockAddr"} ELSE {})]
           /\ IF c.pending_msg # "none" THEN send_peer(p, c.pending_msg)
                                        ELSE UNCHANGED inbox
    /\ UNCHANGED <<event, unhandled_peer_message, replays, retrieving_txs,
                   sweeping_addr, saved, confirmations, awaiting_funding,
                   checkpoint, conf, taker, ledgerVars, budgets>>

-------------------------------------------------------------------------------
FarcasterdStep ==
    \/ FarcasterdTakes
    \/ \E p \in Party : FarcasterdMakes(p) \/ FarcasterdHasNoDeal(p)
                        \/ FarcasterdCleansUp(p)

SyncerStep ==
    \/ \E p \in Party : \/ \E l \in TxLabel : SyncerConfirms(p, l)
                        \/ SyncerSeesAccLock(p)
                        \/ \E l \in {"Buy", "Refund"} : SyncerRetrieves(p, l)
                        \/ SyncerSweepsMonero(p)
                        \/ \E l \in BtcTx : SyncerBroadcasts(p, l)
    \/ SyncerSeesFunding \/ SyncerSeesNothing \/ SyncerEstimatesFee
    \/ SyncerSweepsBitcoin

UserStep ==
    \/ \E p \in Party : UserAborts(p)
    \/ \E a \in BtcAmounts : UserFundsBitcoin(a)
    \/ \E s \in XmrAmounts : UserFundsMonero(s)

Next ==
    \/ SwapdStep
    \/ FarcasterdStep
    \/ \E p \in Party : PeerDelivers(p)
    \/ SyncerStep
    \/ MineBitcoin \/ MineMonero
    \/ UserStep
    \/ \E p \in Party : Crash(p) \/ Restore(p)

Spec == Init /\ [][Next]_vars

(***************************************************************************)
(* The processes run, the daemons and the peers pass on what they have,    *)
(* the monero syncer repeats a sweep until it succeeds, and both ledgers   *)
(* keep growing.  Nothing is assumed of the users, and a stopped swapd     *)
(* need not be restored.                                                   *)
(***************************************************************************)
Delivery == FarcasterdStep \/ (\E p \in Party : PeerDelivers(p)) \/ SyncerStep
Sweep == \E p \in Party : SyncerSweepsMonero(p)

Fairness ==
    /\ WF_vars(SwapdStep)
    /\ WF_vars(Delivery)
    /\ SF_vars(Sweep)
    /\ SF_vars(MineBitcoin)
    /\ SF_vars(MineMonero)

FairSpec == Spec /\ Fairness

===============================================================================
