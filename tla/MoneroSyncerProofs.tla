-------------------------- MODULE MoneroSyncerProofs --------------------------
(***************************************************************************)
(* The monero syncer keeps its registry in order, and its loops do not get *)
(* into each other's wallet, for any number of tasks, outputs, failures.   *)
(***************************************************************************)
EXTENDS MoneroSyncerProperties, SyncerRegistryProofs

-------------------------------------------------------------------------------
(***************************************************************************)
(* The registry.  The numbers that pollers hand to it are numbers.         *)
(***************************************************************************)
PollOK(p) == /\ {"pc", "height", "found"} \subseteq DOMAIN p
             /\ p.height \in Nat /\ p.found \in [Hash -> Int]
PollersOK == /\ DOMAIN poller = QueryPoller /\ poller = [w \in QueryPoller |-> poller[w]]
             /\ \A w \in QueryPoller : PollOK(poller[w])
PollingOK == ChainOK /\ rpc.height \in Nat /\ PollersOK

SyncerOK == RegistryOK /\ PollingOK

LEMMA Rests == \A pc, todo : /\ PollOK(Asleep) /\ PollOK([Asleep EXCEPT !.pc = pc])
                             /\ PollOK([Asleep EXCEPT !.pc = pc, !.todo = todo])
                             /\ PollOK(query(todo))
BY DEF PollOK, Asleep, query

LEMMA InitOK == Init => SyncerOK /\ W!WatchInit
<1> SUFFICES ASSUME Init PROVE SyncerOK /\ W!WatchInit
  OBVIOUS
<1>1. RegistryOK /\ W!WatchInit /\ ChainOK
  BY Initially, ChainInitially DEF Init
<1>2. rpc.height \in Nat /\ PollersOK
  BY Rests DEF Init, PollersOK
<1> QED
  BY <1>1, <1>2 DEF SyncerOK, PollingOK

\* What a poller is set to.
LEMMA PollerSet ==
    ASSUME PollersOK, NEW w \in QueryPoller, NEW p, PollOK(p), set(w, p)
    PROVE  PollersOK'
<1>1. poller' = [poller EXCEPT ![w] = p]
  BY DEF set
<1>2. poller' = [v \in QueryPoller |-> IF v = w THEN p ELSE poller[v]]
  BY <1>1 DEF PollersOK
<1> QED
  BY <1>2 DEF PollersOK

\* Steps that leave the registry alone, and those that leave the pollers alone.
LEMMA Quiet == ASSUME RegistryOK, quiet PROVE Kept
BY Untouched DEF quiet, noEvent, stateUnchanged

LEMMA PollingUnchanged ==
    ASSUME PollingOK, UNCHANGED <<chainVars, rpc, poller>>
    PROVE  PollingOK'
BY DEF PollingOK, ChainOK, PollersOK, PollOK, chainVars

\* An answer to a one-off task.
LEMMA Answered ==
    ASSUME SyncerOK, NEW j \in Jobs, stateUnchanged,
           sent' \in {{answer(j, TRUE)}, {answer(j, FALSE)}, {}}
    PROVE  Kept
<1>1. \A e \in sent' : e.kind \in JobAnswer
  BY SyncerEnvironmentAssumption DEF answer
<1> QED
  BY <1>1, Untouched DEF SyncerOK, stateUnchanged

LEMMA ReceiverStep ==
    ASSUME SyncerOK, Receiver
    PROVE  PollingOK' /\ Kept
<1>1. ASSUME NEW t \in Tasks, TakeTask(t)
      PROVE  PollingOK' /\ Kept
  BY <1>1, Take, PollingUnchanged DEF SyncerOK, TakeTask, pollVars
<1>2. ASSUME NEW a \in Aborts, TakeAbort(a)
      PROVE  PollingOK' /\ Kept
  BY <1>2, Abort, PollingUnchanged DEF SyncerOK, TakeAbort, pollVars
<1>3. ASSUME NEW j \in JobsGiven, TakeJob(j)
      PROVE  PollingOK' /\ Kept
  <2>1. j \in Jobs /\ j.kind \in JobKind
    BY Worlds DEF SyncerOK, RegistryOK
  <2>2. stateUnchanged /\ UNCHANGED <<chainVars, rpc, poller>>
    BY <1>3 DEF TakeJob
  <2>3. sent' \in {{answer(j, TRUE)}, {answer(j, FALSE)}, {}}
    <3>1. CASE j.kind \in {"GetAddressBalance", "GetTx"}
      BY <1>3, <3>1 DEF TakeJob, noEvent
    <3>2. CASE j.kind = "BroadcastTransaction"
      BY <1>3, <3>2 DEF TakeJob
    <3>3. CASE j.kind = "HealthCheck"
      <4>1. \E ok \in BOOLEAN : sent' = {answer(j, ok)}
        BY <1>3, <3>3 DEF TakeJob
      <4> QED
        BY <4>1
    <3> QED
      BY <2>1, <3>1, <3>2, <3>3 DEF JobKind
  <2> QED
    BY <2>1, <2>2, <2>3, Answered, PollingUnchanged DEF SyncerOK
<1> QED
  BY <1>1, <1>2, <1>3 DEF Receiver

LEMMA HeightStep ==
    ASSUME SyncerOK, HeightPolling \/ UnseenPolling
    PROVE  PollingOK' /\ Kept
<1>1. PollersOK /\ RegistryOK /\ ChainOK /\ rpc.height \in Nat
  BY DEF SyncerOK, PollingOK
<1>2. UNCHANGED chainVars => ChainOK'
  BY <1>1 DEF ChainOK, chainVars
<1>3. CASE ChecksHeight
  <2> DEFINE p == [Asleep EXCEPT !.pc = "header", !.height = tip]
  <2>1. quiet /\ set("height", p) /\ UNCHANGED <<chainVars, rpc>>
    BY <1>3 DEF ChecksHeight, pollUnchanged
  <2>2. PollOK(p)
    BY <1>1, Tip DEF PollOK, Asleep
  <2> HIDE DEF p
  <2>3. PollersOK'
    BY <1>1, <2>1, <2>2, PollerSet DEF QueryPoller
  <2> QED
    BY <1>1, <1>2, <2>1, <2>3, Quiet DEF PollingOK
<1>4. CASE ChecksHeader
  <2>1. poller["height"].height \in Nat
    BY <1>1 DEF PollersOK, PollOK, QueryPoller
  <2>2. quiet /\ UNCHANGED chainVars /\ rpc'.height \in Nat
    BY <1>1, <1>4, <2>1 DEF ChecksHeader, pollUnchanged
  <2>3. set("height", [Asleep EXCEPT !.pc = "report"]) \/ set("height", Asleep)
    BY <1>4 DEF ChecksHeader
  <2>4. PollersOK'
    BY <1>1, <2>3, PollerSet, Rests DEF QueryPoller
  <2> QED
    BY <1>1, <1>2, <2>2, <2>4, Quiet DEF PollingOK
<1>5. CASE HeightReports
  <2>1. /\ change_height(rpc.height, rpc.hash)
        /\ \E todo : set("height", query(todo))
        /\ UNCHANGED <<chainVars, rpc>>
    BY <1>5 DEF HeightReports, pollUnchanged
  <2>2. Kept
    BY <1>1, <2>1, ChangeHeight
  <2>3. PollersOK'
    BY <1>1, <2>1, PollerSet, Rests DEF QueryPoller
  <2> QED
    BY <1>1, <1>2, <2>1, <2>2, <2>3 DEF PollingOK
<1>6. CASE UnseenLists \/ UnseenWakes
  <2>1. quiet /\ UNCHANGED <<chainVars, rpc>>
    BY <1>6 DEF UnseenLists, UnseenWakes, pollUnchanged
  <2>2. \E p : PollOK(p) /\ set("unseen", p)
    BY <1>6, Rests DEF UnseenLists, UnseenWakes
  <2>3. PollersOK'
    BY <1>1, <2>2, PollerSet DEF QueryPoller
  <2> QED
    BY <1>1, <1>2, <2>1, <2>3, Quiet DEF PollingOK
<1> QED
  BY <1>3, <1>4, <1>5, <1>6 DEF HeightPolling, UnseenPolling

LEMMA QueryStep ==
    ASSUME SyncerOK, NEW w \in QueryPoller, Querying(w)
    PROVE  PollingOK' /\ Kept
<1>1. PollOK(poller[w]) /\ PollersOK /\ RegistryOK /\ ChainOK /\ rpc.height \in Nat
  BY DEF SyncerOK, PollingOK, PollersOK
<1>2. SUFFICES Kept /\ UNCHANGED <<chainVars, rpc>> /\ \E p : PollOK(p) /\ set(w, p)
  BY <1>1, PollerSet DEF PollingOK, ChainOK, chainVars
<1>3. CASE Asks(w)
  <2> DEFINE p == poller[w]
             conf(tx) == IF p.found[tx] <= 0 THEN p.found[tx]
                         ELSE depth_at(p.height, p.found[tx])
             read == [p EXCEPT !.pc = "tip", !.found = mined]
             high == [p EXCEPT !.pc = "hashes", !.height = tip]
             done == [p EXCEPT !.pc = "apply",
                        !.found = [tx \in Hash |-> conf(tx)],
                        !.block = [tx \in Hash |->
                           IF p.found[tx] > 0 THEN chain[p.found[tx]] ELSE NoBlock]]
  <2>1. /\ quiet /\ UNCHANGED <<chainVars, rpc>>
        /\ set(w, read) \/ set(w, high) \/ set(w, done) \/ set(w, Asleep)
    BY <1>3 DEF Asks, pollUnchanged
  <2>2. mined \in [Hash -> Int] /\ tip \in Nat
    BY <1>1, Tip DEF ChainOK
  <2>3. [tx \in Hash |-> conf(tx)] \in [Hash -> Int]
    BY <1>1 DEF PollOK, depth_at
  <2>4. PollOK(p)
    BY <1>1
  <2> HIDE DEF p, conf
  <2>5. PollOK(read) /\ PollOK(high) /\ PollOK(done)
    BY <2>2, <2>3, <2>4 DEF PollOK
  <2> QED
    BY <1>1, <2>1, <2>5, Rests, Quiet
<1>4. ASSUME NEW tx \in Hash, Applies(w, tx)
      PROVE  Kept /\ UNCHANGED <<chainVars, rpc>> /\ \E p : PollOK(p) /\ set(w, p)
  <2> DEFINE q == poller[w]
             rest == q.todo \ {tx}
             more == [q EXCEPT !.pc = "applying", !.todo = rest]
  <2>1. /\ change_transaction(tx, q.block[tx], q.found[tx])
        /\ UNCHANGED <<chainVars, rpc>>
        /\ set(w, Asleep) \/ set(w, more)
    BY <1>4 DEF Applies, pollUnchanged
  <2>2. q.found[tx] \in Int /\ PollOK(q)
    BY <1>1 DEF PollOK
  <2>3. Kept
    BY <1>1, <2>1, <2>2, ChangeTransaction
  <2> HIDE DEF q
  <2>4. PollOK(more)
    BY <2>2 DEF PollOK
  <2> QED
    BY <2>1, <2>3, <2>4, Rests
<1> QED
  BY <1>3, <1>4 DEF Querying

LEMMA AddressStep ==
    ASSUME SyncerOK, AddressPolling
    PROVE  PollingOK' /\ Kept
<1>1. UNCHANGED <<chainVars, rpc, poller>> /\ Kept
  <2>1. CASE AddressLists \/ AddressSleeps \/ AddressLogsIn \/ AddressMarks
    BY <2>1, Quiet DEF SyncerOK, watchUnchanged, AddressLists, AddressSleeps, AddressLogsIn,
                       AddressMarks
  <2>2. CASE AddressChecks \/ AddressOpens \/ AddressTransfers
    BY <2>2, Quiet DEF SyncerOK, watchUnchanged, AddressChecks, AddressOpens, AddressTransfers
  <2>3. CASE AddressApplies
    BY <2>3, ChangeAddress DEF SyncerOK, watchUnchanged, AddressApplies
  <2>4. ASSUME NEW n \in InternalId, AddressNext(n)
        PROVE  UNCHANGED <<chainVars, rpc, poller>> /\ Kept
    BY <2>4, Quiet DEF SyncerOK, watchUnchanged, AddressNext
  <2> QED
    BY <2>1, <2>2, <2>3, <2>4 DEF AddressPolling
<1> QED
  BY <1>1, PollingUnchanged DEF SyncerOK

LEMMA SweepStep ==
    ASSUME SyncerOK, SweepPolling
    PROVE  PollingOK' /\ Kept
<1>1. UNCHANGED <<chainVars, rpc, poller>> /\ Kept
  <2>1. CASE SweepLists \/ Sweeps \/ SweepCloses
    BY <2>1, Quiet DEF SyncerOK, sweepUnchanged, SweepLists, Sweeps, SweepCloses
  <2>2. CASE SweepReports
    BY <2>2, Quiet, EndSweep DEF SyncerOK, sweepUnchanged, SweepReports
  <2>3. ASSUME NEW n \in InternalId, SweepOpens(n)
        PROVE  UNCHANGED <<chainVars, rpc, poller>> /\ Kept
    BY <2>3, Quiet DEF SyncerOK, sweepUnchanged, SweepOpens
  <2> QED
    BY <2>1, <2>2, <2>3 DEF SweepPolling
<1> QED
  BY <1>1, PollingUnchanged DEF SyncerOK

LEMMA BalanceStep ==
    ASSUME SyncerOK, BalanceFetching
    PROVE  PollingOK' /\ Kept
<1>1. PICK j \in Jobs : BalanceOpens(j) \/ BalanceAnswers(j)
  BY DEF BalanceFetching
<1>2. stateUnchanged /\ UNCHANGED <<chainVars, rpc, poller>>
  BY <1>1 DEF BalanceOpens, BalanceAnswers, jobUnchanged
<1>3. sent' \in {{answer(j, TRUE)}, {answer(j, FALSE)}, {}}
  BY <1>1 DEF BalanceOpens, BalanceAnswers, noEvent
<1> QED
  BY <1>2, <1>3, Answered, PollingUnchanged DEF SyncerOK

LEMMA ServerStep ==
    ASSUME SyncerOK, Server
    PROVE  PollingOK' /\ Kept
<1>1. quiet /\ UNCHANGED <<rpc, poller>>
  BY DEF Server, BlockComes, TransactionMoves, PaymentComes, LwsRestarts, OutputComes,
         OutputUnlocks, serverUnchanged
<1>2. /\ Kept /\ rpc'.height \in Nat /\ PollersOK'
      /\ RegistryOK /\ ChainOK /\ TasksTrue
  BY <1>1, Quiet DEF SyncerOK, PollingOK, PollersOK, PollOK, RegistryOK
<1>3. \/ Blocks \/ Transactions \/ (\E a \in Address : Payments(a))
      \/ UNCHANGED chainVars
  BY DEF Server, BlockComes, TransactionMoves, PaymentComes, LwsRestarts, OutputComes,
         OutputUnlocks
<1>4. ChainOK'
  <2>1. CASE UNCHANGED chainVars
    BY <1>2, <2>1 DEF ChainOK, chainVars
  <2> QED
    BY <1>2, <1>3, <2>1, ChainGrows, ChainMoves
<1> QED
  BY <1>2, <1>4 DEF PollingOK

LEMMA Step == SyncerOK /\ [Next]_vars => SyncerOK' /\ [W!Give \/ W!Tell]_(W!watchVars)
<1> SUFFICES ASSUME SyncerOK, [Next]_vars
             PROVE  SyncerOK' /\ [W!Give \/ W!Tell]_(W!watchVars)
  OBVIOUS
<1>1. CASE Next
  <2>1. PollingOK' /\ Kept
    BY <1>1, ReceiverStep, HeightStep, QueryStep, AddressStep, SweepStep, BalanceStep, ServerStep
    DEF Next
  <2> QED
    BY <2>1 DEF SyncerOK, Kept, Watching
<1>2. CASE UNCHANGED vars
  <2>1. /\ UNCHANGED <<env, task_count, task, block_height, live, tasks_sources, lifetimes,
                       unseen_transactions, sent>>
        /\ UNCHANGED <<chainVars, rpc, poller>>
    BY <1>2 DEF vars, stateVars, registryVars, pollVars
  <2>2. PollingOK'
    BY <2>1, PollingUnchanged DEF SyncerOK
  <2>3. RegistryOK'
    BY <2>1 DEF SyncerOK, RegistryOK, TasksTrue, Given, Tasks, NoPanic, NothingExpired,
                transactions, of
  <2> QED
    BY <2>1, <2>2, <2>3 DEF SyncerOK, W!watchVars
<1> QED
  BY <1>1, <1>2

(***************************************************************************)
(* Every method of syncer_state.rs finds the registry as the ones before   *)
(* left it: maps that agree, and no watch past its lifetime.               *)
(***************************************************************************)
THEOREM RegistryCorrect == Spec => []SyncerOK
BY InitOK, Step, PTL DEF Spec

(***************************************************************************)
(* The monero syncer shares the registry of syncer_state.rs, and its loops *)
(* are no more than a Watch either: it tells of what it watches, and what  *)
(* was dropped, aborted or has run out is never taken up again.            *)
(***************************************************************************)
THEOREM MoneroWatches == Spec => Watched
BY InitOK, Step, PTL DEF Spec, Watched, W!WatchSpec

-------------------------------------------------------------------------------
(***************************************************************************)
(* The wallet.  wallet_mutex is held by the loop that works with it; the   *)
(* task it works on was given, so that its target stays what it is.        *)
(***************************************************************************)
WatcherOK == /\ {"pc", "todo", "id", "subscribed", "again", "txs"} \subseteq DOMAIN watcher
             /\ watcher.todo \subseteq Given
             /\ watcher.pc \notin {"poll", "next"} => watcher.id \in Given
SweeperOK == /\ {"pc", "todo", "id", "swept"} \subseteq DOMAIN sweeper
             /\ sweeper.todo \subseteq Given
             /\ sweeper.pc \in {"balance", "close"} => sweeper.id \in Given
WalletOK == /\ {"holder", "open"} \subseteq DOMAIN wallet
            /\ DOMAIN job = Jobs /\ job = [j \in Jobs |-> job[j]]

WatcherOwns == watcher.pc = "transfers" =>
    wallet.holder = "address" /\ wallet.open = <<"watch", target>>
SweeperOwns == sweeper.pc \in {"balance", "close"} =>
    wallet.holder = "sweep" /\ wallet.open = <<"sweep", task[sweeper.id].target>>
JobsOwn == \A j \in Jobs : job[j] = "open" =>
    /\ wallet.holder = "balance" /\ wallet.open = <<"balance", j.target>>
    /\ \A i \in Jobs : job[i] = "open" => i = j

WalletInv == /\ WatcherOK /\ SweeperOK /\ WalletOK
             /\ WatcherOwns /\ SweeperOwns /\ JobsOwn

LEMMA WalletInitially == Init => WalletInv
BY DEF Init, WalletInv, WatcherOK, SweeperOK, WalletOK, WatcherOwns, SweeperOwns, JobsOwn,
       AtRest, NoWallet

\* A loop that does nothing owns what it owned, unless the wallet changes.
LEMMA WatcherStays ==
    ASSUME RegistryOK, WalletInv, UNCHANGED watcher, Kept \/ UNCHANGED <<task, task_count>>
    PROVE  /\ WatcherOK'
           /\ UNCHANGED wallet \/ wallet.holder # "address" => WatcherOwns'
<1>1. watcher.pc = "transfers" => task'[watcher.id] = task[watcher.id]
  BY TasksStay DEF WalletInv, WatcherOK
<1> QED
  BY <1>1, TasksStay DEF WalletInv, WatcherOK, WatcherOwns, target

LEMMA SweeperStays ==
    ASSUME RegistryOK, WalletInv, UNCHANGED sweeper, Kept \/ UNCHANGED <<task, task_count>>
    PROVE  /\ SweeperOK'
           /\ UNCHANGED wallet \/ wallet.holder # "sweep" => SweeperOwns'
<1>1. sweeper.pc \in {"balance", "close"} => task'[sweeper.id] = task[sweeper.id]
  BY TasksStay DEF WalletInv, SweeperOK
<1> QED
  BY <1>1, TasksStay DEF WalletInv, SweeperOK, SweeperOwns

LEMMA JobsStay ==
    ASSUME WalletInv, UNCHANGED job, UNCHANGED wallet \/ wallet.holder # "balance"
    PROVE  JobsOwn'
BY DEF WalletInv, JobsOwn

\* Only the loop whose turn it is changes what it owns.
LEMMA WalletStays ==
    ASSUME RegistryOK, WalletInv, UNCHANGED <<watcher, sweeper, wallet, job>>,
           Kept \/ UNCHANGED <<task, task_count>>
    PROVE  WalletInv'
BY WatcherStays, SweeperStays, JobsStay DEF WalletInv, WalletOK

LEMMA WalletOfReceiver ==
    ASSUME SyncerOK, WalletInv, Receiver, Kept
    PROVE  WalletInv'
<1>1. RegistryOK
  BY DEF SyncerOK
<1>2. CASE UNCHANGED <<watcher, sweeper, wallet, job>>
  BY <1>1, <1>2, WalletStays
<1>3. ASSUME NEW j \in JobsGiven, TakeJob(j)
      PROVE  WalletInv'
  <2>1. /\ UNCHANGED <<watcher, sweeper, wallet>>
        /\ \E s \in {"queued", "done"} : job' = [job EXCEPT ![j] = s]
    BY <1>3 DEF TakeJob, watchVars, sweepVars
  <2>2. /\ job' = [i \in Jobs |-> job'[i]]
        /\ \A i \in Jobs : job'[i] = "open" => job[i] = "open"
    BY <2>1 DEF WalletInv, WalletOK
  <2>3. JobsOwn' /\ WalletOK'
    BY <2>1, <2>2 DEF WalletInv, JobsOwn, WalletOK
  <2> QED
    BY <1>1, <2>1, <2>3, WatcherStays, SweeperStays DEF WalletInv
<1> QED
  BY <1>2, <1>3 DEF Receiver, TakeTask, TakeAbort, pollVars, watchVars, sweepVars

LEMMA WalletOfAddresses ==
    ASSUME SyncerOK, WalletInv, AddressPolling, Kept
    PROVE  WalletInv'
<1>1. RegistryOK /\ addresses \subseteq Given
  BY DEF SyncerOK, RegistryOK, TasksTrue, addresses, of
<1>2. UNCHANGED <<sweeper, job, task, task_count>>
  BY DEF AddressPolling, watchUnchanged, sweepVars, quiet, stateUnchanged, registryVars,
         AddressLists, AddressSleeps, AddressLogsIn, AddressMarks, AddressChecks, AddressOpens,
         AddressTransfers, AddressApplies, AddressNext, change_address
<1>3. \/ UNCHANGED wallet
      \/ wallet.holder = "none" /\ AddressOpens
      \/ wallet.holder = "address" /\ AddressTransfers
  BY DEF AddressPolling, AddressLists, AddressSleeps, AddressLogsIn, AddressMarks,
         AddressChecks, AddressOpens, AddressTransfers, AddressApplies, AddressNext,
         WalletInv, WatcherOwns
<1>4. /\ SweeperOK' /\ SweeperOwns' /\ JobsOwn'
      /\ {"holder", "open"} \subseteq DOMAIN wallet'
  <2>1. UNCHANGED wallet \/ wallet.holder \in {"none", "address"}
    BY <1>3
  <2>2. {"holder", "open"} \subseteq DOMAIN wallet'
    BY <1>3 DEF WalletInv, WalletOK, AddressOpens, AddressTransfers
  <2> QED
    BY <1>1, <1>2, <2>1, <2>2, SweeperStays, JobsStay
<1>5. WatcherOK /\ WatcherOwns /\ Given' = Given
  BY <1>2 DEF WalletInv, Given
<1>6. WatcherOK' /\ WatcherOwns'
  <2>1. ASSUME NEW again, NEW p, p = next(again)
        PROVE  /\ {"pc", "todo", "id", "subscribed", "again", "txs"} \subseteq DOMAIN p
               /\ p.pc = "next" /\ p.todo = watcher.todo
    BY <1>5, <2>1 DEF WatcherOK, next
  <2>2. CASE AddressLists \/ AddressSleeps
    <3>1. CASE AddressLists
      <4>1. watcher' = [AtRest EXCEPT !.pc = "next", !.todo = addresses,
                                      !.subscribed = subscribed_addresses]
        BY <3>1 DEF AddressLists
      <4>2. /\ {"pc", "todo", "id", "subscribed", "again", "txs"} \subseteq DOMAIN watcher'
            /\ watcher'.pc = "next" /\ watcher'.todo = addresses
        BY <4>1 DEF AtRest
      <4> QED
        BY <1>1, <1>5, <4>2 DEF WatcherOK, WatcherOwns
    <3>2. CASE AddressSleeps
      BY <3>2 DEF AddressSleeps, AtRest, WatcherOK, WatcherOwns
    <3> QED
      BY <2>2, <3>1, <3>2
  <2>3. ASSUME NEW n \in InternalId, AddressNext(n)
        PROVE  WatcherOK' /\ WatcherOwns'
    BY <1>5, <2>3 DEF AddressNext, WatcherOK, WatcherOwns
  <2>4. CASE AddressLogsIn
    BY <1>5, <2>1, <2>4, ZenonT(120) DEF AddressLogsIn, WatcherOK, WatcherOwns
  <2>5. CASE AddressMarks
    BY <1>5, <2>5 DEF AddressMarks, WatcherOK, WatcherOwns
  <2>6. CASE AddressChecks
    BY <1>5, <2>1, <2>6 DEF AddressChecks, WatcherOK, WatcherOwns
  <2>7. CASE AddressOpens
    <3>1. CASE watcher' = next(FALSE)
      BY <1>5, <2>1, <3>1 DEF WatcherOK, WatcherOwns
    <3>2. CASE /\ wallet' = [holder |-> "address", open |-> <<"watch", target>>]
               /\ watcher' = [watcher EXCEPT !.pc = "transfers"]
      BY <1>2, <1>5, <2>7, <3>2 DEF AddressOpens, WatcherOK, WatcherOwns, target
    <3> QED
      BY <2>7, <3>1, <3>2 DEF AddressOpens
  <2>8. CASE AddressTransfers
    BY <1>5, <2>1, <2>8 DEF AddressTransfers, WatcherOK, WatcherOwns
  <2>9. CASE AddressApplies
    BY <1>5, <2>1, <2>9 DEF AddressApplies, WatcherOK, WatcherOwns
  <2> QED
    BY <2>2, <2>3, <2>4, <2>5, <2>6, <2>7, <2>8, <2>9 DEF AddressPolling
<1> QED
  BY <1>2, <1>4, <1>6 DEF WalletInv, WalletOK

LEMMA WalletOfSweeps ==
    ASSUME SyncerOK, WalletInv, SweepPolling, Kept
    PROVE  WalletInv'
<1>1. RegistryOK /\ sweep_addresses \subseteq Given
  BY DEF SyncerOK, RegistryOK, TasksTrue, sweep_addresses, of
<1>2. UNCHANGED <<watcher, job, task, task_count>>
  BY DEF SweepPolling, sweepUnchanged, watchVars, quiet, stateUnchanged, registryVars,
         SweepLists, SweepOpens, Sweeps, SweepCloses, SweepReports, end_sweep
<1>3. \/ UNCHANGED wallet
      \/ wallet.holder = "none" /\ \E n \in InternalId : SweepOpens(n)
      \/ wallet.holder = "sweep" /\ (Sweeps \/ SweepCloses)
  BY DEF SweepPolling, SweepLists, SweepOpens, Sweeps, SweepCloses, SweepReports,
         WalletInv, SweeperOwns
<1>4. /\ WatcherOK' /\ WatcherOwns' /\ JobsOwn'
      /\ {"holder", "open"} \subseteq DOMAIN wallet'
  <2>1. UNCHANGED wallet \/ wallet.holder \in {"none", "sweep"}
    BY <1>3
  <2>2. {"holder", "open"} \subseteq DOMAIN wallet'
    BY <1>3 DEF WalletInv, WalletOK, SweepOpens, Sweeps, SweepCloses, release, NoWallet
  <2> QED
    BY <1>1, <1>2, <2>1, <2>2, WatcherStays, JobsStay
<1>5. SweeperOK /\ SweeperOwns /\ Given' = Given
  BY <1>2 DEF WalletInv, Given
<1>6. SweeperOK' /\ SweeperOwns'
  <2>1. CASE SweepLists
    BY <1>1, <1>5, <2>1 DEF SweepLists, SweeperOK, SweeperOwns
  <2>2. ASSUME NEW n \in InternalId, SweepOpens(n)
        PROVE  SweeperOK' /\ SweeperOwns'
    <3> DEFINE s == [sweeper EXCEPT !.id = n, !.todo = @ \ {n}]
    <3>1. \/ /\ wallet' = [holder |-> "sweep", open |-> <<"sweep", task[n].target>>]
             /\ sweeper' = [s EXCEPT !.pc = "balance"]
          \/ sweeper' = [s EXCEPT !.pc = "report"]
      BY <2>2 DEF SweepOpens
    <3>2. n \in Given
      BY <1>5, <2>2 DEF SweepOpens, SweeperOK
    <3>3. /\ {"pc", "todo", "id", "swept"} \subseteq DOMAIN s
          /\ s.id = n /\ s.todo \subseteq Given
      BY <1>5 DEF SweeperOK
    <3> HIDE DEF s
    <3> QED
      BY <1>2, <1>5, <3>1, <3>2, <3>3 DEF SweeperOK, SweeperOwns
  <2>3. CASE Sweeps
    BY <1>2, <1>5, <2>3 DEF Sweeps, ends, SweeperOK, SweeperOwns
  <2>4. CASE SweepCloses
    BY <1>5, <2>4 DEF SweepCloses, ends, SweeperOK, SweeperOwns
  <2>5. CASE SweepReports
    BY <1>5, <2>5 DEF SweepReports, SweeperOK, SweeperOwns
  <2> QED
    BY <2>1, <2>2, <2>3, <2>4, <2>5 DEF SweepPolling
<1> QED
  BY <1>2, <1>4, <1>6 DEF WalletInv, WalletOK

LEMMA WalletOfBalances ==
    ASSUME SyncerOK, WalletInv, BalanceFetching, Kept
    PROVE  WalletInv'
<1>1. PICK j \in Jobs : BalanceOpens(j) \/ BalanceAnswers(j)
  BY DEF BalanceFetching
<1>2. RegistryOK /\ UNCHANGED <<watcher, sweeper>>
  BY <1>1 DEF SyncerOK, BalanceOpens, BalanceAnswers, jobUnchanged, watchVars, sweepVars
<1>3. UNCHANGED wallet \/ wallet.holder \in {"none", "balance"}
  BY <1>1 DEF BalanceOpens, BalanceAnswers, WalletInv, JobsOwn
<1>4. WatcherOK' /\ WatcherOwns' /\ SweeperOK' /\ SweeperOwns'
  BY <1>2, <1>3, WatcherStays, SweeperStays
<1>5. WalletOK'
  BY <1>1 DEF BalanceOpens, BalanceAnswers, release, WalletInv, WalletOK
<1>6. \A s : job' = [job EXCEPT ![j] = s] =>
        job'[j] = s /\ \A i \in Jobs : i # j => job'[i] = job[i]
  BY DEF WalletInv, WalletOK
<1>7. JobsOwn'
  <2>1. CASE BalanceOpens(j) /\ job' = [job EXCEPT ![j] = "open"]
    <3>1. /\ wallet' = [holder |-> "balance", open |-> <<"balance", j.target>>]
          /\ wallet.holder = "none"
      BY <1>6, <2>1 DEF BalanceOpens
    <3>2. \A i \in Jobs : job[i] # "open"
      BY <3>1 DEF WalletInv, JobsOwn
    <3> QED
      BY <1>6, <2>1, <3>1, <3>2 DEF JobsOwn
  <2>2. CASE BalanceOpens(j) /\ job' = [job EXCEPT ![j] = "done"]
    <3>1. wallet.holder = "none"
      BY <2>2 DEF BalanceOpens
    <3>2. \A i \in Jobs : job[i] # "open"
      BY <3>1 DEF WalletInv, JobsOwn
    <3> QED
      BY <1>6, <2>2, <3>2 DEF JobsOwn
  <2>3. CASE BalanceAnswers(j)
    BY <1>6, <2>3 DEF BalanceAnswers, WalletInv, JobsOwn
  <2> QED
    BY <1>1, <2>1, <2>2, <2>3 DEF BalanceOpens
<1> QED
  BY <1>4, <1>5, <1>7 DEF WalletInv

LEMMA WalletStep == SyncerOK /\ WalletInv /\ [Next]_vars => WalletInv'
<1> SUFFICES ASSUME SyncerOK, WalletInv, [Next]_vars PROVE WalletInv'
  OBVIOUS
<1>1. RegistryOK
  BY DEF SyncerOK
<1>2. CASE UNCHANGED vars
  BY <1>1, <1>2, WalletStays DEF vars, stateVars, registryVars, pollVars, watchVars, sweepVars
<1>3. CASE Next
  <2>1. CASE UNCHANGED <<watcher, sweeper, wallet, job>> /\ Kept
    BY <1>1, <2>1, WalletStays
  <2>2. CASE HeightPolling \/ UnseenPolling \/ \E w \in QueryPoller : Querying(w)
    <3>1. UNCHANGED <<watcher, sweeper, wallet, job>>
      BY <2>2 DEF HeightPolling, UnseenPolling, Querying, ChecksHeight, ChecksHeader,
                  HeightReports, UnseenLists, UnseenWakes, Asks, Applies, pollUnchanged,
                  watchVars, sweepVars
    <3> QED
      BY <2>1, <2>2, <3>1, HeightStep, QueryStep
  <2>3. CASE Server
    <3>1. UNCHANGED <<watcher, sweeper, wallet, job>>
      BY <2>3 DEF Server, BlockComes, TransactionMoves, PaymentComes, LwsRestarts,
                  OutputComes, OutputUnlocks, serverUnchanged
    <3> QED
      BY <2>1, <2>3, <3>1, ServerStep
  <2> QED
    BY <1>3, <2>2, <2>3, ReceiverStep, AddressStep, SweepStep, BalanceStep,
       WalletOfReceiver, WalletOfAddresses, WalletOfSweeps, WalletOfBalances DEF Next
<1> QED
  BY <1>2, <1>3

(***************************************************************************)
(* Three loops share a wallet server that has one wallet open: whoever     *)
(* works with it finds the one that it opened itself, and never sweeps or  *)
(* reports from the wallet of another (check_address, sweep_address and    *)
(* balance_fetcher take wallet_mutex before open_wallet and keep it).      *)
(***************************************************************************)
THEOREM WalletsKeptApart == Spec => []OwnWallet
<1>1. WalletInv => OwnWallet
  BY DEF WalletInv, WatcherOwns, SweeperOwns, JobsOwn, OwnWallet
<1> QED
  BY <1>1, WalletInitially, WalletStep, RegistryCorrect, PTL DEF Spec

-------------------------------------------------------------------------------
(***************************************************************************)
(* What a poller holds of its batch between two requests: where it saw its *)
(* transactions, then how many confirmations it makes of them.             *)
(***************************************************************************)
Truth(m, t, p) ==
    /\ p.pc \in {"tip", "hashes"} => \A tx \in Hash : p.found[tx] > 0 => m[tx] = p.found[tx]
    /\ p.pc = "hashes" => p.height <= t
    /\ p.pc \in {"apply", "applying"} => \A tx \in Hash :
         p.found[tx] > 0 => m[tx] > 0 /\ p.found[tx] <= t - m[tx] + 1
PollersTrue == reorgs = 0 => \A w \in QueryPoller : Truth(mined, tip, poller[w])

TellingInv == SyncerOK /\ ToldInv /\ PollersTrue

Turns == \E w \in QueryPoller : \E p :
           set(w, p) /\ PollOK(p) /\ (reorgs = 0 => Truth(mined, tip, p))

LEMMA TruthInitially == Init => PollersTrue
BY DEF Init, PollersTrue, Truth, Asleep, QueryPoller

\* A poller that has nothing yet.
LEMMA Resting ==
    \A todo : \A pc \in {"poll", "dozing", "report", "header", "ask"} : \A h :
      /\ Truth(mined, tip, Asleep)
      /\ Truth(mined, tip, [Asleep EXCEPT !.pc = pc])
      /\ Truth(mined, tip, [Asleep EXCEPT !.pc = pc, !.height = h])
      /\ Truth(mined, tip, query(todo))
BY DEF Truth, Asleep, query

\* What was true of a poller stays true while the chain grows.
LEMMA TruthStays ==
    ASSUME ChainOK, ChainOK', GrowsOn, PollersOK, PollersTrue, UNCHANGED poller \/ Turns
    PROVE  PollersTrue'
<1> SUFFICES ASSUME reorgs' = 0, NEW v \in QueryPoller
             PROVE  Truth(mined', tip', poller'[v])
  BY DEF PollersTrue
<1>1. /\ reorgs = 0 /\ tip <= tip' /\ tip \in Nat /\ tip' \in Nat
      /\ \A tx \in Hash : mined[tx] \in Int /\ (mined[tx] > 0 => mined'[tx] = mined[tx])
  BY Tip DEF GrowsOn, ChainOK, tip
<1>2. ASSUME NEW p, Truth(mined, tip, p), PollOK(p)
      PROVE  Truth(mined', tip', p)
  <2>1. p.height \in Nat /\ \A tx \in Hash : p.found[tx] \in Int
    BY <1>2 DEF PollOK
  <2> QED
    BY <1>1, <1>2, <2>1 DEF Truth
<1>3. Truth(mined, tip, poller[v]) /\ PollOK(poller[v])
  BY <1>1 DEF PollersTrue, PollersOK
<1>4. CASE UNCHANGED poller
  BY <1>2, <1>3, <1>4
<1>5. ASSUME NEW w \in QueryPoller, NEW p, set(w, p), PollOK(p), Truth(mined, tip, p)
      PROVE  Truth(mined', tip', poller'[v])
  <2>1. poller' = [u \in QueryPoller |-> IF u = w THEN p ELSE poller[u]]
    BY <1>5 DEF set, PollersOK
  <2> QED
    BY <1>2, <1>3, <1>5, <2>1
<1> QED
  BY <1>1, <1>4, <1>5 DEF Turns

\* A poller asks, or reports a transaction of its batch.
LEMMA QueryTurns ==
    ASSUME SyncerOK, PollersTrue, NEW w \in QueryPoller, Querying(w)
    PROVE  Turns
<1> DEFINE p == poller[w]
<1>1. PollOK(p) /\ ChainOK /\ tip \in Nat /\ (reorgs = 0 => Truth(mined, tip, p))
  BY Tip DEF SyncerOK, PollingOK, PollersOK, PollersTrue
<1>2. SUFFICES \E q : set(w, q) /\ PollOK(q) /\ (reorgs = 0 => Truth(mined, tip, q))
  BY DEF Turns
<1>3. p.height \in Nat /\ (\A tx \in Hash : p.found[tx] \in Int) /\ mined \in [Hash -> Int]
  BY <1>1 DEF PollOK, ChainOK
<1>4. CASE Asks(w)
  <2> DEFINE conf(tx) == IF p.found[tx] <= 0 THEN p.found[tx]
                         ELSE depth_at(p.height, p.found[tx])
             confs == [tx \in Hash |-> conf(tx)]
             b == [tx \in Hash |-> IF p.found[tx] > 0 THEN chain[p.found[tx]] ELSE NoBlock]
             read == [p EXCEPT !.pc = "tip", !.found = mined]
             high == [p EXCEPT !.pc = "hashes", !.height = tip]
             done == [p EXCEPT !.pc = "apply", !.found = confs, !.block = b]
  <2>1. \/ set(w, Asleep) \/ (p.pc = "ask" /\ set(w, read))
        \/ (p.pc = "tip" /\ set(w, high)) \/ (p.pc = "hashes" /\ set(w, done))
    BY <1>4 DEF Asks
  <2>2. /\ \A tx \in Hash : confs[tx] \in Int
        /\ confs \in [Hash -> Int]
    BY <1>3 DEF depth_at
  <2>3. p.pc = "hashes" /\ reorgs = 0 => \A tx \in Hash :
          confs[tx] > 0 => mined[tx] > 0 /\ confs[tx] <= tip - mined[tx] + 1
    <3> SUFFICES ASSUME p.pc = "hashes", reorgs = 0, NEW tx \in Hash, confs[tx] > 0
                 PROVE  mined[tx] > 0 /\ confs[tx] <= tip - mined[tx] + 1
      OBVIOUS
    <3>1. p.found[tx] > 0 => mined[tx] = p.found[tx] /\ p.height <= tip
      BY <1>1 DEF Truth
    <3> QED
      BY <1>1, <1>3, <3>1 DEF depth_at
  <2> HIDE DEF p, b, confs
  <2>4. PollOK(read) /\ PollOK(high) /\ PollOK(done)
    BY <1>1, <1>3, <2>2 DEF PollOK
  <2>5. /\ Truth(mined, tip, read)
        /\ p.pc = "tip" /\ reorgs = 0 => Truth(mined, tip, high)
        /\ p.pc = "hashes" /\ reorgs = 0 => Truth(mined, tip, done)
    <3>1. read.pc = "tip" /\ read.found = mined
      BY <1>1 DEF PollOK
    <3>2. high.pc = "hashes" /\ high.found = p.found /\ high.height = tip
      BY <1>1 DEF PollOK
    <3>3. done.pc = "apply" /\ done.found = confs
      BY <1>1 DEF PollOK
    <3>4. Truth(mined, tip, read)
      BY <3>1 DEF Truth
    <3>5. p.pc = "tip" /\ reorgs = 0 => Truth(mined, tip, high)
      BY <1>1, <3>2 DEF Truth
    <3>6. p.pc = "hashes" /\ reorgs = 0 => Truth(mined, tip, done)
      BY <2>3, <3>3 DEF Truth
    <3> QED
      BY <3>4, <3>5, <3>6
  <2> QED
    BY <2>1, <2>4, <2>5, Rests, Resting
<1>5. ASSUME NEW tx \in Hash, Applies(w, tx)
      PROVE  \E q : set(w, q) /\ PollOK(q) /\ (reorgs = 0 => Truth(mined, tip, q))
  <2> DEFINE rest == p.todo \ {tx}
             more == [p EXCEPT !.pc = "applying", !.todo = rest]
  <2>1. p.pc \in {"apply", "applying"} /\ (set(w, Asleep) \/ set(w, more))
    BY <1>5 DEF Applies
  <2> HIDE DEF p
  <2>2. PollOK(more) /\ more.pc = "applying" /\ more.found = p.found
    BY <1>1 DEF PollOK
  <2> HIDE DEF more
  <2>3. reorgs = 0 => Truth(mined, tip, more)
    BY <1>1, <2>1, <2>2 DEF Truth
  <2> QED
    BY <2>1, <2>2, <2>3, Rests, Resting
<1> QED
  BY <1>4, <1>5 DEF Querying

LEMMA StepTurns ==
    ASSUME SyncerOK, PollersTrue, [Next]_vars
    PROVE  GrowsOn /\ (UNCHANGED poller \/ Turns)
<1>1. ChainOK /\ PollersOK /\ tip \in Nat
  BY Tip DEF SyncerOK, PollingOK
<1>2. CASE Receiver \/ AddressPolling \/ SweepPolling \/ BalanceFetching \/ UNCHANGED vars
  <2>1. UNCHANGED <<chainVars, poller>>
    BY <1>2 DEF Receiver, TakeTask, TakeAbort, TakeJob, AddressPolling, AddressLists,
       AddressSleeps, AddressLogsIn, AddressMarks, AddressChecks, AddressOpens,
       AddressTransfers, AddressApplies, AddressNext, watchUnchanged, SweepPolling,
       SweepLists, SweepOpens, Sweeps, SweepCloses, SweepReports, sweepUnchanged,
       BalanceFetching, BalanceOpens, BalanceAnswers, jobUnchanged, vars, pollVars
  <2> QED
    BY <1>1, <2>1, GrowsWhenUnchanged
<1>3. CASE HeightPolling \/ UnseenPolling
  <2>1. UNCHANGED chainVars
    BY <1>3 DEF HeightPolling, UnseenPolling, ChecksHeight, ChecksHeader, HeightReports,
       UnseenLists, UnseenWakes, pollUnchanged
  <2> DEFINE high == [Asleep EXCEPT !.pc = "header", !.height = tip]
  <2>2. PollOK(high)
    BY <1>1 DEF PollOK, Asleep
  <2>3. \E w \in QueryPoller : \E p : set(w, p) /\
          (\/ p = Asleep \/ p = high
           \/ \E todo : p = query(todo)
           \/ \E pc \in {"report", "dozing"} : p = [Asleep EXCEPT !.pc = pc])
    BY <1>3 DEF HeightPolling, UnseenPolling, ChecksHeight, ChecksHeader, HeightReports,
       UnseenLists, UnseenWakes, QueryPoller
  <2> QED
    BY <1>1, <2>1, <2>2, <2>3, GrowsWhenUnchanged, Rests, Resting, ZenonT(120) DEF Turns
<1>4. ASSUME NEW w \in QueryPoller, Querying(w) PROVE GrowsOn /\ Turns
  <2>1. UNCHANGED chainVars
    BY <1>4 DEF Querying, Asks, Applies, pollUnchanged
  <2> QED
    BY <1>1, <1>4, <2>1, GrowsWhenUnchanged, QueryTurns
<1>5. CASE Server
  <2>1. UNCHANGED poller /\ (\/ UNCHANGED chainVars \/ Blocks \/ Transactions
                             \/ \E a \in Address : Payments(a))
    BY <1>5 DEF Server, BlockComes, TransactionMoves, PaymentComes, LwsRestarts, OutputComes,
       OutputUnlocks, serverUnchanged
  <2> QED
    BY <1>1, <2>1, GrowsWhenUnchanged, GrowsWithMoves, GrowsWithBlocks
<1> QED
  BY <1>2, <1>3, <1>4, <1>5 DEF Next

LEMMA StepTells ==
    ASSUME SyncerOK, [Next]_vars
    PROVE  Untold \/ \E w \in QueryPoller : \E tx \in Hash : Applies(w, tx)
<1>1. quiet \/ stateUnchanged => Untold
  BY UntoldSteps DEF quiet, stateUnchanged
<1>2. CASE Receiver
  BY <1>1, <1>2, UntoldSteps DEF Receiver, TakeTask, TakeAbort, TakeJob
<1>3. CASE HeightPolling \/ UnseenPolling
  BY <1>1, <1>3, UntoldSteps DEF HeightPolling, UnseenPolling, ChecksHeight, ChecksHeader,
     HeightReports, UnseenLists, UnseenWakes
<1>4. CASE AddressPolling
  BY <1>1, <1>4, UntoldSteps DEF AddressPolling, AddressLists, AddressSleeps, AddressLogsIn,
     AddressMarks, AddressChecks, AddressOpens, AddressTransfers, AddressApplies, AddressNext
<1>5. CASE SweepPolling
  BY <1>1, <1>5, UntoldSteps DEF SweepPolling, SweepLists, SweepOpens, Sweeps, SweepCloses,
     SweepReports
<1>6. CASE BalanceFetching
  BY <1>1, <1>6 DEF BalanceFetching, BalanceOpens, BalanceAnswers
<1>7. CASE Server
  BY <1>1, <1>7 DEF Server, BlockComes, TransactionMoves, PaymentComes, LwsRestarts,
     OutputComes, OutputUnlocks, serverUnchanged
<1>8. ASSUME NEW w \in QueryPoller, Asks(w) PROVE Untold
  BY <1>1, <1>8 DEF Asks
<1>9. CASE UNCHANGED vars
  BY <1>9, UntoldSteps DEF vars, stateVars
<1> QED
  BY <1>2, <1>3, <1>4, <1>5, <1>6, <1>7, <1>8, <1>9 DEF Next, Querying

LEMMA TellingStep == TellingInv /\ [Next]_vars => TellingInv'
<1> SUFFICES ASSUME TellingInv, [Next]_vars PROVE TellingInv'
  OBVIOUS
<1>1. SyncerOK /\ ToldInv /\ PollersTrue /\ RegistryOK /\ ChainOK /\ PollersOK
  BY DEF TellingInv, SyncerOK, PollingOK
<1>2. SyncerOK' /\ ChainOK' /\ (Kept \/ UNCHANGED <<task, task_count>>)
  <2>1. SyncerOK' /\ [W!Give \/ W!Tell]_(W!watchVars)
    BY <1>1, Step
  <2>2. RegistryOK' /\ ChainOK'
    BY <2>1 DEF SyncerOK, PollingOK
  <2> QED
    BY <2>1, <2>2 DEF Kept, Watching, W!watchVars
<1>3. GrowsOn /\ (UNCHANGED poller \/ Turns)
  BY <1>1, StepTurns
<1>4. PollersTrue'
  BY <1>1, <1>2, <1>3, TruthStays
<1>5. ToldInv'
  <2>1. CASE Untold
    BY <1>1, <1>2, <1>3, <2>1, ToldStays
  <2>2. ASSUME NEW w \in QueryPoller, NEW tx \in Hash, Applies(w, tx)
        PROVE  ToldInv'
    <3> DEFINE p == poller[w]
    <3>1. /\ change_transaction(tx, p.block[tx], p.found[tx])
          /\ p.pc \in {"apply", "applying"} /\ UNCHANGED chainVars
      BY <2>2 DEF Applies, pollUnchanged
    <3>2. p.found[tx] \in Int /\ (reorgs = 0 => Within(tx, p.found[tx]))
      BY <1>1, <3>1 DEF PollersOK, PollOK, PollersTrue, Truth, Within
    <3>3. UNCHANGED <<task, task_count>>
      BY <3>1 DEF change_transaction, registryVars
    <3> HIDE DEF p
    <3>4. ToldOf(tx, p.found[tx])
      BY <3>1, ToldSteps
    <3> QED
      BY <1>1, <3>1, <3>2, <3>3, <3>4, ToldNews
  <2> QED
    BY <1>1, <2>1, <2>2, StepTells
<1> QED
  BY <1>2, <1>4, <1>5 DEF TellingInv

(***************************************************************************)
(* The monero syncer asks for its transactions first and for the height    *)
(* afterwards, and counts the confirmations of a batch from both: nobody   *)
(* is told of more of them than there are, on a chain without              *)
(* reorganisations (get_transactions, change_transaction).                 *)
(***************************************************************************)
THEOREM MoneroNeverAhead == Spec => []NeverAhead
<1>1. Init => TellingInv
  <2>1. Init => SyncerOK /\ PollersTrue
    BY InitOK, TruthInitially
  <2>2. Init => ToldInv
    BY ToldInitially DEF Init
  <2> QED
    BY <2>1, <2>2 DEF TellingInv
<1>2. TellingInv => NeverAhead
  BY ToldEnough DEF TellingInv, SyncerOK, PollingOK
<1> QED
  BY <1>1, <1>2, TellingStep, PTL DEF Spec

===============================================================================
