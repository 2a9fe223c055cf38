------------------------------ MODULE MoneroSyncer ------------------------------
(***************************************************************************)
(* The monero syncer (monero_syncer.rs): pollers of the daemon, of a light *)
(* wallet server (lws) or of the wallet server, and the one-off jobs.  The *)
(* wallet server has one wallet open at a time, and three of the loops     *)
(* share it behind a mutex of its own.                                     *)
(***************************************************************************)
EXTENDS SyncerState, Blockchain

Lws == env.lws                \* whether addresses are watched through a light wallet server
MaxRestarts == env.restarts   \* how often the light wallet server forgets its accounts
MaxPaid == env.paid           \* how many outputs an address to sweep receives, at most

QueryPoller == {"height", "unseen"}
NoHash == "none"
Sweepable == {t.target : t \in {u \in Tasks : u.kind = "SweepAddress"}}

ASSUME MoneroSyncerAssumption ==
    /\ \A e \in Environments : e.lws \in BOOLEAN /\ {e.restarts, e.paid} \subseteq Nat
    /\ NoHash \notin Hash \cup Address

VARIABLES
    errors,
    rpc,           \* the height and the hash that height_polling's client keeps
    poller,        \* get_transactions of height_polling and of unseen_...
    lws,           \* the accounts of the light wallet server, and its restarts
    subscribed_addresses,
    watcher,       \* address_polling
    wallet,        \* who holds the wallet server, and what is open there
    outputs,       \* of each address to sweep, the locked and the unlocked ones
    sweeper,       \* sweep_polling
    job            \* one-off tasks: "new", "queued", "open", "done"

watchVars == <<lws, subscribed_addresses, watcher>>
sweepVars == <<outputs, sweeper>>
pollVars == <<errors, rpc, poller, watchVars, wallet, sweepVars, job>>
vars == <<stateVars, chainVars, pollVars>>

Asleep == [pc |-> "poll", todo |-> {}, height |-> 0,
           found |-> [tx \in Hash |-> -1], block |-> [tx \in Hash |-> NoBlock]]
AtRest == [pc |-> "poll", todo |-> {}, id |-> 0, subscribed |-> {}, again |-> FALSE,
           txs |-> {}]
NoWallet == [holder |-> "none", open |-> <<"none", NoHash>>]

Init ==
    /\ SyncerStateInit /\ BlockchainInit
    /\ errors = 0
    /\ rpc = [height |-> 0, hash |-> NoBlock]
    /\ poller = [w \in QueryPoller |-> Asleep]
    /\ lws = [accounts |-> {}, restarts |-> 0]
    /\ subscribed_addresses = {}
    /\ watcher = AtRest
    /\ wallet = NoWallet
    /\ outputs = [a \in Sweepable |-> [locked |-> 0, unlocked |-> 0]]
    /\ sweeper = [pc |-> "poll", todo |-> {}, id |-> 0, swept |-> FALSE]
    /\ job = [j \in Jobs |-> "new"]

\* The lock is kept over a batch of transactions, and over the sleep of
\* unseen_transaction_polling when there is nothing to look for.
Unlocked == \A w \in QueryPoller : poller[w].pc \notin {"applying", "dozing"}

stateUnchanged == UNCHANGED <<block_height, block_hash, registryVars, live,
                              tasks_sources, lifetimes, unseen_transactions, told,
                              addressVars, fee_estimation>>
quiet == noEvent /\ stateUnchanged

Answers == UNCHANGED errors
Fails == errors < MaxErrors /\ errors' = errors + 1

(***************************************************************************)
(* run_syncerd_task_receiver.  What has no monero counterpart is refused   *)
(* (BroadcastTransaction) or dropped (GetTx, WatchEstimateFee).            *)
(***************************************************************************)
TakeTask(t) ==
    /\ Unlocked
    /\ t.kind # "WatchEstimateFee" /\ take(t)
    /\ UNCHANGED <<chainVars, pollVars>>

TakeAbort(a) ==
    /\ Unlocked
    /\ task_count > 0
    /\ abort(a.task_target, a.source, a.respond)
    /\ UNCHANGED <<chainVars, pollVars>>

answer(j, ok) == [kind |-> j.answer, id |-> j.id, source |-> j.source,
                  value |-> IF ok THEN 1 ELSE 0]

TakeJob(j) ==
    /\ job[j] = "new"
    /\ job' = [job EXCEPT ![j] = IF j.kind = "GetAddressBalance" THEN "queued" ELSE "done"]
    /\ CASE j.kind = "GetAddressBalance" -> noEvent
         [] j.kind = "BroadcastTransaction" -> sent' = {answer(j, FALSE)}
         [] j.kind = "HealthCheck" -> \E ok \in BOOLEAN : sent' = {answer(j, ok)}
         [] j.kind = "GetTx" -> noEvent
    /\ stateUnchanged
    /\ UNCHANGED <<chainVars, errors, rpc, poller, watchVars, wallet, sweepVars>>

(***************************************************************************)
(* height_polling.  check_block looks at the height only, and remembers it *)
(* before the transactions are asked for: a request that fails is not made *)
(* again for the same block.                                               *)
(***************************************************************************)
set(w, next) == poller' = [poller EXCEPT ![w] = next]
pollUnchanged == UNCHANGED <<chainVars, watchVars, wallet, sweepVars, job>>

\* Beyond MaxHeight the hash of the tip stands for its height.
Higher == \/ rpc.height # tip
          \/ rpc.hash # chain[tip] /\ FurtherHash \in {rpc.hash, chain[tip]}

ChecksHeight ==
    /\ poller["height"].pc = "poll" /\ Higher
    /\ set("height", [Asleep EXCEPT !.pc = "header", !.height = tip])
    /\ quiet /\ pollUnchanged /\ UNCHANGED <<errors, rpc>>

ChecksHeader ==
    /\ poller["height"].pc = "header"
    /\ LET h == poller["height"].height
       IN  \/ /\ Answers
              /\ rpc' = [height |-> h, hash |-> chain[h]]
              /\ set("height", [Asleep EXCEPT !.pc = "report"])
           \/ Fails /\ set("height", Asleep) /\ UNCHANGED rpc
    /\ quiet /\ pollUnchanged

to_query_OnlyUnseen == unseen_transactions
to_query == transactions
query(todo) == [Asleep EXCEPT !.pc = IF todo = {} THEN "poll" ELSE "ask", !.todo = todo]

HeightReports ==
    /\ Unlocked
    /\ poller["height"].pc = "report"
    /\ change_height(rpc.height, rpc.hash)
    /\ set("height", query({task[n].target : n \in to_query'}))
    /\ pollUnchanged /\ UNCHANGED <<errors, rpc>>

(***************************************************************************)
(* unseen_transaction_polling.                                             *)
(***************************************************************************)
UnseenLists ==
    /\ Unlocked
    /\ poller["unseen"].pc = "poll"
    /\ set("unseen", IF unseen_transactions = {} THEN [Asleep EXCEPT !.pc = "dozing"]
                     ELSE query({task[n].target : n \in unseen_transactions}))
    /\ quiet /\ pollUnchanged /\ UNCHANGED <<errors, rpc>>

UnseenWakes ==
    /\ poller["unseen"].pc = "dozing"
    /\ set("unseen", Asleep)
    /\ quiet /\ pollUnchanged /\ UNCHANGED <<errors, rpc>>

(***************************************************************************)
(* get_transactions: the transactions, then the height, then the hash of   *)
(* each block.  Nothing is reported of a batch that fails on the way.      *)
(***************************************************************************)
depth_at(height, block) == height - block + 1

Asks(w) ==
    /\ poller[w].pc \in {"ask", "tip", "hashes"}
    /\ LET p == poller[w]
           confirmations(tx) == IF p.found[tx] <= 0 THEN p.found[tx]
                                ELSE depth_at(p.height, p.found[tx])
       IN  \/ /\ Answers
              /\ CASE p.pc = "ask" -> set(w, [p EXCEPT !.pc = "tip", !.found = mined])
                   [] p.pc = "tip" -> set(w, [p EXCEPT !.pc = "hashes", !.height = tip])
                   [] p.pc = "hashes" ->
                        set(w, [p EXCEPT !.pc = "apply",
                          !.found = [tx \in Hash |-> confirmations(tx)],
                          !.block = [tx \in Hash |->
                             IF p.found[tx] > 0 THEN chain[p.found[tx]] ELSE NoBlock]])
           \/ Fails /\ set(w, Asleep)
    /\ quiet /\ pollUnchanged /\ UNCHANGED rpc

Applies(w, tx) ==
    /\ \/ poller[w].pc = "applying"
       \/ poller[w].pc = "apply" /\ Unlocked
    /\ tx \in poller[w].todo
    /\ LET p == poller[w]
           rest == p.todo \ {tx}
       IN  /\ change_transaction(tx, p.block[tx], p.found[tx])
           /\ set(w, IF rest = {} THEN Asleep
                     ELSE [p EXCEPT !.pc = "applying", !.todo = rest])
    /\ pollUnchanged /\ UNCHANGED <<errors, rpc>>

(***************************************************************************)
(* address_polling.  What is subscribed is read once a round, and whether  *)
(* to subscribe everything again (again) is forgotten when a round ends.   *)
(***************************************************************************)
watchUnchanged == UNCHANGED <<chainVars, rpc, poller, sweepVars, job>>
target == task[watcher.id].target
next(again) == [watcher EXCEPT !.pc = "next", !.id = 0, !.again = again]

AddressLists ==
    /\ Unlocked
    /\ watcher.pc = "poll" /\ addresses # {}
    /\ watcher' = [AtRest EXCEPT !.pc = "next", !.todo = addresses,
                                 !.subscribed = subscribed_addresses]
    /\ quiet /\ watchUnchanged /\ UNCHANGED <<errors, lws, subscribed_addresses, wallet>>

AddressNext_Forgets(n) ==
    /\ watcher.pc = "next" /\ n \in watcher.todo
    /\ LET pc == IF ~Lws THEN "open"
                 ELSE IF task[n].target \in watcher.subscribed THEN "check" ELSE "login"
       IN  watcher' = [watcher EXCEPT !.pc = pc, !.id = n, !.todo = @ \ {n},
                                      !.again = FALSE]
    /\ quiet /\ watchUnchanged /\ UNCHANGED <<errors, lws, subscribed_addresses, wallet>>
AddressNext(n) ==
    /\ watcher.pc = "next" /\ n \in watcher.todo
    /\ LET pc == IF ~Lws THEN "open"
                 ELSE IF task[n].target \in watcher.subscribed THEN "check" ELSE "login"
       IN  watcher' = [watcher EXCEPT !.pc = pc, !.id = n, !.todo = @ \ {n},
                                      !.again = FALSE]
    /\ IF Lws /\ watcher.again
       THEN Unlocked /\ subscribed_addresses' = {}
       ELSE UNCHANGED subscribed_addresses
    /\ quiet /\ watchUnchanged /\ UNCHANGED <<errors, lws, wallet>>

AddressSleeps ==
    /\ watcher.pc = "next" /\ watcher.todo = {}
    /\ watcher' = AtRest
    /\ quiet /\ watchUnchanged /\ UNCHANGED <<errors, lws, subscribed_addresses, wallet>>

\* subscribe_address_lws: three requests, the account is made by the first.
AddressLogsIn ==
    /\ watcher.pc = "login"
    /\ \/ /\ Answers
          /\ lws' = [lws EXCEPT !.accounts = @ \cup {target}]
          /\ watcher' = [watcher EXCEPT !.pc = "mark"]
       \/ /\ Fails
          /\ \E made \in SUBSET {target} : lws' = [lws EXCEPT !.accounts = @ \cup made]
          /\ watcher' = next(TRUE)
    /\ quiet /\ watchUnchanged /\ UNCHANGED <<subscribed_addresses, wallet>>

\* address_subscribed.
AddressMarks ==
    /\ Unlocked
    /\ watcher.pc = "mark"
    /\ subscribed_addresses' = subscribed_addresses \cup
                                 {task[n].target : n \in {watcher.id} \cap addresses}
    /\ watcher' = [watcher EXCEPT !.pc = "check"]
    /\ quiet /\ watchUnchanged /\ UNCHANGED <<errors, lws, wallet>>

\* check_address_lws, for which there is no filter.
AddressChecks ==
    /\ watcher.pc = "check"
    /\ \/ /\ Answers /\ target \in lws.accounts
          /\ watcher' = [watcher EXCEPT !.pc = "apply", !.txs = history[target]]
       \/ Answers /\ target \notin lws.accounts /\ watcher' = next(TRUE)
       \/ Fails /\ watcher' = next(TRUE)
    /\ quiet /\ watchUnchanged /\ UNCHANGED <<lws, subscribed_addresses, wallet>>

AddressOpens_NoLock ==
    /\ watcher.pc = "open"
    /\ Answers
    /\ wallet' = [holder |-> "address", open |-> <<"watch", target>>]
    /\ watcher' = [watcher EXCEPT !.pc = "transfers"]
    /\ quiet /\ watchUnchanged /\ UNCHANGED <<lws, subscribed_addresses>>
\* check_address, with the wallet server: a wallet is opened, or made first,
\* and its transfers are asked for.
AddressOpens ==
    /\ watcher.pc = "open" /\ wallet.holder = "none"
    /\ \/ /\ Answers
          /\ wallet' = [holder |-> "address", open |-> <<"watch", target>>]
          /\ watcher' = [watcher EXCEPT !.pc = "transfers"]
       \/ Fails /\ watcher' = next(FALSE) /\ UNCHANGED wallet
    /\ quiet /\ watchUnchanged /\ UNCHANGED <<lws, subscribed_addresses>>

AddressTransfers ==
    /\ watcher.pc = "transfers"
    /\ wallet' = [wallet EXCEPT !.holder = "none"]
    /\ \/ Answers /\ watcher' = [watcher EXCEPT !.pc = "apply",
                                   !.txs = filtered(history[wallet.open[2]],
                                                    task[watcher.id].filter)]
       \/ Fails /\ watcher' = next(FALSE)
    /\ quiet /\ watchUnchanged /\ UNCHANGED <<lws, subscribed_addresses>>

AddressApplies ==
    /\ Unlocked
    /\ watcher.pc = "apply"
    /\ change_address(target, watcher.txs, {})
    /\ watcher' = [next(watcher.again) EXCEPT !.txs = {}]
    /\ watchUnchanged /\ UNCHANGED <<errors, lws, subscribed_addresses, wallet>>

(***************************************************************************)
(* sweep_polling.                                                          *)
(***************************************************************************)
sweepUnchanged == UNCHANGED <<chainVars, rpc, poller, watchVars, job>>
ends(swept) == [sweeper EXCEPT !.pc = "report", !.swept = swept]
release == wallet' = [wallet EXCEPT !.holder = "none"]

SweepLists ==
    /\ Unlocked
    /\ sweeper.pc = "poll" /\ sweep_addresses # {}
    /\ sweeper' = [sweeper EXCEPT !.pc = "next", !.todo = sweep_addresses]
    /\ quiet /\ sweepUnchanged /\ UNCHANGED <<errors, wallet, outputs>>

SweepOpens(n) ==
    /\ sweeper.pc = "next" /\ n \in sweeper.todo
    /\ wallet.holder = "none"
    /\ LET s == [sweeper EXCEPT !.id = n, !.todo = @ \ {n}]
       IN  \/ /\ Answers
              /\ wallet' = [holder |-> "sweep", open |-> <<"sweep", task[n].target>>]
              /\ sweeper' = [s EXCEPT !.pc = "balance"]
           \/ Fails /\ sweeper' = [s EXCEPT !.pc = "report"] /\ UNCHANGED wallet
    /\ quiet /\ sweepUnchanged /\ UNCHANGED outputs

pays_More(n, unlocked) == unlocked > task[n].minimum_balance
pays(n, unlocked) == unlocked >= task[n].minimum_balance

\* get_balance and sweep_all on whatever wallet is open.  Only what is
\* unlocked is spent, and nothing before it amounts to minimum_balance.
Sweeps ==
    /\ sweeper.pc = "balance"
    /\ LET a == wallet.open[2]
           enough == pays(sweeper.id, outputs[a].unlocked)
       IN  \/ /\ Answers /\ enough
              /\ outputs' = [outputs EXCEPT ![a].unlocked = 0]
              /\ sweeper' = [sweeper EXCEPT !.pc = "close"]
              /\ UNCHANGED wallet
           \/ Answers /\ ~enough /\ sweeper' = ends(FALSE) /\ release /\ UNCHANGED outputs
           \/ /\ Fails /\ sweeper' = ends(FALSE) /\ release
              /\ \E lost \in SUBSET {b \in {a} : enough} :
                   outputs' = [b \in Sweepable |-> IF b \in lost
                                 THEN [outputs[b] EXCEPT !.unlocked = 0] ELSE outputs[b]]
    /\ quiet /\ sweepUnchanged

\* close_wallet: its failure makes a failure of a sweep that was made.
SweepCloses ==
    /\ sweeper.pc = "close"
    /\ \/ /\ Answers /\ sweeper' = ends(TRUE) /\ wallet' = NoWallet
       \/ Fails /\ sweeper' = ends(FALSE) /\ release
    /\ quiet /\ sweepUnchanged /\ UNCHANGED outputs

gives_up(n) == ~task[n].retry

SweepReports ==
    /\ Unlocked
    /\ sweeper.pc = "report"
    /\ IF sweeper.swept THEN end_sweep(sweeper.id, "SweepSuccess")
       ELSE IF gives_up(sweeper.id) THEN end_sweep(sweeper.id, "TaskAborted")
       ELSE quiet
    /\ sweeper' = [pc |-> IF sweeper.todo = {} THEN "poll" ELSE "next",
                   todo |-> sweeper.todo, id |-> 0, swept |-> FALSE]
    /\ sweepUnchanged /\ UNCHANGED <<errors, wallet, outputs>>

(***************************************************************************)
(* balance_fetcher, one request after the other.                           *)
(***************************************************************************)
jobUnchanged == UNCHANGED <<chainVars, rpc, poller, watchVars, sweepVars>>

BalanceOpens(j) ==
    /\ job[j] = "queued" /\ wallet.holder = "none"
    /\ \/ /\ Answers /\ noEvent
          /\ wallet' = [holder |-> "balance", open |-> <<"balance", j.target>>]
          /\ job' = [job EXCEPT ![j] = "open"]
       \/ /\ Fails /\ sent' = {answer(j, FALSE)}
          /\ job' = [job EXCEPT ![j] = "done"]
          /\ UNCHANGED wallet
    /\ stateUnchanged /\ jobUnchanged

BalanceAnswers(j) ==
    /\ job[j] = "open"
    /\ release
    /\ job' = [job EXCEPT ![j] = "done"]
    /\ \/ Answers /\ sent' = {answer(j, TRUE)}
       \/ Fails /\ sent' = {answer(j, FALSE)}
    /\ stateUnchanged /\ jobUnchanged

(***************************************************************************)
(* The servers and the chain.                                              *)
(***************************************************************************)
serverUnchanged == quiet /\ UNCHANGED <<errors, rpc, poller, subscribed_addresses,
                                        watcher, wallet, sweeper, job>>

BlockComes == Blocks /\ serverUnchanged /\ UNCHANGED <<lws, outputs>>
TransactionMoves == Transactions /\ serverUnchanged /\ UNCHANGED <<lws, outputs>>
PaymentComes(a) == Payments(a) /\ serverUnchanged /\ UNCHANGED <<lws, outputs>>

LwsRestarts ==
    /\ Lws /\ lws.restarts < MaxRestarts
    /\ lws' = [accounts |-> {}, restarts |-> lws.restarts + 1]
    /\ serverUnchanged /\ UNCHANGED <<chainVars, outputs>>

OutputComes(a) ==
    /\ outputs[a].locked + outputs[a].unlocked < MaxPaid
    /\ outputs' = [outputs EXCEPT ![a].locked = @ + 1]
    /\ serverUnchanged /\ UNCHANGED <<chainVars, lws>>

OutputUnlocks(a) ==
    /\ outputs[a].locked > 0
    /\ outputs' = [outputs EXCEPT ![a] = [locked |-> @.locked - 1,
                                          unlocked |-> @.unlocked + 1]]
    /\ serverUnchanged /\ UNCHANGED <<chainVars, lws>>

-------------------------------------------------------------------------------
Receiver == \/ \E t \in Tasks : TakeTask(t)
            \/ \E a \in Aborts : TakeAbort(a)
            \/ \E j \in JobsGiven : TakeJob(j)

HeightPolling == ChecksHeight \/ ChecksHeader \/ HeightReports
UnseenPolling == UnseenLists \/ UnseenWakes
Querying(w) == Asks(w) \/ \E tx \in Hash : Applies(w, tx)
AddressPolling == \/ AddressLists \/ AddressSleeps
                  \/ AddressLogsIn \/ AddressMarks \/ AddressChecks
                  \/ AddressOpens \/ AddressTransfers \/ AddressApplies
                  \/ \E n \in InternalId : AddressNext(n)
SweepPolling == \/ SweepLists \/ Sweeps \/ SweepCloses \/ SweepReports
                \/ \E n \in InternalId : SweepOpens(n)
BalanceFetching == \E j \in Jobs : BalanceOpens(j) \/ BalanceAnswers(j)

Server == \/ BlockComes \/ TransactionMoves \/ LwsRestarts
          \/ \E a \in Address : PaymentComes(a)
          \/ \E a \in Sweepable : OutputComes(a) \/ OutputUnlocks(a)

Next ==
    \/ Receiver
    \/ HeightPolling \/ UnseenPolling \/ \E w \in QueryPoller : Querying(w)
    \/ AddressPolling
    \/ SweepPolling
    \/ BalanceFetching
    \/ Server

Spec == Init /\ [][Next]_vars

(***************************************************************************)
(* Every loop goes on, both locks are given in turn, blocks keep coming    *)
(* and what was paid is unlocked.                                          *)
(***************************************************************************)
FairSpec ==
    /\ Spec
    /\ SF_vars(HeightPolling \/ Querying("height"))
    /\ SF_vars(UnseenPolling \/ Querying("unseen"))
    /\ SF_vars(AddressPolling) /\ SF_vars(SweepPolling) /\ SF_vars(BalanceFetching)
    /\ SF_vars(BlockComes)
    /\ \A a \in Address : WF_vars(a \in Sweepable /\ OutputUnlocks(a))

===============================================================================
