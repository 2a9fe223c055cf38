----------------------------- MODULE BitcoinSyncer -----------------------------
(***************************************************************************)
(* The bitcoin syncer (bitcoin_syncer.rs): the task receiver, the pollers  *)
(* and the one-off jobs, each a loop of its own with its own connection to *)
(* the electrum server.  Between two awaits a poller holds what it read;   *)
(* the state may have changed when it reports.  A reply of the server, a   *)
(* use of the lock and the end of a loop are separate steps.               *)
(***************************************************************************)
EXTENDS SyncerState, Blockchain

CONSTANT MaxHeaders  \* how many blocks are announced before one is read

Breakable == env.breakable  \* the pollers whose connection may break
MaxBreaks == env.breaks     \* how often a connection breaks, at most
Fee == env.fees             \* the fee estimations a server may answer

Poller == {"height", "unseen", "address"}
QueryPoller == {"height", "unseen"}
NoHash == "none"

ASSUME BitcoinSyncerAssumption ==
    /\ MaxHeaders \in Nat
    /\ \A e \in Environments : e.breaks \in Nat /\ e.breakable \subseteq Poller /\ e.fees \subseteq Nat
    /\ NoHash \notin Hash \cup Address

VARIABLES
    link,          \* whether each poller's connection is up
    errors, breaks,
    headers,       \* blocks announced to height_polling and not yet read
    poller,        \* query_transactions of height_polling and of unseen_...
    scripts,       \* the addresses of address_polling's client, with their filter
    notices,       \* those whose status has changed since it was popped
    watcher,       \* address_polling
    coins,         \* the addresses to sweep that hold coins
    sweeper,       \* sweep_polling
    job            \* one-off tasks: "new", "queued", "done"

netVars == <<link, errors, breaks>>
queryVars == <<headers, poller>>
watchVars == <<scripts, notices, watcher>>
sweepVars == <<coins, sweeper>>
pollVars == <<netVars, queryVars, watchVars, sweepVars, job>>
vars == <<stateVars, chainVars, pollVars>>

Asleep == [pc |-> "poll", todo |-> {}, tx |-> NoHash, height |-> 0,
           block |-> NoBlock, confirmations |-> -1]

Init ==
    /\ SyncerStateInit /\ BlockchainInit
    /\ link = [w \in Poller |-> "up"]
    /\ errors = 0 /\ breaks = 0
    /\ headers = <<>>
    /\ poller = [w \in QueryPoller |->
                   IF w = "height" THEN [Asleep EXCEPT !.pc = "connect"] ELSE Asleep]
    /\ scripts = {} /\ notices = {}
    /\ watcher = [pc |-> "poll", todo |-> {}, id |-> 0, txs |-> {}, found |-> <<>>]
    /\ coins \in SUBSET {t.target : t \in {u \in Tasks : u.kind = "SweepAddress"}}
    /\ sweeper = [pc |-> "poll", todo |-> {}, id |-> 0, swept |-> FALSE]
    /\ job = [j \in Jobs |-> "new"]

\* height_polling keeps the lock while it reads blocks, address_polling while
\* it reports what address_change_check found.
Unlocked == poller["height"].pc # "blocks" /\ watcher.pc # "popping"

stateUnchanged == UNCHANGED <<block_height, block_hash, registryVars, live,
                              tasks_sources, lifetimes, unseen_transactions, told,
                              addressVars, fee_estimation>>
quiet == noEvent /\ stateUnchanged

\* A request fails on a broken connection, and now and then on a good one.
Fails(w) ==
    \/ link[w] = "down" /\ UNCHANGED errors
    \/ link[w] = "up" /\ errors < MaxErrors /\ errors' = errors + 1
Answers(w) == link[w] = "up" /\ UNCHANGED errors

(***************************************************************************)
(* run_syncerd_task_receiver.                                              *)
(***************************************************************************)
TakeTask(t) ==
    /\ Unlocked
    /\ take(t)
    /\ UNCHANGED <<chainVars, pollVars>>

TakeAbort(a) ==
    /\ Unlocked
    /\ task_count > 0
    /\ abort(a.task_target, a.source, a.respond)
    /\ UNCHANGED <<chainVars, pollVars>>

TakeJob(j) ==
    /\ job[j] = "new"
    /\ job' = [job EXCEPT ![j] = "queued"]
    /\ quiet /\ UNCHANGED <<chainVars, netVars, queryVars, watchVars, sweepVars>>

(***************************************************************************)
(* height_polling.                                                         *)
(***************************************************************************)
set(w, next) == poller' = [poller EXCEPT ![w] = next]

\* The tip is read when the connection is made, and no transaction is queried.
HeightConnects ==
    /\ poller["height"].pc = "connect" /\ Unlocked
    /\ link' = [link EXCEPT !["height"] = "up"]
    /\ headers' = <<>>
    /\ set("height", Asleep)
    /\ change_height(tip, chain[tip])
    /\ UNCHANGED <<chainVars, errors, breaks, watchVars, sweepVars, job>>

HeightPings ==
    /\ poller["height"].pc = "poll" /\ link["height"] = "down"
    /\ set("height", [Asleep EXCEPT !.pc = "connect"])
    /\ quiet /\ UNCHANGED <<chainVars, netVars, headers, watchVars, sweepVars, job>>

HeightReads ==
    /\ \/ poller["height"].pc = "poll" /\ link["height"] = "up" /\ Unlocked
       \/ poller["height"].pc = "blocks"
    /\ headers # <<>>
    /\ LET b == Head(headers)
           changed == b # [height |-> block_height, hash |-> block_hash]
           next == IF Len(headers) > 1 THEN "blocks"
                   ELSE IF changed THEN "list" ELSE "poll"
       IN  /\ change_height(b.height, b.hash)
           /\ headers' = Tail(headers)
           /\ set("height", [Asleep EXCEPT !.pc = next])
    /\ UNCHANGED <<chainVars, netVars, watchVars, sweepVars, job>>

(***************************************************************************)
(* query_transactions, after a block for all and every ten seconds for     *)
(* those not seen yet.  unseen_transaction_polling never leaves its loop.  *)
(***************************************************************************)
queryUnchanged ==
    UNCHANGED <<chainVars, headers, watchVars, sweepVars, job, link, breaks>>

to_query_OnlyUnseen(w) == unseen_transactions
to_query(w) == IF w = "height" THEN transactions ELSE unseen_transactions

Lists(w) ==
    /\ Unlocked
    /\ poller[w].pc = IF w = "height" THEN "list" ELSE "poll"
    /\ LET todo == {task[n].target : n \in to_query(w)}
       IN  /\ w = "unseen" => todo # {}
           /\ set(w, [Asleep EXCEPT !.todo = todo,
                                    !.pc = IF todo = {} THEN "poll" ELSE "ask"])
    /\ quiet /\ queryUnchanged /\ UNCHANGED errors

\* transaction_get, script_get_history and block_header.
Asks(w, tx) ==
    /\ poller[w].pc = "ask" /\ tx \in poller[w].todo
    /\ LET p == [poller[w] EXCEPT !.tx = tx]
           none == [p EXCEPT !.pc = "apply", !.confirmations = -1, !.block = NoBlock]
       IN  \/ /\ Answers(w)
              /\ IF mined[tx] = -1 THEN set(w, none)
                 ELSE set(w, [p EXCEPT !.pc = "tip", !.height = mined[tx],
                                !.block = IF mined[tx] > 0 THEN chain[mined[tx]]
                                                           ELSE NoBlock])
           \/ /\ Fails(w)
              /\ \/ set(w, none)
                 \/ mined[tx] >= 0 /\ set(w, [none EXCEPT !.confirmations = 0])
    /\ quiet /\ queryUnchanged

confirmations_at_OffByOne(height) ==
    IF height = 0 \/ tip < height THEN 0 ELSE tip - height + 2
confirmations_at(height) == IF height = 0 \/ tip < height THEN 0 ELSE tip - height + 1

\* block_headers_subscribe.  Any failure counts as unconfirmed.
AsksTip(w) ==
    /\ poller[w].pc = "tip"
    /\ LET p == [poller[w] EXCEPT !.pc = "apply"]
       IN  \/ /\ Answers(w)
              /\ set(w, [p EXCEPT !.confirmations = confirmations_at(p.height)])
           \/ /\ Fails(w)
              /\ set(w, [p EXCEPT !.confirmations = 0, !.block = NoBlock])
    /\ quiet /\ queryUnchanged

Applies(w) ==
    /\ Unlocked
    /\ poller[w].pc = "apply"
    /\ LET p == poller[w]
           rest == p.todo \ {p.tx}
       IN  /\ change_transaction(p.tx, p.block, p.confirmations)
           /\ set(w, [Asleep EXCEPT !.todo = rest,
                                    !.pc = IF rest = {} THEN "poll" ELSE "ask"])
    /\ queryUnchanged /\ UNCHANGED errors

(***************************************************************************)
(* address_polling.                                                        *)
(***************************************************************************)
watchUnchanged == UNCHANGED <<chainVars, queryVars, sweepVars, job>>

AddressReconnects ==
    /\ Unlocked
    /\ watcher.pc = "poll" /\ link["address"] = "down"
    /\ link' = [link EXCEPT !["address"] = "up"]
    /\ scripts' = {} /\ notices' = {}
    /\ unsubscribe_addresses
    /\ watchUnchanged /\ UNCHANGED <<errors, breaks, watcher>>

\* A round that finds nothing to do changes nothing, and is left out.
AddressLists ==
    /\ Unlocked
    /\ addresses \ subscribed # {} \/ notices # {}
    /\ watcher.pc = "poll" /\ link["address"] = "up"
    /\ watcher' = [watcher EXCEPT !.pc = "subscribe", !.todo = addresses \ subscribed]
    /\ quiet /\ watchUnchanged /\ UNCHANGED <<netVars, scripts, notices>>

query_addr_history(a, filter) == filtered(history[a], filter)
known(a) == \E s \in scripts : s[1] = a
filter_of(a) == (CHOOSE s \in scripts : s[1] = a)[2]

\* script_subscribe: the history is asked for even when the subscription is
\* an older one.  An error ends the round of subscriptions.
AddressSubscribes(n) ==
    /\ watcher.pc = "subscribe" /\ n \in watcher.todo
    /\ LET a == task[n].target
           f == task[n].filter
           now == IF known(a) THEN scripts ELSE scripts \cup {<<a, f>>}
       IN  \/ /\ Answers("address")
              /\ scripts' = now
              /\ watcher' = [watcher EXCEPT !.pc = "apply", !.todo = @ \ {n},
                                            !.id = n, !.txs = query_addr_history(a, f)]
           \/ /\ Fails("address")
              /\ scripts' \in {scripts} \cup {now : l \in {link["address"]} \ {"down"}}
              /\ watcher' = [watcher EXCEPT !.pc = "changes", !.todo = {}]
    /\ quiet /\ watchUnchanged /\ UNCHANGED <<link, breaks, notices>>

AddressApplies ==
    /\ Unlocked
    /\ watcher.pc = "apply"
    /\ change_address(task[watcher.id].target, watcher.txs, {watcher.id})
    /\ watcher' = [watcher EXCEPT !.pc = "subscribe", !.id = 0, !.txs = {}]
    /\ watchUnchanged /\ UNCHANGED <<netVars, scripts, notices>>

AddressSubscribed ==
    /\ watcher.pc = "subscribe" /\ watcher.todo = {}
    /\ watcher' = [watcher EXCEPT !.pc = "changes"]
    /\ quiet /\ watchUnchanged /\ UNCHANGED <<netVars, scripts, notices>>

\* address_change_check: the new status is stored before the history is asked
\* for, so that a failure loses the notification.
AddressChanged(a) ==
    /\ watcher.pc = "changes" /\ a \in notices /\ link["address"] = "up"
    /\ notices' = notices \ {a}
    /\ \/ /\ Answers("address")
          /\ watcher' = [watcher EXCEPT !.found = Append(@, [address |-> a,
                                                            txs |-> query_addr_history(a, filter_of(a))])]
       \/ Fails("address") /\ UNCHANGED watcher
    /\ quiet /\ watchUnchanged /\ UNCHANGED <<link, breaks, scripts>>

AddressChecked ==
    /\ watcher.pc = "changes" /\ (notices = {} \/ link["address"] = "down")
    /\ watcher' = [watcher EXCEPT !.pc = IF watcher.found = <<>> THEN "poll" ELSE "pop"]
    /\ quiet /\ watchUnchanged /\ UNCHANGED <<netVars, scripts, notices>>

\* What was found last is reported first.
AddressPops ==
    /\ \/ watcher.pc = "popping"
       \/ watcher.pc = "pop" /\ Unlocked
    /\ LET last == Len(watcher.found)
           notif == watcher.found[last]
       IN  /\ change_address(notif.address, notif.txs, {})
           /\ watcher' = [watcher EXCEPT !.found = SubSeq(@, 1, last - 1),
                                         !.pc = IF last = 1 THEN "poll" ELSE "popping"]
    /\ watchUnchanged /\ UNCHANGED <<netVars, scripts, notices>>

(***************************************************************************)
(* sweep_polling.                                                          *)
(***************************************************************************)
sweepUnchanged == UNCHANGED <<chainVars, link, breaks, queryVars, watchVars, job>>

SweepLists ==
    /\ Unlocked
    /\ sweeper.pc = "poll" /\ sweep_addresses # {}
    /\ sweeper' = [sweeper EXCEPT !.pc = "sweep", !.todo = sweep_addresses]
    /\ quiet /\ sweepUnchanged /\ UNCHANGED <<errors, coins>>

\* sweep_address spends what is there.  A failure looks like an empty address,
\* also when the server has taken the transaction and its answer is lost.
Sweeps(n) ==
    /\ sweeper.pc = "sweep" /\ n \in sweeper.todo
    /\ LET a == task[n].target
       IN  \/ /\ UNCHANGED errors
              /\ coins' = coins \ {a}
              /\ sweeper' = [pc |-> "report", todo |-> sweeper.todo \ {n}, id |-> n,
                             swept |-> a \in coins]
           \/ /\ errors < MaxErrors /\ errors' = errors + 1
              /\ coins' \in {coins, coins \ {a}}
              /\ sweeper' = [pc |-> "report", todo |-> sweeper.todo \ {n}, id |-> n,
                             swept |-> FALSE]
    /\ quiet /\ sweepUnchanged

gives_up_Never(n) == FALSE
gives_up(n) == ~task[n].retry

SweepReports ==
    /\ Unlocked
    /\ sweeper.pc = "report"
    /\ IF sweeper.swept THEN end_sweep(sweeper.id, "SweepSuccess")
       ELSE IF gives_up(sweeper.id) THEN end_sweep(sweeper.id, "TaskAborted")
       ELSE quiet
    /\ sweeper' = [pc |-> IF sweeper.todo = {} THEN "poll" ELSE "sweep",
                   todo |-> sweeper.todo, id |-> 0, swept |-> FALSE]
    /\ sweepUnchanged /\ UNCHANGED <<errors, coins>>

(***************************************************************************)
(* estimate_fee_polling, transaction_broadcasting, transaction_fetcher,    *)
(* balance_fetcher and the health check: one request, one answer.          *)
(***************************************************************************)
FeePolls(fee) ==
    /\ Unlocked
    /\ fee_estimated(fee)
    /\ fee # fee_estimation \/ expired(block_height) # {}
    /\ UNCHANGED <<chainVars, pollVars>>

answer(j, ok) == [kind |-> j.answer, id |-> j.id, source |-> j.source,
                  value |-> IF ok THEN 1 ELSE 0]

JobAnswers(j) ==
    /\ job[j] = "queued"
    /\ job' = [job EXCEPT ![j] = "done"]
    /\ \/ /\ UNCHANGED errors
          /\ sent' = {answer(j, TRUE)}
          /\ IF j.kind = "BroadcastTransaction"
             THEN Relay(j.target) ELSE UNCHANGED chainVars
       \/ /\ errors < MaxErrors /\ errors' = errors + 1
          /\ sent' = {answer(j, FALSE)}
          /\ UNCHANGED chainVars
       \/ /\ j.kind = "BroadcastTransaction" /\ mined[j.target] # -1
          /\ sent' = {answer(j, FALSE)}
          /\ UNCHANGED <<errors, chainVars>>
    /\ stateUnchanged /\ UNCHANGED <<link, breaks, queryVars, watchVars, sweepVars>>

(***************************************************************************)
(* The server, the chain and the network.                                  *)
(***************************************************************************)
serverUnchanged == quiet /\ UNCHANGED <<netVars, poller, scripts, watcher, sweepVars, job>>

BlockComes ==
    /\ Len(headers) < MaxHeaders
    /\ Blocks
    /\ headers' = IF link["height"] = "up" /\ poller["height"].pc # "connect"
                  THEN Append(headers, [height |-> Len(chain'), hash |-> chain'[Len(chain')]])
                  ELSE headers
    /\ serverUnchanged /\ UNCHANGED notices

TransactionMoves ==
    /\ Transactions
    /\ serverUnchanged /\ UNCHANGED <<headers, notices>>

PaymentComes(a) ==
    /\ Payments(a)
    /\ notices' = IF known(a) /\ link["address"] = "up" THEN notices \cup {a}
                                                             ELSE notices
    /\ serverUnchanged /\ UNCHANGED headers

LinkBreaks(w) ==
    /\ w \in Breakable /\ link[w] = "up" /\ breaks < MaxBreaks
    /\ w = "height" => poller[w].pc # "connect"
    /\ breaks' = breaks + 1
    /\ link' = [link EXCEPT ![w] = "down"]
    /\ headers' = IF w = "height" /\ poller["height"].pc # "blocks" THEN <<>> ELSE headers
    /\ notices' = IF w = "address" THEN {} ELSE notices
    /\ quiet /\ UNCHANGED <<chainVars, errors, poller, scripts, watcher, sweepVars, job>>

-------------------------------------------------------------------------------
Receiver == \/ \E t \in Tasks : TakeTask(t)
            \/ \E a \in Aborts : TakeAbort(a)
            \/ \E j \in JobsGiven : TakeJob(j)

HeightPolling == HeightConnects \/ HeightPings \/ HeightReads
Querying(w) == \/ Lists(w) \/ AsksTip(w) \/ Applies(w)
               \/ \E tx \in Hash : Asks(w, tx)
AddressPolling == \/ AddressReconnects \/ AddressLists \/ AddressSubscribed
                  \/ AddressApplies \/ AddressChecked \/ AddressPops
                  \/ \E n \in InternalId : AddressSubscribes(n)
                  \/ \E a \in Address : AddressChanged(a)
SweepPolling == SweepLists \/ SweepReports \/ \E n \in InternalId : Sweeps(n)
JobWork == \E j \in Jobs : JobAnswers(j)

Server == \/ BlockComes \/ TransactionMoves
          \/ \E a \in Address : PaymentComes(a)
          \/ \E w \in Poller : LinkBreaks(w)

Next ==
    \/ Receiver
    \/ HeightPolling \/ \E w \in QueryPoller : Querying(w)
    \/ AddressPolling
    \/ SweepPolling
    \/ \E fee \in Fee : FeePolls(fee)
    \/ JobWork
    \/ Server

Spec == Init /\ [][Next]_vars

(***************************************************************************)
(* Every loop goes on, the lock is given in turn, and blocks keep coming.  *)
(***************************************************************************)
FairSpec ==
    /\ Spec
    /\ WF_vars(HeightPolling)
    /\ \A w \in QueryPoller : SF_vars(Querying(w))
    /\ SF_vars(AddressPolling) /\ SF_vars(SweepPolling) /\ WF_vars(JobWork)
    /\ SF_vars(BlockComes)

===============================================================================
