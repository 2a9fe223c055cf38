# Formal models of farcaster-node

Farcaster swaps bitcoin for monero between two nodes that do not trust each
other. This directory holds TLA+ models of the node's own logic, the TLC runs
that check them, and TLAPS proofs about them. Paths below are relative to the
repository root; `S` stands for `src/swapd/swap_state.rs`.

## 1. The system

A node is a set of daemons on a message bus. `farcasterd` starts all others and
relays between them; each swap has a `swapd` process of its own on either side.

| Component | State it keeps | Operations | Talks to |
|---|---|---|---|
| `swapd` state machine (`S`) | `SwapStateMachine`, 25 states: two to start, those of Alice and of Bob, one to end | `next`, one handler per state, each with several arms | peer, syncers, databased, farcasterd |
| `swapd` runtime (`runtime.rs`) | `swap_state_machine`, `txs`, `unhandled_peer_message`, `pending_peer_request` | dispatch, `execute_state_machine` with its replays, `checkpoint_state`, restore | all of the above |
| `swapd` syncer client (`syncer_client.rs`) | tasks by label (`watched_txs`, `watched_addrs`, `retrieving_txs`, `broadcasting_txs`, `sweeping_addr`, `txids`), confirmations, `*_tx_confs`, `awaiting_funding` | one constructor per task, one handler per event | syncerd |
| temporal safety (`temporal_safety.rs`) | thresholds | predicates on confirmations | the handlers |
| wallet (`wallet.rs`) | keys, parameters, signatures | produces and validates what the handlers send | the handlers |
| state report (`state_report.rs`) | none | read-only summary | farcasterd |
| `farcasterd` runtime, `TradeStateMachine` | registered services, deals, swaps, trade machines | make, take, revoke, restore, start and clean up swaps | all daemons |
| `SyncerStateMachine` | one-off tasks | sweep and balance requests of the user | syncerd |
| `syncerd` (`syncer_state.rs`, `bitcoin_syncer.rs`, `monero_syncer.rs`) | tasks, subscribers, last known confirmations, lifetimes | poll the chains, report changes, broadcast, sweep | swapd |
| `peerd` | one connection, pings, unsent messages | deliver in order, reconnect | swapd, the other peerd |
| `databased` | checkpoints, deals, addresses | store and return | swapd, farcasterd |
| `walletd`, `grpcd`, `cli` | node keys; none; none | once at start; translation | farcasterd |

**How a swap runs.** Taker and maker exchange commitments and reveals. Bob funds,
and sends Alice the core arbitrating setup; she returns her signatures for Cancel
and Refund; Bob writes a checkpoint and publishes Lock. When Lock is final Alice
locks her monero. When that is final Bob sends his signature for Buy. Alice
publishes Buy, which takes the bitcoin and reveals the key with which Bob takes
the monero. When something stalls, anyone publishes Cancel once its timelock has
passed; Bob's Refund then takes the bitcoin back and reveals the key with which
Alice takes the monero back; if he lets a second timelock pass, Alice publishes
Punish and takes the bitcoin without giving up anything.

**What is hard.** Two processes, two ledgers and several daemons act in any
order. Peer messages come before the state that takes them. Final confirmations
come before the state that acts on them and are replayed by a handler that calls
itself. Cancel races Buy and Punish races Refund, in the mempool too. A process
stops between two effects of one handler. A broadcast fails and nobody tries
again. Decisions rest on confirmations that were true some blocks ago. The list,
line by line and with the properties that look at each point, is in
`PROJECT.json` under `hazards`.

**What correctness means**, component by component:

- swap: the monero goes with the bitcoin; nobody commits coins without a way
  back on disk; outcomes are true and agree; a locked swap ends; Bob is punished
  only when he is late;
- runtime: no early message or confirmation is forgotten, and replays end;
- temporal safety: no subtraction wraps, and the predicates exclude each other
  as their comments say;
- a syncer: tells only of what it watches, never of more than the chain has, in
  the end of all that happened; forgets what has expired and nothing else; works
  on the right wallet;
- syncer client: what is noted of a transaction is about that transaction, and
  what is mined comes to be noted;
- farcasterd: a swap keeps the syncers and the connection it was started with,
  nothing outlives its use, a deal is traded once, whoever waits is answered;
- peerd: two daemons and any number of connections that break are, to the one
  who sends, one connection that delivers in order and forgets nothing.

## 2. The modules

| Module | Models |
|---|---|
| `TemporalSafety` | every predicate of `temporal_safety.rs` |
| `SwapRuntime` | the state of `Runtime` and `SyncerState`; how an arm ends; what it does on its way; the replays |
| `SwapHandshake` | the handlers both roles share: commit, reveal, abort |
| `BobSwap`, `AliceSwap` | the handlers of each role, one action per arm, named after the handler |
| `Swap` | both processes with farcasterd, peerd, databased, the syncers, the ledgers and the users around them; `Init`, `Next`, `Spec`, `FairSpec` |
| `SyncerEnvironment` | what clients, servers and the chain may do to a syncer |
| `SyncerState` | `syncer_state.rs`: the registry of tasks that both syncers share; one operator per method |
| `Blockchain` | blocks, transactions and the histories of addresses, as servers know them |
| `BitcoinSyncer`, `MoneroSyncer` | the task receiver, the polling loops and the one-off jobs of each syncer |
| `Watch` | abstract: what a syncer is to its clients |
| `SyncerClient` | `syncer_client.rs` and `handle_sync` with the syncer behind it, task ids and restarts included |
| `FarcasterRuntime` | farcasterd's registry, sending, launching, connecting, cleaning up, as operators on the handling of one request |
| `TradeStateMachine`, `SyncerStateMachine` | the transitions of both kinds of machine, as such operators |
| `Farcasterd` | farcasterd with the processes it launches, one handler per step |
| `PeerLink` | the peerds of taker and maker, main loops and receiver threads, the connections between them and the queues to swapd and farcasterd |
| `Delivery` | abstract: one connection that hands over in order, at least once |
| `...Properties` | what each of these promises |
| `MC...` | amounts and worlds for TLC |
| `SwapProofs`, `SwapRecoveryProofs`, `SyncerRegistryProofs`, `BitcoinSyncerProofs`, `MoneroSyncerProofs`, `SyncerClientProofs`, `FarcasterdProofs`, `PeerLinkProofs` | theorems |

`Swap` extends `BobSwap` and `AliceSwap`, which extend `SwapHandshake`,
`SwapRuntime` and `TemporalSafety`, in that order. `BitcoinSyncer` and
`MoneroSyncer` extend `SyncerState` and `Blockchain`, and these
`SyncerEnvironment`. `Farcasterd` extends `TradeStateMachine` and
`SyncerStateMachine`, and these `FarcasterRuntime`. `SyncerProperties` instantiates
`Watch`, and `PeerLinkProperties` instantiates `Delivery`.

How they fit together: `Swap` sees a syncer as the events it owes; `SyncerClient`
is the layer that turns such an event into a transaction label; the two syncer
modules are where events come from. `Swap` sees peerd as a queue that keeps order;
`PeerLink` is what is behind that queue, and refines it as `Delivery`. `Swap`
begins when farcasterd has started both processes; `Farcasterd` is how it comes to
that.

**Worlds.** The last four models have a variable `env`, chosen in the first state
from the constant `Environments` and (but for budgets counted down in it) left
alone: which tasks are given, how many blocks come, how many requests fail, which
processes may die. Each such world lets one or two things go wrong together, so
that one run checks them all and none has to hold everything at once. The MC
modules name them.

## 2a. The swap

### State

Variables are functions on `Party == {"Alice", "Bob"}` named after the fields of
`Runtime` and `SyncerState`. Data is reduced to what the handlers tell apart: a
transaction is its `TxLabel`, a message its kind, an amount the sign of what was
paid minus what was agreed. `txs` is the set of labels that have a signed
transaction. The task maps, keyed by task id in the code, are sets of labels; a
second task for the same label (Bob enters Lock twice, `S:1078` and `S:1080`) is
the same element. `saved` holds the confirmations of `lock_tx_confs`,
`cancel_tx_confs` and `buy_tx_confs`, -1 for `None`. `checkpoint` is what
databased has stored; it is written in the same step as the handler that sends
it. `conf` is the ledger: -1 unknown, 0 in the mempool, n in the n-th block from
the top.

`SwapEnd(outcome)` is named by its outcome. `"Down"` is a process that does not
run.

### Steps

A request is put into `event[p]` by an action of the environment (`handle_sync`
and `handle_msg` up to the call of `execute_state_machine`, with the saving of
final confirmations). One arm then handles it:

- `Transition(p, s)` is `Ok(Some(s))`: the message set aside is dropped if it is
  of the type that was just handled, and what was saved is put on the agenda
  `replays[p]`: the message set aside, then Buy, Lock and Cancel confirmations;
- `NoTransition(p)` is `Ok(None)`: a peer message is set aside and replaces the
  one before;
- `Replay(p)` takes the next entry of the agenda, which may lead to a transition
  and to further replays. This is the recursion of `execute_state_machine`,
  written as a stack. `SwapEnd` returns before it.

Every arm's guard is a named predicate (`GetsMakerCommit`, `SeesAccLockFinal`,
...), and `BobMatches` or `AliceMatches` is their disjunction; an event that
matches none goes to `bob_ignores` or `alice_ignores`, the `_ => Ok(None)` arms.
Arms that only report belong there too.

Deliveries happen when both processes are between requests (`Idle`). A handler
reads only its own state and writes only to queues, so that two handlers commute
and an event that waits is one whose sender is late. Crashes are the exception:
`Crash(p)` may come between any two of the steps above.

### Environment

Not under `src/`, and modelled from how the code uses it:

- *ledgers*: `acceptable` is what a node relays, with timelocks; `MineBitcoin`
  takes any part of the mempool that fits together and drops the rivals of what
  it takes; a transaction with `conf > 0` stays (no reorganisation);
- *users*: pay while they are asked, the right amount or a wrong one;
- *the operating system*: stops a process at any time.

Syncers are seen through the events they owe (`due`), in the order of their
choosing; peerd delivers in order; farcasterd starts the two processes, answers
`DealNotFound`, passes on `AbortSwap` and removes the checkpoint of a swap that
has ended.

## 2b. The syncers

Variables are the fields of `SyncerState`. The maps of the code that are keyed by
an internal id are one set `live` and the function `task`; `tasks_sources` and
`lifetimes` are variables of their own, because the code does not always clear
them together. An event is its kind, the id and source of its task, and a value.

Every polling loop is an actor with its own program counter and its own
connection. Between two awaits it holds what it has read, and the registry may
have changed by the time it reports: a reply of a server, a use of the lock and
the end of a round are steps of their own. `Unlocked` says that no loop keeps the
state mutex over several steps. The monero loops share a wallet server with one
open wallet; `wallet` is who holds `wallet_mutex` and what is open.

Of the chain there are the hashes of the blocks and the height each transaction
is mined at, so that a reply can be older than the height it is compared with,
and a reorganisation can come between two of them. `FurtherBlock` lets blocks come
for ever beyond the bound (the tip changes and confirmations are no longer
counted), which `CatchesUp` needs. Servers fail requests (`MaxErrors`), lose
connections (`Breakable`) and forget accounts (`MaxRestarts`).

`Watch` is what a client may rely on whatever the chain: a task is watched from
when it was given or never, one that was dropped is dropped for good, and an event
is about a task that is watched or answers a one-off request.

`SyncerClient` is the other end: `client` has the maps of `SyncerTasks` that go
from task ids to labels, the confirmations noted per label and the transactions
fetched; `requests` and `events` are the two queues. A restart takes the client
back to what the checkpoint lists, and its ids start again; the syncer keeps its
tasks.

## 2c. farcasterd

farcasterd is one process with one queue, so one handler is one step. The handlers
of the code pass a runtime by `&mut` and return early with an error; here they are
operators on a record `r` with the runtime (`rt`), what was sent, launched and
dialed, who can be reached, and `ok`, which is false from the first failed
sending on: what follows does nothing, as behind `?`. `TradeStateMachine` and
`SyncerStateMachine` have one operator per transition; a machine is taken out of
the runtime while it handles a request and what becomes of it is pushed back, in
the order of the code, because a failed sending loses it. At a Hello every machine
answers for itself: what one does shows another nothing but whether it failed, so
that `tsms_hear` is written machine by machine, up to the first that fails.

`Farcasterd` puts the processes around it: launched services say hello in any
order and are not on the bus before; peerds that connect succeed or fail; clients
send requests; swapds end; walletd, databased and the syncers answer; processes of
the kinds in `Mortal` die, and the node may restart with what the database holds.
A client that asked for a syncer is in `waits` until it is answered or gone: the
machine that works for it may come to name another (`ssm_hello`). The address of
a deal is its maker's; `Here` is this node's own.
`HashMap` iteration where it matters (several connections to one node) is
`CHOOSE` over a fixed order, named `newest`.

## 2d. peerd

A message is its number among those its swapd sent. The taker's peerd is one
process with a program counter: serving (`loop`), waiting for its receiver to end
and connecting (`reconnect`), sending its cache again (`resend`), and sending again
the message whose sending failed (`send`). The maker's peerd is one process per
connection, forked by the listener and terminated by farcasterd. A bridge is the
socket between a receiver thread and its main loop. A write to a broken connection
is lost or an error; a break loses a suffix of what is under way in each direction.

`Delivery` is the abstraction: `Send` and `Deliver`, where a message may be
delivered when all earlier ones have been, and again later. Its variables are
mapped to `sent.taker` and to `handed`, what the maker's peerds have put on the
bus.

## 3. The runs

| Run | Checks | What may happen | States |
|---|---|---|---|
| `swap_prompt` | `TypeOK`, `NoAbortAfterLock`, `OutcomesAgree`, `NeverPunished` | either taker, all amounts, aborts; blocks wait for everyone | 262 000 |
| `swap_faults` | `BuySignatureBacked`, `MoneroFollowsBitcoin`, `OutcomesTrue`, `NothingLeftBehind`, `LockRecoverable`, `FundingRecoverable` | conflicts in the mempool, and one of: a block too early, a failed broadcast, a stop of either swapd at any moment with the loss of what was queued | 731 000 |
| `swap_live` | `HandlersReturn`, `LockedSwapEnds` | fairness | 84 000 |
| `racing_buy` | `NoRacingBuy` | violated | |
| `paid_while_canceled` | `RefundedInFull` | violated | |
| `failed_cancel` | `BuyAfterFailedCancel` | violated | |
| `failed_refund` | `NeverPunished` | violated | |
| `bitcoin_syncer` | `NoPanic`, `NothingExpired`, `NeverAhead`; `Watched`, `CatchesUp`, `NoticesKept`, `SweepEnds` | two watches with an abort, an expiry, a failure; a reorganisation; payments and lost connections; sweeps and one-off tasks | 68 000 |
| `monero_syncer` | `OwnWallet`; `CatchesUp`, `PaymentTold`, `PaidSweepEnds` | batches that fail, a light wallet server that fails with one watch and forgets with two, three loops on one wallet server, locked outputs | 130 000 |
| `syncer_client` | `AttributedRight`; `Noticed`, `Retrieved` | two transactions, tasks that run out, or a restore | 667 000 |
| `farcasterd` | `SyncersServe`, `SomeoneComes`, `OneTrade`, `NoIdleSyncer`; `OthersKeepLinks`, `TakerAnswered`, `JobsEnd`, `RestoredRuns` | a deal taken and one made, with a request for a syncer and Connect; two requests; two deals of one maker; a checkpoint restored, also while a process dies; two checkpoints, of two makers or of one, across a restart | 106 000 |
| `peer_link` | `TypeOK`, `Kept`, `ReceiptsTrue`; `Delivered`, `AllHanded`, `NoOrphans` | one break with messages both ways, two breaks and three connections, writes that fail with replies, in order, or twice | 296 000 |

`NeverPunished` is promised only when blocks wait: with a late block, a failed
broadcast or a crash Bob can miss his refund, which `failed_refund` shows.
`OutcomesAgree` and `NoAbortAfterLock` are stated once, in `swap_prompt`, and hold
as well where `swap_faults` looks.

Some properties are stated of some worlds only, by a condition in the property
itself: `NeverAhead` where no block was replaced, `CatchesUp` where blocks keep
coming, `PaymentTold` where the light wallet server forgets nothing or more than
one address watch goes on, `NoticesKept` and `PaidSweepEnds` where no request fails,
`AllHanded` where writes do not fail. Of farcasterd's, `SyncersServe` and `TakerAnswered` are about
nodes on which nothing is restored and nothing dies (`Undisturbed`), the others but
`OthersKeepLinks` also about those that restore by themselves after every start,
where no client asks and nothing dies alone (`Secluded`; either is `Untroubled`).
`OthersKeepLinks` is about every node, and the two worlds that are neither, a
checkpoint restored on request and the same with a death (`Restoring`, `Dying`), are
there for it: one swap ends beside another whose machine was restored, was connected by
the user, or is left of a process that died.

Three of them name within such a node what the code leaves out, and each exception is
needed: without it TLC finds a counterexample in these worlds.

- `NoIdleSyncer` says what a step may do: a syncer that was in use is left unused
  only by the end of a request for it whose answer could not be sent (`unheard`).
- `JobsEnd`: every request ends; and as long as its client is the one it is for
  (`client_is`), it is on the way to be answered, or to another service's
  taking the client's place.
- `TakerAnswered` and `RestoredRuns`: the only deal of a maker (`Sole`) does not wait
  for good; of several, the one that waits while the maker is dialed does not either,
  unless another that waits for the same maker is before it (`Behind`).

Section 5 says what happens in the other cases.

### Bounds

The swap:

- Thresholds `finality 1 < race 2 < cancel 3 < punish 4`: the smallest that
  `valid_params` admits with every predicate still distinct. `valid_params` is an
  assumption of `TemporalSafety`, evaluated by every run.
- `MaxConfs = 4` is the largest threshold: from there on confirmations change no
  predicate, so that `grown` stops.
- `sweep_monero_thr = 2`, one above finality, so that sweeping waits; in
  `swap_faults`, whose properties are about what comes before, it is 1.
- `MaxLate = 1`, `MaxCrashes = 1`, `MaxFailures = 1`: one of each is enough for
  each of the four violations. In `swap_faults` there is one fault in a swap
  (`OneFault`), and no block after the last that changes a predicate
  (`BlocksMatter`), which keeps it within minutes. The theorems of section 6 have no
  such bounds.
- `Takers = {"Bob"}` outside `swap_prompt`: the roles of taker and maker are over
  after `Reveal`, before any coin moves.

With `race_thr = 2` the last confirmation at which funding may begin is the one
before Cancel is valid, so that `paid_while_canceled` needs no late block at all:
Alice's payment and Cancel are under way at the same time.

The daemons: two tasks, two swaps or two clients are what it takes for one to
disturb the other; two blocks to tell an old reply from a new one; one error, one
break or one death per world, and two breaks where the second one falls on what the
first one caused (`Twice` of `MCPeerLink`). In `Thrice` three connections are used
at the same time: the taker has lost one and the next while the maker's first peerd
is still there. Two deals of one maker are the least at which one machine may be
told of what both wait for (`Rivals`, `Returning` of `MCFarcasterd`), and two requests
for one to end while the other goes on (`Asking`). `MaxEvents` lets the syncer run
ahead of its client; `Lifetime = 1` stands for 500 blocks, which is the same arithmetic.

`CHECK_DEADLOCK` is off for the syncers, the client, farcasterd and peerd: with no
task, no request and no message left these daemons rest, and that is no error. It
stays on for the swap, where the ledgers can always grow.

### Fairness

*Swap.* `FairSpec` assumes weak fairness of the processes (`SwapdStep`) and of all
deliveries (`Delivery`: farcasterd, peerd, the syncers), because each daemon is a
loop that takes the next message; strong fairness of the monero sweep (`Sweep`),
because `sweep_polling` in `monero_syncer.rs` repeats it until it succeeds while
its balance may be locked in between; and strong fairness of both ledgers, because
blocks keep coming, though `Block` is disabled whenever a request is under way.
Nothing is assumed of the users, of a stopped process, or of a broadcast beyond
its one attempt. `LockedSwapEnds` therefore covers the swaps in which Alice never
funds, in which she pays the agreed amount, and in which she pays too much. A
payment below the amount is left out of `swap_live`: after a refund the sweep asks
for the agreed amount (`monero_syncer.rs:361`) and never succeeds, and Alice
stays in `AliceRefundSweeping`.

*Syncers.* Every loop goes on; it is strong fairness where the loop waits for the
state mutex or the wallet mutex, which tokio hands out in the order of asking.
Blocks keep coming, outputs unlock. Nothing is assumed of clients, of payments, or
of a request that fails.

*Client.* Both queues are served; the syncer looks at its tasks again and again,
which is strong fairness only because `MaxEvents` holds it up. Blocks need not
come.

*farcasterd.* What was launched starts and says hello, connections are reported,
walletd, databased and the syncers answer. Each of these is weak fairness of the
step that takes its occasion from one variable. Clients, swaps and deaths owe
nothing.

*peerd.* The main loop of a peerd serves each of its sockets in turn, a receiver
thread reads, farcasterd serves its queue. A swapd need not send, the network need
not break anything, a write need not fail.

## 4. Findings

Each has a run whose counterexample shows it.

1. **Buy may be raced** (`racing_buy`, `S:1711`). `safe_buy` in
   `temporal_safety.rs:94` has no caller. Alice publishes Buy as long as Cancel is
   not yet valid, one block before the timelock too.
2. **A payment that crosses Cancel is never swept** (`paid_while_canceled`,
   `S:1906`). When Cancel is seen before the `AddressTransaction` of Alice's own
   payment, nothing watches the payment any more, and the test "did we register
   the lock transaction" ends the swap with `FailureRefund` and without a sweep.
3. **A Cancel that fails is not made up for** (`failed_cancel`, `S:1334`). Bob
   enters `BobCanceled` on any sight of Cancel, with 0 confirmations too. When
   Buy is mined instead, he has no arm for it, though the comment asks for one.
4. **A failed Refund is not repeated** (`failed_refund`, `syncer_client.rs:355`).
   The transaction has left `runtime.txs`, the error of `TransactionBroadcasted`
   is ignored, and Alice may punish a Bob who did all he had to.

## 5. What the code does not keep

Met while modelling, without a run of its own. Where the model keeps the behaviour
the property concerned is stated of the worlds in which it does not show.

*The swap*

- Bob's and Alice's sweep starts on `sweep_monero_thr` confirmations of *any*
  watched transaction (`S:1269`, `S:1956`), not of AccLock; the monero syncer's
  balance check makes up for it.
- After `alice_stops_funding` a late `Empty` asks the user to fund again
  (`S:1540`): that arm does not look at the timelock.
- `blocks_until_stop_funding` reaches zero three blocks before
  `stop_funding_before_cancel` holds (theorem `CountdownIsEarly`).
- Buy is broadcast before its checkpoint is written (`S:1711`), Lock after.
- Bob may abort while his funding is on its way (`S:2274`): the sweep is made once,
  without retry, and what arrives later stays at an address nobody looks at.
- A task lives 500 blocks from the last height its client knows
  (`syncer_client.rs:66`) and nothing renews it: a swap that waits longer is told
  nothing more. `Noticed` excepts what has run out.
- A restored swapd counts task ids from the start again (`swapd/runtime.rs:94`),
  although a syncer that kept running still answers under the old ones and an id
  is meant to identify an event (`syncerd/types.rs:422`): what it says of one
  transaction may be noted of another. `AttributedRight` is stated of clients that
  were not restored.

*The syncers*

- `unseen_transaction_polling` never leaves its inner loop
  (`bitcoin_syncer.rs:943`), though "outer loop ensures the polling restarts if
  there is an error" (line 929). `CatchesUp` holds because the poller of the
  blocks reports the same transactions.
- A failed bitcoin sweep is logged as "retrying" and then reported as
  `TaskAborted` (`bitcoin_syncer.rs:1115`).
- The new status of an address is kept before its history is asked for
  (`bitcoin_syncer.rs:172`): if that fails, the notification is lost.
- `needs_resubscribe` lives for one round (`monero_syncer.rs:625`), and is looked
  at by the next address of that round. With one address a light wallet server
  that has forgotten it is not subscribed to again, though "we should re-subscribe
  everything on re-connect" (line 669).
- "Only sweep once all the balance is unlocked" (`monero_syncer.rs:361`) compares
  the unlocked balance with the minimum, so that locked outputs above the minimum
  are left behind, and an account below the minimum is never swept.
- A watched transaction starts with an empty block hash (`syncer_state.rs:340`), while
  "no block hash should be encoded as 0x0" (line 567): the first reply that does not
  find it makes an event, the next ones do not.
- A `close_wallet` that fails after the sweep hides the sweep: it is made again
  and finds nothing.

*farcasterd*

- A swap being restored counts as using no syncer (`trade_state_machine.rs:329`)
  and may lose them to the end of another one.
- A checkpoint can be restored a second time until its swapd is on the bus (line
  600), although "Cannot restore a checkpoint into a running swap." (line 606).
  One of the two machines is left over when the swap ends. At a later Hello it takes
  a service for its peer because neither has a node id (line 1303), fails to send to
  the swapd that is gone, and its error keeps that Hello from the machines after it,
  which then wait for good. `SomeoneComes`, `OneTrade`, `NoIdleSyncer`, `JobsEnd`
  and `RestoredRuns` are therefore stated of worlds that are `Untroubled`: without
  clients, a checkpoint is restored once, which `NodeIsHome` proves (section 6).
- A request for a syncer remembers who asked, but any later Hello of another service
  puts that service in the client's place (the variable `source` of the last arm,
  `syncer_state_machine.rs:300` and 408), although the end of the machine "triggers a
  response back to the client" (line 58). The answer goes to that service and the
  client is not told. When the service has ended since, a peerd or a swapd, the answer
  cannot be sent, `clean_up_after_syncer_usage` is not reached, and the syncer runs on
  unused until some later clean-up.
- A failed sending loses the machine that was handling the request, although it
  should be "destroyed upon state machine end transitions"
  (`farcasterd/runtime.rs:119`, 297).
- `SwapdRunning.peerd` is not brought up to date when a new connection of the
  same peer says hello (`trade_state_machine.rs:1279`); a machine that knows no
  counterparty takes the next service that has none either (line 1303).
  The end of another swap then terminates the new connection, which no machine
  counts as its own.
- Of two machines that wait for one maker only the first is told of `ConnectSuccess`
  (`farcasterd/runtime.rs:998`): the second deal taken of it, and the second
  restored one (`trade_state_machine.rs:1192`), may wait for good.
- Connect dials the address in the deal (`trade_state_machine.rs:1567`), which is the
  maker's: the maker of a deal that uses it connects to itself.

*peerd*

- After a write that failed, the reconnection waits for the receiver of the
  connection just made as if it were the broken one (`peerd/runtime.rs:668`).
  `AllHanded` is stated without failing writes.
- The receipt of TakerCommit is sent by `handle_msg`, that of every other message
  directly (`peerd/runtime.rs:837`, 861): only when the first cannot be written does
  the maker's peerd give back its cache and ask to be terminated.
- A receipt says that the maker's peerd has put the message on the bus
  (`peerd/runtime.rs:861`), while swapd may refuse it because it names another
  connection (`swapd/runtime.rs:307`). `ReceiptsTrue` and `Delivered` are about
  the bus.
- A message the maker's peerd could not send is not given back to its swapd
  (`peerd/runtime.rs:521`, 568).
- Messages whose resending fails during `PeerdReconnected` are pushed on the list
  that is cleared right after (`swapd/runtime.rs:384`).

## 6. The proofs

All hold for every value of the constants that the assumptions named below admit,
with any number of late blocks, stops, failures, messages, connections and breaks.

*The swap*, under `TemporalSafetyAssumption` and `SwapAssumption`:

- `SwapProofs` begins with the predicates: that no subtraction wraps (`NoWrap`),
  that confirmations that are safe for Buy or Refund leave `race_thr` blocks
  (`SafeMeansUnraced`), that whatever makes Cancel valid has stopped funding
  (`FundingStopsInTime`), and `CountdownIsEarly`. Then `TypeCorrect`, that is
  `Spec => []TypeOK` of the swap. `TypeOK` is inductive as it stands because it is split by
  who changes what (`FlowOK`, `WatchOK`, `TaskOK`, ...): one lemma per ending and
  per effect of an arm, and then one step per arm. That a replayed message is one
  of the protocol's is part of `FlowOK`, and is what the mutant of `TypeOK` breaks.
- `SwapProofs` goes on with `CoinsFollow` (`Spec => []MoneroFollowsBitcoin`) and
  `OutcomesCorrect` (`Spec => []OutcomesTrue`), where finality takes a block at
  least (`btc_finality_thr > 0`; with 0 a transaction would be final in the
  mempool, from which it can vanish). Neither property is inductive: a process
  acts on what it was told. `CoinInv` says that whatever a process believes final
  is final on the ledger: in the event being handled (`EventTrue`), in the
  confirmations saved for the replays (`SavedTrue`), in a retrieval under way
  (`FetchedTrue`) and by the state it is in (`StateTrue`); that Bob hears of a
  sweep only after it (`SweptTrue`); and that no checkpoint restores a state that
  stands for anything (`CheckpointTrue`). Steps are of three kinds, an arm, a
  delivery and a step of the ledgers, with a lemma each, and a final transaction
  stays final.
- Last in `SwapProofs` is `SignatureIsBacked` (`Spec => []BuySignatureBacked`, with
  no assumption on finality). The amount at the shared address and its
  confirmations are known to Bob from two events of different times. `BuyInv` says
  that what he was told of the monero is true and stays true, that he is past
  `BobAccordantLock` only when it was final and enough, and that no checkpoint
  takes him or Alice back to a state with the signature in hand unless it was.
- `SwapRecoveryProofs` is about stops and about the whole course of a swap:
  - `LockIsRecoverable` (`Spec => []LockRecoverable`). `RecoveryInv` adds that only
    Bob publishes Lock, that he is past every state that would write an earlier
    checkpoint, and that a restoration takes him there.
  - `NoLateAbort` (`Spec => []NoAbortAfterLock`). Bob's abort is guarded by his own
    state, Alice's depends on what he has done: `CommitInv` says which messages
    must have been sent for the other side to be where it is, and that none of
    those an abort rests on can be on its way once Lock is.
  - `FundingIsRecoverable` (`Spec => []FundingRecoverable`). `FundInv`: what Alice
    was told of Lock is true (`LockTold`), and from the core arbitrating setup on
    her disk holds Cancel and Punish, also while she is being restored
    (`DiskTrue`).
  - `NothingIsLeftBehind` (`Spec => []NothingLeftBehind`). `LeftInv` says it of every
    moment and not only of rest: what the state of a process has a use for is
    being handled or is on the agenda of the replays (`ConfsDue`, `MessageDue`),
    where some arm takes it; `SavedSeen`, `Fresh`, `BuyKnown` and `Sides` say what
    can be saved or set aside at all in the states concerned.
  - `OutcomesDoAgree` (`Spec => []OutcomesAgree`, with `btc_finality_thr > 0`).
    `LedgerInv`: a transaction in a block excludes its rivals and has its parent in
    a block. With `CoinInv` an outcome names a final transaction, so that two
    different ones would both be final; an abort of one side excludes Lock by
    `NoAbortAfterLock`, and the other side's outcome needs it.
  - `NeverPunishedInTime` (`Spec => []NeverPunished`), for all thresholds that
    `valid_params` accepts, when `btc_finality_thr > 0`, blocks wait for both
    processes (`MaxLate = 0`), none stops (`MaxCrashes = 0`), no broadcast fails
    (`MaxFailures = 0`) and a mempool does not hold two rivals (`~SplitMempool`).
    These are the constants of `swap_prompt`, with any values of the others;
    `failed_refund` has a single failure and its counterexample. `PromptInv` follows a Cancel from
    the block that mines it: Bob has heard of it when the next block may come
    (`CancelHeard`), his Refund leaves him at the confirmations that make it final
    (`RefundGoes`) and is in a block before Punish is valid (`RefundInTime`);
    `RefundByNow` is the lemma that does the arithmetic of the timelocks. It rests
    on all the invariants before it.

`CoinInv`, `RecoveryInv`, `CommitInv`, `FundInv`, `BuyInv`, `LeftInv` and `LedgerInv`
were checked by TLC in the worlds of `swap_prompt` or `swap_faults` before they were
proved, and `PromptInv` in that of `swap_prompt`.

*The syncers*, under `SyncerEnvironmentAssumption` and the assumption of each:

- `SyncerRegistryProofs` has one lemma per method of `syncer_state.rs`: it keeps
  `RegistryOK` and is a step of `Watch`. `RegistryOK` is `NoPanic` and
  `NothingExpired` with what they rest on: a task on record is one a client may
  give, its id was given, heights are numbers. `Removal` is the lemma behind most
  of them: tasks may be taken out of the maps as long as the maps still agree,
  and the height may rise once what has expired is among them.
- `BitcoinSyncerProofs`: `BitcoinNoPanic` (`Spec => []NoPanic`),
  `BitcoinNothingExpired` (`Spec => []NothingExpired`) and `BitcoinWatches`
  (`Spec => Watched`, the refinement). Every step of a loop calls one method or
  leaves the registry alone; what has to be shown besides is that the heights and
  confirmations it hands over are numbers, wherever they were kept in between.
- `MoneroSyncerProofs`: `MoneroWatches` in the same way, and `WalletsKeptApart`
  (`Spec => []OwnWallet`). `WalletInv` says who holds the wallet server by where
  the three loops are, that at most one balance request has it, and that the task
  a loop works on was given: ids are never used again, so its target stays what it
  was when the wallet was opened.

- Both also have a `NeverAhead` theorem (`BitcoinNeverAhead`, `MoneroNeverAhead`,
  `Spec => []NeverAhead`): on a chain without reorganisations nobody is told of
  more confirmations than there are. A poller counts confirmations from the height
  of a transaction and a height of the chain that came in two replies. `PollersTrue`
  says that what it holds between them was true of the chain at some earlier time
  (`Truth`: no height is above the chain's, no transaction is believed mined where
  it is not), and `ToldInv` that what was told last is bounded by what is true
  now: the chain only grows. `told` is what the property looks at; the registry
  writes it in two methods, and the rest of them only take tasks away.

*The client*, under `SyncerClientAssumption` (there are finitely many labels),
in `SyncerClientProofs`:

- `EventsAreAttributed` (`Spec => []AttributedRight`). `ClientInv` follows an id
  through both queues and the syncer: as long as the client was not restored, a
  request (`RequestsRight`) and a task of the syncer (`TasksRight`) have the label
  their id has in the client's maps, and an event says nothing of the transaction
  its id names that is not true (`EventsRight`), because confirmations only grow.
  An id that is on the way is not above the counter, so that a new one is new.

*farcasterd*, under `DealsAssumption` (there are finitely many deals, each with its
counterparty) and `FarcasterdAssumption`, in `FarcasterdProofs`. One lemma per
operator says what it does to the record of a request being handled; a handler is
then put together from them.

- `TypeCorrect` (`Spec => []TypeOK`), with deaths, failed sendings and restarts:
  what was sent has an argument its receiver takes, and a machine that was moved out
  comes back whole or not at all.
- `LinksAreKept` (`Spec => OthersKeepLinks`), with all faults as well. Who is
  terminated at the end of a swap is computed in `clean_up_after_swap` after the
  machine has been removed, from the machines that are left: a connection one of
  these counts as its own has a client.
- `NodeIsCalm` (`Spec => [](Undisturbed => CalmInv(Chains))`), on a node on which nothing
  dies and nothing is restored, however many swaps, requests, clients and connections
  there are. None of the properties below is inductive: they are about services
  that are up, and what matters is what has been launched and has not said hello.
  `CalmInv` says of each machine that what it has heard of is there and that what it
  has not heard of is starting (`MachineOK`), the same of each request (`JobOK`), and
  of the runtime the converse (`Tidy`): a syncer is starting only for some swap
  or request, and up only for one unless its chain is in the set `K` that
  `CalmInv(K)` exempts, a swapd is up or starting only for its machine, and what
  farcasterd notes as being launched is what is starting. Machines have different deals (`Distinct`), and a
  checkpoint is of a swap that runs, so that restoring is refused. From this every
  sending but an answer to a request reaches its receiver, which is why no machine of
  a swap is lost. An answer whose receiver is gone ends its request without a
  clean-up: `CalmStep` takes `CalmInv(K)` to itself or, when a request ended `unheard`,
  to `CalmInv` with the chain of that request in `K` as well. At a Hello all machines
  change at once; `HearCalm` takes them one by one, which `tsms_hear` allows.
- `NodeIsHome` (`Spec => [](Secluded => HomeInv)`), on a node that restores what was
  stored by itself, for any checkpoints, connections and restarts. Here machines
  restore and run, and a restoring one does not count as using the syncers it has
  heard of, so that `CalmInv` does not hold. `HomeInv` has two halves. The first says
  of each machine which syncers it has heard of, namely all that are not starting:
  they were launched for the first checkpoint of the list, in the step that restored
  all of the list, so that whoever comes late does not come at all (`RestoredOK`), and
  a syncer is registered or starting only as long as there is a machine (`Home`). The
  second says why there is one list: until it has been restored nothing has been
  launched (`Fresh`), and `auto_restored`, set when it is asked for, keeps it from
  being asked for again. `RestoresHome` goes through the list, whose deals are
  different, by its first element at which something would be wrong; a restart brings
  the node back to the start. Connections play no part (`Apart`): a restored taker may
  wait for its maker for good, but not for a service of its own.
- `SwapsAreServed` (`Spec => []SyncersServe`) follows from `CalmInv`;
  `DealsAreTradedOnce` (`Spec => []OneTrade`) and `WaitsAreMet` (`Spec => []SomeoneComes`)
  from both.
- `SyncersAreUsed` (`Spec => NoIdleSyncer`, an action property). Which syncers are idle
  already does not matter to a step: `CalmStep` is used with `K` the chains whose
  syncer is idle before it, of which `CalmInv` is then true (`WorldGrows` lets every
  lemma be used with any larger set), and what is idle after it is in `K` or is the
  syncer of a request that ended unheard. On a secluded node `HomeInv` says that no
  syncer is idle.

`CalmInv(Chains)` was checked by TLC in the undisturbed worlds of `farcasterd` before it
was proved, and `HomeInv` in its worlds of two checkpoints and a restart, with one
connection and one restart more, and with nothing stored.

*The link*, under `PeerLinkAssumption`, in `PeerLinkProofs`:

- `LinkTypeCorrect` (`Spec => []TypeOK`): besides the shapes, a maker's peerd that
  is gone leaves nothing on its bridge, and the taker never believes in a
  connection that was not made.
- `NoFalseReceipt` (`Spec => []ReceiptsTrue`): inductive together with the types.
- `OrderCorrect` (`Spec => []OrderInv`), the invariant the next two rest on. Its
  parts: a message on any queue of any connection has every earlier message before
  it or handed on already (`ConnectionsInOrder`); swapd's queue and peerd's hand
  hold the last numbers, in order (`NumberedOK`); the cache is in order, and what
  was written and is no longer in it has been handed on (`CacheOK`); as long as
  the taker believes in a connection that lives, all it has written is on that
  connection, handed on, or still to be sent again (`NothingMissing`). The first
  part is about all connections at once: an old one may still be read while the
  next one is in use, and what it brings late has been handed on by then or is in
  order by itself.
- `MessagesKept` (`Spec => []Kept`) follows from `CacheOK` and `NumberedOK`.
- `DeliveredInOrder` (`Spec => Delivered`): the refinement. The initial states map
  to those of `Delivery`; a step of the maker's peerd that puts a message on the
  bus maps to `Deliver`, enabled because of `ConnectionsInOrder`; the taker's
  swapd maps to `Send`; every other step stutters.

*Only model-checked.* All liveness: `HandlersReturn`, `LockedSwapEnds`,
`CatchesUp`, `NoticesKept`, `PaymentTold`, `SweepEnds`, `PaidSweepEnds`, `Noticed`,
`Retrieved`, `TakerAnswered`, `JobsEnd`, `RestoredRuns`, `AllHanded`, `NoOrphans`.
These rest on fairness, and fairness on ENABLED, which the prover does not handle.
Of every safety property that a passing run checks there is a theorem.

## 7. Not modelled, and why

- Keys, signatures, proofs and addresses (`wallet.rs`): what a wallet accepts is
  assumed to be what the peer meant to send. A peer that deviates from the
  protocol is not modelled.
- Fees and the contents of blocks. Reorganisations are in the models of the
  syncers and not in `Swap`, whose ledgers only grow.
- A checkpoint is on disk when the handler that sends it returns. In the code it is
  a message to databased; the order of that message and the broadcasts that follow
  is not modelled yet.
- farcasterd: automatic funding, statistics, progress subscriptions, info queries,
  the notices `Disconnected` and `Reconnected`, launches that fail, wrong
  configurations. A service that is told to terminate is gone at once. Syncers,
  databased and walletd do not die: farcasterd does not notice that they did
  (no wait, no timeout), so nothing could be promised. `HashMap` order is free
  only where `newest` names it.
- Syncers: `broadcast_after_height`, which no caller sets, and the estimate of
  fees.
- peerd: pings are seen only as a way for a connection to fail; the listener that
  forks a peerd is part of the environment; info requests are left out.
- `cli`, `grpcd`, the bus, statistics, the state report and the framework under the
  services: translation, display and plumbing, with the statuses given in
  `PROJECT.json`.

## 8. Plan

Done: the swap; the syncers and `Watch`; the syncer client; farcasterd with both
kinds of machine; the link between two peerds and `Delivery`; proofs of every safety
property that a passing run checks and of both refinements.

Left, in this order:

1. `Databased`: checkpoints as messages, so that a stop may come between the
   broadcast of Buy and its checkpoint; extends `Swap`'s `Crash` and `Restore`.
2. `AbstractSwap`: an atomic swap of two coins with four outcomes; `Swap` shown to
   implement it by a refinement mapping (`xmr_owner`, and the fate of Lock).
3. Automatic funding and the state report.
