------------------------- MODULE SyncerRegistryProofs -------------------------
(***************************************************************************)
(* What every method of syncer_state.rs keeps, whichever syncer calls it:  *)
(* the maps agree with each other, nothing outlives its lifetime, and what *)
(* is sent is about a task that was watched.                               *)
(***************************************************************************)
EXTENDS SyncerProperties, SequenceTheorems, TLAPS

\* The tasks that are on record are some that clients may give.
TasksTrue ==
    /\ env \in Environments
    /\ task_count \in 0..MaxTaskCount
    /\ DOMAIN task = InternalId /\ task = [n \in InternalId |-> task[n]]
    /\ live \subseteq Given
    /\ \A n \in Given : task[n] \in Tasks

RegistryOK == TasksTrue /\ block_height \in Nat /\ NoPanic /\ NothingExpired

\* A step of the registry is one of Watch.
Watching == W!Give \/ W!Tell
Kept == RegistryOK' /\ Watching

LEMMA Worlds ==
    ASSUME TasksTrue
    PROVE  /\ TaskCount \in 0..MaxTaskCount /\ MaxTaskCount \in Nat
           /\ JobsGiven \subseteq Jobs
           /\ \A t \in Tasks : /\ t.kind \in TaskKind /\ t.lifetime \in Nat
                               /\ t.confirmation_bound \in Nat
           /\ \A j \in Jobs : j.kind \in JobKind /\ j.answer \in JobAnswer
BY SyncerEnvironmentAssumption DEF TasksTrue, TaskCount, JobsGiven, Tasks

\* Removing tasks, and raising the height up to what the rest live for.
LEMMA Removal ==
    ASSUME RegistryOK, NEW gone,
           UNCHANGED registryVars,
           live' \subseteq live \ gone, tasks_sources \ gone \subseteq tasks_sources',
           \A l \in lifetimes : l[2] \notin gone => l \in lifetimes',
           unseen_transactions' \subseteq {n \in live' : task[n].kind = "WatchTransaction"},
           block_height' \in Nat,
           block_height' = block_height \/ expired(block_height') \subseteq gone
    PROVE  RegistryOK'
<1>1. TasksTrue'
  BY DEF RegistryOK, TasksTrue, registryVars, Given, Tasks
<1>2. NoPanic'
  BY DEF RegistryOK, NoPanic, registryVars, transactions, of
<1>3. NothingExpired'
  <2> SUFFICES ASSUME NEW n \in live', task'[n].kind # "WatchEstimateFee"
               PROVE  /\ <<task'[n].lifetime, n>> \in lifetimes'
                      /\ task'[n].kind # "SweepAddress" => task'[n].lifetime >= block_height'
    BY DEF NothingExpired
  <2>1. /\ n \in live /\ n \notin gone /\ n \in Given /\ task' = task
        /\ task[n].lifetime \in Nat
    BY Worlds DEF RegistryOK, TasksTrue, registryVars
  <2>2. /\ <<task[n].lifetime, n>> \in lifetimes
        /\ task[n].kind # "SweepAddress" => task[n].lifetime >= block_height
    BY <2>1 DEF RegistryOK, NothingExpired
  <2>3. block_height' # block_height => ~(task[n].lifetime < block_height')
    <3> SUFFICES ASSUME block_height' # block_height, task[n].lifetime < block_height'
                 PROVE  FALSE
      OBVIOUS
    <3>1. \E l \in lifetimes : l[2] = n /\ l[1] < block_height'
      BY <2>2
    <3> QED
      BY <2>1, <3>1 DEF expired
  <2> QED
    BY <2>1, <2>2, <2>3
<1> QED
  BY <1>1, <1>2, <1>3 DEF RegistryOK

\* Taking tasks out of every map.
LEMMA Forgotten ==
    ASSUME RegistryOK, NEW gone, forget(gone), UNCHANGED registryVars,
           block_height' \in Nat,
           block_height' = block_height \/ expired(block_height') \subseteq gone
    PROVE  RegistryOK' /\ live' \subseteq live
<1>1. /\ live' = live \ gone /\ tasks_sources' = tasks_sources \ gone
      /\ lifetimes' = {l \in lifetimes : l[2] \notin gone}
      /\ unseen_transactions' = unseen_transactions \ gone
  BY DEF forget
<1>2. unseen_transactions' \subseteq {n \in live' : task[n].kind = "WatchTransaction"}
  BY <1>1 DEF RegistryOK, NoPanic, transactions, of
<1> QED
  BY <1>1, <1>2, Removal

\* What a step that takes no task has to send to be one of Watch.
LEMMA Telling ==
    ASSUME UNCHANGED registryVars, live' \subseteq live,
           \A e \in sent' : W!answers(e) \/ W!about(e, live)
    PROVE  Watching
BY DEF Watching, W!Tell, registryVars

\* An event is about its task.
LEMMA Events ==
    ASSUME NEW S, S \subseteq live, NEW n \in S, NEW kind, NEW value
    PROVE  W!about(event(n, kind, value), live)
BY DEF W!about, event

-------------------------------------------------------------------------------
(***************************************************************************)
(* The methods.                                                            *)
(***************************************************************************)
LEMMA Initially == SyncerStateInit => RegistryOK /\ W!WatchInit
<1> SUFFICES ASSUME SyncerStateInit PROVE RegistryOK /\ W!WatchInit
  OBVIOUS
<1>1. TasksTrue
  BY SyncerEnvironmentAssumption DEF SyncerStateInit, TasksTrue, Given
<1> QED
  BY <1>1 DEF SyncerStateInit, RegistryOK, NoPanic, NothingExpired, W!WatchInit

LEMMA Abort ==
    ASSUME RegistryOK, NEW target, NEW source, NEW respond, abort(target, source, respond)
    PROVE  Kept
<1> DEFINE found == {n \in live \cap tasks_sources :
                       /\ task[n].kind \in Abortable
                       /\ task[n].source = source
                       /\ target \in {AllTasks, task[n].id}}
<1>1. forget(found) /\ UNCHANGED <<block_height, registryVars>>
  BY DEF abort
<1>2. RegistryOK' /\ live' \subseteq live
  BY <1>1, Forgotten DEF RegistryOK
<1>3. \A e \in sent' : W!answers(e) \/ W!about(e, live)
  BY DEF abort, TaskAborted, W!answers, W!about, NoTaskId
<1> QED
  BY <1>1, <1>2, <1>3, Telling DEF Kept

LEMMA Take ==
    ASSUME RegistryOK, NEW t \in Tasks, take(t)
    PROVE  Kept
<1> DEFINE n == task_count + 1
<1>1. /\ task_count \in Nat /\ n \in InternalId /\ n \notin Given /\ n \notin live
      /\ task_count < MaxTaskCount /\ Given' = Given \cup {n}
  <2>1. TasksTrue /\ task_count < TaskCount /\ task_count' = n
    BY DEF RegistryOK, take
  <2>2. TaskCount \in 0..MaxTaskCount /\ MaxTaskCount \in Nat
    BY <2>1, Worlds
  <2>3. task_count \in 0..MaxTaskCount /\ live \subseteq Given
    BY <2>1 DEF TasksTrue
  <2> QED
    BY <2>1, <2>2, <2>3 DEF Given, InternalId
<1>2. /\ task' = [task EXCEPT ![n] = t] /\ task'[n] = t
      /\ \A m \in InternalId : m # n => task'[m] = task[m]
      /\ DOMAIN task' = InternalId /\ task' = [m \in InternalId |-> task'[m]]
      /\ \A m \in live : task'[m] = task[m]
  <2>1. task' = [task EXCEPT ![n] = t]
    BY DEF take
  <2>2. task = [m \in InternalId |-> task[m]] /\ live \subseteq InternalId
    <3>1. Given \subseteq InternalId
      BY <1>1, Worlds DEF RegistryOK, Given, InternalId
    <3> QED
      BY <3>1 DEF RegistryOK, TasksTrue
  <2> HIDE DEF n
  <2>3. task' = [m \in InternalId |-> IF m = n THEN t ELSE task[m]]
    BY <2>1, <2>2
  <2> QED
    BY <1>1, <2>1, <2>2, <2>3
<1>3. TasksTrue' /\ block_height' \in Nat
  BY <1>1, <1>2, SMTT(120) DEF RegistryOK, TasksTrue, take, Tasks, Given, InternalId
<1>4. /\ task_count < MaxTaskCount /\ task_count' = task_count + 1
      /\ \A m \in DOMAIN task : m # task_count' => task'[m] = task[m]
  BY <1>1, <1>2 DEF RegistryOK, TasksTrue, take
<1>5. CASE accepts(t)
  <2>1. /\ live' = live \cup {n} /\ tasks_sources' = tasks_sources \cup {n}
        /\ lifetimes' = lifetimes \cup add_lifetime(t) /\ sent' = greeting(t)
        /\ unseen_transactions' = unseen_transactions \cup {m \in {n} : t.kind = "WatchTransaction"}
        /\ block_height' = block_height
    BY <1>5 DEF take
  <2>2. NoPanic'
    BY <1>1, <1>2, <2>1 DEF RegistryOK, NoPanic, transactions, of
  <2>3. NothingExpired'
    <3> SUFFICES ASSUME NEW m \in live', task'[m].kind # "WatchEstimateFee"
                 PROVE  /\ <<task'[m].lifetime, m>> \in lifetimes'
                        /\ task'[m].kind # "SweepAddress" => task'[m].lifetime >= block_height'
      BY DEF NothingExpired
    <3>1. CASE m = n
      BY <1>2, <1>5, <2>1, <3>1 DEF add_lifetime, accepts
    <3>2. CASE m # n
      BY <1>2, <2>1, <3>2 DEF RegistryOK, NothingExpired
    <3> QED
      BY <3>1, <3>2
  <2>4. \A e \in sent' : \E m \in live' : e.id = task'[m].id /\ e.source = task'[m].source
    BY <1>2, <2>1 DEF greeting
  <2>5. live' = live \cup {task_count'}
    BY <1>4, <2>1
  <2> QED
    BY <1>3, <1>4, <2>2, <2>3, <2>4, <2>5 DEF Kept, RegistryOK, Watching, W!Give
<1>6. CASE ~accepts(t)
  <2>1. /\ UNCHANGED <<live, tasks_sources, lifetimes, unseen_transactions, block_height>>
        /\ sent' = {}
    BY <1>6 DEF take, noEvent
  <2>2. NoPanic' /\ NothingExpired'
    BY <1>2, <2>1 DEF RegistryOK, NoPanic, NothingExpired, transactions, of
  <2> QED
    BY <1>3, <1>4, <2>1, <2>2 DEF Kept, RegistryOK, Watching, W!Give
<1> QED
  BY <1>5, <1>6

LEMMA ChangeHeight ==
    ASSUME RegistryOK, NEW height \in Nat, NEW hash, change_height(height, hash)
    PROVE  Kept
<1>1. CASE height = block_height /\ hash = block_hash
  <2>1. /\ UNCHANGED <<block_height, live, tasks_sources, lifetimes, unseen_transactions>>
        /\ UNCHANGED registryVars /\ sent' = {}
    BY <1>1 DEF change_height, noEvent
  <2>2. RegistryOK'
    BY <2>1, Removal, live \ {} = live DEF RegistryOK, NoPanic, transactions, of
  <2> QED
    BY <2>1, <2>2, Telling DEF Kept
<1>2. CASE ~(height = block_height /\ hash = block_hash)
  <2>1. /\ block_height' \in Nat /\ forget(expired(block_height')) /\ UNCHANGED registryVars
        /\ sent' = {event(n, "HeightChanged", 0) : n \in watch_height \ expired(block_height')}
    BY <1>2 DEF change_height, RegistryOK
  <2>2. RegistryOK' /\ live' \subseteq live
    BY <2>1, Forgotten
  <2>3. \A e \in sent' : W!about(e, live)
    BY <2>1, Events DEF watch_height, of
  <2> QED
    BY <2>1, <2>2, <2>3, Telling DEF Kept
<1> QED
  BY <1>1, <1>2

LEMMA ChangeTransaction ==
    ASSUME RegistryOK, NEW hash, NEW block, NEW confirmations \in Int,
           change_transaction(hash, block, confirmations)
    PROVE  Kept
<1> DEFINE late == expired(block_height)
           watchers == {n \in transactions \ late : task[n].target = hash}
           done == {n \in watchers : confirmations >= task[n].confirmation_bound}
<1>1. /\ live' = live \ (late \cup done) /\ tasks_sources' = tasks_sources \ late
      /\ lifetimes' = {l \in lifetimes : l[2] \notin late}
      /\ unseen_transactions' =
           IF confirmations >= 0 THEN unseen_transactions \ (late \cup watchers)
                                 ELSE (unseen_transactions \ late) \cup watchers
      /\ \A e \in sent' : \E n \in watchers :
           e = event(n, "TransactionConfirmations", confirmations)
      /\ UNCHANGED <<block_height, registryVars>>
  BY DEF change_transaction
<1>2. /\ unseen_transactions \subseteq transactions
      /\ transactions \subseteq live /\ watchers \subseteq transactions \ late
      /\ \A n \in transactions : task[n].kind = "WatchTransaction"
  BY DEF RegistryOK, NoPanic, transactions, of
<1>3. confirmations < 0 => done = {}
  <2>1. \A n \in live : task[n].confirmation_bound \in Nat
    BY Worlds DEF RegistryOK, TasksTrue
  <2> QED
    BY <1>2, <2>1
<1> HIDE DEF late, done, watchers
<1>4. done \subseteq watchers
  BY DEF done
<1>5. unseen_transactions' \subseteq {n \in live' : task[n].kind = "WatchTransaction"}
  BY <1>1, <1>2, <1>3, <1>4
<1>6. RegistryOK'
  BY <1>1, <1>5, Removal DEF RegistryOK
<1>7. \A e \in sent' : W!about(e, live)
  BY <1>1, <1>2, Events
<1> QED
  BY <1>1, <1>6, <1>7, Telling DEF Kept

LEMMA ChangeAddress ==
    ASSUME RegistryOK, NEW addendum, NEW txs, NEW looked,
           change_address(addendum, txs, looked)
    PROVE  Kept
<1> DEFINE late == expired(block_height)
<1>1. /\ live' = live \ late /\ tasks_sources' = tasks_sources \ late
      /\ lifetimes' = {l \in lifetimes : l[2] \notin late}
      /\ unseen_transactions' = unseen_transactions \ late
      /\ UNCHANGED <<block_height, registryVars>>
  BY DEF change_address
<1>2. \A e \in sent' : \E n \in addresses : \E kind, value : e = event(n, kind, value)
  <2> SUFFICES ASSUME NEW e \in sent'
               PROVE  \E n \in addresses : \E kind, value : e = event(n, kind, value)
    OBVIOUS
  <2> DEFINE watchers == {n \in addresses \ late : task[n].target = addendum}
  <2>1. \/ \E n \in watchers : e = event(n, "Empty", 0)
        \/ \E n \in watchers : \E tx \in txs : e = event(n, "AddressTransaction", tx)
    BY DEF change_address
  <2> QED
    BY <2>1
<1>3. RegistryOK'
  BY <1>1, Removal DEF RegistryOK, NoPanic, transactions, of
<1>4. \A e \in sent' : W!about(e, live)
  BY <1>2, Events DEF addresses, of
<1> QED
  BY <1>1, <1>3, <1>4, Telling DEF Kept

LEMMA EndSweep ==
    ASSUME RegistryOK, NEW n, NEW kind, end_sweep(n, kind)
    PROVE  Kept
<1>1. UNCHANGED <<block_height, registryVars>>
  BY DEF end_sweep
<1>2. CASE n \in sweep_addresses
  <2>1. forget({n}) /\ sent' = {event(n, kind, 0)}
    BY <1>2 DEF end_sweep
  <2>2. RegistryOK' /\ live' \subseteq live
    BY <1>1, <2>1, Forgotten DEF RegistryOK
  <2>3. \A e \in sent' : W!about(e, live)
    BY <1>2, <2>1, Events DEF sweep_addresses, of
  <2> QED
    BY <1>1, <2>2, <2>3, Telling DEF Kept
<1>3. CASE n \notin sweep_addresses
  <2>1. UNCHANGED <<live, tasks_sources, lifetimes, unseen_transactions>> /\ sent' = {}
    BY <1>3 DEF end_sweep, noEvent
  <2>2. RegistryOK'
    BY <1>1, <2>1, Removal, live \ {} = live DEF RegistryOK, NoPanic, transactions, of
  <2> QED
    BY <1>1, <2>1, <2>2, Telling DEF Kept
<1> QED
  BY <1>2, <1>3

LEMMA FeeEstimated ==
    ASSUME RegistryOK, NEW fee, fee_estimated(fee)
    PROVE  Kept
<1>1. forget(expired(block_height)) /\ UNCHANGED <<block_height, registryVars>>
  BY DEF fee_estimated
<1>2. RegistryOK' /\ live' \subseteq live
  BY <1>1, Forgotten DEF RegistryOK
<1>3. \A e \in sent' : W!about(e, live)
  BY Events DEF fee_estimated, watch_fee_estimation, of
<1> QED
  BY <1>1, <1>2, <1>3, Telling DEF Kept

\* What touches no map, and sends nothing but an answer to a one-off task.
LEMMA Untouched ==
    ASSUME RegistryOK, UNCHANGED <<block_height, registryVars, live, tasks_sources,
                                   lifetimes, unseen_transactions>>,
           \A e \in sent' : e.kind \in JobAnswer
    PROVE  Kept
<1>1. RegistryOK'
  <2>1. /\ live' = live \ {} /\ tasks_sources' = tasks_sources \ {}
        /\ lifetimes' = lifetimes
        /\ block_height' = block_height /\ block_height' \in Nat /\ UNCHANGED registryVars
    BY DEF RegistryOK
  <2>2. unseen_transactions' \subseteq {n \in live' : task[n].kind = "WatchTransaction"}
    BY DEF RegistryOK, NoPanic, transactions, of
  <2> QED
    BY <2>1, <2>2, Removal
<1>2. \A e \in sent' : W!answers(e)
  BY DEF W!answers, W!OneOff, JobAnswer
<1> QED
  BY <1>1, <1>2, Telling DEF Kept

-------------------------------------------------------------------------------
(***************************************************************************)
(* What watchers are told of their transactions.                           *)
(***************************************************************************)
\* A task that was given is not changed.
LEMMA TasksStay ==
    ASSUME RegistryOK, Kept \/ UNCHANGED <<task, task_count>>
    PROVE  Given \subseteq Given' /\ \A n \in Given : task'[n] = task[n]
<1>1. CASE UNCHANGED <<task, task_count>>
  BY <1>1 DEF Given
<1>2. CASE Kept
  <2>1. /\ task_count \in Nat /\ Given \subseteq DOMAIN task
        /\ \A n \in Given : n # task_count + 1
    BY SyncerEnvironmentAssumption DEF RegistryOK, TasksTrue, Given, InternalId
  <2>2. CASE W!Give
    BY <2>1, <2>2 DEF W!Give, Given
  <2>3. CASE W!Tell
    BY <2>3 DEF W!Tell, Given
  <2> QED
    BY <1>2, <2>2, <2>3 DEF Kept, Watching
<1> QED
  BY <1>1, <1>2

\* Nothing is told of a task that is still to come.
ToldOK == /\ \A n \in InternalId : told[n].confirmations \in Int
          /\ \A n \in InternalId \ Given : told[n] = Unheard

\* A step that tells nobody anything, or of hash that it has c confirmations.
Untold == \A n \in InternalId : told'[n] \in {told[n], Unheard}
ToldOf(hash, c) == \A n \in InternalId :
    \/ told'[n] \in {told[n], Unheard}
    \/ n \in transactions /\ task[n].target = hash /\ told'[n].confirmations = c

LEMMA UntoldSteps ==
    /\ \A target, source, respond : abort(target, source, respond) => Untold
    /\ \A t : take(t) => Untold
    /\ \A height, hash : change_height(height, hash) => Untold
    /\ \A addendum, txs, looked : change_address(addendum, txs, looked) => Untold
    /\ \A n, kind : end_sweep(n, kind) => Untold
    /\ \A fee : fee_estimated(fee) => Untold
    /\ unsubscribe_addresses => Untold
    /\ UNCHANGED told => Untold
<1>1. \A gone : forget(gone) => Untold
  BY DEF forget, Untold
<1>2. UNCHANGED told => Untold
  BY DEF Untold
<1>3. \A target, source, respond : abort(target, source, respond) => Untold
  BY <1>1 DEF abort
<1>4. \A t : take(t) => Untold
  BY <1>2 DEF take
<1>5. \A height, hash : change_height(height, hash) => Untold
  BY <1>1, <1>2 DEF change_height
<1>6. \A addendum, txs, looked : change_address(addendum, txs, looked) => Untold
  BY DEF change_address, Untold
<1>7. \A n, kind : end_sweep(n, kind) => Untold
  BY <1>1, <1>2 DEF end_sweep
<1>8. \A fee : fee_estimated(fee) => Untold
  BY <1>1 DEF fee_estimated
<1>9. unsubscribe_addresses => Untold
  BY <1>2 DEF unsubscribe_addresses
<1> QED
  BY <1>2, <1>3, <1>4, <1>5, <1>6, <1>7, <1>8, <1>9

LEMMA ToldSteps ==
    ASSUME NEW hash, NEW block, NEW c, change_transaction(hash, block, c)
    PROVE  ToldOf(hash, c)
BY DEF change_transaction, ToldOf

-------------------------------------------------------------------------------
(***************************************************************************)
(* The chain: heights are numbers, and so are confirmations.               *)
(***************************************************************************)
ChainOK == /\ chain \in Seq(Nat) /\ chain # <<>> /\ reorgs \in Nat
           /\ mined \in [Hash -> Nat \cup {-1}]

LEMMA ChainInitially == BlockchainInit => ChainOK
<1>1. <<1>> \in Seq(Nat) /\ <<1>> # <<>>
  OBVIOUS
<1> QED
  BY <1>1 DEF BlockchainInit, ChainOK

LEMMA Tip ==
    ASSUME ChainOK
    PROVE  tip \in Nat /\ tip \in DOMAIN chain /\ chain[tip] \in Nat
<1>1. tip \in Nat \ {0} /\ DOMAIN chain = 1..tip
  BY EmptySeq, LenProperties DEF ChainOK, tip
<1> QED
  BY <1>1, ElementOfSeq DEF ChainOK, tip

\* The tip is replaced.
LEMMA OtherTip ==
    ASSUME ChainOK, NEW h \in Nat, chain' = [chain EXCEPT ![tip] = h]
    PROVE  chain' \in Seq(Nat) /\ chain' # <<>>
<1>1. chain \in Seq(Nat) /\ tip \in 1..Len(chain)
  BY Tip, LenProperties DEF ChainOK
<1>2. chain' \in Seq(Nat) /\ Len(chain') = Len(chain)
  BY <1>1, ExceptSeq
<1> QED
  BY <1>1, <1>2, EmptySeq

LEMMA ChainGrows ==
    ASSUME TasksTrue, ChainOK, Blocks
    PROVE  ChainOK'
<1>1. tip \in Nat /\ tip \in DOMAIN chain /\ chain \in Seq(Nat) /\ reorgs \in Nat
  BY Tip DEF ChainOK
<1>2. FurtherHash \in Nat
  BY SyncerEnvironmentAssumption DEF TasksTrue, FurtherHash, MaxHeight, MaxReorgs
<1>3. CASE MineBlock
  <2>1. chain' \in Seq(Nat) /\ chain' # <<>>
    BY <1>1, <1>3, AppendProperties DEF MineBlock
  <2>2. mined' \in [Hash -> Nat \cup {-1}]
    BY <1>1, <1>3 DEF MineBlock, pack, ChainOK
  <2> QED
    BY <1>1, <1>3, <2>1, <2>2 DEF MineBlock, ChainOK
<1>4. CASE FurtherBlock
  <2> DEFINE h == IF chain[tip] = FurtherHash THEN tip + reorgs ELSE FurtherHash
  <2>1. chain' = [chain EXCEPT ![tip] = h] /\ h \in Nat
    BY <1>1, <1>2, <1>4 DEF FurtherBlock
  <2> HIDE DEF h
  <2>2. chain' \in Seq(Nat) /\ chain' # <<>>
    BY <2>1, OtherTip
  <2> QED
    BY <1>4, <2>2 DEF FurtherBlock, ChainOK
<1>5. CASE Reorg
  <2>1. chain' = [chain EXCEPT ![tip] = tip + reorgs + 1] /\ reorgs' = reorgs + 1
    BY <1>5 DEF Reorg
  <2>2. chain' \in Seq(Nat) /\ chain' # <<>>
    BY <1>1, <2>1, OtherTip, tip + reorgs + 1 \in Nat
  <2>3. mined' \in [Hash -> Nat \cup {-1}]
    BY <1>1, <1>5 DEF Reorg, ChainOK
  <2> QED
    BY <1>1, <2>1, <2>2, <2>3 DEF ChainOK
<1> QED
  BY <1>3, <1>4, <1>5 DEF Blocks

LEMMA ChainRelays ==
    ASSUME ChainOK, NEW tx, Relay(tx)
    PROVE  ChainOK'
<1>1. mined' = [mined EXCEPT ![tx] = 0] /\ UNCHANGED <<chain, reorgs>>
  BY DEF Relay
<1>2. mined \in [Hash -> Nat \cup {-1}] /\ chain \in Seq(Nat) /\ chain # <<>> /\ reorgs \in Nat
  BY DEF ChainOK
<1>3. mined' = [h \in Hash |-> IF h = tx THEN 0 ELSE mined[h]]
  BY <1>1, <1>2
<1>4. mined' \in [Hash -> Nat \cup {-1}]
  <2>1. \A h \in Hash : mined[h] \in Nat \cup {-1}
    BY <1>2
  <2> QED
    BY <1>3, <2>1
<1> QED
  BY <1>1, <1>2, <1>4 DEF ChainOK

LEMMA ChainMoves ==
    ASSUME ChainOK, Transactions \/ (\E a \in Address : Payments(a))
    PROVE  ChainOK'
BY DEF ChainOK, Transactions, Relay, Evict, Payments, Pay

-------------------------------------------------------------------------------
(***************************************************************************)
(* Nobody is told too much.  Without reorganisations the chain only grows, *)
(* and what was true of a mined transaction stays true.                    *)
(***************************************************************************)
GrowsOn == reorgs' = 0 => /\ reorgs = 0 /\ tip <= tip'
                          /\ \A tx \in Hash : mined[tx] > 0 => mined'[tx] = mined[tx]

\* c confirmations of tx are no more than it has, and so is what was told.
Within(tx, c) == c > 0 => tx \in Hash /\ mined[tx] > 0 /\ c <= tip - mined[tx] + 1
ToldTrue == reorgs = 0 => \A n \in Given :
    told[n].confirmations > 0 =>
      /\ task[n].target \in Hash /\ mined[task[n].target] > 0
      /\ told[n].confirmations <= tip - mined[task[n].target] + 1
ToldInv == ToldOK /\ ToldTrue

LEMMA ToldInitially == SyncerStateInit => ToldInv
BY DEF SyncerStateInit, ToldInv, ToldOK, ToldTrue, Given, InternalId, Unheard

LEMMA ToldEnough == RegistryOK /\ ChainOK /\ ToldInv => NeverAhead
<1> SUFFICES ASSUME RegistryOK, ChainOK, ToldInv, reorgs = 0,
                    NEW n \in transactions, told[n].confirmations > 0
             PROVE  told[n].confirmations <= depth(task[n].target)
  BY DEF NeverAhead
<1>1. n \in Given
  BY DEF transactions, of, RegistryOK, TasksTrue
<1> DEFINE tx == task[n].target
<1>2. /\ tx \in Hash /\ mined[tx] > 0
      /\ told[n].confirmations <= tip - mined[tx] + 1
  BY <1>1 DEF ToldInv, ToldTrue
<1>3. mined[tx] \in Int
  BY <1>2 DEF ChainOK
<1> QED
  BY <1>2, <1>3 DEF depth

LEMMA GrowsWhenUnchanged == UNCHANGED chainVars /\ ChainOK => GrowsOn
<1> SUFFICES ASSUME UNCHANGED chainVars, ChainOK PROVE GrowsOn
  OBVIOUS
<1>1. tip \in Nat /\ tip' = tip /\ reorgs' = reorgs /\ mined' = mined
  BY Tip DEF chainVars, tip
<1> QED
  BY <1>1 DEF GrowsOn

LEMMA GrowsWithBlocks == ChainOK /\ Blocks => GrowsOn
<1> SUFFICES ASSUME ChainOK, Blocks, reorgs' = 0
             PROVE  /\ reorgs = 0 /\ tip <= tip'
                    /\ \A tx \in Hash : mined[tx] > 0 => mined'[tx] = mined[tx]
  BY DEF GrowsOn
<1>1. tip \in Nat /\ chain \in Seq(Nat) /\ reorgs \in Nat
  BY Tip DEF ChainOK
<1>2. CASE MineBlock
  <2>1. tip' = tip + 1 /\ reorgs' = reorgs
    BY <1>1, <1>2, AppendProperties DEF MineBlock, tip
  <2>2. \A tx \in Hash : mined[tx] > 0 => mined'[tx] = mined[tx]
    BY <1>2 DEF MineBlock, pack, waiting
  <2> QED
    BY <1>1, <2>1, <2>2
<1>3. CASE FurtherBlock
  BY <1>1, <1>3 DEF FurtherBlock, tip
<1>4. CASE Reorg
  BY <1>1, <1>4 DEF Reorg
<1> QED
  BY <1>2, <1>3, <1>4 DEF Blocks

LEMMA GrowsWithMoves ==
    ASSUME ChainOK, \/ Transactions \/ (\E a \in Address : Payments(a))
                    \/ \E tx : Relay(tx)
    PROVE  GrowsOn
<1>1. tip \in Nat /\ mined \in [Hash -> Nat \cup {-1}]
  BY Tip DEF ChainOK
<1>2. ASSUME NEW tx, Relay(tx) \/ Evict(tx)
      PROVE  GrowsOn
  BY <1>1, <1>2 DEF Relay, Evict, GrowsOn, tip
<1>3. ASSUME NEW a, NEW tx, Pay(a, tx)
      PROVE  GrowsOn
  BY <1>1, <1>3 DEF Pay, GrowsOn, tip
<1> QED
  BY <1>2, <1>3 DEF Transactions, Payments

LEMMA ToldStays ==
    ASSUME RegistryOK, ChainOK, ToldInv, GrowsOn, Untold,
           Kept \/ UNCHANGED <<task, task_count>>
    PROVE  ToldInv'
<1>1. Given \subseteq Given' /\ \A n \in Given : task'[n] = task[n]
  BY TasksStay
<1>2. Given \subseteq InternalId /\ Given' \subseteq InternalId
  <2>1. Given \subseteq InternalId
    BY Worlds DEF RegistryOK, TasksTrue, Given, InternalId
  <2>2. CASE Kept
    BY <2>2, SyncerEnvironmentAssumption DEF Kept, RegistryOK, TasksTrue, Given, InternalId
  <2>3. CASE UNCHANGED <<task, task_count>>
    BY <2>1, <2>3 DEF Given
  <2> QED
    BY <2>1, <2>2, <2>3
<1>3. ToldOK'
  BY <1>1 DEF ToldInv, ToldOK, Untold, Unheard
<1>4. ToldTrue'
  <2> SUFFICES ASSUME reorgs' = 0, NEW n \in Given', told'[n].confirmations > 0
               PROVE  /\ task'[n].target \in Hash /\ mined'[task'[n].target] > 0
                      /\ told'[n].confirmations <= tip' - mined'[task'[n].target] + 1
    BY DEF ToldTrue
  <2>1. told'[n] = told[n] /\ n \in Given /\ task'[n] = task[n]
    BY <1>1, <1>2 DEF Untold, Unheard, ToldInv, ToldOK
  <2> DEFINE tx == task[n].target
  <2>2. /\ reorgs = 0 /\ tip <= tip'
        /\ mined[tx] > 0 /\ tx \in Hash => mined'[tx] = mined[tx]
    BY DEF GrowsOn
  <2>3. /\ tx \in Hash /\ mined[tx] > 0
        /\ told[n].confirmations <= tip - mined[tx] + 1
    BY <2>1, <2>2 DEF ToldInv, ToldTrue
  <2>4. /\ tip \in Nat /\ mined[tx] \in Int /\ told[n].confirmations \in Int
        /\ tip' \in Int
    <3>1. mined[tx] \in Int /\ tip \in Nat
      BY <2>3, Tip DEF ChainOK
    <3>2. told[n].confirmations \in Int
      BY <1>2, <2>1 DEF ToldInv, ToldOK
    <3> QED
      BY <3>1, <3>2, <2>2 DEF tip
  <2> QED
    BY <2>1, <2>2, <2>3, <2>4
<1> QED
  BY <1>3, <1>4 DEF ToldInv

LEMMA ToldNews ==
    ASSUME RegistryOK, ChainOK, ToldInv, UNCHANGED <<chainVars, task, task_count>>,
           NEW hash, NEW c \in Int, ToldOf(hash, c), reorgs = 0 => Within(hash, c)
    PROVE  ToldInv'
<1>1. Given' = Given /\ task' = task /\ tip' = tip /\ mined' = mined /\ reorgs' = reorgs
  BY DEF Given, tip, chainVars
<1>2. transactions \subseteq Given /\ Given \subseteq InternalId
  <2>1. Given \subseteq InternalId
    BY Worlds DEF RegistryOK, TasksTrue, Given, InternalId
  <2> QED
    BY <2>1 DEF RegistryOK, TasksTrue, transactions, of
<1>3. ToldOK'
  BY <1>1, <1>2 DEF ToldInv, ToldOK, ToldOf, Unheard
<1>4. ToldTrue'
  <2> SUFFICES ASSUME reorgs = 0, NEW n \in Given, told'[n].confirmations > 0
               PROVE  /\ task[n].target \in Hash /\ mined[task[n].target] > 0
                      /\ told'[n].confirmations <= tip - mined[task[n].target] + 1
    BY <1>1 DEF ToldTrue
  <2>1. CASE told'[n] = told[n]
    BY <2>1 DEF ToldInv, ToldTrue
  <2>2. CASE task[n].target = hash /\ told'[n].confirmations = c
    BY <2>2 DEF Within
  <2> QED
    BY <1>2, <2>1, <2>2 DEF ToldOf, Unheard
<1> QED
  BY <1>3, <1>4 DEF ToldInv

===============================================================================
