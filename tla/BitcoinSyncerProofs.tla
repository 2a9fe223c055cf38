-------------------------- MODULE BitcoinSyncerProofs --------------------------
(***************************************************************************)
(* The bitcoin syncer keeps its registry in order, for any number of tasks *)
(* and aborts, blocks and reorganisations, failures and lost connections.  *)
(***************************************************************************)
EXTENDS BitcoinSyncerProperties, SyncerRegistryProofs

\* The numbers that pollers hand to the registry are numbers.
Header == [height : Nat, hash : Nat]
PollOK(p) == /\ {"pc", "tx", "height", "confirmations"} \subseteq DOMAIN p
             /\ p.height \in Int /\ p.confirmations \in Int
PollersOK == /\ DOMAIN poller = QueryPoller /\ poller = [w \in QueryPoller |-> poller[w]]
             /\ \A w \in QueryPoller : PollOK(poller[w])
PollingOK == ChainOK /\ headers \in Seq(Header) /\ PollersOK

SyncerOK == RegistryOK /\ PollingOK

LEMMA InitOK == Init => SyncerOK /\ W!WatchInit
<1> SUFFICES ASSUME Init PROVE SyncerOK /\ W!WatchInit
  OBVIOUS
<1>1. RegistryOK /\ W!WatchInit /\ ChainOK
  BY Initially, ChainInitially DEF Init
<1>2. headers \in Seq(Header) /\ PollersOK
  BY DEF Init, PollersOK, PollOK, QueryPoller, Asleep
<1> QED
  BY <1>1, <1>2 DEF SyncerOK, PollingOK

\* What a poller is set to.
LEMMA PollerSet ==
    ASSUME PollersOK, NEW w \in QueryPoller, NEW p, PollOK(p), set(w, p)
    PROVE  PollersOK'
<1>1. poller' = [poller EXCEPT ![w] = p]
  BY DEF set
<1>2. poller' = [v \in QueryPoller |-> IF v = w THEN p ELSE poller[v]]
  BY <1>1 DEF PollersOK
<1> QED
  BY <1>2 DEF PollersOK

\* Steps that leave the registry alone, and those that leave the chain alone.
LEMMA Quiet == ASSUME RegistryOK, quiet PROVE Kept
BY Untouched DEF quiet, noEvent, stateUnchanged

LEMMA PollingUnchanged ==
    ASSUME PollingOK, UNCHANGED <<chainVars, queryVars>>
    PROVE  PollingOK'
BY DEF PollingOK, ChainOK, PollersOK, PollOK, chainVars, queryVars

-------------------------------------------------------------------------------
(***************************************************************************)
(* The steps, loop by loop.                                                *)
(***************************************************************************)
LEMMA ReceiverStep ==
    ASSUME SyncerOK, Receiver
    PROVE  PollingOK' /\ Kept
<1>1. ASSUME NEW t \in Tasks, TakeTask(t)
      PROVE  PollingOK' /\ Kept
  BY <1>1, Take, PollingUnchanged DEF SyncerOK, TakeTask, pollVars
<1>2. ASSUME NEW a \in Aborts, TakeAbort(a)
      PROVE  PollingOK' /\ Kept
  BY <1>2, Abort, PollingUnchanged DEF SyncerOK, TakeAbort, pollVars
<1>3. ASSUME NEW j \in JobsGiven, TakeJob(j)
      PROVE  PollingOK' /\ Kept
  BY <1>3, Quiet, PollingUnchanged DEF SyncerOK, TakeJob, queryVars
<1> QED
  BY <1>1, <1>2, <1>3 DEF Receiver

\* A poller that is set to the beginning of a round.
LEMMA Rests == \A pc : PollOK(Asleep) /\ PollOK([Asleep EXCEPT !.pc = pc])
BY DEF PollOK, Asleep

LEMMA HeightStep ==
    ASSUME SyncerOK, HeightPolling
    PROVE  PollingOK' /\ Kept
<1>1. CASE HeightConnects
  <2>1. tip \in Nat /\ chain[tip] \in Nat
    BY Tip DEF SyncerOK, PollingOK
  <2>2. Kept
    BY <1>1, <2>1, ChangeHeight DEF HeightConnects, SyncerOK
  <2>3. PollersOK'
    BY <1>1, PollerSet, Rests DEF HeightConnects, SyncerOK, PollingOK, QueryPoller
  <2>4. ChainOK' /\ headers' \in Seq(Header)
    BY <1>1 DEF HeightConnects, SyncerOK, PollingOK, ChainOK, chainVars
  <2> QED
    BY <2>2, <2>3, <2>4 DEF PollingOK
<1>2. CASE HeightPings
  <2>1. PollersOK'
    BY <1>2, PollerSet, Rests DEF HeightPings, SyncerOK, PollingOK, QueryPoller
  <2>2. ChainOK' /\ headers' \in Seq(Header)
    BY <1>2 DEF HeightPings, SyncerOK, PollingOK, ChainOK, chainVars
  <2> QED
    BY <1>2, <2>1, <2>2, Quiet DEF HeightPings, SyncerOK, PollingOK
<1>3. CASE HeightReads
  <2>1. headers \in Seq(Header) /\ headers # <<>>
    BY <1>3 DEF HeightReads, SyncerOK, PollingOK
  <2>2. Head(headers) \in Header /\ Tail(headers) \in Seq(Header)
    BY <2>1, HeadTailProperties
  <2>3. Head(headers).height \in Nat
    BY <2>2 DEF Header
  <2>4. Kept
    BY <1>3, <2>3, ChangeHeight DEF HeightReads, SyncerOK
  <2>5. PollersOK'
    BY <1>3, PollerSet, Rests DEF HeightReads, SyncerOK, PollingOK, QueryPoller
  <2>6. ChainOK' /\ headers' \in Seq(Header)
    BY <1>3, <2>2 DEF HeightReads, SyncerOK, PollingOK, ChainOK, chainVars
  <2> QED
    BY <2>4, <2>5, <2>6 DEF PollingOK
<1> QED
  BY <1>1, <1>2, <1>3 DEF HeightPolling

LEMMA QueryStep ==
    ASSUME SyncerOK, NEW w \in QueryPoller, Querying(w)
    PROVE  PollingOK' /\ Kept
<1>1. /\ PollOK(poller[w]) /\ PollersOK /\ RegistryOK /\ ChainOK
      /\ queryUnchanged => ChainOK' /\ headers' \in Seq(Header)
  BY DEF SyncerOK, PollingOK, PollersOK, queryUnchanged, ChainOK, chainVars
<1>2. SUFFICES Kept /\ queryUnchanged /\ \E p : PollOK(p) /\ set(w, p)
  BY <1>1, PollerSet DEF PollingOK
<1>3. CASE Lists(w)
  <2> DEFINE todo == {task[n].target : n \in to_query(w)}
             p == [Asleep EXCEPT !.todo = todo, !.pc = IF todo = {} THEN "poll" ELSE "ask"]
  <2>1. quiet /\ queryUnchanged /\ set(w, p)
    BY <1>3 DEF Lists
  <2>2. PollOK(p)
    BY DEF PollOK, Asleep
  <2> QED
    BY <1>1, <2>1, <2>2, Quiet
<1>4. ASSUME NEW tx \in Hash, Asks(w, tx)
      PROVE  Kept /\ queryUnchanged /\ \E p : PollOK(p) /\ set(w, p)
  <2> DEFINE q == [poller[w] EXCEPT !.tx = tx]
             none == [q EXCEPT !.pc = "apply", !.confirmations = -1, !.block = NoBlock]
             b == IF mined[tx] > 0 THEN chain[mined[tx]] ELSE NoBlock
             found == [q EXCEPT !.pc = "tip", !.height = mined[tx], !.block = b]
             lost == [none EXCEPT !.confirmations = 0]
  <2>1. quiet /\ queryUnchanged /\ (set(w, none) \/ set(w, found) \/ set(w, lost))
    BY <1>4 DEF Asks
  <2>2. PollOK(q) /\ mined[tx] \in Int
    BY <1>1 DEF PollOK, ChainOK
  <2> HIDE DEF q, b
  <2>3. PollOK(none) /\ PollOK(found) /\ PollOK(lost)
    BY <2>2 DEF PollOK
  <2> QED
    BY <1>1, <2>1, <2>3, Quiet
<1>5. CASE AsksTip(w)
  <2> DEFINE q == [poller[w] EXCEPT !.pc = "apply"]
             read == [q EXCEPT !.confirmations = confirmations_at(q.height)]
             lost == [q EXCEPT !.confirmations = 0, !.block = NoBlock]
  <2>1. quiet /\ queryUnchanged /\ (set(w, read) \/ set(w, lost))
    BY <1>5 DEF AsksTip
  <2>2. PollOK(q) /\ tip \in Nat
    BY <1>1, Tip DEF PollOK
  <2>3. confirmations_at(q.height) \in Int
    BY <2>2 DEF confirmations_at, PollOK
  <2> HIDE DEF q
  <2>4. PollOK(read) /\ PollOK(lost)
    BY <2>2, <2>3 DEF PollOK
  <2> QED
    BY <1>1, <2>1, <2>4, Quiet
<1>6. CASE Applies(w)
  <2> DEFINE q == poller[w]
             rest == q.todo \ {q.tx}
             p == [Asleep EXCEPT !.todo = rest, !.pc = IF rest = {} THEN "poll" ELSE "ask"]
  <2>1. /\ change_transaction(q.tx, q.block, q.confirmations)
        /\ queryUnchanged /\ set(w, p)
    BY <1>6 DEF Applies
  <2>2. Kept
    BY <1>1, <2>1, ChangeTransaction DEF PollOK
  <2>3. PollOK(p)
    BY DEF PollOK, Asleep
  <2> QED
    BY <2>1, <2>2, <2>3
<1> QED
  BY <1>3, <1>4, <1>5, <1>6 DEF Querying

LEMMA AddressStep ==
    ASSUME SyncerOK, AddressPolling
    PROVE  PollingOK' /\ Kept
<1>1. UNCHANGED <<chainVars, queryVars>> /\ Kept
  <2>1. CASE AddressReconnects
    BY <2>1, Untouched DEF SyncerOK, AddressReconnects, watchUnchanged,
                           unsubscribe_addresses, noEvent
  <2>2. CASE AddressLists \/ AddressSubscribed \/ AddressChecked
    BY <2>2, Quiet DEF SyncerOK, watchUnchanged, AddressLists, AddressSubscribed, AddressChecked
  <2>3. ASSUME NEW n \in InternalId, AddressSubscribes(n)
        PROVE  UNCHANGED <<chainVars, queryVars>> /\ Kept
    BY <2>3, Quiet DEF SyncerOK, watchUnchanged, AddressSubscribes
  <2>4. ASSUME NEW a \in Address, AddressChanged(a)
        PROVE  UNCHANGED <<chainVars, queryVars>> /\ Kept
    BY <2>4, Quiet DEF SyncerOK, watchUnchanged, AddressChanged
  <2>5. CASE AddressApplies
    BY <2>5, ChangeAddress DEF SyncerOK, watchUnchanged, AddressApplies
  <2>6. CASE AddressPops
    BY <2>6, ChangeAddress DEF SyncerOK, watchUnchanged, AddressPops
  <2> QED
    BY <2>1, <2>2, <2>3, <2>4, <2>5, <2>6 DEF AddressPolling
<1> QED
  BY <1>1, PollingUnchanged DEF SyncerOK

LEMMA SweepStep ==
    ASSUME SyncerOK, SweepPolling
    PROVE  PollingOK' /\ Kept
<1>1. UNCHANGED <<chainVars, queryVars>> /\ Kept
  <2>1. CASE SweepLists
    BY <2>1, Quiet DEF SyncerOK, sweepUnchanged, SweepLists
  <2>2. ASSUME NEW n \in InternalId, Sweeps(n)
        PROVE  UNCHANGED <<chainVars, queryVars>> /\ Kept
    BY <2>2, Quiet DEF SyncerOK, sweepUnchanged, Sweeps
  <2>3. CASE SweepReports
    BY <2>3, Quiet, EndSweep DEF SyncerOK, sweepUnchanged, SweepReports
  <2> QED
    BY <2>1, <2>2, <2>3 DEF SweepPolling
<1> QED
  BY <1>1, PollingUnchanged DEF SyncerOK

\* Fee estimations and one-off tasks.
LEMMA RequestStep ==
    ASSUME SyncerOK, (\E fee \in Fee : FeePolls(fee)) \/ JobWork
    PROVE  PollingOK' /\ Kept
<1>1. ASSUME NEW fee \in Fee, FeePolls(fee)
      PROVE  PollingOK' /\ Kept
  BY <1>1, FeeEstimated, PollingUnchanged DEF SyncerOK, FeePolls, pollVars
<1>2. ASSUME NEW j \in Jobs, JobAnswers(j)
      PROVE  PollingOK' /\ Kept
  <2>1. stateUnchanged /\ UNCHANGED queryVars
    BY <1>2 DEF JobAnswers
  <2>2. \E ok \in BOOLEAN : sent' = {answer(j, ok)}
    BY <1>2 DEF JobAnswers
  <2>3. \A e \in sent' : e.kind \in JobAnswer
    BY <2>2, SyncerEnvironmentAssumption DEF answer
  <2>4. Kept
    BY <2>1, <2>3, Untouched DEF SyncerOK, stateUnchanged
  <2>5. ChainOK'
    <3>1. ChainOK /\ (Relay(j.target) \/ UNCHANGED chainVars)
      BY <1>2 DEF JobAnswers, SyncerOK, PollingOK
    <3>2. ASSUME Relay(j.target) PROVE ChainOK'
      BY <3>1, <3>2, ChainRelays
    <3>3. ASSUME UNCHANGED chainVars PROVE ChainOK'
      BY <3>1, <3>3 DEF chainVars, ChainOK
    <3> QED
      BY <3>1, <3>2, <3>3
  <2>6. PollingOK'
    BY <2>1, <2>5 DEF queryVars, SyncerOK, PollingOK, PollersOK, PollOK
  <2> QED
    BY <2>4, <2>6
<1> QED
  BY <1>1, <1>2 DEF JobWork

LEMMA ServerStep ==
    ASSUME SyncerOK, Server
    PROVE  PollingOK' /\ Kept
<1>1. quiet /\ UNCHANGED poller
  BY DEF Server, BlockComes, TransactionMoves, PaymentComes, LinkBreaks, serverUnchanged
<1>2. Kept /\ PollersOK' /\ RegistryOK /\ ChainOK /\ TasksTrue
  BY <1>1, Quiet DEF SyncerOK, PollingOK, PollersOK, PollOK, RegistryOK
<1>3. CASE BlockComes
  <2>1. ChainOK'
    BY <1>2, <1>3, ChainGrows DEF BlockComes
  <2>2. [height |-> Len(chain'), hash |-> chain'[Len(chain')]] \in Header
    <3>1. /\ chain' \in Seq(Nat) /\ Len(chain') \in Nat /\ Len(chain') # 0
          /\ Len(chain') \in 1..Len(chain')
      BY <2>1, EmptySeq, LenProperties DEF ChainOK
    <3>2. chain'[Len(chain')] \in Nat
      BY <3>1, ElementOfSeq
    <3> QED
      BY <3>1, <3>2 DEF Header
  <2> DEFINE b == [height |-> Len(chain'), hash |-> chain'[Len(chain')]]
  <2>3. headers \in Seq(Header) /\ headers' \in {Append(headers, b), headers}
    BY <1>3 DEF BlockComes, SyncerOK, PollingOK
  <2> HIDE DEF b
  <2>4. headers' \in Seq(Header)
    BY <2>2, <2>3, AppendProperties DEF b
  <2> QED
    BY <1>2, <2>1, <2>4 DEF PollingOK
<1>4. CASE TransactionMoves
  BY <1>2, <1>4, ChainMoves DEF TransactionMoves, SyncerOK, PollingOK
<1>5. ASSUME NEW a \in Address, PaymentComes(a)
      PROVE  PollingOK' /\ Kept
  BY <1>2, <1>5, ChainMoves DEF PaymentComes, SyncerOK, PollingOK
<1>6. ASSUME NEW w \in Poller, LinkBreaks(w)
      PROVE  PollingOK' /\ Kept
  <2>1. headers' \in {<<>>, headers} /\ UNCHANGED chainVars
    BY <1>6 DEF LinkBreaks
  <2>2. <<>> \in Seq(Header)
    OBVIOUS
  <2> QED
    BY <1>2, <2>1, <2>2 DEF SyncerOK, PollingOK, ChainOK, chainVars
<1> QED
  BY <1>3, <1>4, <1>5, <1>6 DEF Server

-------------------------------------------------------------------------------
LEMMA Step == SyncerOK /\ [Next]_vars => SyncerOK' /\ [W!Give \/ W!Tell]_(W!watchVars)
<1> SUFFICES ASSUME SyncerOK, [Next]_vars
             PROVE  SyncerOK' /\ [W!Give \/ W!Tell]_(W!watchVars)
  OBVIOUS
<1>1. CASE Next
  <2>1. PollingOK' /\ Kept
    BY <1>1, ReceiverStep, HeightStep, QueryStep, AddressStep, SweepStep, RequestStep, ServerStep
    DEF Next
  <2> QED
    BY <2>1 DEF SyncerOK, Kept, Watching
<1>2. CASE UNCHANGED vars
  <2>1. /\ UNCHANGED <<env, task_count, task, block_height, live, tasks_sources, lifetimes,
                       unseen_transactions, sent>>
        /\ UNCHANGED <<chainVars, queryVars>>
    BY <1>2 DEF vars, stateVars, registryVars, pollVars
  <2>2. PollingOK'
    BY <2>1, PollingUnchanged DEF SyncerOK
  <2>3. RegistryOK'
    BY <2>1 DEF SyncerOK, RegistryOK, TasksTrue, Given, Tasks, NoPanic, NothingExpired,
                transactions, of
  <2> QED
    BY <2>1, <2>2, <2>3 DEF SyncerOK, W!watchVars
<1> QED
  BY <1>1, <1>2

(***************************************************************************)
(* A lookup by the internal id of a task finds what it looks for           *)
(* (tasks_sources.get(id).unwrap(), transactions[task_id]), however the    *)
(* methods that clear the maps follow each other.                          *)
(***************************************************************************)
THEOREM BitcoinNoPanic == Spec => []NoPanic
<1>1. SyncerOK => NoPanic
  BY DEF SyncerOK, RegistryOK
<1> QED
  BY <1>1, InitOK, Step, PTL DEF Spec

(***************************************************************************)
(* Every watch has an end on record, and none outlives it                  *)
(* (add_lifetime, drop_lifetimes).                                         *)
(***************************************************************************)
THEOREM BitcoinNothingExpired == Spec => []NothingExpired
<1>1. SyncerOK => NothingExpired
  BY DEF SyncerOK, RegistryOK
<1> QED
  BY <1>1, InitOK, Step, PTL DEF Spec

(***************************************************************************)
(* The loops of bitcoin_syncer.rs together are no more than a Watch: what  *)
(* was dropped, aborted or has run out is never taken up again, and every  *)
(* event is about a task that was watched or answers a one-off request.    *)
(***************************************************************************)
THEOREM BitcoinWatches == Spec => Watched
<1> QED
  BY InitOK, Step, PTL DEF Spec, Watched, W!WatchSpec

-------------------------------------------------------------------------------
(***************************************************************************)
(* What a poller holds between two awaits: the height at which it saw its  *)
(* transaction, then how many confirmations it makes of it.                *)
(***************************************************************************)
Truth(m, t, p) ==
    /\ p.pc = "tip" => /\ p.tx \in Hash /\ p.height \in Nat
                       /\ p.height > 0 => m[p.tx] = p.height
    /\ p.pc = "apply" /\ p.confirmations > 0 =>
         p.tx \in Hash /\ m[p.tx] > 0 /\ p.confirmations <= t - m[p.tx] + 1
PollersTrue == reorgs = 0 => \A w \in QueryPoller : Truth(mined, tip, poller[w])

TellingInv == SyncerOK /\ ToldInv /\ PollersTrue

\* How a step changes the pollers, and what watchers have been told.
Turns == \E w \in QueryPoller : \E p :
           set(w, p) /\ PollOK(p) /\ (reorgs = 0 => Truth(mined, tip, p))

LEMMA TruthInitially == Init => PollersTrue
BY DEF Init, PollersTrue, Truth, Asleep, QueryPoller

LEMMA Resting == \A pc : pc \notin {"tip", "apply"} => Truth(mined, tip, [Asleep EXCEPT !.pc = pc])
BY DEF Truth, Asleep

\* What was true of a poller stays true while the chain grows.
LEMMA TruthStays ==
    ASSUME ChainOK, ChainOK', GrowsOn, PollersOK, PollersTrue, UNCHANGED poller \/ Turns
    PROVE  PollersTrue'
<1> SUFFICES ASSUME reorgs' = 0, NEW v \in QueryPoller
             PROVE  Truth(mined', tip', poller'[v])
  BY DEF PollersTrue
<1>1. /\ reorgs = 0 /\ tip <= tip' /\ tip \in Nat /\ tip' \in Nat
      /\ \A tx \in Hash : mined[tx] \in Int /\ (mined[tx] > 0 => mined'[tx] = mined[tx])
  BY Tip DEF GrowsOn, ChainOK, tip
<1>2. ASSUME NEW p, Truth(mined, tip, p), p.confirmations \in Int
      PROVE  Truth(mined', tip', p)
  BY <1>1, <1>2 DEF Truth
<1>3. Truth(mined, tip, poller[v]) /\ poller[v].confirmations \in Int
  BY <1>1 DEF PollersTrue, PollersOK, PollOK
<1>4. CASE UNCHANGED poller
  BY <1>2, <1>3, <1>4
<1>5. ASSUME NEW w \in QueryPoller, NEW p, set(w, p), PollOK(p), Truth(mined, tip, p)
      PROVE  Truth(mined', tip', poller'[v])
  <2>1. poller' = [u \in QueryPoller |-> IF u = w THEN p ELSE poller[u]]
    BY <1>5 DEF set, PollersOK
  <2>2. p.confirmations \in Int
    BY <1>5 DEF PollOK
  <2> QED
    BY <1>2, <1>3, <1>5, <2>1, <2>2
<1> QED
  BY <1>1, <1>4, <1>5 DEF Turns

\* A poller asks, or reports and goes on.
LEMMA QueryTurns ==
    ASSUME SyncerOK, PollersTrue, NEW w \in QueryPoller, Querying(w)
    PROVE  Turns
<1>1. /\ PollOK(poller[w]) /\ ChainOK /\ tip \in Nat
      /\ reorgs = 0 => Truth(mined, tip, poller[w])
  BY Tip DEF SyncerOK, PollingOK, PollersOK, PollersTrue
<1>2. SUFFICES \E p : set(w, p) /\ PollOK(p) /\ (reorgs = 0 => Truth(mined, tip, p))
  BY DEF Turns
<1>3. CASE Lists(w) \/ Applies(w)
  <2>1. \E todo, pc : pc \in {"poll", "ask"} /\ set(w, [Asleep EXCEPT !.todo = todo, !.pc = pc])
    BY <1>3 DEF Lists, Applies
  <2>2. ASSUME NEW todo, NEW pc \in {"poll", "ask"}
        PROVE  /\ PollOK([Asleep EXCEPT !.todo = todo, !.pc = pc])
               /\ Truth(mined, tip, [Asleep EXCEPT !.todo = todo, !.pc = pc])
    BY DEF PollOK, Truth, Asleep
  <2> QED
    BY <2>1, <2>2
<1>4. ASSUME NEW tx \in Hash, Asks(w, tx)
      PROVE  \E p : set(w, p) /\ PollOK(p) /\ (reorgs = 0 => Truth(mined, tip, p))
  <2> DEFINE q == [poller[w] EXCEPT !.tx = tx]
             none == [q EXCEPT !.pc = "apply", !.confirmations = -1, !.block = NoBlock]
             b == IF mined[tx] > 0 THEN chain[mined[tx]] ELSE NoBlock
             found == [q EXCEPT !.pc = "tip", !.height = mined[tx], !.block = b]
             lost == [none EXCEPT !.confirmations = 0]
  <2>1. set(w, none) \/ (mined[tx] # -1 /\ set(w, found)) \/ set(w, lost)
    BY <1>4 DEF Asks
  <2>2. PollOK(q) /\ q.tx = tx /\ mined[tx] \in Nat \cup {-1}
    BY <1>1 DEF PollOK, ChainOK
  <2> HIDE DEF q, b
  <2>3. PollOK(none) /\ PollOK(found) /\ PollOK(lost)
    BY <2>2 DEF PollOK
  <2>4. /\ Truth(mined, tip, none) /\ Truth(mined, tip, lost)
        /\ mined[tx] # -1 => Truth(mined, tip, found)
    BY <2>2 DEF PollOK, Truth
  <2> QED
    BY <2>1, <2>3, <2>4
<1>5. CASE AsksTip(w)
  <2> DEFINE q == [poller[w] EXCEPT !.pc = "apply"]
             read == [q EXCEPT !.confirmations = confirmations_at(poller[w].height)]
             lost == [q EXCEPT !.confirmations = 0, !.block = NoBlock]
  <2>1. poller[w].pc = "tip" /\ (set(w, read) \/ set(w, lost))
    BY <1>1, <1>5 DEF AsksTip, PollOK
  <2>2. PollOK(q) /\ q.tx = poller[w].tx /\ q.pc = "apply"
    BY <1>1 DEF PollOK
  <2>3. /\ confirmations_at(poller[w].height) \in Int
        /\ reorgs = 0 /\ confirmations_at(poller[w].height) > 0 =>
             /\ q.tx \in Hash /\ mined[q.tx] > 0
             /\ confirmations_at(poller[w].height) <= tip - mined[q.tx] + 1
    BY <1>1, <2>1, <2>2 DEF confirmations_at, PollOK, Truth
  <2> HIDE DEF q
  <2>4. PollOK(read) /\ PollOK(lost)
    BY <2>2, <2>3 DEF PollOK
  <2>5. reorgs = 0 => Truth(mined, tip, read) /\ Truth(mined, tip, lost)
    BY <2>2, <2>3 DEF PollOK, Truth
  <2> QED
    BY <2>1, <2>4, <2>5
<1> QED
  BY <1>3, <1>4, <1>5 DEF Querying

\* The chain only grows, and the pollers stay true.
LEMMA StepTurns ==
    ASSUME SyncerOK, PollersTrue, [Next]_vars
    PROVE  GrowsOn /\ (UNCHANGED poller \/ Turns)
<1>1. ChainOK /\ PollersOK
  BY DEF SyncerOK, PollingOK
<1>2. CASE Receiver \/ AddressPolling \/ SweepPolling \/ (\E fee \in Fee : FeePolls(fee))
           \/ UNCHANGED vars
  <2>1. UNCHANGED <<chainVars, poller>>
    BY <1>2 DEF Receiver, TakeTask, TakeAbort, TakeJob, AddressPolling, AddressReconnects,
       AddressLists, AddressApplies, AddressChecked, AddressPops, AddressSubscribes,
       AddressSubscribed, AddressChanged, watchUnchanged, SweepPolling, SweepLists,
       SweepReports, Sweeps, sweepUnchanged, FeePolls, vars, pollVars, queryVars
  <2> QED
    BY <1>1, <2>1, GrowsWhenUnchanged
<1>3. CASE HeightPolling
  <2>1. /\ UNCHANGED chainVars
        /\ \E p : set("height", p) /\ (p = Asleep \/ \E pc \in {"connect", "blocks", "list", "poll"} :
                                                          p = [Asleep EXCEPT !.pc = pc])
    BY <1>3 DEF HeightPolling, HeightConnects, HeightPings, HeightReads
  <2>2. Truth(mined, tip, Asleep)
    BY DEF Truth, Asleep
  <2> QED
    BY <1>1, <2>1, <2>2, GrowsWhenUnchanged, Rests, Resting DEF Turns, QueryPoller
<1>4. ASSUME NEW w \in QueryPoller, Querying(w) PROVE GrowsOn /\ Turns
  <2>1. UNCHANGED chainVars
    BY <1>4 DEF Querying, Lists, Asks, AsksTip, Applies, queryUnchanged
  <2> QED
    BY <1>1, <1>4, <2>1, GrowsWhenUnchanged, QueryTurns
<1>5. CASE JobWork
  <2>1. UNCHANGED poller /\ (UNCHANGED chainVars \/ \E tx : Relay(tx))
    BY <1>5 DEF JobWork, JobAnswers, queryVars
  <2> QED
    BY <1>1, <2>1, GrowsWhenUnchanged, GrowsWithMoves
<1>6. CASE Server
  <2>1. UNCHANGED poller /\ (\/ UNCHANGED chainVars \/ Blocks \/ Transactions
                             \/ \E a \in Address : Payments(a))
    BY <1>6 DEF Server, BlockComes, TransactionMoves, PaymentComes, LinkBreaks, serverUnchanged
  <2> QED
    BY <1>1, <2>1, GrowsWhenUnchanged, GrowsWithMoves, GrowsWithBlocks
<1> QED
  BY <1>2, <1>3, <1>4, <1>5, <1>6 DEF Next

\* Watchers are told of nothing but what a poller holds.
LEMMA StepTells ==
    ASSUME SyncerOK, [Next]_vars
    PROVE  \/ Untold
           \/ \E w \in QueryPoller : Applies(w)
<1>1. quiet \/ stateUnchanged => Untold
  BY UntoldSteps DEF quiet, stateUnchanged
<1>2. CASE Receiver
  BY <1>1, <1>2, UntoldSteps DEF Receiver, TakeTask, TakeAbort, TakeJob
<1>3. CASE HeightPolling
  BY <1>1, <1>3, UntoldSteps DEF HeightPolling, HeightConnects, HeightPings, HeightReads
<1>4. CASE AddressPolling
  BY <1>1, <1>4, UntoldSteps DEF AddressPolling, AddressReconnects, AddressLists,
     AddressApplies, AddressChecked, AddressPops, AddressSubscribes, AddressSubscribed, AddressChanged
<1>5. CASE SweepPolling
  BY <1>1, <1>5, UntoldSteps DEF SweepPolling, SweepLists, SweepReports, Sweeps
<1>6. CASE (\E fee \in Fee : FeePolls(fee)) \/ JobWork
  BY <1>1, <1>6, UntoldSteps DEF FeePolls, JobWork, JobAnswers
<1>7. CASE Server
  BY <1>1, <1>7 DEF Server, BlockComes, TransactionMoves, PaymentComes, LinkBreaks, serverUnchanged
<1>8. ASSUME NEW w \in QueryPoller, Querying(w), ~Applies(w) PROVE Untold
  BY <1>1, <1>8 DEF Querying, Lists, Asks, AsksTip
<1>9. CASE UNCHANGED vars
  BY <1>9, UntoldSteps DEF vars, stateVars
<1> QED
  BY <1>2, <1>3, <1>4, <1>5, <1>6, <1>7, <1>8, <1>9 DEF Next

LEMMA TellingStep == TellingInv /\ [Next]_vars => TellingInv'
<1> SUFFICES ASSUME TellingInv, [Next]_vars PROVE TellingInv'
  OBVIOUS
<1>1. SyncerOK /\ ToldInv /\ PollersTrue /\ RegistryOK /\ ChainOK /\ PollersOK
  BY DEF TellingInv, SyncerOK, PollingOK
<1>2. SyncerOK' /\ ChainOK' /\ (Kept \/ UNCHANGED <<task, task_count>>)
  <2>1. SyncerOK' /\ [W!Give \/ W!Tell]_(W!watchVars)
    BY <1>1, Step
  <2>2. RegistryOK' /\ ChainOK'
    BY <2>1 DEF SyncerOK, PollingOK
  <2> QED
    BY <2>1, <2>2 DEF Kept, Watching, W!watchVars
<1>3. GrowsOn /\ (UNCHANGED poller \/ Turns)
  BY <1>1, StepTurns
<1>4. PollersTrue'
  BY <1>1, <1>2, <1>3, TruthStays
<1>5. ToldInv'
  <2>1. CASE Untold
    BY <1>1, <1>2, <1>3, <2>1, ToldStays
  <2>2. ASSUME NEW w \in QueryPoller, Applies(w)
        PROVE  ToldInv'
    <3> DEFINE p == poller[w]
    <3>1. /\ change_transaction(p.tx, p.block, p.confirmations) /\ p.pc = "apply"
          /\ UNCHANGED chainVars
      BY <2>2 DEF Applies, queryUnchanged
    <3>2. p.confirmations \in Int /\ (reorgs = 0 => Within(p.tx, p.confirmations))
      BY <1>1, <3>1 DEF PollersOK, PollOK, PollersTrue, Truth, Within
    <3>3. UNCHANGED <<task, task_count>>
      BY <3>1 DEF change_transaction, registryVars
    <3> HIDE DEF p
    <3>4. ToldOf(p.tx, p.confirmations)
      BY <3>1, ToldSteps
    <3> QED
      BY <1>1, <3>1, <3>2, <3>3, <3>4, ToldNews
  <2> QED
    BY <1>1, <2>1, <2>2, StepTells
<1> QED
  BY <1>2, <1>4, <1>5 DEF TellingInv

(***************************************************************************)
(* Nobody is told of more confirmations than there are, however many       *)
(* blocks come between the replies that a poller counts them from, and     *)
(* whichever poller reports last: on a chain without reorganisations       *)
(* (query_transactions, change_transaction).                               *)
(***************************************************************************)
THEOREM BitcoinNeverAhead == Spec => []NeverAhead
<1>1. Init => TellingInv
  <2>1. Init => SyncerOK /\ PollersTrue
    BY InitOK, TruthInitially
  <2>2. Init => ToldInv
    BY ToldInitially DEF Init
  <2> QED
    BY <2>1, <2>2 DEF TellingInv
<1>2. TellingInv => NeverAhead
  BY ToldEnough DEF TellingInv, SyncerOK, PollingOK
<1> QED
  BY <1>1, <1>2, TellingStep, PTL DEF Spec

===============================================================================
