-------------------------- MODULE SyncerClientProofs --------------------------
(***************************************************************************)
(* What swapd notes of a transaction is about that transaction, for any    *)
(* labels, any number of tasks, events and blocks, and any lifetime, as    *)
(* long as swapd has not been restored.                                    *)
(***************************************************************************)
EXTENDS SyncerClientProperties, SequenceTheorems, FiniteSetTheorems, TLAPS

\* A map from ids to labels.
Naming == UNION {[S -> Label] : S \in SUBSET Nat}
Client == [counter : Nat, restored : BOOLEAN, bitcoin_height : Nat, watched_txs : Naming,
           txids : SUBSET Label, retrieving_txs : Naming, confirmations : [Label -> Int],
           final_txs : SUBSET Label, retrieved : SUBSET Label]

ClientOK ==
    /\ client \in Client /\ stored \subseteq Label
    /\ \A i \in DOMAIN client.watched_txs : i <= client.counter
    /\ \A i \in DOMAIN client.retrieving_txs : i <= client.counter

Watch == [kind : {"WatchTransaction"}, id : Nat, label : Label, lifetime : Nat]
            \cup [kind : {"WatchHeight"}, id : Nat, lifetime : Nat]
Request == Watch \cup [kind : {"GetTx"}, id : Nat, label : Label]
Told == [kind : {"HeightChanged", "TransactionConfirmations", "TransactionRetrieved"},
         id : Nat, value : Nat \cup {Unseen}]

QueuesOK ==
    /\ requests \in Seq(Request)
    /\ events \in Seq(Told)
    /\ tasks \subseteq [task : Watch, last : Int]

ChainOK ==
    /\ env \in [blocks : Nat, restarts : Nat]
    /\ height \in Nat \ {0}
    /\ mined \in [Label -> Nat]
    /\ \A l \in Label : mined[l] <= height

\* The id of a task is the client's name for what the task is about.  Of one
\* that was fetched already there is no name any more.
NamedRight(c, r) ==
    /\ r.kind = "WatchTransaction" =>
          r.id \in DOMAIN c.watched_txs /\ c.watched_txs[r.id] = r.label
    /\ r.kind = "GetTx" =>
          /\ r.id <= c.counter
          /\ r.id \in DOMAIN c.retrieving_txs => c.retrieving_txs[r.id] = r.label

\* What an event says of the transaction its id names was true, and still is.
Depths == [l \in Label |-> confirmations(l)]
ToldRight(c, depths, e) ==
    /\ e.kind = "TransactionConfirmations" =>
          e.id \in DOMAIN c.watched_txs /\ e.value <= depths[c.watched_txs[e.id]]
    /\ e.kind = "TransactionRetrieved" =>
          /\ e.id <= c.counter
          /\ e.id \in DOMAIN c.retrieving_txs => e.value <= depths[c.retrieving_txs[e.id]]

RequestsRight == ~client.restored => \A i \in DOMAIN requests : NamedRight(client, requests[i])
TasksRight == ~client.restored => \A t \in tasks : NamedRight(client, t.task)
EventsRight ==
    ~client.restored => \A i \in DOMAIN events : ToldRight(client, Depths, events[i])

ClientInv ==
    /\ ClientOK /\ QueuesOK /\ ChainOK
    /\ RequestsRight /\ TasksRight /\ EventsRight
    /\ AttributedRight

(***************************************************************************)
(* The ids of a map are numbers, and what they name are labels.            *)
(***************************************************************************)
LEMMA NamingType ==
    ASSUME NEW map \in Naming
    PROVE  DOMAIN map \subseteq Nat /\ \A i \in DOMAIN map : map[i] \in Label
BY DEF Naming

\* A name more.
LEMMA NewName ==
    ASSUME NEW map \in Naming, NEW id \in Nat, NEW l \in Label
    PROVE  /\ insert(map, id, l) \in Naming
           /\ DOMAIN insert(map, id, l) = DOMAIN map \cup {id}
           /\ insert(map, id, l)[id] = l
           /\ \A i \in DOMAIN map \ {id} : insert(map, id, l)[i] = map[i]
<1>1. insert(map, id, l) \in [DOMAIN map \cup {id} -> Label]
  BY NamingType DEF insert
<1>2. DOMAIN map \cup {id} \in SUBSET Nat
  BY NamingType
<1> QED
  BY <1>1, <1>2 DEF insert, Naming

\* A name less.
LEMMA NameGone ==
    ASSUME NEW map \in Naming, NEW id
    PROVE  [i \in DOMAIN map \ {id} |-> map[i]] \in Naming
<1>1. [i \in DOMAIN map \ {id} |-> map[i]] \in [DOMAIN map \ {id} -> Label]
  BY NamingType
<1>2. DOMAIN map \ {id} \in SUBSET Nat
  BY NamingType
<1> QED
  BY <1>1, <1>2 DEF Naming

\* No names at all.
LEMMA NoName == <<>> \in Naming /\ DOMAIN <<>> = {}
<1>1. <<>> \in [{} -> Label]
  OBVIOUS
<1> QED
  BY <1>1 DEF Naming

\* Environments are numbers, and so is a lifetime of any task.
LEMMA Bounds ==
    /\ MaxTaskId \in Nat /\ MaxEvents \in Nat /\ Lifetime \in Nat /\ Finality \in Nat \ {0}
    /\ env \in [blocks : Nat, restarts : Nat] => Forever \in Nat
    /\ Unseen = -1
BY SyncerClientAssumption DEF Forever, Unseen

(***************************************************************************)
(* The confirmations of a transaction are a number, or Unseen while it is  *)
(* in no block.                                                            *)
(***************************************************************************)
LEMMA ConfirmationsType ==
    ASSUME ChainOK, NEW l \in Label
    PROVE  /\ confirmations(l) \in Nat \cup {Unseen}
           /\ confirmations(l) # Unseen <=> mined[l] # 0
           /\ Depths[l] = confirmations(l)
BY DEF ChainOK, confirmations, Unseen, Depths

(***************************************************************************)
(* Blocks are mined one at a time and not undone.                          *)
(***************************************************************************)
LEMMA ChainMoves ==
    ASSUME ChainOK, [Next]_vars
    PROVE  /\ ChainOK'
           /\ \A l \in Label : Depths[l] <= Depths'[l]
<1>1. CASE Block
  BY <1>1 DEF Block, ChainOK, confirmations, Unseen, Depths
<1>2. CASE restore
  BY <1>2 DEF restore, ChainOK, confirmations, Unseen, Depths
<1>3. CASE UNCHANGED <<height, mined, env>>
  BY <1>3 DEF ChainOK, confirmations, Unseen, Depths
<1> QED
  BY <1>1, <1>2, <1>3
     DEF Next, vars, watch_tx_btc, retrieve_tx_btc, handle_sync, checkpoint_state,
         serve, change_transaction, drop_lifetimes

-------------------------------------------------------------------------------
(***************************************************************************)
(* Within one life of swapd an id once given names what it did, or, when   *)
(* that was fetched, nothing.                                              *)
(***************************************************************************)
NamesKept ==
    /\ client'.restored = client.restored /\ client.counter <= client'.counter
    /\ \A i \in DOMAIN client.watched_txs :
          i \in DOMAIN client'.watched_txs /\ client'.watched_txs[i] = client.watched_txs[i]
    /\ \A i \in DOMAIN client'.retrieving_txs : i <= client.counter =>
          /\ i \in DOMAIN client.retrieving_txs
          /\ client'.retrieving_txs[i] = client.retrieving_txs[i]

\* All that is noted, is noted from e.
NotedFrom(e) ==
    /\ \A l \in Label :
          \/ client'.confirmations[l] = client.confirmations[l]
          \/ /\ e.kind = "TransactionConfirmations" /\ e.id \in DOMAIN client.watched_txs
             /\ l = client.watched_txs[e.id] /\ client'.confirmations[l] = e.value
    /\ \A l \in client'.final_txs :
          \/ l \in client.final_txs
          \/ /\ e.kind = "TransactionConfirmations" /\ e.id \in DOMAIN client.watched_txs
             /\ l = client.watched_txs[e.id] /\ e.value >= Finality
    /\ \A l \in client'.retrieved :
          \/ l \in client.retrieved
          \/ /\ e.kind = "TransactionRetrieved" /\ e.id \in DOMAIN client.retrieving_txs
             /\ l = client.retrieving_txs[e.id] /\ e.value # Unseen

NothingNoted == /\ client'.confirmations = client.confirmations
                /\ client'.final_txs = client.final_txs
                /\ client'.retrieved = client.retrieved

(***************************************************************************)
(* Types, one lemma per group of steps.                                    *)
(***************************************************************************)
LEMMA InitTyped == Init => ClientOK /\ QueuesOK /\ ChainOK
<1> SUFFICES ASSUME Init PROVE ClientOK /\ QueuesOK /\ ChainOK
  OBVIOUS
<1>1. ClientOK
  BY NoName DEF Init, NewClient, ClientOK, Client, Unseen
<1>2. ChainOK
  BY SyncerClientAssumption DEF Init, ChainOK
<1>3. watch_height \in Request
  BY <1>2, Bounds DEF Request, Watch, watch_height, ChainOK
<1> QED
  BY <1>1, <1>2, <1>3 DEF Init, QueuesOK

\* The tasks of the client.
LEMMA ClientTypes ==
    ASSUME ClientOK, QueuesOK, ChainOK, NEW l \in Label,
           watch_tx_btc(l) \/ retrieve_tx_btc(l)
    PROVE  ClientOK' /\ QueuesOK' /\ NamesKept /\ NothingNoted
<1> DEFINE id == new_taskid(client)
<1>1. client.counter \in Nat /\ id \in Nat /\ id = client.counter + 1
  BY DEF ClientOK, Client, new_taskid
<1>2. id \in Nat
  BY <1>1
<1>3. client.watched_txs \in Naming /\ client.retrieving_txs \in Naming
  BY DEF ClientOK, Client
<1>4. /\ \A i \in DOMAIN client.watched_txs : i \in Nat /\ i <= client.counter
      /\ \A i \in DOMAIN client.retrieving_txs : i \in Nat /\ i <= client.counter
  BY <1>3, NamingType DEF ClientOK
<1> HIDE DEF id
<1>5. CASE watch_tx_btc(l)
  <2>1. WatchTransaction(client, l) \in Request
    BY <1>1, Bounds DEF id, WatchTransaction, task_lifetime, Request, Watch, ClientOK, Client, ChainOK
  <2>2. QueuesOK'
    BY <1>5, <2>1 DEF watch_tx_btc, QueuesOK
  <2> DEFINE names == insert(client.watched_txs, id, l)
  <2>3. names \in Naming /\ DOMAIN names = DOMAIN client.watched_txs \cup {id}
    BY <1>2, <1>3, NewName, Zenon
  <2>9. \A i \in DOMAIN client.watched_txs \ {id} : names[i] = client.watched_txs[i]
    BY <1>2, <1>3, NewName, Zenon
  <2>4. client' = [client EXCEPT !.counter = id, !.txids = @ \cup {l}, !.watched_txs = names]
    BY <1>5, Zenon DEF watch_tx_btc, watching, id
  <2> HIDE DEF names
  <2>5. client \in Client /\ client.txids \cup {l} \in SUBSET Label
    BY DEF ClientOK, Client
  <2>6. /\ client' \in Client /\ client'.counter = id
        /\ client'.watched_txs = names /\ client'.retrieving_txs = client.retrieving_txs
        /\ client'.restored = client.restored /\ NothingNoted
    BY <1>1, <2>3, <2>4, <2>5, Zenon DEF Client, NothingNoted
  <2>7. stored' = stored
    BY <1>5 DEF watch_tx_btc
  <2>8. ClientOK'
    BY <1>1, <1>4, <2>3, <2>6, <2>7 DEF ClientOK
  <2>10. NamesKept
    BY <1>1, <1>4, <2>3, <2>6, <2>9 DEF NamesKept
  <2> QED
    BY <2>2, <2>6, <2>8, <2>10
<1>6. CASE retrieve_tx_btc(l)
  <2>1. GetTx(new_taskid(client), l) \in Request
    BY <1>1 DEF GetTx, Request, id
  <2>2. QueuesOK'
    BY <1>6, <2>1 DEF retrieve_tx_btc, QueuesOK
  <2> DEFINE names == insert(client.retrieving_txs, id, l)
  <2>3. names \in Naming /\ DOMAIN names = DOMAIN client.retrieving_txs \cup {id}
    BY <1>2, <1>3, NewName, Zenon
  <2>9. \A i \in DOMAIN client.retrieving_txs \ {id} : names[i] = client.retrieving_txs[i]
    BY <1>2, <1>3, NewName, Zenon
  <2>4. client' = [client EXCEPT !.counter = id, !.txids = @ \ {l}, !.retrieving_txs = names]
    BY <1>6, Zenon DEF retrieve_tx_btc, id
  <2> HIDE DEF names
  <2>5. client \in Client /\ client.txids \ {l} \in SUBSET Label
    BY DEF ClientOK, Client
  <2>6. /\ client' \in Client /\ client'.counter = id
        /\ client'.watched_txs = client.watched_txs /\ client'.retrieving_txs = names
        /\ client'.restored = client.restored /\ NothingNoted
    BY <1>1, <2>3, <2>4, <2>5, Zenon DEF Client, NothingNoted
  <2>7. stored' = stored
    BY <1>6 DEF retrieve_tx_btc
  <2>8. ClientOK'
    BY <1>1, <1>4, <2>3, <2>6, <2>7 DEF ClientOK
  <2>10. NamesKept
    BY <1>1, <1>4, <2>3, <2>6, <2>9 DEF NamesKept
  <2> QED
    BY <2>2, <2>6, <2>8, <2>10
<1> QED
  BY <1>5, <1>6

\* The events.
LEMMA EventTypes ==
    ASSUME ClientOK, QueuesOK, handle_sync
    PROVE  ClientOK' /\ QueuesOK' /\ NamesKept /\ NotedFrom(Head(events))
<1> DEFINE e == Head(events)
<1> SUFFICES ClientOK' /\ QueuesOK' /\ NamesKept /\ NotedFrom(e)
  OBVIOUS
<1>1. e \in Told /\ events' \in Seq(Told)
  BY HeadTailProperties DEF QueuesOK, handle_sync
<1>2. e.value \in Int /\ e.value \in Nat \cup {Unseen}
  BY <1>1 DEF Told, Unseen
<1>3. client \in Client /\ stored' = stored /\ tasks' = tasks
  BY DEF ClientOK, handle_sync
<1>4. /\ client.counter \in Nat
      /\ client.watched_txs \in Naming /\ client.retrieving_txs \in Naming
  BY <1>3 DEF Client
<1>5. ASSUME client' \in Client, requests' = requests, client'.counter = client.counter,
             client'.restored = client.restored, client'.watched_txs = client.watched_txs,
             client'.retrieving_txs = client.retrieving_txs
      PROVE  ClientOK' /\ QueuesOK' /\ NamesKept
  BY <1>1, <1>3, <1>4, <1>5 DEF ClientOK, QueuesOK, NamesKept
<1>6. (client' = client) => NamesKept /\ NotedFrom(e)
  BY <1>4 DEF NamesKept, NotedFrom
<1> HIDE DEF e
<1>7. CASE handle_height_change(e)
  <2> DEFINE h == IF e.value > client.bitcoin_height THEN e.value ELSE client.bitcoin_height
  <2>1. h \in Nat
    BY <1>2, <1>3 DEF Client, Unseen
  <2>2. client' = [client EXCEPT !.bitcoin_height = h] /\ requests' = requests
    BY <1>7, Zenon DEF handle_height_change
  <2> HIDE DEF h
  <2>3. /\ client' \in Client /\ client'.counter = client.counter
        /\ client'.restored = client.restored /\ client'.watched_txs = client.watched_txs
        /\ client'.retrieving_txs = client.retrieving_txs
        /\ NothingNoted
    BY <1>3, <2>1, <2>2, Zenon DEF Client, NothingNoted
  <2>4. NotedFrom(e)
    BY <2>3 DEF NothingNoted, NotedFrom
  <2> QED
    BY <1>5, <2>2, <2>3, <2>4
<1>8. CASE handle_tx_confs(e)
  <2>1. CASE e.id \notin DOMAIN client.watched_txs
    BY <1>3, <1>5, <1>6, <1>8, <2>1 DEF handle_tx_confs
  <2>2. CASE e.id \in DOMAIN client.watched_txs
    <3> DEFINE l == client.watched_txs[e.id]
               c == [client.confirmations EXCEPT ![l] = e.value]
               f == IF e.value >= Finality THEN client.final_txs \cup {l} ELSE client.final_txs
    <3>1. l \in Label
      BY <1>4, <2>2, NamingType
    <3>2. /\ c \in [Label -> Int] /\ f \in SUBSET Label
          /\ \A k \in Label : c[k] = IF k = l THEN e.value ELSE client.confirmations[k]
      BY <1>2, <1>3, <3>1 DEF Client
    <3>3. client' = [client EXCEPT !.confirmations = c, !.final_txs = f] /\ requests' = requests
      BY <1>8, <2>2, Zenon DEF handle_tx_confs
    <3> HIDE DEF c
    <3>4. \A k \in f : k \in client.final_txs \/ (k = l /\ e.value >= Finality)
      OBVIOUS
    <3> HIDE DEF f
    <3>5. /\ client' \in Client /\ client'.counter = client.counter
          /\ client'.restored = client.restored /\ client'.watched_txs = client.watched_txs
          /\ client'.retrieving_txs = client.retrieving_txs
          /\ client'.confirmations = c /\ client'.final_txs = f
          /\ client'.retrieved = client.retrieved
      BY <1>3, <3>2, <3>3, Zenon DEF Client
    <3>6. NotedFrom(e)
      BY <1>8, <2>2, <3>2, <3>4, <3>5 DEF NotedFrom, handle_tx_confs
    <3> QED
      BY <1>5, <3>3, <3>5, <3>6
  <2> QED
    BY <2>1, <2>2
<1>9. CASE transaction_retrieved(e)
  <2> DEFINE r == client.retrieved \cup {client.retrieving_txs[e.id]}
             g == [i \in DOMAIN client.retrieving_txs \ {e.id} |-> client.retrieving_txs[i]]
  <2>1. r \in SUBSET Label
    BY <1>3, <1>4, <1>9, NamingType DEF Client, transaction_retrieved
  <2>2. g \in Naming
    BY <1>4, NameGone, Zenon
  <2>3. \A i \in DOMAIN g : i \in DOMAIN client.retrieving_txs /\ g[i] = client.retrieving_txs[i]
    OBVIOUS
  <2>4. \A k \in r : k \in client.retrieved \/ k = client.retrieving_txs[e.id]
    OBVIOUS
  <2>5. client' = [client EXCEPT !.retrieved = r, !.retrieving_txs = g] /\ requests' = requests
    BY <1>9, Zenon DEF transaction_retrieved
  <2> HIDE DEF r, g
  <2>6. /\ client' \in Client /\ client'.counter = client.counter
        /\ client'.restored = client.restored /\ client'.watched_txs = client.watched_txs
        /\ client'.retrieving_txs = g
        /\ client'.confirmations = client.confirmations
        /\ client'.final_txs = client.final_txs /\ client'.retrieved = r
    BY <1>3, <2>1, <2>2, <2>5, Zenon DEF Client
  <2>7. ClientOK' /\ QueuesOK'
    BY <1>1, <1>3, <2>3, <2>5, <2>6 DEF ClientOK, QueuesOK
  <2>8. NamesKept
    BY <1>4, <2>3, <2>6 DEF NamesKept
  <2>9. NotedFrom(e)
    BY <1>9, <2>4, <2>6 DEF NotedFrom, transaction_retrieved
  <2> QED
    BY <2>7, <2>8, <2>9
<1>10. CASE not_retrieved(e)
  <2>1. e.id \in Nat /\ client.retrieving_txs[e.id] \in Label
    BY <1>4, <1>10, NamingType DEF not_retrieved
  <2>2. GetTx(e.id, client.retrieving_txs[e.id]) \in Request
    BY <2>1 DEF GetTx, Request
  <2>3. ClientOK' /\ QueuesOK'
    BY <1>1, <1>3, <1>10, <2>2 DEF not_retrieved, QueuesOK, ClientOK
  <2> QED
    BY <1>6, <1>10, <2>3 DEF not_retrieved
<1>11. CASE retrieved_before(e)
  BY <1>3, <1>5, <1>6, <1>11 DEF retrieved_before
<1> QED
  BY <1>7, <1>8, <1>9, <1>10, <1>11 DEF handle_sync, e

\* The restart.
LEMMA RestoreTypes ==
    ASSUME ClientOK, QueuesOK, ChainOK, restore
    PROVE  ClientOK' /\ QueuesOK' /\ client'.restored
<1>1. PICK q \in Orders(stored) :
        /\ client' = restored(q)
        /\ requests' = requests \o <<watch_height>> \o
              [i \in 1..Len(q) |-> [kind |-> "WatchTransaction", id |-> 1 + i,
                                    label |-> q[i], lifetime |-> Forever]]
  BY DEF restore
<1>2. stored \subseteq Label /\ Range(q) = stored /\ q \in [1..Cardinality(stored) -> stored]
  BY DEF Orders, ClientOK
<1>3. Cardinality(stored) \in Nat
  BY <1>2, FS_Subset, FS_CardinalityType, SyncerClientAssumption
<1>4. q \in Seq(Label) /\ Len(q) \in Nat /\ \A i \in 1..Len(q) : q[i] \in Label
  BY <1>2, <1>3
<1>5. Forever \in Nat /\ env' \in [blocks : Nat, restarts : Int]
  BY Bounds DEF ChainOK, restore
<1> DEFINE w == [i \in 1..Len(q) |-> [kind |-> "WatchTransaction", id |-> 1 + i,
                                      label |-> q[i], lifetime |-> Forever]]
           names == [i \in 2..(1 + Len(q)) |-> q[i - 1]]
<1>6. w \in Seq(Request)
  <2>1. \A i \in 1..Len(q) : w[i] \in Request
    BY <1>4, <1>5 DEF Request, Watch
  <2> QED
    BY <1>4, <2>1
<1>7. <<watch_height>> \in Seq(Request)
  BY <1>5 DEF Request, Watch, watch_height
<1>8. QueuesOK'
  BY <1>1, <1>6, <1>7, ConcatProperties, EmptySeq DEF restore, QueuesOK
<1>9. names \in Naming /\ DOMAIN names = 2..(1 + Len(q))
  <2>1. names \in [2..(1 + Len(q)) -> Label]
    BY <1>4
  <2>2. 2..(1 + Len(q)) \in SUBSET Nat
    BY <1>4
  <2> QED
    BY <2>1, <2>2 DEF Naming
<1> HIDE DEF names, w
<1>10. NewClient \in Client /\ NewClient.retrieving_txs = <<>>
  BY NoName DEF NewClient, Client, Unseen
<1>11. client' = [NewClient EXCEPT !.counter = 1 + Len(q), !.restored = TRUE,
                                   !.txids = stored, !.watched_txs = names]
  BY <1>1, <1>2, Zenon DEF restored, names
<1>12. 1 + Len(q) \in Nat /\ stored \in SUBSET Label
  BY <1>2, <1>4
<1>13. /\ client' \in Client /\ client'.counter = 1 + Len(q) /\ client'.restored = TRUE
       /\ client'.watched_txs = names /\ client'.retrieving_txs = NewClient.retrieving_txs
  BY <1>9, <1>10, <1>11, <1>12, Zenon DEF Client
<1>14. DOMAIN client'.retrieving_txs = {}
  BY <1>10, <1>13, NoName
<1> QED
  BY <1>4, <1>8, <1>9, <1>12, <1>13, <1>14 DEF restore, ClientOK

\* The syncer.
LEMMA SyncerTypes ==
    ASSUME ClientOK, QueuesOK, ChainOK, serve \/ change_transaction \/ drop_lifetimes
    PROVE  ClientOK' /\ QueuesOK'
<1>1. ClientOK'
  BY DEF serve, change_transaction, drop_lifetimes, ClientOK
<1>2. CASE serve
  <2> DEFINE r == Head(requests)
  <2>1. r \in Request /\ requests' \in Seq(Request)
    BY <1>2, HeadTailProperties DEF QueuesOK, serve
  <2>2. CASE r.kind = "GetTx"
    <3>1. r.id \in Nat /\ r.label \in Label
      BY <2>1, <2>2 DEF Request, Watch
    <3>2. Event("TransactionRetrieved", r.id, confirmations(r.label)) \in Told
      BY <3>1, ConfirmationsType DEF Told, Event
    <3>3. /\ events' = Append(events,
                Event("TransactionRetrieved", r.id, confirmations(r.label)))
          /\ tasks' = tasks
      BY <1>2, <2>2 DEF serve
    <3> QED
      BY <1>1, <2>1, <3>2, <3>3 DEF QueuesOK
  <2>3. CASE r.kind = "WatchHeight"
    <3>1. r \in Watch /\ r.id \in Nat
      BY <2>1, <2>3 DEF Request, Watch
    <3>2. Event("HeightChanged", r.id, height) \in Told
      BY <3>1 DEF Told, Event, ChainOK
    <3>3. WatchTask(r, height) \in [task : Watch, last : Int]
      BY <3>1 DEF WatchTask, ChainOK
    <3>4. /\ events' = Append(events, Event("HeightChanged", r.id, height))
          /\ tasks' = tasks \cup {WatchTask(r, height)}
      BY <1>2, <2>3 DEF serve
    <3> QED
      BY <1>1, <2>1, <3>2, <3>3, <3>4 DEF QueuesOK
  <2>4. CASE r.kind = "WatchTransaction"
    <3>1. r \in Watch
      BY <2>1, <2>4 DEF Request
    <3>2. WatchTask(r, Unseen) \in [task : Watch, last : Int]
      BY <3>1 DEF WatchTask, Unseen
    <3>3. tasks' \subseteq tasks \cup {WatchTask(r, Unseen)} /\ events' = events
      BY <1>2, <2>4 DEF serve
    <3> QED
      BY <1>1, <2>1, <3>2, <3>3 DEF QueuesOK
  <2> QED
    BY <2>1, <2>2, <2>3, <2>4 DEF Request, Watch
<1>3. CASE change_transaction
  <2>1. PICK t \in tasks :
          /\ tasks' = (tasks \ {t}) \cup {WatchTask(t.task, seen(t))}
          /\ events' = Append(events,
                Event(IF t.task.kind = "WatchHeight" THEN "HeightChanged"
                      ELSE "TransactionConfirmations", t.task.id, seen(t)))
    BY <1>3 DEF change_transaction
  <2>2. t.task \in Watch
    BY DEF QueuesOK
  <2>3. seen(t) \in Nat \cup {Unseen} /\ t.task.id \in Nat
    <3>1. CASE t.task.kind = "WatchHeight"
      BY <2>2, <3>1 DEF seen, Watch, ChainOK
    <3>2. CASE t.task.kind # "WatchHeight"
      <4>1. t.task.label \in Label /\ t.task.id \in Nat
        BY <2>2, <3>2 DEF Watch
      <4> QED
        BY <3>2, <4>1, ConfirmationsType DEF seen
    <3> QED
      BY <3>1, <3>2
  <2>4. WatchTask(t.task, seen(t)) \in [task : Watch, last : Int]
    BY <2>2, <2>3 DEF WatchTask, Unseen
  <2>5. Event(IF t.task.kind = "WatchHeight" THEN "HeightChanged"
              ELSE "TransactionConfirmations", t.task.id, seen(t)) \in Told
    BY <2>3 DEF Event, Told
  <2>6. requests' = requests
    BY <1>3 DEF change_transaction
  <2> QED
    BY <1>1, <2>1, <2>4, <2>5, <2>6 DEF QueuesOK
<1>4. CASE drop_lifetimes
  BY <1>1, <1>4 DEF drop_lifetimes, QueuesOK
<1> QED
  BY <1>1, <1>2, <1>3, <1>4

(***************************************************************************)
(* A step keeps the types, and, as long as swapd is not restored, what the *)
(* ids name.  Only an event makes swapd note anything.                     *)
(***************************************************************************)
LEMMA StepTypes ==
    ASSUME ClientOK, QueuesOK, ChainOK, [Next]_vars
    PROVE  /\ ClientOK' /\ QueuesOK' /\ ChainOK'
           /\ ~client'.restored => NamesKept
           /\ ~client'.restored => NothingNoted \/ (handle_sync /\ NotedFrom(Head(events)))
<1>1. CASE \E l \in Label : watch_tx_btc(l) \/ retrieve_tx_btc(l)
  BY <1>1, ChainMoves, ClientTypes
<1>2. CASE handle_sync
  BY <1>2, ChainMoves, EventTypes
<1>3. CASE restore
  BY <1>3, ChainMoves, RestoreTypes
<1>4. CASE client' = client
  <2>1. NamesKept /\ NothingNoted
    BY <1>4, NamingType DEF NamesKept, NothingNoted, ClientOK, Client
  <2>2. CASE serve \/ change_transaction \/ drop_lifetimes
    BY <2>1, <2>2, ChainMoves, SyncerTypes
  <2>3. CASE checkpoint_state
    BY <2>1, <2>3, ChainMoves DEF checkpoint_state, ClientOK, Client, QueuesOK
  <2>4. CASE Block \/ UNCHANGED vars
    BY <2>1, <2>4, ChainMoves DEF Block, vars, ClientOK, QueuesOK
  <2>5. CASE \E l \in Label : watch_tx_btc(l) \/ retrieve_tx_btc(l)
    BY <1>1, <2>5
  <2> QED
    BY <1>2, <1>3, <2>2, <2>3, <2>4, <2>5 DEF Next
<1>5. CASE client' # client
  BY <1>1, <1>2, <1>3, <1>5
     DEF Next, vars, checkpoint_state, serve, change_transaction, drop_lifetimes, Block
<1> QED
  BY <1>4, <1>5

-------------------------------------------------------------------------------
(***************************************************************************)
(* What is named right and told right stays so, while swapd is not         *)
(* restored: ids keep their names and blocks are not undone.               *)
(***************************************************************************)
LEMMA StillRight ==
    ASSUME ClientOK, ClientOK', ChainOK, ChainOK', NamesKept,
           \A l \in Label : Depths[l] <= Depths'[l]
    PROVE  /\ \A r \in Request : NamedRight(client, r) => NamedRight(client', r)
           /\ \A e \in Told : ToldRight(client, Depths, e) => ToldRight(client', Depths', e)
<1>1. /\ client.counter \in Nat /\ client'.counter \in Nat
      /\ client.watched_txs \in Naming /\ client.retrieving_txs \in Naming
  BY DEF ClientOK, Client
<1>2. ASSUME NEW r \in Request, NamedRight(client, r)
      PROVE  NamedRight(client', r)
  <2>1. r.id \in Nat
    BY DEF Request, Watch
  <2> QED
    BY <1>1, <1>2, <2>1 DEF NamedRight, NamesKept
<1>3. ASSUME NEW e \in Told, ToldRight(client, Depths, e)
      PROVE  ToldRight(client', Depths', e)
  <2>1. e.id \in Nat /\ e.value \in Int
    BY DEF Told, Unseen
  <2>2. \A l \in Label : Depths[l] \in Int /\ Depths'[l] \in Int
    BY DEF Depths, confirmations, ChainOK, Unseen
  <2>3. CASE e.kind = "TransactionConfirmations"
    <3>1. /\ e.id \in DOMAIN client.watched_txs
          /\ client.watched_txs[e.id] \in Label
          /\ e.value <= Depths[client.watched_txs[e.id]]
      BY <1>1, <1>3, <2>3, NamingType DEF ToldRight
    <3>2. /\ e.id \in DOMAIN client'.watched_txs
          /\ client'.watched_txs[e.id] = client.watched_txs[e.id]
      BY <3>1 DEF NamesKept
    <3>3. e.value <= Depths'[client.watched_txs[e.id]]
      BY <2>1, <2>2, <3>1
    <3> QED
      BY <2>3, <3>2, <3>3 DEF ToldRight
  <2>4. CASE e.kind = "TransactionRetrieved"
    <3>1. e.id <= client.counter /\ e.id <= client'.counter
      BY <1>1, <1>3, <2>1, <2>4 DEF ToldRight, NamesKept
    <3>2. ASSUME e.id \in DOMAIN client'.retrieving_txs
          PROVE  e.value <= Depths'[client'.retrieving_txs[e.id]]
      <4>1. /\ client'.retrieving_txs[e.id] = client.retrieving_txs[e.id]
            /\ client.retrieving_txs[e.id] \in Label
            /\ e.value <= Depths[client.retrieving_txs[e.id]]
        BY <1>1, <1>3, <2>4, <3>1, <3>2, NamingType DEF NamesKept, ToldRight
      <4>2. e.value <= Depths'[client.retrieving_txs[e.id]]
        BY <2>1, <2>2, <4>1
      <4> QED
        BY <4>1, <4>2
    <3> QED
      BY <2>4, <3>1, <3>2 DEF ToldRight
  <2> QED
    BY <2>3, <2>4 DEF ToldRight
<1> QED
  BY <1>2, <1>3

\* What a queue holds after one more came to its end.
LEMMA OneMore ==
    ASSUME NEW S, NEW q \in Seq(S), NEW e \in S,
           NEW i \in DOMAIN Append(q, e)
    PROVE  (i \in DOMAIN q /\ Append(q, e)[i] = q[i]) \/ Append(q, e)[i] = e
BY AppendProperties

\* What it holds when the first was taken (serve and handle_sync).
LEMMA OneLess ==
    ASSUME NEW S, NEW q \in Seq(S), q # <<>>
    PROVE  /\ 1 \in DOMAIN q /\ Head(q) = q[1]
           /\ \A i \in DOMAIN Tail(q) : i + 1 \in DOMAIN q /\ Tail(q)[i] = q[i + 1]
BY HeadTailProperties

(***************************************************************************)
(* Every task that goes out is named right (watch_tx_btc, retrieve_tx_btc  *)
(* and the GetTx that is asked for again).                                 *)
(***************************************************************************)
LEMMA RequestsStay ==
    ASSUME ClientInv, [Next]_vars, ~client'.restored
    PROVE  RequestsRight'
<1>1. /\ ClientOK /\ QueuesOK /\ ChainOK /\ ClientOK' /\ QueuesOK' /\ ChainOK'
      /\ NamesKept
      /\ \A r \in Request : NamedRight(client, r) => NamedRight(client', r)
  BY StepTypes, ChainMoves, StillRight DEF ClientInv
<1>2. requests \in Seq(Request) /\ \A i \in DOMAIN requests : NamedRight(client, requests[i])
  BY <1>1 DEF ClientInv, RequestsRight, NamesKept, QueuesOK
<1>3. \A i \in DOMAIN requests : NamedRight(client', requests[i])
  <2>1. \A i \in DOMAIN requests : requests[i] \in Request
    BY <1>2
  <2> QED
    BY <1>1, <1>2, <2>1
<1>4. ASSUME NEW r \in Request, NamedRight(client', r), requests' = Append(requests, r)
      PROVE  RequestsRight'
  BY <1>2, <1>3, <1>4, OneMore DEF RequestsRight
<1>5. ASSUME requests' = requests
      PROVE  RequestsRight'
  BY <1>3, <1>5 DEF RequestsRight
<1>6. ASSUME requests # <<>>, requests' = Tail(requests)
      PROVE  RequestsRight'
  BY <1>2, <1>3, <1>6, OneLess DEF RequestsRight
<1>7. client.counter \in Nat /\ client.watched_txs \in Naming /\ client.retrieving_txs \in Naming
  BY <1>1 DEF ClientOK, Client
<1>8. ASSUME NEW l \in Label, watch_tx_btc(l)
      PROVE  RequestsRight'
  <2> DEFINE id == new_taskid(client)
             names == insert(client.watched_txs, id, l)
  <2>1. id \in Nat
    BY <1>7 DEF new_taskid
  <2>2. id \in DOMAIN names /\ names[id] = l
    BY <1>7, <2>1 DEF insert
  <2>3. client' = [client EXCEPT !.counter = id, !.txids = @ \cup {l}, !.watched_txs = names]
    BY <1>8, Zenon DEF watch_tx_btc, watching
  <2>4. client \in Client
    BY <1>1 DEF ClientOK
  <2>5. WatchTransaction(client, l) \in Request
    BY <1>1, <2>1, Bounds DEF WatchTransaction, task_lifetime, Request, Watch, ClientOK,
          Client, ChainOK
  <2>6. WatchTransaction(client, l).id = id /\ WatchTransaction(client, l).label = l
        /\ WatchTransaction(client, l).kind = "WatchTransaction"
    BY DEF WatchTransaction
  <2> HIDE DEF id, names
  <2>7. client'.watched_txs = names
    BY <2>3, <2>4, Zenon DEF Client
  <2>8. NamedRight(client', WatchTransaction(client, l))
    BY <2>2, <2>6, <2>7 DEF NamedRight
  <2> QED
    BY <1>4, <1>8, <2>5, <2>8 DEF watch_tx_btc
<1>9. ASSUME NEW l \in Label, retrieve_tx_btc(l)
      PROVE  RequestsRight'
  <2> DEFINE id == new_taskid(client)
             names == insert(client.retrieving_txs, id, l)
  <2>1. id \in Nat
    BY <1>7 DEF new_taskid
  <2>2. names[id] = l
    BY <1>7, <2>1 DEF insert
  <2>3. client' = [client EXCEPT !.counter = id, !.txids = @ \ {l}, !.retrieving_txs = names]
    BY <1>9, Zenon DEF retrieve_tx_btc
  <2>4. client \in Client
    BY <1>1 DEF ClientOK
  <2>5. GetTx(id, l) \in Request
    BY <2>1 DEF GetTx, Request
  <2>6. GetTx(id, l).id = id /\ GetTx(id, l).label = l /\ GetTx(id, l).kind = "GetTx"
    BY DEF GetTx
  <2>7. requests' = Append(requests, GetTx(id, l))
    BY <1>9 DEF retrieve_tx_btc
  <2> HIDE DEF id, names
  <2>8. client'.retrieving_txs = names /\ client'.counter = id
    BY <2>3, <2>4, Zenon DEF Client
  <2>9. NamedRight(client', GetTx(id, l))
    BY <2>1, <2>2, <2>6, <2>8 DEF NamedRight
  <2> QED
    BY <1>4, <2>5, <2>7, <2>9
<1>10. CASE handle_sync
  <2> DEFINE e == Head(events)
             r == GetTx(e.id, client.retrieving_txs[e.id])
  <2>1. CASE not_retrieved(e)
    <3>1. /\ e.id \in DOMAIN client.retrieving_txs
          /\ client' = client /\ requests' = Append(requests, r)
      BY <2>1 DEF not_retrieved
    <3>2. e.id \in Nat /\ client.retrieving_txs[e.id] \in Label /\ e.id <= client.counter
      BY <1>1, <1>7, <3>1, NamingType DEF ClientOK
    <3>3. r \in Request /\ NamedRight(client', r)
      BY <3>1, <3>2 DEF NamedRight, GetTx, Request
    <3> QED
      BY <1>4, <3>1, <3>3
  <2>2. CASE UNCHANGED requests
    BY <1>5, <2>2
  <2> QED
    BY <1>10, <2>1, <2>2
       DEF handle_sync, handle_height_change, handle_tx_confs, transaction_retrieved,
           retrieved_before
<1>11. CASE restore
  BY <1>1, <1>11, RestoreTypes
<1>12. CASE serve
  BY <1>6, <1>12 DEF serve
<1>13. CASE UNCHANGED requests
  BY <1>5, <1>13
<1> QED
  BY <1>8, <1>9, <1>10, <1>11, <1>12, <1>13
     DEF Next, vars, checkpoint_state, change_transaction, drop_lifetimes, Block

(***************************************************************************)
(* The syncer takes the tasks as they are (serve), looks at them under the *)
(* same ids (change_transaction) and makes up none.                        *)
(***************************************************************************)
LEMMA TasksStay ==
    ASSUME ClientInv, [Next]_vars, ~client'.restored
    PROVE  TasksRight'
<1>1. /\ ClientOK /\ QueuesOK /\ ChainOK /\ ClientOK' /\ QueuesOK' /\ ChainOK'
      /\ NamesKept
      /\ \A r \in Request : NamedRight(client, r) => NamedRight(client', r)
  BY StepTypes, ChainMoves, StillRight DEF ClientInv
<1>2. /\ \A t \in tasks : t.task \in Request /\ NamedRight(client, t.task)
      /\ \A i \in DOMAIN requests : NamedRight(client, requests[i])
  BY <1>1 DEF ClientInv, TasksRight, RequestsRight, NamesKept, QueuesOK, Request
<1>3. \A t \in tasks : NamedRight(client', t.task)
  BY <1>1, <1>2
<1>4. ASSUME tasks' \subseteq tasks
      PROVE  TasksRight'
  BY <1>3, <1>4 DEF TasksRight
<1>5. CASE serve
  <2> DEFINE r == Head(requests)
  <2>1. r \in Request /\ NamedRight(client, r)
    BY <1>1, <1>2, <1>5, OneLess, HeadTailProperties DEF serve, QueuesOK
  <2>2. NamedRight(client', r)
    BY <1>1, <2>1
  <2>3. r.kind \in {"GetTx", "WatchHeight", "WatchTransaction"}
    BY <2>1 DEF Request, Watch
  <2>4. tasks' \subseteq tasks \cup {WatchTask(r, height), WatchTask(r, Unseen)}
    <3>1. CASE r.kind = "GetTx"
      BY <1>5, <3>1 DEF serve
    <3>2. CASE r.kind = "WatchHeight"
      BY <1>5, <3>2 DEF serve
    <3>3. CASE r.kind = "WatchTransaction"
      BY <1>5, <3>3 DEF serve
    <3> QED
      BY <2>3, <3>1, <3>2, <3>3
  <2>5. \A t \in tasks' : t \in tasks \/ t.task = r
    BY <2>4 DEF WatchTask
  <2> QED
    BY <1>3, <2>2, <2>5 DEF TasksRight
<1>6. CASE change_transaction
  <2>1. PICK t \in tasks : tasks' = (tasks \ {t}) \cup {WatchTask(t.task, seen(t))}
    BY <1>6 DEF change_transaction
  <2>2. \A u \in tasks' : u \in tasks \/ u.task = t.task
    BY <2>1 DEF WatchTask
  <2> QED
    BY <1>3, <2>2 DEF TasksRight
<1>7. CASE restore
  BY <1>1, <1>7, RestoreTypes
<1>8. CASE drop_lifetimes
  BY <1>4, <1>8 DEF drop_lifetimes
<1>9. CASE UNCHANGED tasks
  BY <1>4, <1>9
<1> QED
  BY <1>5, <1>6, <1>7, <1>8, <1>9
     DEF Next, vars, checkpoint_state, watch_tx_btc, retrieve_tx_btc, handle_sync, Block

(***************************************************************************)
(* What the syncer tells is true of the transaction its task names (serve  *)
(* and change_transaction).                                                *)
(***************************************************************************)
LEMMA EventsStay ==
    ASSUME ClientInv, [Next]_vars, ~client'.restored
    PROVE  EventsRight'
<1>1. /\ ClientOK /\ QueuesOK /\ ChainOK /\ ClientOK' /\ QueuesOK' /\ ChainOK'
      /\ NamesKept
      /\ \A e \in Told : ToldRight(client, Depths, e) => ToldRight(client', Depths', e)
  BY StepTypes, ChainMoves, StillRight DEF ClientInv
<1>2. /\ events \in Seq(Told) /\ \A i \in DOMAIN events : ToldRight(client, Depths, events[i])
      /\ \A t \in tasks : NamedRight(client, t.task)
      /\ \A i \in DOMAIN requests : NamedRight(client, requests[i])
  BY <1>1 DEF ClientInv, EventsRight, TasksRight, RequestsRight, NamesKept, QueuesOK
<1>3. \A i \in DOMAIN events : ToldRight(client', Depths', events[i])
  <2>1. \A i \in DOMAIN events : events[i] \in Told
    BY <1>2
  <2> QED
    BY <1>1, <1>2, <2>1
<1>4. ASSUME NEW e \in Told, ToldRight(client, Depths, e), events' = Append(events, e)
      PROVE  EventsRight'
  <2>1. ToldRight(client', Depths', e)
    BY <1>1, <1>4
  <2> QED
    BY <1>2, <1>3, <1>4, <2>1, OneMore DEF EventsRight
<1>5. CASE UNCHANGED events
  BY <1>3, <1>5 DEF EventsRight
<1>6. CASE handle_sync
  <2>1. events # <<>> /\ events' = Tail(events)
    BY <1>6 DEF handle_sync
  <2> QED
    BY <1>2, <1>3, <2>1, OneLess DEF EventsRight
<1>7. CASE restore
  BY <1>1, <1>7, RestoreTypes
<1>8. /\ client.counter \in Nat /\ client.watched_txs \in Naming
      /\ client.retrieving_txs \in Naming
  BY <1>1 DEF ClientOK, Client
<1>9. CASE serve
  <2> DEFINE r == Head(requests)
  <2>1. r \in Request /\ NamedRight(client, r)
    BY <1>1, <1>2, <1>9, OneLess, HeadTailProperties DEF serve, QueuesOK
  <2>2. CASE r.kind = "GetTx"
    <3> DEFINE e == Event("TransactionRetrieved", r.id, confirmations(r.label))
    <3>1. r.id \in Nat /\ r.label \in Label
      BY <2>1, <2>2 DEF Request, Watch
    <3>2. e \in Told /\ events' = Append(events, e)
      BY <1>1, <1>9, <2>2, <3>1, ConfirmationsType DEF Told, Event, serve
    <3>3. /\ Depths[r.label] = confirmations(r.label) /\ Depths[r.label] \in Int
      BY <1>1, <3>1, ConfirmationsType DEF Unseen
    <3>4. ToldRight(client, Depths, e)
      BY <2>1, <2>2, <3>1, <3>3 DEF ToldRight, NamedRight, Event
    <3> QED
      BY <1>4, <3>2, <3>4
  <2>3. CASE r.kind = "WatchHeight"
    <3> DEFINE e == Event("HeightChanged", r.id, height)
    <3>1. r.id \in Nat
      BY <2>1, <2>3 DEF Request, Watch
    <3>2. e \in Told /\ events' = Append(events, e) /\ ToldRight(client, Depths, e)
      BY <1>1, <1>9, <2>3, <3>1 DEF Told, Event, serve, ToldRight, ChainOK
    <3> QED
      BY <1>4, <3>2
  <2>4. CASE r.kind = "WatchTransaction"
    BY <1>5, <1>9, <2>4 DEF serve
  <2> QED
    BY <2>1, <2>2, <2>3, <2>4 DEF Request, Watch
<1>10. CASE change_transaction
  <2>1. PICK t \in tasks :
          events' = Append(events,
                Event(IF t.task.kind = "WatchHeight" THEN "HeightChanged"
                      ELSE "TransactionConfirmations", t.task.id, seen(t)))
    BY <1>10 DEF change_transaction
  <2>2. t.task \in Watch /\ NamedRight(client, t.task)
    BY <1>1, <1>2 DEF QueuesOK
  <2>3. CASE t.task.kind = "WatchHeight"
    <3> DEFINE e == Event("HeightChanged", t.task.id, height)
    <3>1. e \in Told /\ ToldRight(client, Depths, e)
      BY <1>1, <2>2, <2>3 DEF Told, Event, ToldRight, ChainOK, Watch
    <3> QED
      BY <1>4, <2>1, <2>3, <3>1 DEF seen
  <2>4. CASE t.task.kind # "WatchHeight"
    <3> DEFINE l == t.task.label
               e == Event("TransactionConfirmations", t.task.id, confirmations(l))
    <3>1. t.task.kind = "WatchTransaction" /\ t.task.id \in Nat /\ l \in Label
      BY <2>2, <2>4 DEF Watch
    <3>2. e \in Told /\ Depths[l] = confirmations(l) /\ Depths[l] \in Int
      BY <1>1, <3>1, ConfirmationsType DEF Told, Event, Unseen
    <3>3. ToldRight(client, Depths, e)
      BY <2>2, <3>1, <3>2 DEF ToldRight, NamedRight, Event
    <3> QED
      BY <1>4, <2>1, <2>4, <3>2, <3>3 DEF seen
  <2> QED
    BY <2>3, <2>4
<1> QED
  BY <1>5, <1>6, <1>7, <1>9, <1>10
     DEF Next, vars, checkpoint_state, watch_tx_btc, retrieve_tx_btc, drop_lifetimes, Block

(***************************************************************************)
(* So what swapd notes is true, and stays so: blocks are not undone.       *)
(***************************************************************************)
LEMMA NotesStay ==
    ASSUME ClientInv, [Next]_vars, ~client'.restored
    PROVE  AttributedRight'
<1>1. /\ ClientOK /\ QueuesOK /\ ChainOK /\ ClientOK' /\ QueuesOK' /\ ChainOK'
      /\ NamesKept /\ (NothingNoted \/ (handle_sync /\ NotedFrom(Head(events))))
      /\ \A l \in Label : Depths[l] <= Depths'[l]
  BY StepTypes, ChainMoves DEF ClientInv
<1>2. /\ client'.confirmations \in [Label -> Int]
      /\ client.confirmations \in [Label -> Int]
  BY <1>1 DEF ClientOK, Client
<1>3. \A l \in Label : /\ confirmations(l) = Depths[l] /\ confirmations(l)' = Depths'[l]
                       /\ Depths[l] \in Int /\ Depths'[l] \in Int
                       /\ mined'[l] # 0 <=> Depths'[l] # Unseen
                       /\ mined[l] # 0 <=> Depths[l] # Unseen
                       /\ Depths[l] >= Unseen
  BY <1>1 DEF Depths, confirmations, ChainOK, Unseen
<1>4. \A l \in Label :
        /\ client.confirmations[l] <= Depths[l]
        /\ l \in client.final_txs => Depths[l] >= Finality
        /\ l \in client.retrieved => Depths[l] # Unseen
  BY <1>1, <1>3 DEF ClientInv, AttributedRight, NamesKept
<1>5. SUFFICES ASSUME NEW l \in Label
               PROVE  /\ client'.confirmations[l] <= Depths'[l]
                      /\ l \in client'.final_txs => Depths'[l] >= Finality
                      /\ l \in client'.retrieved => Depths'[l] # Unseen
  BY <1>3 DEF AttributedRight
<1>6. Finality \in Nat /\ Unseen = -1 /\ Depths[l] <= Depths'[l]
  BY <1>1, Bounds
<1>7. CASE NothingNoted
  BY <1>2, <1>3, <1>4, <1>6, <1>7 DEF NothingNoted
<1>8. CASE handle_sync /\ NotedFrom(Head(events))
  <2> DEFINE e == Head(events)
  <2>1. e \in Told /\ ToldRight(client, Depths, e)
    <3>1. events # <<>> /\ \A i \in DOMAIN events : ToldRight(client, Depths, events[i])
      BY <1>1, <1>8 DEF handle_sync, ClientInv, EventsRight, NamesKept
    <3> QED
      BY <1>1, <3>1, OneLess, HeadTailProperties DEF QueuesOK
  <2>2. e.value \in Int /\ e.value >= Unseen
    BY <2>1 DEF Told, Unseen
  <2> HIDE DEF e
  <2>3. client'.confirmations[l] <= Depths'[l]
    BY <1>2, <1>3, <1>4, <1>6, <1>8, <2>1, <2>2 DEF NotedFrom, ToldRight, e
  <2>4. l \in client'.final_txs => Depths'[l] >= Finality
    BY <1>3, <1>4, <1>6, <1>8, <2>1, <2>2 DEF NotedFrom, ToldRight, e
  <2>5. l \in client'.retrieved => Depths'[l] # Unseen
    BY <1>3, <1>4, <1>6, <1>8, <2>1, <2>2 DEF NotedFrom, ToldRight, e
  <2> QED
    BY <2>3, <2>4, <2>5
<1> QED
  BY <1>1, <1>7, <1>8

-------------------------------------------------------------------------------
(***************************************************************************)
(* AttributedRight: until it is restored, swapd takes no confirmation, no  *)
(* finality and no fetched transaction for one of another task             *)
(* (handle_tx_confs and handle_sync).                                      *)
(***************************************************************************)
THEOREM EventsAreAttributed == Spec => []AttributedRight
<1>1. Init => ClientInv
  <2> SUFFICES ASSUME Init PROVE ClientInv
    OBVIOUS
  <2>1. ClientOK /\ QueuesOK /\ ChainOK
    BY InitTyped
  <2>2. AttributedRight
    BY <2>1, Bounds DEF AttributedRight, Init, NewClient, confirmations, Unseen
  <2>3. RequestsRight /\ TasksRight /\ EventsRight
    BY DEF Init, RequestsRight, TasksRight, EventsRight, NamedRight, watch_height
  <2> QED
    BY <2>1, <2>2, <2>3 DEF ClientInv
<1>2. ClientInv /\ [Next]_vars => ClientInv'
  <2> SUFFICES ASSUME ClientInv, [Next]_vars PROVE ClientInv'
    OBVIOUS
  <2>1. ClientOK' /\ QueuesOK' /\ ChainOK'
    BY StepTypes DEF ClientInv
  <2>2. CASE ~client'.restored
    BY <2>1, <2>2, RequestsStay, TasksStay, EventsStay, NotesStay DEF ClientInv
  <2>3. CASE client'.restored
    BY <2>1, <2>3
       DEF ClientInv, RequestsRight, TasksRight, EventsRight, AttributedRight
  <2> QED
    BY <2>2, <2>3
<1>3. ClientInv => AttributedRight
  BY DEF ClientInv
<1> QED
  BY <1>1, <1>2, <1>3, PTL DEF Spec
===============================================================================
