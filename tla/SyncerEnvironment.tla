--------------------------- MODULE SyncerEnvironment ---------------------------
(***************************************************************************)
(* What clients, servers and the chain may do to a syncer.  Each behaviour *)
(* has one of Environments from its first state on: a set of small worlds  *)
(* is checked in one run, and none of them has to hold everything.         *)
(***************************************************************************)
EXTENDS Integers

CONSTANTS
    Hash,          \* the transactions that may be watched
    Address,       \* the addresses that may be watched
    AddressTx,     \* the transactions that may touch one
    Spending,      \* those that spend from it, the others pay to it
    Jobs,          \* the one-off tasks: BroadcastTransaction, GetTx, ...
    MaxTaskCount,  \* how many other tasks are given at most, in any of
    Environments

VARIABLE env

Tasks     == env.tasks     \* the tasks that clients may give,
Aborts    == env.aborts    \* the Abort tasks,
JobsGiven == env.jobs      \* and which of Jobs
TaskCount == env.count     \* how many tasks they give
MaxHeight == env.height    \* of the chain
MaxReorgs == env.reorgs
KeepsOn   == env.further   \* whether blocks come beyond MaxHeight
Relayed   == env.hashes    \* which of Hash may come to the mempool
Payable   == env.payments  \* which of AddressTx may come
MaxErrors == env.errors    \* how many requests fail, at most

TaskKind == {"WatchHeight", "WatchAddress", "WatchTransaction",
             "WatchEstimateFee", "SweepAddress"}
JobKind == {"BroadcastTransaction", "GetTx", "GetAddressBalance", "HealthCheck"}
JobAnswer == {"TransactionBroadcasted", "TransactionRetrieved", "AddressBalance",
              "HealthResult"}
NoTaskId == 0

ASSUME SyncerEnvironmentAssumption ==
    /\ MaxTaskCount \in Nat
    /\ \A j \in Jobs : j.kind \in JobKind /\ j.answer \in JobAnswer
    /\ AddressTx \subseteq Nat /\ Spending \subseteq AddressTx
    /\ \A e \in Environments :
         /\ e.count \in 0..MaxTaskCount /\ e.height \in Nat \ {0}
         /\ {e.reorgs, e.errors} \subseteq Nat /\ e.further \in BOOLEAN
         /\ e.hashes \subseteq Hash /\ e.payments \subseteq AddressTx /\ e.jobs \subseteq Jobs
         /\ \A t \in e.tasks : /\ t.kind \in TaskKind
                               /\ t.lifetime \in Nat /\ t.confirmation_bound \in Nat
                               /\ t.retry \in BOOLEAN /\ t.id \in Nat \ {NoTaskId}

===============================================================================
