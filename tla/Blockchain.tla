------------------------------ MODULE Blockchain ------------------------------
(***************************************************************************)
(* The chain as the servers of a syncer know it: blocks, the transactions  *)
(* in them and in the mempool, and what touches a watched address.         *)
(***************************************************************************)
EXTENDS SyncerEnvironment, Sequences

VARIABLES
    chain,         \* the hashes of the blocks, from the first to the tip
    reorgs,
    mined,         \* -1 unknown, 0 in the mempool, or the height it is in
    history        \* the transactions that touch an address

chainVars == <<chain, reorgs, mined, history>>

FurtherHash == MaxHeight + MaxReorgs + 1
Block == 1..FurtherHash
tip == Len(chain)

\* The true number of confirmations of a transaction.
depth(tx) == IF mined[tx] <= 0 THEN mined[tx] ELSE tip - mined[tx] + 1

BlockchainInit ==
    /\ chain = <<1>>
    /\ reorgs = 0
    /\ mined = [tx \in Hash |-> -1]
    /\ history = [a \in Address |-> {}]

Relay(tx) ==
    /\ mined[tx] = -1
    /\ mined' = [mined EXCEPT ![tx] = 0]
    /\ UNCHANGED <<chain, reorgs, history>>

pack(S, height) == [tx \in Hash |-> IF tx \in S THEN height ELSE mined[tx]]
\* A transaction that conflicts with a mined one leaves the mempool.
Evict(tx) ==
    /\ mined[tx] = 0
    /\ mined' = [mined EXCEPT ![tx] = -1]
    /\ UNCHANGED <<chain, reorgs, history>>

waiting == {tx \in Hash : mined[tx] = 0}

MineBlock ==
    /\ tip < MaxHeight
    /\ chain' = Append(chain, tip + 1 + reorgs)
    /\ \E S \in SUBSET waiting : mined' = pack(S, tip + 1)
    /\ UNCHANGED <<reorgs, history>>

\* Beyond the bound blocks still come, and confirmations are no longer counted.
FurtherBlock ==
    /\ KeepsOn
    /\ tip = MaxHeight
    /\ chain' = [chain EXCEPT ![tip] = IF @ = FurtherHash THEN tip + reorgs
                                      ELSE FurtherHash]
    /\ UNCHANGED <<reorgs, mined, history>>

\* Another block takes the place of the tip, with or without what was in it.
Reorg ==
    /\ reorgs < MaxReorgs
    /\ reorgs' = reorgs + 1
    /\ chain' = [chain EXCEPT ![tip] = tip + reorgs + 1]
    /\ \E S \in SUBSET (waiting \cup {tx \in Hash : mined[tx] = tip}) :
         mined' = [tx \in Hash |-> IF tx \in S THEN tip
                                   ELSE IF mined[tx] = tip THEN 0 ELSE mined[tx]]
    /\ UNCHANGED history

\* What a watch with this filter is to report.
filtered(txs, filter) == {tx \in txs : \/ filter = "All"
                                       \/ filter = "Incoming" /\ tx \notin Spending
                                       \/ filter = "Outgoing" /\ tx \in Spending}

Pay(a, tx) ==
    /\ \A b \in Address : tx \notin history[b]
    /\ history' = [history EXCEPT ![a] = @ \cup {tx}]
    /\ UNCHANGED <<chain, reorgs, mined>>

Blocks == MineBlock \/ FurtherBlock \/ Reorg
Transactions == \E tx \in Relayed : Relay(tx) \/ Evict(tx)
Payments(a) == \E tx \in Payable : Pay(a, tx)

===============================================================================
