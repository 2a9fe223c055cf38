-------------------------------- MODULE MCSwap --------------------------------
EXTENDS SwapProperties

AnyXmr   == {-1, 0, 1}
GoodXmr  == {0}
FairXmr  == {0, 1}

\* The next two bound the states that are looked at, not what the code meets:
\* one fault in a swap, be it a stop, a block that is early or a failure,
OneFault == crashes + late + failures =< 1

\* and no block beyond those that change a predicate: on the monero chain, and
\* on bitcoin's once the deposit is spent for good.
BlocksMatter ==
    /\ conf["AccLock"] =< sweep_monero_thr
    /\ \A l \in {"Refund", "Punish"} : conf[l] =< btc_finality_thr

===============================================================================
