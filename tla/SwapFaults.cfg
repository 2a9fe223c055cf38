SPECIFICATION Spec
CONSTANTS
  cancel_timelock = 3
  punish_timelock = 4
  race_thr = 2
  btc_finality_thr = 1
  xmr_finality_thr = 1
  sweep_monero_thr = 1
  MaxConfs = 4
  Takers = {"Bob"}
  XmrAmounts <- GoodXmr
  BtcAmounts = {"exact"}
  AllowAbort = FALSE
  SplitMempool = TRUE
  MaxLate = 1
  MaxCrashes = 1
  MaxFailures = 1
INVARIANTS BuySignatureBacked MoneroFollowsBitcoin OutcomesTrue NothingLeftBehind LockRecoverable FundingRecoverable
CONSTRAINTS OneFault BlocksMatter
