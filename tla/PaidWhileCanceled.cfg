SPECIFICATION Spec
CONSTANTS
  cancel_timelock = 3
  punish_timelock = 4
  race_thr = 2
  btc_finality_thr = 1
  xmr_finality_thr = 1
  sweep_monero_thr = 2
  MaxConfs = 4
  Takers = {"Bob"}
  XmrAmounts <- GoodXmr
  BtcAmounts = {"exact"}
  AllowAbort = FALSE
  SplitMempool = FALSE
  MaxLate = 0
  MaxCrashes = 0
  MaxFailures = 0
INVARIANTS RefundedInFull
