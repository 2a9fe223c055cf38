SPECIFICATION FairSpec
CHECK_DEADLOCK FALSE
CONSTANTS
  Hash = {"lock"}
  Address = {"fund"}
  AddressTx = {1, 2, 3}
  Spending = {3}
  Jobs <- AllJobs
  MaxTaskCount = 2
  MaxHeaders = 1
  Environments <- BitcoinEnvironments
INVARIANTS NoPanic NothingExpired NeverAhead
PROPERTIES Watched CatchesUp NoticesKept SweepEnds
