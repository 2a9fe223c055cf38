SPECIFICATION LiveSpec
CONSTANTS
  d1 = d1
  d2 = d2
  d3 = d3
  n0 = n0
  n1 = n1
  n2 = n2
  Deals = {d1, d2, d3}
  MakerDeals = {d2}
  Nodes = {n0, n1, n2}
  Here = n0
  Counterparty <- ThreeNodes
  Environments <- NodeEnvironments
  MaxJobs = 2
INVARIANTS SyncersServe SomeoneComes OneTrade
PROPERTIES OthersKeepLinks NoIdleSyncer TakerAnswered JobsEnd RestoredRuns
CHECK_DEADLOCK FALSE
