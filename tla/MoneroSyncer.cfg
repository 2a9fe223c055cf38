SPECIFICATION FairSpec
CONSTANTS
  Hash = {"acclock", "sweep"}
  Address = {"shared", "other"}
  AddressTx = {1}
  Spending = {}
  Jobs <- AllJobs
  MaxTaskCount = 2
  Environments <- MoneroEnvironments
INVARIANTS OwnWallet
PROPERTIES CatchesUp PaymentTold PaidSweepEnds
