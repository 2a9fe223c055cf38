SPECIFICATION FairSpec
CONSTANTS
  MaxConns = 3
  Environments <- LossesAndErrors
INVARIANTS TypeOK Kept ReceiptsTrue
PROPERTIES Delivered AllHanded NoOrphans
CHECK_DEADLOCK FALSE
