SPECIFICATION FairSpec
CONSTANTS
  Label = {"Buy", "Cancel"}
  MaxTaskId = 3
  Environments <- OneLifeOrTwo
  MaxEvents = 1
  Lifetime = 1
  Finality = 2
INVARIANTS AttributedRight
PROPERTIES Noticed Retrieved
CHECK_DEADLOCK FALSE
