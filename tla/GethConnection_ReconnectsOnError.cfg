SPECIFICATION FairSpec
CONSTANTS
  NodeUri = {"geth"}
  Nil = Nil
  ChanCap = 1
  FirstRetry = 5
  MaxRetry = 10
  MaxWaits = 0
PROPERTIES
  ReconnectsOnError
