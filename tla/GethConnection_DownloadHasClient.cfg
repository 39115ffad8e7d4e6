SPECIFICATION Spec
CONSTANTS
  NodeUri = {"geth"}
  Nil = Nil
  ChanCap = 2
  FirstRetry = 5
  MaxRetry = 180
  MaxWaits = 7
INVARIANT
  DownloadHasClient
