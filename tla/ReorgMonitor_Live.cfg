SPECIFICATION FairSpec
CONSTANTS
  Nil = Nil
  NodeUri = {"geth"}
  Hash <- UncleHash
  Number <- UncleNumber
  ParentHash <- UncleParent
  Uncles <- UncleUncles
  Heads <- SparseHeads
  MaxBlocksInCache = 6
  ChanCap = 1
  MaxLost = 1
PROPERTIES
  EveryBlockIsTaken
  MonitorReturns
