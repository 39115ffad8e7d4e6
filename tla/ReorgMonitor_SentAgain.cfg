SPECIFICATION Spec
CONSTANTS
  Nil = Nil
  NodeUri = {"geth1", "geth2"}
  Hash <- UncleHash
  Number <- UncleNumber
  ParentHash <- UncleParent
  Uncles <- UncleUncles
  Heads <- UncleHeads
  MaxBlocksInCache = 5
  ChanCap = 1
  MaxLost = 1
PROPERTIES
  ReorgIsNewWhenSent
