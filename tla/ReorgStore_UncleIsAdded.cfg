SPECIFICATION Spec
CONSTANTS
  Nil = Nil
  NodeUri = {"geth"}
  Hash <- StoreHash
  Number <- StoreNumber
  ParentHash <- StoreParent
  Uncles <- TwoUncles
  WithTx = {"2a", "2b", "3a"}
  Oversized = {"2a"}
  Reorg = {}
  SimulateBlocks = TRUE
  MaxFaults = 0
  MaxUncles = 2
PROPERTIES
  UncleIsAdded
