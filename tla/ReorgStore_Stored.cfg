SPECIFICATION FairSpec
CONSTANTS
  Nil = Nil
  NodeUri = {"geth"}
  Hash <- StoreHash
  Number <- StoreNumber
  ParentHash <- StoreParent
  Uncles <- OneUncle
  WithTx = {"2a", "2b", "3a"}
  Oversized = {"2a"}
  Reorg <- StoreReorgs
  SimulateBlocks = TRUE
  MaxFaults = 2
  MaxUncles = 2
INVARIANTS
  TypeOK
  OneRowPerWriter
PROPERTIES
  HandledIsStored
  AddedUncleIsStored
  KeepsSimulations
  HandlerEnds
