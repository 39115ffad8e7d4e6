SPECIFICATION FairSpec
CONSTANTS
  startBlock = 1
  endBlock = 5
  Worker = {"w1", "w2", "w3"}
  HeightCap = 1
  BlockCap = 2
  NumUncles <- SomeUncles
  NoBlock = NoBlock
CHECK_DEADLOCK FALSE
INVARIANTS
  TypeOK
  NoSendOnClosed
  EveryBlockIsProcessed
PROPERTIES
  UtilityEnds
