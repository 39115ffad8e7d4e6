SPECIFICATION Spec
CONSTANTS
  startBlock = 1
  endBlock = 3
  Worker = {"w1", "w2"}
  HeightCap = 1
  BlockCap = 3
  NumUncles <- SomeUncles
  NoBlock = NoBlock
CHECK_DEADLOCK FALSE
INVARIANTS
  ExitWaits
