SPECIFICATION Spec
CONSTANTS
  Nil = Nil
  NodeUri = {"node"}
  Hash <- TreeHash
  Number <- TreeNumber
  ParentHash <- TreeParent
  Uncles <- TreeUncles
  Caches <- AnyCache
  Arguments <- TestArguments
  Uint = 16
CHECK_DEADLOCK FALSE
INVARIANTS
  SameHeightIsNotFinished
