SPECIFICATION Spec
CONSTANTS
  Nil = Nil
  NodeUri = {"node"}
  Hash <- TreeHash
  Number <- TreeNumber
  ParentHash <- TreeParent
  Uncles <- TreeUncles
  Caches <- AnyCache
  Arguments <- CallArguments
  Uint = 16
CHECK_DEADLOCK FALSE
INVARIANTS
  TypeOK
  ResultIsTheTree
  MainChainLeadsToTheHighest
  SimpleReorgIsExact
  FinishedReorgGoesOn
  LoneForksAreReported
PROPERTIES
  SearchEnds
