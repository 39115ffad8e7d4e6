SPECIFICATION Spec
CONSTANTS
  Nil = Nil
  NodeUri = {"geth1", "geth2"}
  Hash <- LongHash
  Number <- LongNumber
  ParentHash <- LongParent
  Uncles <- LongUncles
  Heads <- LongHeads
  MaxBlocksInCache = 6
  ChanCap = 1
  MaxLost = 1
INVARIANTS
  TypeOK
  MapsAgree
  WindowHoldsCache
  CacheIsTrimmed
  HolesAreFailures
  ReportsAreBuried
PROPERTIES
  TrimIsTheLoop
  ErrorsAreFailures
  ReportedOnce
  WindowMovesUp
  KeepsPromise
