SPECIFICATION FairSpec
CONSTANTS
  NodeUri = {"geth1", "geth2"}
  Nil = Nil
  ChanCap = 1
  FirstRetry = 5
  MaxRetry = 18
  MaxWaits = 2
INVARIANTS
  TypeOK
  CallsHaveClient
  StatusIsTrue
  DelayDoubles
PROPERTIES
  EndsOnlyAtTheStart
  Recovers
  BlocksAreSent
