SPECIFICATION FairSpec
CONSTANTS
  N = 5
  RankMax = 3
  Pow2 <- MCPow2
  UnionArgs <- LadderPairs
INVARIANTS
  TypeOK
  Forest
  LocalsValid
  ClassesAreClosure
  RankBounded
PROPERTIES
  SetsSpec
  UnionIsUnite
  CallsReturn
