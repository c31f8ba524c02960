SPECIFICATION Spec
CONSTANTS
  None = None
  Open = Open
  Inputs <- AllInputs
  Threshold = "definite"
  GroupSizeLimit = 2
INVARIANTS
  TypeOK
  NodeFactsKept
  EdgeFactsKept
  EdgesDistinct
  OnlyForeseenRejections
  OutputIndependentOfBucketOrder
PROPERTIES
  ResolutionSpec
CHECK_DEADLOCK FALSE
