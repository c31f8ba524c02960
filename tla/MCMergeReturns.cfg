SPECIFICATION FairSpec
CONSTANTS
  None = None
  Open = Open
  Inputs <- FewInputs
  Threshold = "probable"
  GroupSizeLimit = 2
PROPERTIES
  ResolutionFairSpec
  MergeReturns
CHECK_DEADLOCK FALSE
