SPECIFICATION Spec
CONSTANTS
  None = None
  Open = Open
  Inputs <- ReportingInputs
  Threshold = "definite"
  GroupSizeLimit = 50
INVARIANT
  NormalMergeSucceeds
CHECK_DEADLOCK FALSE
