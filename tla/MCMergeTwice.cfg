SPECIFICATION Spec
CONSTANTS
  None = None
  Open = Open
  Inputs <- TiedInputs
  Threshold = "definite"
  GroupSizeLimit = 50
INVARIANT
  SameFilesSameOutput
CHECK_DEADLOCK FALSE
