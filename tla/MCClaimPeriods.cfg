SPECIFICATION Spec
CONSTANTS
  None = None
  Open = Open
  Inputs <- OpenEnds
INVARIANT OpenEndNeverSeparates
CHECK_DEADLOCK FALSE
