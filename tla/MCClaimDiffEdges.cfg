SPECIFICATION Spec
CONSTANTS
  None = None
  Open = Open
  Inputs <- Swapped
INVARIANT EdgeEndsShareGroups
CHECK_DEADLOCK FALSE
