SPECIFICATION Spec
CONSTANTS
  None = None
  Open = Open
  Inputs <- DiffInputs
INVARIANTS
  TypeOK
  PairsAreChains
  PairedEdgesJoinPairedNodes
  SilenceMeansSameContent
  NothingDiffersFromItself
  ReverseMirrors
  PairedIffCommonDay
CHECK_DEADLOCK FALSE
