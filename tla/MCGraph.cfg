SPECIFICATION Spec
CONSTANTS
  None = None
  Open = Open
  NoneGiven = NoneGiven
  CountryCodes = {"DE", "US"}
  IsoAuthorities <- Iso
  FilterTypes = {"legal_parentage"}
  Graphs = {}
  Queries = {}
  Invocations <- Calls
INVARIANTS
  SearchSound
  HopsExact
  PathsExact
  SubgraphExact
  AdviceFollows
  CyclesExact
PROPERTIES
  CommandEnds
CHECK_DEADLOCK FALSE
