SPECIFICATION Spec
CONSTANTS
  None = None
  Open = Open
  Originals <- SomeFiles
  RetainSets <- Retained
  MaxCalls = 3
INVARIANTS
  TypeOK
  StubsTellPublicIdentity
PROPERTIES
  DisclosureSpec
  ConnectivityKept
  FailsExactlyAsForeseen
CHECK_DEADLOCK FALSE
