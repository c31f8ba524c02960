SPECIFICATION Spec
CONSTANTS
  None = None
  Open = Open
  Unreadable = Unreadable
  Junk = Junk
  NotFinite = NotFinite
  MaxI64 = 3
  MaxU64 = 7
  SlugText <- Slugs
  SizeOf <- Sizes
  MaxFileSize = 2
  FrameSizes = {}
  MaxTrail = 2
  Artifacts <- HandMade
  Authorities <- SomeAuthorities
INVARIANT
  PersonIdsConfidential
CHECK_DEADLOCK FALSE
