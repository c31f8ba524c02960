SPECIFICATION Spec
CONSTANTS
  None = None
  Open = Open
  Unreadable = Unreadable
  Junk = Junk
  NotFinite = NotFinite
  MaxI64 = 3
  MaxU64 = 7
  SlugText <- Slugs
  SizeOf <- Sizes
  MaxFileSize = 2
  FrameSizes = {1, 3}
  MaxTrail = 5
  Artifacts <- SomeArtifacts
  Authorities <- SomeAuthorities
INVARIANTS
  RoundTripCarries
  TripsSettle
  ListKeepsTrees
  ReadsBack
CHECK_DEADLOCK FALSE
