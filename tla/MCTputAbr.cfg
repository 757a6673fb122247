CONSTANTS
  SegmentDuration = 20
  BufferSize = 60
  Bitrates <- MCBitrates
  Smoothings <- MCSmoothings
  NumSegments = 7
  Observations = {10, 20, 60}
  kMaxClientHellos = 3
  MaxSessionHellos = 2
  FailureErrors <- MCFailureErrors
  VersionMismatchOk = TRUE
SPECIFICATION Spec
INVARIANT TypeOK
INVARIANT BufferWithinCapacity
INVARIANT SessionBudget
PROPERTY SustainableQuality
PROPERTY AllSegmentsPlayed
