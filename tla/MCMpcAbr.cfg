CONSTANTS
  SegmentDuration = 8
  BufferSize = 40
  Bitrates <- MCBitrates
  SearchDepth = 5
  ErrorWindow = 5
  ThroughputWindow = 5
  NumSegments = 7
  Observations = {4, 32}
  UnrelDivisors = {1, 2}
SPECIFICATION Spec
INVARIANT TypeOK
INVARIANT EstimatorWindows
PROPERTY SearchOptimal
