CONSTANTS
  TimeUnit = 500
  SegmentDuration = 8
  BufferSize = 24
  Bitrates <- MCBitrates
  AvgSsim <- MCAvgSsim
  Throughputs = {12, 40}
  SsimMaps <- MCSsimMaps
  NumSegments = 4
  Deliveries = {2, 4}
  Estimates = {0, 4, 32}
  UninitSsim <- MCUninitSsim
  CloseWaits = {0, 1}
  MaxRetries = 3
SPECIFICATION Spec
INVARIANT NoFatalExit
