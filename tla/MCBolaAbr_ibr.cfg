CONSTANTS
  TimeUnit = 500
  SegmentDuration = 8
  BufferSize = 40
  Bitrates <- MCBitrates
  AvgSsim <- MCAvgSsim
  Throughputs <- MCIbrThroughputs
  SsimMaps <- MCIbrSsimMaps
  NumSegments = 6
  DownloadTimes <- MCDownloadTimes
  PollTimes <- MCPollTimes
  Bandwidths <- MCBandwidths
  SegSizes <- MCSegSizes
  RelSizes <- MCRelSizes
SPECIFICATION Spec
PROPERTY IbrRespected
