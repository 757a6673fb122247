CONSTANTS
  Fine = FALSE
  Responses <- MCResponses
  RoughTimes = {0, 1, 3}
  MaxRequests = 3
  InfTp = InfTp
  NaNTp = NaNTp
SPECIFICATION Spec
INVARIANT SampleTimeFloored
