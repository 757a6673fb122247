CONSTANTS
  SegmentStart = 100
  SegmentSize = 8
  MaxFrameLen = 2
  UnrelFrames <- MCUnrelFrames
  RequiredCounts = {2, 3}
  MaxRounds = 2
SPECIFICATION Spec
INVARIANT TypeOK
INVARIANT HolesAreMissing
PROPERTY RepairRefined
