SPECIFICATION FairSpec
CONSTANTS
  PA_MAX_DATA_SIZE = 12
  BYTE = 32
  PA_BAAS_OVERHEAD = 0
  Frames <- WellFormedFrames
  PcWaits = "accepted"
  MaxFrames = 3
  MaxPresses = 0
  ONESHOT = 5
  PA_INT_MIN = 3
  PA_INT_MAX = 4
  TestData <- ButtonPayload
  AdvInfoId = 0
  BaseOverhead = 9
INVARIANTS TypeOK AcceptedAsSent
PROPERTIES PcIsServed CompleteMeansAired
