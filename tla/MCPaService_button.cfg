SPECIFICATION Spec
CONSTANTS
  PA_MAX_DATA_SIZE = 12
  BYTE = 32
  PA_BAAS_OVERHEAD = 0
  Frames <- DataFrames
  PcWaits = "accepted"
  MaxFrames = 2
  MaxPresses = 1
  ONESHOT = 5
  PA_INT_MIN = 3
  PA_INT_MAX = 4
  TestData <- ButtonPayload
  AdvInfoId = 0
  BaseOverhead = 9

PROPERTY CompleteMeansAired
