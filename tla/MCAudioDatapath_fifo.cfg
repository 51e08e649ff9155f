SPECIFICATION Spec
CONSTANTS
  FIFO_NUM_BLKS = 12
  NUM_BLKS_IN_FRAME = 4
  BLK_PERIOD_US = 2
  DRIFT_COMP_WAITING_CNT = 2
  PRES_COMP_NUM_DATA_PTS = 4
  AUDIO_MIN_PRES_DLY_US = 10
  AUDIO_MAX_PRES_DLY_US = 12
  BT_AUDIO_PRESENTATION_DELAY_US = 10
  PresDelays = {8, 10, 12}
  Latencies = {1, 3}
  Jitter = {0}
  MaxTime = 124
  MaxOdd = 1
  MaxBusy = 1
INVARIANTS TypeOK AltBufferFree
PROPERTIES NothingOverrun DecisionsFit
CHECK_DEADLOCK FALSE
