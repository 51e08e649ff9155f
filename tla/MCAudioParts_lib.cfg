SPECIFICATION PartsSpec
CONSTANTS
  Bises = {1, 2}
  HCI_ISO_BUF_PER_CHAN = 2
  FRAME = 3
  MaxBacklog = 2
  TestTone = TRUE
  MaxSourcePresses = 2
  MaxDisables = 1
  Channels = {0, 1}
  Locations = {"left", "right"}
  CONFIG_BUF_BLE_RX_PACKET_NUM = 3
  MaxSdu = 4
  VcsVolumes = {0, 1, 255}
  VOLUME_MSG_SUB_QUEUE_SIZE = 2
  MAX_VOLUME_REG_VAL = 128
  MaxVcsChanges = 4
  StreamSlots = {1, 2}
  Files = {"long", "short", "empty", "wav"}
  FramesOf <- Lc3Frames
  NotLc3 = {"wav"}
  NoFile = "no"
  NUM_FILES = 3
  MaxCalls = 4
  MaxReadErrors = 1
  PlayFiles = {"a", "b"}
  PlayLength <- PlayFrames
  FrameSize <- PcmSizes
  RingSize = 4
  MaxPlays = 3
  Trees <- SomeTrees
  LEVELS_MAX = 2
  BufEntries = 2
  ResultMax = {1, 3}
CHECK_DEADLOCK FALSE
INVARIANTS
  AudioTypesOK HostAgrees NoBufferLost FramesJoinedRight 
PROPERTIES
  ApplicationFollows EncodeSucceedsAwake VolumeIsHeard FilesAreStreamed FilesAreMixed
