SPECIFICATION Spec
CONSTANTS
  Broadcasters = {"a"}
  Encrypted = {}
  Suitable = {"a"}
  LocationBis <- LeftAndRight
  Syncs = {"s1", "s2"}
  Sinks = {"k1", "k2"}
  STREAM_COUNT = 2
  RX_STREAMS_MAX = 1
  MaxCommands = 4
  MaxRadio = 1
  MaxLinks = 1
  MaxQueue = 2
CHECK_DEADLOCK FALSE
PROPERTY FailedStartIsSilent
