SPECIFICATION FairSpec
CONSTANTS
  Broadcasters = {"a", "e", "u"}
  Encrypted = {"e"}
  Suitable = {"a", "e"}
  LocationBis <- LeftAndRight
  Syncs = {"s1", "s2"}
  Sinks = {"k1", "k2"}
  STREAM_COUNT = 2
  RX_STREAMS_MAX = 2
  MaxCommands = 3
  MaxRadio = 1
  MaxLinks = 1
  MaxQueue = 2
CHECK_DEADLOCK FALSE
INVARIANTS TypeOK HandleIsLive StreamCountBounded
PROPERTIES PausedMeansSilent StopSilences
