SPECIFICATION PartsSpec
CONSTANTS
  Peers = {"p", "q"}
  MAX_ADV_SET = 2
  MAX_PAIRED = 2
  Open = "open"
  MaxHostErrors = 2
  Sources = {"a", "b"}
  NameOf <- Names
  Syncs = {"s1", "s2"}
  NotUsed = "no"
  MaxStarts = 2
  MaxRequests = 1
  MaxLosses = 2
  Headsets = {"l", "r", "x"}
  Named = {"l", "x"}
  SetMembers = {"l", "r"}
  BT_MAX_PAIRED = 2
  MaxDials = 4
  MaxScanFaults = 1
  Conns = {"l", "r"}
  MAX_CONN = 2
  ISO_MAX_CHAN = 2
  Endpoints <- LeftTalks
  PrefPd <- OwnPd
  NoConn = "no"
  MaxLinks = 2
  MaxFaults = 1
  MaxUniPresses = 2
  MaxWrites = 10
  MAX_VCP_CONN = 2
  Volumes = {0, 1}
  MaxVcpLinks = 4
  MaxVolumeChanges = 2
CHECK_DEADLOCK FALSE
INVARIANTS
  BluetoothTypesOK OneRestartAtATime SetMatchesKind GatewayLooks ServerFollowsClient
PROPERTIES
  Reachable ScansAreAnswered HeadsetsAreStarted VolumeIsShared
