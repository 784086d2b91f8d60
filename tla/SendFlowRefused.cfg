SPECIFICATION Spec
CONSTANTS
  MaxWindow = 2
  NStreams = 2
  Peers = {"client"}
  DefaultWindow = 1
  InitWindows = {1}
  Increments = {1}
  Sizes = {1}
  Reservations = {}
  Limits = {1}
  LastStreams = {1}
  MaxFrame = 1
  ChainThreshold = 1
  MaxResets = 0
  MaxQueue = 2
  MaxBuffered = 1
  Ends = {"goAway"}
  InformationalAnytime = FALSE
CHECK_DEADLOCK FALSE
INVARIANTS
  ResetNeverFirst
