SPECIFICATION Spec
CONSTANTS
  MaxWindow = 2
  NStreams = 2
  Peers = {"server"}
  DefaultWindow = 2
  InitWindows = {1, 2}
  Increments = {}
  Sizes = {2}
  Reservations = {2}
  Limits = {}
  LastStreams = {1}
  MaxFrame = 1
  ChainThreshold = 1
  MaxResets = 1
  MaxQueue = 1
  MaxBuffered = 2
  Ends = {}
  InformationalAnytime = FALSE
CHECK_DEADLOCK FALSE
INVARIANTS
  CountsExact
