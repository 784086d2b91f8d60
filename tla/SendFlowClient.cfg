SPECIFICATION Spec
CONSTANTS
  MaxWindow = 2
  NStreams = 2
  Peers = {"client"}
  DefaultWindow = 1
  InitWindows = {1}
  Increments = {2}
  Sizes = {1}
  Reservations = {2}
  Limits = {1}
  LastStreams = {1}
  MaxFrame = 1
  ChainThreshold = 2
  MaxResets = 0
  MaxQueue = 1
  MaxBuffered = 1
  Ends = {"goAway", "error", "eof"}
  InformationalAnytime = FALSE
CHECK_DEADLOCK FALSE
INVARIANTS
  CapacityConserved
  WireLegal
  NoWaiterForgotten
  NoFrameForgotten
  CountsExact
  OpensInOrder
PROPERTIES
  OpensWithinLimit
