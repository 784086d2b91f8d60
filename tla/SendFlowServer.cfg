SPECIFICATION Spec
CONSTANTS
  MaxWindow = 2
  NStreams = 2
  Peers = {"server"}
  DefaultWindow = 2
  InitWindows = {1, 2}
  Increments = {}
  Sizes = {0, 2}
  Reservations = {}
  Limits = {}
  LastStreams = {1}
  MaxFrame = 1
  ChainThreshold = 1
  MaxResets = 1
  MaxQueue = 1
  MaxBuffered = 2
  Ends = {"drop"}
  InformationalAnytime = FALSE
CHECK_DEADLOCK FALSE
INVARIANTS
  TypeOK
  AssignmentFits
  WireLegal
  NoWaiterForgotten
  NoFrameForgotten
  BufferedExact
  NoDanglingKeys
  NothingKept
