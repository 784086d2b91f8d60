SPECIFICATION PeerSpec
CONSTANTS
  s1 = s1
  s2 = s2
  Streams = {s1}
  Requests = {}
  Promised = {}
  MaxWindow = 5
  DefaultWindow = 5
  InitWindows = {5}
  Targets = {2}
  MaxFrame = 1
  MaxBuffered = 1
  MaxWire = 2
CHECK_DEADLOCK FALSE
PROPERTIES
  ReleaseLetsPeerSend
  ConnectionReopens
