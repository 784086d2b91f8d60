SPECIFICATION PeerSpec
CONSTANTS
  s1 = s1
  s2 = s2
  Streams = {s1}
  Requests = {}
  Promised = {}
  MaxWindow = 5
  DefaultWindow = 5
  InitWindows = {1, 5}
  Targets = {5}
  MaxFrame = 1
  MaxBuffered = 1
  MaxWire = 2
CHECK_DEADLOCK FALSE
PROPERTY
  ReleaseLetsPeerSend
