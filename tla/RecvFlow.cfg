SPECIFICATION Spec
CONSTANTS
  s1 = s1
  s2 = s2
  Streams = {s1, s2}
  Promised = {s2}
  MaxWindow = 3
  DefaultWindow = 2
  InitWindows = {0, 2}
  Targets = {1, 3}
  MaxFrame = 2
  MaxBuffered = 2
CHECK_DEADLOCK FALSE
INVARIANTS
  TypeOK
  LedgerBalanced
  InFlightAttributed
  DroppedHoldsNothing
  ConnExposureBounded
  StreamWindowBounded
PROPERTIES
  KeepsLedger
