CONSTANTS
  HoleStart = 3
  HoleEnd = 5
  Sizes <- MCSizes
  LowLimits = {7, 9}
  HighStarts = {9, 12}
  Devices = {0, 1, 4}
  Windows <- MCWindows
  Null = Null
SPECIFICATION Spec
CHECK_DEADLOCK FALSE
INVARIANTS
  CoversMap
  OneNode
  FixedLength
  RightNode
