CONSTANTS
  MaxWord = 13
  Start = 1
  End = 12
  MaxRanges = 3
  Max32 = 6
  MaxBus = 255
  IoStart = 2
  IoEnd = 6
  HoleLo = 2
  HoleHi = 5
  Hole64Lo = 9
  Hole64Hi = 12
  McfgRange <- Mmconfig
  CxlRanges <- Windows
  Regions <- AllRegions
  Children <- Lists
SPECIFICATION MCSpec
CHECK_DEADLOCK FALSE
INVARIANTS
  MergeKeepsPoints
  FreeAvoidsUsed
  FreeIsComplete
  AddressesPartitioned
  BusNumbersApart
