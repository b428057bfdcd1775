SPECIFICATION ScopesSpec
CONSTANTS
  pcie = pcie
  pxb = pxb
  Hosts <- Roots
  RootBus <- RootNumbers
  MaxDevs = 3
CHECK_DEADLOCK FALSE
INVARIANTS
  DevicesCovered
  RequestersNamed
