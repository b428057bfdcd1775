CONSTANTS
  Machines = {"i440fx", "q35"}
  Setups = {"trees", "extras"}
  Extras <- MCExtras
  Expanders <- MCExpanders
  Devfns = {0, 1, 8, 16, 17, 248}
  Trees <- MCTrees
SPECIFICATION Spec
CHECK_DEADLOCK FALSE
INVARIANTS
  Loads
  SlotsOnTheirBus
  PcntReachesAll
