CONSTANTS
  Shapes <- MCShapes
  RawLen <- MCRawLen
  AmlLen <- MCAmlLen
  CmdLen <- MCCmdLen
  AlignSize = 1
  TableSize = 4
  LegacyLen = 0
  ResizableBlob = FALSE
  RsdpInRam = TRUE
  Peers <- MCShapes
  None = None
SPECIFICATION Spec
INVARIANTS
  OneSnapshot
  SizeStable
  WholeTables
PROPERTIES
  ImplementsSnapshot
