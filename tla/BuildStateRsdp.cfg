CONSTANTS
  Shapes <- MCShapes
  RawLen <- LegacyRawLen
  AmlLen <- LegacyAmlLen
  CmdLen <- MCCmdLen
  AlignSize = 1
  TableSize = 4
  LegacyLen = 2
  ResizableBlob = FALSE
  RsdpInRam = FALSE
  Peers <- MCShapes
  None = None
SPECIFICATION Spec
PROPERTIES
  RsdpUpdatedAlong
