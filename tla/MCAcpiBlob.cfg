CONSTANTS
  Configs <- MCConfigs
  DsdtLen <- MCDsdtLen
  U32 = 16384
  None = None
SPECIFICATION Spec
INVARIANTS
  RsdtListsTables
  FadtFindsTables
  XDsdtFindsDsdt
  LayoutFramesTables
