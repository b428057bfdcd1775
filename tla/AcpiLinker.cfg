CONSTANTS
  Optional <- MCOptional
  FadtLayouts <- MCLayouts
  Revisions = {0, 2}
  OtherLen = 8
  Nowhere = Nowhere
SPECIFICATION LinkSpec
CHECK_DEADLOCK FALSE
INVARIANTS
  ScriptSound
  SumsStayValid
  EveryTableFound
