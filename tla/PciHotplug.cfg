CONSTANTS
  Order <- MCOrder
  Slots = {3}
  Index <- MCIndex
  Unsupported = 99
  Calls <- MCBothCalls
  Handler = h
  Ejectors = {e}
  Readers = {r}
  None = none
SPECIFICATION FairSpec
INVARIANTS
  NotifiesItsPlace
  DsmAnswers
PROPERTIES
  EjectsItsPlace
  PluggedIsNoted
  MethodsEnd
