CONSTANTS
  Bodies <- MCBodies
  Targets <- MCTargets
  None = None
SPECIFICATION FairSpec
INVARIANTS
  ExactWhenReachable
  ReturnsPaddedLen
  NeverShort
  OvershootBound
PROPERTIES
  Termination
