SPECIFICATION IrqSpec
CONSTANT Touched = {65, 68, 69}
CHECK_DEADLOCK FALSE
INVARIANTS
  PinsRouted
  SettingsReported
