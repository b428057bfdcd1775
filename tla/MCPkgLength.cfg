CONSTANTS
  Lens <- MCLens
  Kinds = {"space", "fixed", "interrupt", "gpio", "i2c", "rust", "register"}
  Counts = {1, 2, 3}
  MaxItems = 3
SPECIFICATION MCSpec
CHECK_DEADLOCK FALSE
INVARIANTS
  SameBytes
  RoundTrip
  Readable
