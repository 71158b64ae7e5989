CONSTANTS
  Call = {c1}
  Seeded = FALSE
  MaxEpoch = 0
  MaxAges = 0
  None = None
SPECIFICATION Spec
CHECK_DEADLOCK FALSE
INVARIANT DenialSurfaces
