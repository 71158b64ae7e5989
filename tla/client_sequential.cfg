CONSTANTS
  Call = {c1}
  Seeded = TRUE
  MaxEpoch = 2
  MaxAges = 1
  None = None
SPECIFICATION Spec
CHECK_DEADLOCK FALSE
INVARIANT TypeOK RejectedNotReused
