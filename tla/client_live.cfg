CONSTANTS
  Call = {c1, c2}
  Seeded = FALSE
  MaxEpoch = 1
  MaxAges = 1
  None = None
SPECIFICATION AgreeingSpec
CHECK_DEADLOCK FALSE
INVARIANT AuthorizeOnce
PROPERTY CallEnds
