CONSTANTS
  Caller = c1
  MaxKey = 1
  Skew = 1
  AgentLife = 1
  ResourceLife = 0
  AuthLife = 5
  Margin = 1
  DefaultPoll = 3
  PendingCap = 2
  BusyCap = 2
  TTL = 4
  MaxSlack = 2
  None = None
SPECIFICATION LiveSpec
CHECK_DEADLOCK FALSE
INVARIANT TypeOK ChecksAgree RotationCostsOnce HeldTooLong
PROPERTY CallEnds
