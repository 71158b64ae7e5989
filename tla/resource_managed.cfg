CONSTANTS
  Call = {c1}
  Handler = {h1, h2}
  Token = {0, 1}
  Failure = {403}
  Decisions = {"grant", "interaction", "clarification"}
  TTL = 0
  MaxDefer = 2
  MaxEpoch = 1
  MaxPoll = None
  DefaultPoll = 2
  PendingCap = 1
  BusyCap = 1
  HasClarification = TRUE
  NoRecord = NoRecord
  None = None
SPECIFICATION LiveSpec
CHECK_DEADLOCK FALSE
INVARIANT TypeOK GoneExplained
PROPERTY GrantKept ClientSpec CallEnds
