CONSTANTS
  Task = {t1, t2}
  Uri = {u1, u2}
  Document = document
  TTL = 2
  MinInterval = 1
  MaxMoves = 1
  MaxFailures = 1
  MaxClears = 1
  None = None
SPECIFICATION FairSpec
CHECK_DEADLOCK FALSE
INVARIANT TypeOK
PROPERTIES LimitExplained OwnFetchGap ServedAgain MoveSeen
