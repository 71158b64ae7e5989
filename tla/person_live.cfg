CONSTANTS
  Worker = {w1, w2}
  Id = {i1}
  Code = {c1}
  Agent = {a1}
  AccessServer = {as1}
  PersonServer = ps
  Decisions <- LocalDecisions
  TTL = 1
  MaxTime = 2
  Token <- MCToken
  Failure = {403}
  NoRecord = NoRecord
  NoServer = NoServer
  NoCode = NoCode
  NoLease = NoLease
SPECIFICATION LiveSpec
CHECK_DEADLOCK FALSE
INVARIANT GoneOnlyAfterDeadline
PROPERTY Promise EventuallyGone
