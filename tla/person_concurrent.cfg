CONSTANTS
  Worker = {w1, w2}
  Id = {i1}
  Code = {c1}
  Agent = {a1, a2}
  AccessServer = {as1, as2}
  PersonServer = ps
  Decisions <- EveryDecision
  TTL = 1
  MaxTime = 2
  Token <- MCToken
  Failure = {403}
  NoRecord = NoRecord
  NoServer = NoServer
  NoCode = NoCode
  NoLease = NoLease
SPECIFICATION Spec
CHECK_DEADLOCK FALSE
SYMMETRY Symmetry
VIEW PolledOnly
INVARIANT TypeOK LeaseKept TokenForRequest
PROPERTY DeadlineHolds
