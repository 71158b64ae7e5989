CONSTANTS
  Worker = {w1, w2}
  Id = {i1, i2}
  Code = {c1}
  Agent = {a1}
  AccessServer = {as1}
  PersonServer = ps
  Decisions <- NoDenial
  TTL = 0
  MaxTime = 1
  Token <- MCToken
  Failure = {}
  NoRecord = NoRecord
  NoServer = NoServer
  NoCode = NoCode
  NoLease = NoLease
SPECIFICATION TurnSpec
CHECK_DEADLOCK FALSE
SYMMETRY Symmetry
INVARIANT CodeSingleUse FederatedDecidedByAccessServer FederationClearsInteraction
PROPERTY FederationSticks GoneIsFinal OneStepEach
