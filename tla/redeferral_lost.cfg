CONSTANTS
  Handler = {h1, h2}
  Client = {c1}
  Id = {i1}
  Token = {token}
  Failure = {403, 410}
  Decisions = {"grant", "deny", "defer"}
  TTL = 0
  MaxTime = 1
  NoRecord = NoRecord
  None = None
SPECIFICATION Spec
CHECK_DEADLOCK FALSE
PROPERTY RedeferralHeard
