\* A session of one key: every failure, callers that leave, and a crash.
CONSTANTS
  r1 = r1
  r2 = r2
  k1 = k1
  k2 = k2
  Request = {r1, r2}
  Key = {k1}
  Call <- SessionCalls
  MaxEdits = 0
  Revocable = {}
  MaxCrashes = 1
  Faults = {"db", "lostAck", "noFlush"}
SPECIFICATION FairSpec
INVARIANTS  OutcomeIsTrue
PROPERTIES RefinesContract TurnEnds
