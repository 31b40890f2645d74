\* Two requests on one connection, every start failure, a signal at any time.
CONSTANTS
  Request = {r1, r2}
  Env <- MCEnv
  MaxConns = 1
  StartFaults = {"connect", "migrate", "listen", "serve"}
  Status = {200, 502}
SPECIFICATION FairFrontSpec
INVARIANTS CleanExitLosesNothing LogIsTrue PanicIsAnswered OneRepairIsEnough
PROPERTIES ReadyzEnds ShutdownEnds
