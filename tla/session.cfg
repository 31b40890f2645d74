\* Two runs of createsuperuser and two overlapping calls of a tab; tokens expire.
CONSTANTS
  Email = {"a", "b"}
  Password = {"p", "q", "short"}
  Hashable = {"p", "q"}
  Existing = {"b"}
  Run = {u1, u2}
  Args <- Commands
  Login <- Credentials
  Tab = {"t1"}
  Call = {c1, c2}
  TTL = 1
  MaxTime = 1
  Faults = {"db", "lostAck", "limit", "net", "body"}
SPECIFICATION FairSpec
INVARIANTS LoginProvesPassword ReportIsTrue 
PROPERTY SignsOut
