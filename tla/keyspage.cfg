\* Three keys, any number of revocations and loads, with every failure and another administrator.
CONSTANTS
  Key = {"k1", "k2", "k3"}
  Load = {l1, l2}
  Delete = {d1, d2}
  Others = TRUE
  Faults = {"net", "lostAck", "db", "auth"}
SPECIFICATION FairSpec
INVARIANTS OneRequest NoticeIsTrue DialogMatchesTable
PROPERTIES PageSettles
