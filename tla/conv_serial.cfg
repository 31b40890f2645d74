\* One turn at a time in each of two sessions; a commit whose answer was lost may land later.
CONSTANTS
  t1 = t1
  t2 = t2
  t3 = t3
  c1 = c1
  c2 = c2
  Turn = {t1, t2, t3}
  Conv = {c1, c2}
  ConvOf <- TwoConvs
  Content <- MCContent
  Input <- MCInput
  Id = {1}
  MaxHistory = 3
  OneAtATime = TRUE
  Faults = {"lostAck"}
SPECIFICATION Spec
INVARIANTS CommitOrder OverlapIsTheLoop
PROPERTY RefinesLog
SYMMETRY SameConvSymmetry
