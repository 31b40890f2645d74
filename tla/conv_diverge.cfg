\* Overlapping turns of one session: is an echo stored again?
CONSTANTS
  t1 = t1
  t2 = t2
  t3 = t3
  c1 = c1
  c2 = c2
  Turn = {t1, t2, t3}
  Conv = {c1}
  ConvOf <- OneConv
  Content <- MCContent
  Input <- EchoInput
  Id = {1, 2, 3}
  MaxHistory = 3
  OneAtATime = FALSE
  Faults = {}
SPECIFICATION Spec
INVARIANT EchoNotStored

SYMMETRY TurnSymmetry
