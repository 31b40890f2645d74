\* Turns of one session overlap freely; statements fail and commit answers are lost.
CONSTANTS
  t1 = t1
  t2 = t2
  t3 = t3
  c1 = c1
  c2 = c2
  Turn = {t1, t2}
  Conv = {c1}
  ConvOf <- OneConv
  Content <- MCContent
  Input <- MCInput
  Id = {1, 2}
  MaxHistory = 3
  OneAtATime = FALSE
  Faults = {"error", "lostAck"}
SPECIFICATION FairSpec
INVARIANTS ExchangeIntact HistoryEndsWithReply UserTurnStored
PROPERTY AppendsEnd
