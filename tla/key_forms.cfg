\* Two visits of one tab with two requests, and one of another client.
CONSTANTS
  k0 = k0
  p1 = p1
  Request = {p1, p2, o1}
  PageRequest = {p1, p2}
  Existing = {k0}
  Label = {"a", "b"}
  Op <- OtherOps
  Faults <- FaultsOf
  Visit = {v1, v2}
  Typed <- WhatIsTyped
SPECIFICATION FairFormsSpec
INVARIANTS OneKeyPerForm SecretOnScreen SaveKeepsEdits RevokedOnce WholeFormWins
PROPERTIES RevocationIsFinal FormSettles
