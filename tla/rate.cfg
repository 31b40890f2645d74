\* Two keys, a token every 2 units, a burst of 3, swept after 6; any stretch of 11 units is counted.
CONSTANTS
  Key = {k1, k2}
  Interval = 2
  Burst = 3
  StaleAfter = 6
  MaxTime = 11
SPECIFICATION Spec
INVARIANTS RateIsBounded RetryAfterWorks
SYMMETRY KeySymmetry
