---- MODULE MCRateLimit ----
EXTENDS RateLimit, TLC
KeySymmetry == Permutations(Key)
====
