\* Three runs, each an Up or a Down of two by a binary of the last release
\* or of the directory, where two Creates in one second may be at work; failures
\* and runs that give up.
CONSTANTS
  Run = {m1, m2, m3}
  Last = 3
  Slug = {a, b}
  Needs <- Tables
  Tolerant = {1}
  Command = {0, 2}
  Faults = {"error", "timeout"}
SPECIFICATION FairSpec
 
PROPERTY SomeoneFinishes
