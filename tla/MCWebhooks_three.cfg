SPECIFICATION Spec
CONSTANTS
  Jobs = {j1}
  Workers = {w1}
  Sweeps = {s1, s2}
  MaxRows = 1
  MaxTests = 0
  MaxPosts = 4
  MaxFaults = 0
  BatchLimit = 1
  Redelivers = TRUE
INVARIANTS
  AtMostThree
CHECK_DEADLOCK FALSE
