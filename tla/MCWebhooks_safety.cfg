SPECIFICATION Spec
CONSTANTS
  Jobs = {j1}
  Workers = {w1}
  Sweeps = {s1, s2}
  MaxRows = 2
  MaxTests = 1
  MaxPosts = 3
  MaxFaults = 1
  BatchLimit = 2
  Redelivers = TRUE
SYMMETRY Perms
INVARIANTS
  TypeOK
  LogIsTrue
CHECK_DEADLOCK FALSE
