SPECIFICATION Spec
CONSTANTS
  Ids = {i1}
  Readers = {r1}
  Writers = {w1}
  MaxRequests = 2
  SilentWrites = FALSE
  CoreJob = FALSE
  DefaultPrefix = TRUE
  CacheCanFail = FALSE
INVARIANT
  NoStaleWindow
CHECK_DEADLOCK FALSE
