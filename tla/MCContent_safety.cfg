SPECIFICATION MCSpec
CONSTANTS
  Ids = {i1, i2}
  Readers = {r1}
  Writers = {w1, w2}
  MaxRequests = 2
  SilentWrites = TRUE
  CoreJob = TRUE
  DefaultPrefix = TRUE
  CacheCanFail = TRUE
  Authors = {w1, w2}
  MaxWrites = 4
  Surfaces = {"rest", "graphql", "builder"}
  Records = {i1, i2}
  NoRecord = NoRecord
  MaxEdits = 1
  MaxSent = 3
SYMMETRY Perms
INVARIANTS
  TypeOK
  FreshUnlessRaced
  TrailIsTrue
  WorkspaceIsHonest
CHECK_DEADLOCK FALSE
