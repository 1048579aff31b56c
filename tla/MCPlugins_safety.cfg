SPECIFICATION MCSpec
CONSTANTS
  NDocs = 2
  Requests = {r1, r2}
  Ticks = {t1, t2}
  MaxRequests = 3
  MaxTime = 1
  MaxDeaths = 1
  Limit = 1
  Adapter = "portable"
  MaxKeys = 3
  Calls = {r1, r2}
  Boots = {t1, t2}
  Budgets <- MCBudgets
  KeyPage = 1
  Workers = {r1, r2}
  MaxJobs = 2
  MaxVersion = 2
  Stores = {"memory", "drizzle"}
  JobNames = {"publish", "notify"}
  Adapters = {"memory", "queue", "none", "cronOnly"}
  MaxBuilds = 2
  MaxMessages = 1
  MaxTries = 2
  ColdStarts = {t1, t2}
  Ids = {1, 2, 3}
  PageSize = 1
  MaxClock = 2
  PerHour = 2
  NoCursor = NoCursor
  Walks = {"memory", "keyset", "pages", "log", "hours"}
  Pending = {r1, r2}
  Policies <- MCPolicies
  MaxPending = 3
  MaxThrows = 1
  MaxMinute = 4
SYMMETRY Perms
INVARIANTS
  TypeOK
  PublicationIsAnnounced
  WithdrawnStaysDraft
  LockoutFollowsALostKey
  CallsAreWhole
  TranslationsAreKept
  JobsAreKept
  OddWalksAreExplained
  LimitsAreKept
PROPERTIES
  KeysEndForGood
  WalkImplementsListing
CHECK_DEADLOCK FALSE
