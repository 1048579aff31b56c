SPECIFICATION Spec
CONSTANTS
  NDocs = 1
  Requests = {r1}
  Ticks = {t1}
  MaxRequests = 2
  MaxTime = 1
  MaxDeaths = 1
  Limit = 1
  Adapter = "memory"
PROPERTY
  OnlyScheduledIsListed
CHECK_DEADLOCK FALSE
