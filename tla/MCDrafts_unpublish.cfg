SPECIFICATION Spec
CONSTANTS
  NDocs = 1
  Requests = {r1}
  Ticks = {t1}
  MaxRequests = 4
  MaxTime = 1
  MaxDeaths = 1
  Limit = 1
  Adapter = "portable"
PROPERTY
  UnpublishClearsDate
CHECK_DEADLOCK FALSE
