SPECIFICATION MCSpec
CONSTANTS
  Jobs = {"j1"}
  Workers = {"w1"}
  Sweeps = {"s1"}
  MaxRows = 2
  MaxTests = 0
  MaxPosts = 5
  MaxFaults = 1
  BatchLimit = 1
  Redelivers = TRUE
INVARIANTS
  SoloSweepsAddUp
PROPERTIES
  EventuallyFresh
  DueIsPublished
  SettlesOnce
  QueuedIsRecorded
  BootEnds
CHECK_DEADLOCK FALSE
