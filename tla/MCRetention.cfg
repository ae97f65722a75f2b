SPECIFICATION Spec
CONSTANTS
  Day = 2
  Week = 2
  TopKeep = 2
  TOP_PER_BATCH = 1
  TOP_PER_DAY = 2
  RECENT_MAX = 2
  HEADER_WINDOW = 2
  HEADER_WINDOW = 2
  MaxMinute = 4
  MaxTransfers = 3
  MaxBatch = 2
  MaxLate = 1
  MaxWrites = 4
  MaxSamples = 2
INVARIANTS
  DailyHistoryIsWhole
  WindowsAreHeld
  ServedAsItWas
CHECK_DEADLOCK FALSE
