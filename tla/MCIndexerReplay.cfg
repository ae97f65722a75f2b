SPECIFICATION Spec
CONSTANTS
  Endpoints = {e1}
  Calls = {c1}
  MaxBlock = 3
  MaxBackfill = 2
  Chunk = 2
  MaxSplitDepth = 1
  Attempts = 2
  LogCap = 2
  MaxCrashes = 1
  MaxLost = 0
INVARIANT NeverCountedTwice
