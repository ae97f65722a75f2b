SPECIFICATION FairSpec
CONSTANTS
  Endpoints = {e1, e2}
  Calls = {c1, c2}
  MaxBlock = 3
  MaxBackfill = 3
  Chunk = 3
  MaxSplitDepth = 1
  Attempts = 2
  LogCap = 2
  MaxCrashes = 1
  MaxLost = 1
INVARIANTS
  TypeOK
  NoHole
  CountedOncePerLostMark
  IndexFromIsFirst
PROPERTIES
  ImplementsJournal
  CatchesUp
