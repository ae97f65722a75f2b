SPECIFICATION Spec
CONSTANTS
  Endpoints = {primary, fallback}
  MaxBlock = 3
  IndexFrom = 1
  CoverageFrom = 2
  PerMinute = 2
  MaxSpan = 4
  MinSpan = 2
  LogCap = 2
  PrunedTo = {2, 3}
  MaxCrashes = 1
INVARIANTS
  NothingTwice
  MeasuredSinceIsHonest
  GivesUpOnlyWhatOneHasDropped
PROPERTIES
  PassesEnd
