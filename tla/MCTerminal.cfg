SPECIFICATION MCFair
CONSTANTS
  MaxBlock = 5
  Chains <- MCChains
  MaxBackfill = 3
  Chunk = 3
  HeaderSpan = 2
  PerMinute = 2
  MinDays = 1
  PerDay = 1
  MaxMoves = 1
  MaxCrashes = 1
  Address = {1, 2}
  Words = {"symbol"}
  MayBe <- MCMayBe
  Top = {1}
  Miners = {2}
  ByBalance <- MCByBalance
  PerPass = 1
  MaxAttempts = 2
  MaxFails = 1
  MaxUpgrades = 1
INVARIANTS
  PublishedAsMeasured
  AdjustedIsWhatTheSetLeaves
  RowIsExplained
PROPERTIES
  EveryHistoryIsReached
  EveryAddressIsKnown
