SPECIFICATION MCFair
CONSTANTS
  MaxAddress = 2
  SymbolOf <- MCOneToken
  Codes = {"contract", "small", "delegated", "none"}
  Registry = {}
  AlwaysTop = 1
  Sweep = 1
  FastSlice = 1
  SlowSlice = 1
  Cap = 3
  MaxMoves = 1
  MaxFails = 1
  FactSets <- MCFactSets
  Claimants = {2}
  Registries <- MCRegistries
  Protocols = {"accounts", "pools", "vaults"}
  WalletEntry = "accounts"
  EntryOf <- MCEntryOf
  CandidateMin = 1
  PerPass = 1
  MaxBalance = 1
  MaxStored = 2
  MaxUnanswered = 1
  MaxDeploys = 1
INVARIANTS
  TableIsTrue
  CountedOnceUnderItsOwner
PROPERTIES
  EveryContractIsRead
  EveryCountedReadingIsRenewed
  EveryHolderIsAttributed
