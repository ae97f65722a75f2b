SPECIFICATION Spec
CONSTANTS
  Address = {1, 2}
  FactSets <- MCFactSets
  Claimants = {}
  Protocols = {"accounts", "pools", "vaults"}
  WalletEntry = "accounts"
  EntryOf <- MCEntryOf
  Registries <- MCRegistries
  CandidateMin = 1
  PerPass = 1
  MaxBalance = 2
  MaxMoves = 3
  MaxFails = 0
  MaxDeploys = 0
PROPERTIES
  TodayIsTheLevel
