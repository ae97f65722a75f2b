SPECIFICATION MCSpec
CONSTANTS
  h1 = h1
  k1 = k1
  k2 = k2
  a1 = a1
  q1 = q1
  q2 = q2
  Keys = {k1, k2}
  Amounts = {a1}
  MaxRange = 2
  OrderExpiry = 1
  ProDuration = 2
  Lag = 1
  AllDrawsTaken = TRUE
  MaxOrders = 2
  MaxPayments = 2
  MaxTime = 4
  MaxCrashes = 1
  HookKeys = {h1}
  Requests = {q1, q2}
  FreeMax = 0
  ProMax = 1
  CacheTTL = 1
  Cooldown = 2
  MaxRules = 3
  MaxHookTime = 2
  MaxRestarts = 1
  Heartbeat = 2
  LastDay = 5
  MaxDeaths = 1
  MaxLost = 1
  MaxChecks = 3
SYMMETRY Alike
INVARIANTS
  CreditedOnce
  PaidTimeIsServed
  NoTransferPassedBy
  PaidOrderIsCreditedUnlessInterrupted
  RulesAreKept
  DigestIsTrue
PROPERTIES
  MatchIsHeard
CHECK_DEADLOCK FALSE
