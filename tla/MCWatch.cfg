SPECIFICATION MCSpec
CONSTANTS
  Failures = {{"auth"}, {"error"}}
  HaltAfter = 0
  SeenTTL = 2
  MinGap = 2
  MaxTime = 3
  MaxEnds = 1
  t1 = t1
  d1 = d1
  o1 = o1
  i1 = i1
  i2 = i2
  Cooldown = 2
  MaxAlertTime = 3
  MaxRestarts = 1
  Tokens = {t1}
  Deployed = {d1}
  Others = {o1}
  Invocations = {i1, i2}
  MISSES_BEFORE_GONE = 2
  MISSES_BEFORE_QUIET = 3
  MaxPasses = 4
  MaxChanges = 1
  ENDPOINTS <- TwoEndpoints
  Callers = {1, 2}
  Soft = {2}
  Slots = {1, 2}
SYMMETRY Alike
INVARIANTS
  UptimeIsHonest
  OperatorIsToldOnceAndLast
  CallsAreTrue
PROPERTIES
  ReportsMatchTheRecord
CHECK_DEADLOCK FALSE
