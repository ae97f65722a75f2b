SPECIFICATION Spec
CONSTANTS
  Requests = 2
  MaxTime = 2
  PerHour = 2
  PerDay = 2
  FreeRpm = 1
  ProRpm = 2
  McpRpm = 1
  ApiRpm = 1
  KeyLimit = 2
  NotifyMax = 1
  TemplateTtl = 1
  MaxLoad = 1
  MaxRestarts = 1
CHECK_DEADLOCK FALSE
INVARIANTS
  AnswersAreTrue
PROPERTIES
  QuotaPerWindow
  EveryRequestEnds
