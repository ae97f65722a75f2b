SPECIFICATION Spec
CONSTANTS
  Requests = 1
  MaxTime = 2
  PerHour = 2
  PerDay = 2
  FreeRpm = 1
  ProRpm = 2
  McpRpm = 1
  ApiRpm = 1
  KeyLimit = 2
  NotifyMax = 1
  TemplateTtl = 1
  MaxLoad = 0
  MaxRestarts = 1
CHECK_DEADLOCK FALSE
INVARIANTS
  InventedRouteWritesNothing
