SPECIFICATION JobsSpec
CONSTANTS
  e1 = e1
  e2 = e2
  t1 = t1
  t2 = t2
  Events = {e1, e2}
  Ticks = {t1, t2}
  FeedMax = 2
  MaxPushes = 4
  MaxPosterDeaths = 1
  MaxLostAnswers = 1
  Published = 4
  WeekLength = 1
  MaxBlock = 3
  FirstStep = 1
INVARIANTS
  PostedOnceInOrder
  ReportIsTrue
PROPERTIES
  EveryJobEnds
CHECK_DEADLOCK FALSE
