\* Documents that deviate from a valid one, and every span over a short week.
CONSTANTS
  HourLength = 2
  DayHours = 3
  WeekLength = 2
  MaxField = 3
  Offset <- MCOffset
  NoMatch = NoMatch
  Environments <- MCEnvironments
  Absent = Absent
  Broken = Broken
  Nil = Nil
  DefaultInterval = 1
  DefaultMin = 1
  DefaultMax = 3
  DefaultUp = 2
  DefaultDown = 5
  DefaultBucket = 2
  RetentionFloor = 5
  MaxTime = 14
SPECIFICATION Spec
INVARIANTS
  StartUpInvariant
  LoopMayStart
  ExplicitWins
  ServicesApart
  BoundsAreOfFirstSpan
PROPERTIES
  BoundsChangeAtBoundaries
CHECK_DEADLOCK FALSE
