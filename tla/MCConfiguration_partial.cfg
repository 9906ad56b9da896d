\* README: defaults apply unless overridden per service.
CONSTANTS
  HourLength = 2
  DayHours = 3
  WeekLength = 2
  MaxField = 3
  Offset <- MCOffset
  NoMatch = NoMatch
  Environments <- FewEnvironments
  Absent = Absent
  Broken = Broken
  Nil = Nil
  DefaultInterval = 1
  DefaultMin = 1
  DefaultMax = 3
  DefaultUp = 2
  DefaultDown = 5
  DefaultBucket = 2
  RetentionFloor = 5
  MaxTime = 14
SPECIFICATION Spec
INVARIANTS
  DefaultsInherited
CHECK_DEADLOCK FALSE
