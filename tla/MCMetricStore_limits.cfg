\* Two keys: ages, late samples, replacements, concurrent adds, and both limits.
CONSTANTS
  Keys = {k, l}
  Values = {0, 1}
  Adders = {a, b}
  Idle = Idle
  Retention = 1
  MaxPerSeries = 2
  MaxTotal = 3
  MaxTime = 4
SYMMETRY Interchangeable
SPECIFICATION Spec
INVARIANTS
  StoreInvariant
  LimitsRespected
  SnapshotHasNoHoles
  SnapshotIsRecentHistory
PROPERTIES
  ImplementsHistory
