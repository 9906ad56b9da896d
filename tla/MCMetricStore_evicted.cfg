\* README: one latest sample per series remains.
CONSTANTS
  Keys = {k, l}
  Values = {0}
  Adders = {a, b}
  Idle = Idle
  Retention = 2
  MaxPerSeries = 3
  MaxTotal = 3
  MaxTime = 3
SYMMETRY Interchangeable
SPECIFICATION Spec
INVARIANTS
  LatestRemains
