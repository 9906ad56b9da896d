\* One-tick and two-tick buckets and a target policy on one metric: gaps, late samples,
\* several samples in a bucket, a cooldown, a restart into a dry run. The interval retained
\* is 6, so that at time 8 samples of time 1 are forgotten and, lagging 7, refused.
CONSTANTS
  web = web
  win = win
  quick = quick
  target = target
  NumServices = 1
  Identifiers = {web}
  Identifier <- OneService
  Policies <- AllPolicies
  Opinions <- AllOpinions
  NoOpinion = NoOpinion
  Silent = TRUE
  Bounds <- AllBounds
  Schedule <- NoSchedule
  NoMatch = NoMatch
  Cooldown <- LongCooldown
  DryRun <- DryAfterRestart
  TakesNegative = FALSE
  MaxCount = 2
  MaxTime = 8
  Horizon = 0
  MaxRestarts = 1
  Window <- BothWindows
  NoWindow = NoWindow
  NoThreshold = NoThreshold
  Values = {0, 2}
  RetentionFloor = 0
  Lags = {0, 1, 6, 7}
  MaxSamples = 4
SPECIFICATION SpecAll
VIEW WithoutEffects
INVARIANTS
  StoreIsRecentHistory
  BreachIsSustained
  RetentionCoversWindows
PROPERTIES
  WindowsStartOver
  HoldGatesDownscale
