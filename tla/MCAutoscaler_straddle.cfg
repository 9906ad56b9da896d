\* The comment of recordScaleEvent: pre-scale samples are not reused.
CONSTANTS
  web = web
  win = win
  quick = quick
  target = target
  NumServices = 1
  Identifiers = {web}
  Identifier <- OneService
  Policies <- WindowOnly
  Opinions <- AllOpinions
  NoOpinion = NoOpinion
  Silent = TRUE
  Bounds <- AllBounds
  Schedule <- NoSchedule
  NoMatch = NoMatch
  Cooldown <- NoCooldown
  DryRun <- NeverDry
  TakesNegative = FALSE
  MaxCount = 2
  MaxTime = 8
  Horizon = 0
  MaxRestarts = 0
  Window <- BothWindows
  NoWindow = NoWindow
  NoThreshold = NoThreshold
  Values = {0, 2}
  RetentionFloor = 0
  Lags = {0, 1}
  MaxSamples = 8
SPECIFICATION SpecAll
PROPERTIES
  NoPreScaleSampleReused
