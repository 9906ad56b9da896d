\* One service, two policies, a schedule, a restart with the dry-run flag: cooldowns and decisions in depth.
CONSTANTS
  web = web
  api = api
  p = p
  q = q
  NumServices = 1
  Identifiers = {web}
  Identifier <- OneService
  Policies <- TwoPolicies
  Opinions <- MCOpinions
  NoOpinion = NoOpinion
  Silent = TRUE
  Bounds <- WideBounds
  Schedule <- NarrowSchedule
  NoMatch = NoMatch
  Cooldown <- Cooldowns
  DryRun <- DryAfterRestart
  TakesNegative = TRUE
  MaxCount = 3
  MaxTime = 4
  Horizon = 2
  MaxRestarts = 1
SPECIFICATION SpecHistory
INVARIANTS
  LoopInvariant
  ScaleIsJustified
  WithinActiveBounds
  CutoffIsLastScale
PROPERTIES
  DryRunOnlyWatches
  CooldownBetweenEffects
CHECK_DEADLOCK FALSE
