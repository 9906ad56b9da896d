\* The comment of computeDesired: only downscale if all policies agree.
CONSTANTS
  web = web
  api = api
  p = p
  q = q
  NumServices = 1
  Identifiers = {web}
  Identifier <- OneService
  Policies <- TwoPolicies
  Opinions <- FewOpinions
  NoOpinion = NoOpinion
  Silent = TRUE
  Bounds <- WideBounds
  Schedule <- NoSchedule
  NoMatch = NoMatch
  Cooldown <- ShortCooldowns
  DryRun <- NeverDry
  TakesNegative = FALSE
  MaxCount = 2
  MaxTime = 3
  Horizon = 1
  MaxRestarts = 0
SPECIFICATION Spec
INVARIANTS
  DownscaleNeedsAllPolicies
CHECK_DEADLOCK FALSE
