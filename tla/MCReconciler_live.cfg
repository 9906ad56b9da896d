\* Two services in one tick and others writing the platform: interference, a restart into a dry run, and
\* liveness.
CONSTANTS
  web = web
  api = api
  p = p
  q = q
  NumServices = 2
  Identifiers = {web, api}
  Identifier <- TwoServices
  Policies <- OnePolicyEach
  Opinions <- SteadyOpinion
  NoOpinion = NoOpinion
  Silent = FALSE
  Bounds <- WideBounds
  Schedule <- NoSchedule
  NoMatch = NoMatch
  Cooldown <- UnitCooldowns
  DryRun <- DryAfterRestart
  TakesNegative = FALSE
  MaxCount = 2
  MaxTime = 3
  Horizon = 1
  MaxRestarts = 1
SPECIFICATION FairSpec
INVARIANTS
  DecidedOnFreshCount
  BlockedOnlyAfterSuccess
PROPERTIES
  EveryServiceServed
  CancelStops
  Converges
CHECK_DEADLOCK FALSE
