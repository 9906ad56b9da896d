\* Two clients, a platform whose health changes twice, one failing check.
CONSTANTS
  Probes = {a, b}
  TTL = 3
  CheckTimeout = 2
  MaxFlips = 2
  MaxFailures = 1
SPECIFICATION FairSpec
INVARIANTS
  HealthInvariant
PROPERTIES
  AnswersCatchUp
  AnswersSettle
