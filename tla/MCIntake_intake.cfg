\* An export over each server, two bindings, two queries; no limit is reached. A sample is
\* accepted in the tick of its time only, so whatever takes longer comes too late.
CONSTANTS
  cpu = cpu
  every = every
  load = load
  mem = mem
  g = g
  h = h
  loop = loop
  Keys = {cpu, every, load, mem}
  Values = {0, 1}
  Adders = {g, h, loop}
  Idle = Idle
  Retention = 0
  MaxPerSeries = 5
  MaxTotal = 20
  MaxTime = 2
  GrpcExports = {g}
  HttpExports = {h}
  Loop = loop
  Bindings <- TwoBindings
  Queries <- TwoQueries
  Requests <- SomeRequests
  Unsupported = Unsupported
  MaxStamp = 3
  QueryValues = {1}
  Answered = Answered
  Missing = Missing
  Failed = Failed
SPECIFICATION FairIntakeSpec
INVARIANTS
  IntakeInvariant
  SeriesStayApart
PROPERTIES
  ImplementsStore
  AnsweredIsStored
  PollIsComplete
  SignalEnds
CHECK_DEADLOCK FALSE
