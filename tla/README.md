# A verification of ninjascale

ninjascale is an autoscaler.  One goroutine wakes up on a ticker, reads the current instance counts of all configured services from a platform (AWS ECS or an in-memory map) in one call, evaluates each service's policies on a snapshot of a metric history, merges their opinions, clamps the result to the bounds of the schedule, and asks the platform for another count unless the service is in its cooldown.  The metric history is written at the same time by the goroutines of an OTLP receiver and by the loop's own Prometheus poll; a small HTTP server answers probes and exports metrics.

The modules here follow the program from its configuration to its exit: how a document becomes services, how samples reach the store, the store and its history, the window policies and schedules, the loop, the batched calls to the platform, the cached health check and the shutdown.  TLC checks them on small instances, and TLAPS proves their most important properties for every value of their constants.  Source positions are `file:line` below `internal/` unless they say otherwise.

## 1. Inventory

| Component | State | Operations | Talks to |
| --- | --- | --- | --- |
| Reconciler (`reconciler/reconciler.go`) | per service the times of the last up- and downscale; a ticker | `Run`, `Tick`, `pollPrometheusMetrics`, `reconcileService`, `computeDesired`, `canScale`, `recordScaleEvent`, `clamp` | calls adapter, store, policies, schedule, Prometheus; sets the policies' cutoffs |
| Policies (`policy/*.go`) | a cutoff per policy (`resetCutoff`) | `WindowPolicy.Evaluate`, `TargetPolicy.Evaluate`, `Reset` | read a snapshot |
| Metric store (`metrics/store.go`) | a time-sorted slice of samples per key, a mutex | `Add`, `Snapshot`, pruning, limits, `CompleteBuckets`, `Latest` | written by receiver and poll, read by the loop |
| OTLP receiver (`metrics/otlp.go`) | bindings from raw names to keys | `RegisterBinding`, `Start`, `Stop`, `Export`, `handleHTTPMetrics` | adds to the store |
| Prometheus source (`metrics/prometheus.go`) | none | `Query` | an HTTP API |
| ECS adapter (`adapter/ecs.go`) | none | `GetCurrentCounts` in batches of ten, `GetCurrentCount`, `Scale`, `HealthCheck` | ECS API |
| Memory adapter (`adapter/memory.go`) | a map behind a lock | the same | - |
| Schedule (`schedule/schedule.go`) | none | `GetActiveBounds` | - |
| Configuration (`config/config.go`) | none | parsing, defaults, `validate`, `BuildServices`, `MetricRetention` | builds everything |
| HTTP server (`server/server.go`) | the cached result of the last health check | `/healthz`, `/readyz`, `/metrics` | checks the adapter |
| Life cycle (`cmd/ninjascale/main.go`) | a context, deferred stops | `run` | starts and stops everything |

Only memory is used: a restart forgets cooldowns, cutoffs and history.

What is hard, and what makes each part correct:

* **Reconciler.**  The goroutine is sequential, but the clock, the platform, the outcome of a call, the context and the process itself change between any two of its steps.  It reads the clock separately for the evaluation and for the cooldown, uses counts read once per tick, and stamps an event with the time before the call was made.  *Correct* means: every count asked for is backed by the policies or forced by a bound; it lies within the bounds in force; of any three scales in one direction, the second successful, the last takes effect a cooldown after the first (two alone may be closer, see section 5); nothing but a successful scale holds a service back; a tick that could read the counts gets to every service; a done context stops the loop; a steady opinion is reached at last.
* **Windows and history.**  Samples arrive late, twice, out of order and while a window is being judged; old ones are pruned with clocks that run ahead of the evaluation time.  *Correct* means: a breach found in what is left is a breach of all that was observed; the retained interval is long enough to find every one; a scale makes all windows start over; a window that cannot be judged holds the count.
* **Store.**  `Add` reads the clock before it takes the lock, so goroutines insert, prune and evict with times others have left behind.  *Correct* means: slices stay sorted (binary searches rely on it), the limits hold, a snapshot has no hole, and samples leave oldest first, for their age or for want of room only.
* **ECS adapter.**  Counts of different batches are of different moments, services come and go.  *Correct* means: each identifier is read as if atomically, in batches that are the request cut into pieces, none missing.
* **Health cache.**  Overlapping probes check without a lock and store in another order; a client that gives up makes the shared check fail.  *Correct* means: an answer is not behind the platform for longer than the cache's lifetime and a check, and settles on the truth.
* **Schedule.**  An entry is matched by the minute and the weekday of its zone, its end minute included; it may span midnight, its fields are two digits that nothing keeps below 24 and 60, its counts are not validated, and the zone's clock is put forward and back.  *Correct* means: the bounds in force are those of the first entry whose span, walked around the clock, meets the minute; they change only where a span begins or ends, at midnight or when the clock is changed.
* **Configuration.**  Four places a document may come from, defaults told from explicit zeros by pointers in some fields and by the value 0 in others, names that are scoped to their service.  *Correct* means: the first source that is set counts even when it is broken; what a service says for itself is what it runs with; services do not influence each other's validity; what is accepted is what the other parts take for granted.
* **Receiver and sources.**  Every export is a goroutine that calls `Add` for each point and each binding while others do the same; points may have no value, no time, a time out of range, or attributes that match several selectors or none.  *Correct* means: an answered export has reached every key it is bound to and no other, but for what the store must refuse; one query's failure costs no other query its sample.
* **Life cycle.**  A signal may come at any moment; ports are taken by goroutines of their own; the servers are stopped gracefully, one after the other.  *Correct* means: no export is accepted before all bindings are registered or cut off by the exit, and a signal ends the process.

## 2. Modules

    Schedules                                  MetricHistory  (promise)
        |                                           ^ ImplementsHistory
    Configuration   document to services       MetricStore    (implementation of one,
                                                    ^          promise to the other)
    Reconciler      the loop                        | ImplementsStore
        |                                      Intake         receiver, poll, life cycle
    ScaleHistory --+
       effects     +-- Autoscaler
    Windows -------+   loop + history          CountReader    (promise)
       policies                                     ^ ReadsEachIdentifier
                                               ECSAdapter     (implementation)
    HealthServer   /readyz

| Module | Models | State and actions |
| --- | --- | --- |
| `Reconciler` | `reconciler.go` | `phase` is where the goroutine stands.  `StartTick`, `Stop`: the two cases of `Run`'s select.  `FetchCounts`/`FetchFails`: `GetCurrentCounts` for all services.  `BeginService`: the clock is read into `now`.  `Evaluate(said)`: policies, merge, clamp, the two early returns.  `CooldownBlocks`, `DryRunScale`, `IssueScale`: the three ways on from the cooldown test.  `ScaleTakesEffect`, `ScaleSucceeds`, `ScaleFails`: the platform's update and the return of the call, which may be an error after the update.  `Leave`: the end of `reconcileService`.  `Advance`, `OutsideChange`, `Cancel`, `Restart`: the environment.  What the policies say is a parameter of `Evaluate` |
| `ScaleHistory` | the effects of the loop's calls on the platform | extends `Reconciler` with a history of when each `Scale` took effect, which no step reads: `Effect`, `Success`, `Failure`, `DryRunReport` are the steps of a scale together with what is remembered of them |
| `Windows` | `CompleteBuckets`, `WindowPolicy`, `TargetPolicy` | constant operators: bucket arithmetic, the status of a window, breach, opinion |
| `Autoscaler` | loop, policies and history together | extends `ScaleHistory`; `store` is the history, `Observe` is `Add`, `EvaluatePolicies` takes a pruning snapshot and feeds `Windows`' opinions to `Evaluate`.  All steps of the loop are there, the dry run included, but for the cancellation of the context.  Ghosts: the complete history and the moment a successful call took effect |
| `MetricHistory` | the documented promise of the store | a history per key that forgets oldest first |
| `MetricStore` | `store.go` | `BeginAdd` (clock and validation, no lock), `FinishAdd` (insert, prune all, limits, under the lock), `Snapshot`.  Ties between globally oldest samples are broken any way, as Go's map order does |
| `CountReader` | the promise of `Adapter.GetCurrentCounts` for one identifier | `Begin`, `Read`, `Return`, `Fail`, `Change` |
| `ECSAdapter` | `GetCurrentCounts`, `currentCount` and `Scale` of `ecs.go` | `Begin`, one `DescribeBatch` per API call, `DescribeFails`, `Finish`; `Scale` with its conversion to 32 bits; `Update` for anyone else's write at any time, `Deploy` for tasks that start and stop, so that the running count lags behind the desired one |
| `Schedules` | `schedule.go` | constant operators: the local time of a zone, spans, `GetActiveBounds`; and `Walk` and `Covers`, what a span means |
| `Configuration` | `config.go`, the first half of `main.go` | `Load`/`LoadFails` choose and decode the document, `Default` is `applyDefaults`, `Validate` is `validate`, `BuildAll`/`BuildFails` are `MetricRetention`, `BuildServices` and what else may fail at start-up; then `Minute` passes and the schedules are asked |
| `Intake` | `otlp.go`, `prometheus.go`, `pollPrometheusMetrics`, `run` of `main.go` | extends `MetricStore`, whose adders are the handlers of the receiver and the loop.  `RegisterBinding`, `Start`/`StartFails`, `ListenAndServe`: start-up.  `Receive`, `ProcessMetric`, `AddNext`, `Answer`: one export, whose `todo` holds the pairs of a point and a binding that are still to be looked at, in the order of the two loops.  `Tick`, `Query`, `Decide`, `EndTick`: the loop as the store sees it.  `Signal`, `Return`, `Stop`, `GrpcStopped`, `Exit`: the end |
| `HealthServer` | `getCachedHealth` of `server.go`, `HealthCheck` of `ecs.go` | `AnswerFromCache`, `BeginCheck`, `PlatformAnswers`, `CheckReturns`, `CheckFails`, `Store`, and `Tick`, and `Flip` for a cluster that changes its status or disappears |
| `MC*` | - | values of the constants for TLC |
| `MaxLemmas`, `*_proofs` | - | lemmas and theorems |

Abstractions, and why they are harmless:

* Time is a number of ticks since Go's zero time; 0 is `time.Time{}`.  The code only compares, subtracts and truncates times.  The clock of a model never runs backwards (Go's monotonic clock).
* `FetchCounts` is one step although `GetCurrentCounts` takes one API call per ten services.  `ReadsEachIdentifier` is the justification, one identifier at a time; with more than ten services the counts of one tick are no simultaneous picture, and no property speaks of two counts together.  A platform without failures and with `TakesNegative` is also the memory adapter, whose `Scale` stores any count, negative ones too (a schedule's counts are not validated); ECS refuses those.
* The expression of a target policy is the value of its metric, and in `Configuration` the set of names it refers to; parsing, type checking and evaluation belong to a library.  YAML is `Decode`: the one thing it does that matters is to leave zero values behind.
* In `Intake` a request is what arrives whole: bodies that cannot be read, encodings and their error replies change nothing.  The receiver is enabled (without it only the poll is left, which the same run contains).  Warnings and tokens of a Prometheus source are left out.
* In `Configuration` a source, a metric and an expression keep the fields that validation looks at; regions and addresses are either empty or not.
* The exported metrics and the log are left out: nothing reads them back.
* In `Autoscaler` each service has one metric and the store is a function of time; slices, lock and limits are `MetricStore`'s.  A `Prometheus` poll is an `Observe` like any other: its `Add` may happen at that place too.
* The model of the cache keeps ages instead of times and stops counting them where nothing depends on them; storing a result takes no time.
* Values of samples are few: only how they compare with a threshold matters.

Ghost variables (`lastEvent`, `outside`, `effect`, `latest`, `earlier`, `accepted`, `effective`, `arrivals`, `results`, `steady`, `described`, `asked`) are written and never change what the actions that model code do.  (`MaxSamples` bounds `accepted`, and with it the samples of a run.)

## 3. Runs

All runs together take ten to fifteen minutes; `windows`, the longest, two to four.  `run` is the configuration `MC<module>_<run>.cfg`.

| Run | Shows |
| --- | --- |
| ScaleHistory `one` | One service, two policies, opinions below, at and above the bounds, a schedule whose entries narrow, invert and negate them, on a platform that takes negative counts; slow and failing calls, outside writes, cancellation, and one restart, after which the process runs dry: `LoopInvariant`, `ScaleIsJustified`, `WithinActiveBounds`, `CutoffIsLastScale`, `DryRunOnlyWatches`, `CooldownBetweenEffects` |
| Reconciler `live` | Two services in one tick, others writing the platform, a restart into a dry run: `DecidedOnFreshCount` (a count read at the start of the tick is the platform's until someone else writes it), `BlockedOnlyAfterSuccess` (nothing but its own success holds a service back), `EveryServiceServed` (a tick that could read the counts gets to every service) and `CancelStops` under the fairness of the Go runtime, and `Converges` for a platform whose calls succeed at last and a process that is not restarted as a dry run |
| `unanimity` | *violated*: `DownscaleNeedsAllPolicies` |
| Autoscaler `windows` | One-tick and two-tick buckets and a target policy on one metric; samples late by one tick or by as much as is retained, several in a bucket, gaps, samples that are forgotten or refused for their age, several scales in a row, a cooldown, a restart into a dry run: `StoreIsRecentHistory`, `BreachIsSustained`, `RetentionCoversWindows`, `WindowsStartOver`, `HoldGatesDownscale` |
| `straddle` | *violated*: `NoPreScaleSampleReused` |
| MetricStore `limits` | Two goroutines and two series that age, are replaced and reach both limits: `StoreInvariant`, `LimitsRespected`, `SnapshotHasNoHoles`, `SnapshotIsRecentHistory`, `ImplementsHistory` |
| `evicted` | *violated*: `LatestRemains` |
| Intake `intake` | One export over each server, two bindings of one metric with a selector and without, two queries, from start-up to exit, with samples that expire within a tick, so that slow exports and polls come too late: `IntakeInvariant`, `SeriesStayApart`, `AnsweredIsStored`, `PollIsComplete`, `SignalEnds`, and `ImplementsStore` |
| Configuration `settings` | Every source of the document present, absent or broken; documents that deviate from a valid one in their counts, cooldowns, windows, bindings, names and schedules; a short week of minutes: `StartUpInvariant`, `LoopMayStart`, `ExplicitWins`, `ServicesApart`, `BoundsAreOfFirstSpan`, `BoundsChangeAtBoundaries` |
| `partial` | *violated*: `DefaultsInherited` |
| HealthServer `probes` | Two clients, checks that overlap and fail, a cluster that becomes inactive, loses its status or disappears: `HealthInvariant`, `AnswersCatchUp`, `AnswersSettle` |
| ECSAdapter `batches` | All lists of up to five names in batches of two, counts around the range of the API's integer: `BatchesPartitionTheRequest`, `NothingIsMissing`, `ReadsEachIdentifier`, `ScaledCountIsRead` |

Every property of a passing run is violated when one definition is replaced by a plausible bug; the modules keep those next to the definitions they vary ("A mutated ...").

### Bounds

* `MaxTime`: 2 to 8 ticks.  A window is one or two buckets of one or two ticks and a cooldown up to three ticks, so that one reconciliation, a scale, its cooldown and the next scale fit.
* `windows` (about 5,200,000 states): the retained interval is that of the longest window and its two buckets of slack, 2 + 2 * 2 = 6 ticks, and time runs to 8.  At time 7 the cut is at 1, where nothing is lost yet; at time 8 it is at 2, so samples of time 1 are forgotten by `Observe` and by the snapshot (the store then differs from `accepted`), windows are judged with part of the history gone, and a sample of time 1 that comes at time 8 is refused.  With one bucket of slack less, the cut reaches a window that is judged with an earlier `now`, and `RetentionCoversWindows` fails: that is its mutant.  `Lags` are 0, 1, 6 and 7: on time, one tick late (after a later sample, and after the bucket it belongs to was judged), and at the end of the retained interval and past it.  `MaxSamples` is 4: the samples of two windows.  The `VIEW` leaves out the history of effects, which no step and no property of that run reads.  In `straddle` time runs to 8 too, with lags up to 1 and one policy.
* `Horizon`: outside writes stop at this time; needed for `Converges` (they must stop for a count to stay), elsewhere it limits the state space.
* `MaxRestarts` is 1: a second restart starts from the same state as the first.
* `MaxCount` is 2 or 3, `Opinions` reach from below zero to beyond the bounds.
* `RetentionFloor` is 0, not 30 s, so that the computed retention is what is tested.
* `MaxPerSeries`, `MaxTotal`: two and three samples in `limits`, with an age of one tick and four ticks of time, so that samples leave for every reason; two goroutines are enough for one to be left behind.
* `intake` (about 460,000 states): two ticks of time and `Retention` 0, so that a sample is accepted in the tick of its time only: an export received or a poll begun in the first tick whose samples reach `Add` in the second comes too late, and a late point is accepted or refused depending on when it comes; the store forgets in this run as well.  `MaxStamp` is 3, so that times can be 0, old, in the future, the largest and one past it.  One export over each server: a point that only one of two selectors wants, and over the other server either a late point or everything that has to be skipped.  The store's limits are not reached: that is `limits`' subject.
* `settings`: an hour of two minutes, a day of three hours, a week of two days, 14 minutes, so that a week begins again; fields up to 3, past the last minute of an hour and the last hour of a day; a zone one hour ahead of UTC, two from the ninth minute on (it is put forward, never back).  Every pair of fields is tried as start and end of an entry, on every set of days.
* `batches`: a two-bit integer and targets from -1 to 4: in range, negative, the first one past the range and one that wraps around to zero.
* `BatchSize` is 2 and lists have up to five names: none, one, exactly one or two batches, one more than that, and names that repeat within and across batches.
* `TTL` and `CheckTimeout` are 3 and 2, so that a check can outlive a change and a cached result can outlive a check; two changes of the cluster and one failed check.

`CHECK_DEADLOCK FALSE` stands only where the system really ends: a stopped loop (Reconciler), an exited process (Intake), a refused document and the last minute (Configuration).

### Fairness

`LoopFairness` is what the Go runtime gives: a goroutine that can run does (`WF(Loop)`), a select with two ready cases picks each sooner or later (`SF(Stop)`), and the clock runs (`WF(Advance)`).  It includes that calls return, with or without an error: the code sets no deadline of its own.  `FairSpec` is the loop with this fairness and nothing else, and `EveryServiceServed` and `CancelStops` are checked under it.  `EveryServiceServed` is therefore about ticks that could read the counts: one permanently missing ECS service fails `GetCurrentCounts` for all (`ecs.go:99`), every tick ends before the first service, and no property says otherwise.  `PlatformFairness` is an assumption on the platform, not on the code: a call made again every tick succeeds at last (`SF`).  It is the antecedent of `Converges` and used nowhere else.  `IntakeFairness` asks of the handlers and of main that they run (`WF`) and of the store's lock that it is handed on.  `Return` needs `SF`: it is one of two ready cases of the select, and a tick disables it for as long as it takes.  It includes that requests which have arrived are worked off, and that a query returns; the loop's context is cancelled by then.  Nothing is asked of clients, of the ticker, or of the HTTP port, which may never be taken.  For the health server, clients keep asking and handlers run (`WF(Request(p))`), time passes (`WF(Tick)`), and failed checks and changes of health are bounded in number.

## 4. Proofs

TLAPS checks the theorems for every value of the constants that satisfies the modules' `ASSUME`s: sizes are naturals, opinions and a service's own bounds are integers in range, a schedule's counts any integers up to the same size, cooldowns any integers, negative ones included (`config.validate` does not refuse them), limits positive, the set of keys finite (the configuration names them).  Of the requests of `Intake` they say that points have times that are not negative and, in `AttributesAssumption`, that no two attributes of a point share a key, which OTLP demands of its clients; only `AnsweredStored` needs it, because the code looks at the first attribute with a key and the document speaks of any.

| Theorem | States |
| --- | --- |
| `Reconciler_proofs`: `LoopInvariantHolds`, `TypeCorrect` | the inductive invariant of the loop |
| `ScaleJustified`, `BoundsHonoured` | `ScaleIsJustified`, `WithinActiveBounds` |
| `CutoffCorrect` | `CutoffIsLastScale` |
| `CooldownOnlyAfterSuccess`, `EffectsApart` | `BlockedOnlyAfterSuccess`, `CooldownBetweenEffects` |
| `CountIsFresh`, `DryRunWatches` | `DecidedOnFreshCount`, `DryRunOnlyWatches` |
| `Autoscaler_proofs`: `AutoscalerIsReconciler` | `SpecAll => Spec /\ SpecHistory`: the loop on metrics implements the loop with arbitrary opinions and its history of effects, whose theorems therefore hold of it |
| `StoreRecent`, `BreachSustained`, `RetentionCovers` | `StoreIsRecentHistory`, `BreachIsSustained`, `RetentionCoversWindows` |
| `WindowsStart`, `HoldGates` | `WindowsStartOver`, `HoldGatesDownscale` |
| `MetricStore_proofs`: `StoreInvariantHolds`, `AlwaysSorted`, `WithinLimits` | `StoreInvariant`: slices typed, sorted and true to what was accepted, losses with a reason; `LimitsRespected` |
| `SnapshotsAnswer`, `NoHoles`, `RecentHistory` | a snapshot always has an answer; `SnapshotHasNoHoles`, `SnapshotIsRecentHistory` |
| `StoreImplementsHistory` | the refinement of `MetricHistory` |
| `HealthServer_proofs`: `HealthInvariantHolds`, `AnswersCatchUpHolds` | how far an answer may be behind |
| `ECSAdapter_proofs`: `NothingMissing`, `IdentifiersReadAtomically`, `ScaledIsRead`, `BatchesPartition` | completeness, the refinement of `CountReader`, that a count in range survives the conversion, and that the batches are the request cut into pieces |
| `Configuration_proofs`: `StartUpHolds`, `ExplicitHolds`, `MayStart`, `ServicesAreApart` | `StartUpInvariant`, `ExplicitWins`, `LoopMayStart`, `ServicesApart` |
| `FirstSpan`, `ChangesAtBoundaries` | `BoundsAreOfFirstSpan`, `BoundsChangeAtBoundaries` |
| `Intake_proofs`: `IntakeImplementsStore`, `StoreOfIntake` | the refinement of `MetricStore`, and with it the store's invariant in the whole program |
| `IntakeKeepsHistory` | the promised history and its snapshots without holes, in the whole program |
| `NothingCutOff`, `PollsAreComplete` | `IntakeInvariant`, `PollIsComplete` |
| `SeriesApart`, `AnsweredStored` | `SeriesStayApart`, `AnsweredIsStored` |

* **The loop.**  The properties are not inductive: `CutoffIsLastScale` survives `recordScaleEvent` only because the stamp written is the later of the two, that is, because no recorded time is past `now`.  `LoopInvariant` says so: recorded times are at most `clock`, while a service is decided they are at most `now`, and they are those of successful calls (`lastScale = lastEvent`).  `ScaleIsJustified` and `WithinActiveBounds` are established by `Evaluate` (lemmas on `ComputeDesired` and `Clamp`) and kept by every step until the service is left.
* **The effects.**  The loop compares its clock with the *start* of the last successful reconciliation, and a `Scale` takes effect later than it is decided.  `HistoryInvariant` puts the effects in order: what took effect before a successful scale was decided (`earlier`) is no later than the start of that reconciliation (`lastScale`), because calls are made one after the other; a call in flight was made after its cooldown test, so its effect is at least a cooldown after that start.  `CooldownBetweenEffects` is the sum of the two distances.  `RememberKeeps` and `EffectsStay` carry the invariant over the end of a call, which may report anything.
* **The counts of a tick.**  `FreshInvariant` extends `DecidedOnFreshCount` from the service at hand to all that are still to come in the tick: for each of them the count read is the platform's, or someone outside wrote it, or an earlier service has the same identifier.
* **The autoscaler.**  `AutoscalerInvariant` adds to `LoopInvariant` that the store is the recent part of the history (`RecentPart`, kept by `Insert`, by `Prune` and by time).  With it every snapshot has typed samples, so that what the policies say is one of the answers module `Reconciler` chooses from; each step is then a step of the loop or a stutter, and the loop's invariant comes for free.  `BreachShowsAll` and `SustainedShows` relate the code's bucket numbers to aligned intervals (`BucketsOfWindow`, `WindowHasBucket`: arithmetic with `%` and `\div`) in both directions; the second needs that `MetricRetention`, the largest of a finite set (`MaxOfFinite`), exceeds every window by two buckets.  `WindowsStartOver` follows because a complete window starts after the cutoff, which `CutoffIsLastScale` makes the later of both timestamps, and `HoldGatesDownscale` because a downscale has every opinion behind it.  `ReachAssumption` keeps what the policies can ask for inside the model's bound on opinions.
* **The store.**  What a snapshot shows depends on what earlier critical sections, running with other times, have taken, so the invariant has to remember why a sample is gone.  `GoneForAReason` does: it is past the retained interval, or its series is full of later samples, or the store is full and holds nothing older.  The reason has to *stand*: a later insertion may push out what filled the store, but only for something later still (`ReasonsStand`).  The other half of `StoreInvariant` is that the latest sample of a series stays while no limit is reached.  Three layers lead to it: the slices (`Search` splits a sorted slice at the time sought; insertion, pruning, the cut to a series' limit and eviction then return sorted slices, and `HeldOfSlice` relates slices to histories); the total (`CountSplit`, `CountMonotone`, `CountRenamed`: cardinalities of disjoint unions instead of sums over the keys; `DropsExist`: as long as there are too many samples there is an oldest to take, so eviction ends); and one critical section (`Section`, `CriticalSection`), which `FinishAdd` and `Snapshot` share.  The limits and both snapshot properties follow from the invariant, because a snapshot is one more critical section that nobody has to take; the refinement of `MetricHistory` follows from `Section` alone: what goes is the oldest of its series and goes for its age or for want of room.
* **The cache.**  `HealthInvariant` bounds how long ago the platform last changed (`steady`) by the age of whatever contradicts it: a result found and not stored yet is no older than its check, a cached one no older than the cache plus a check.  When `steady` reaches the sum nothing can contradict it.
* **The reader.**  `ReadInvariant` (in the proof module): what has been read belongs to the request, and a call is `done` only when nothing is missing.  Each step then is a step or a stutter of `CountReader` for every identifier.

* **Wrapping.**  `Int32InRange` and `Int32Keeps`: the conversion always lands in the range and is the identity on it; `ScaledIsRead` adds to `ReadInvariant` that a service nobody else wrote holds the converted count.
* **The configuration.**  `StartUpInvariant` ties each stage to the chosen document; it is inductive once it is known that decoding and filling keep a document a document, which is most of the proof.  `ExplicitWins` then follows from the definitions of `Filled` and `Build`.  `LoopMayStart` needs one more conjunct, that `retention` is `MetricRetention(config)`, and unfolds `Valid`; the finiteness of the set of windows, again, makes the maximum one.  `FirstSpan` rests on arithmetic: on a walk of `(end - start) % DayLength` steps a minute is met exactly when `InSpan` says so, whether the walk passes midnight or not, and with fields that the clock never shows it is one of the three cases of `Covers`.
* **The intake.**  The refinement is proved step by step: every action is a step of the store or leaves it alone, because `AddNext` and `Query` offer a sample only when `Accepts` holds at that moment.  `IntakeInvariant` is inductive once the types of the bindings and the exports are added (`Ordered`).  For `PollIsComplete` the invariant `PollInvariant` follows each answer from its query through `adding` into `accepted`, or past its expiry.
* **The routing.**  `ExportsInvariant` says that what an export still has to look at comes from its own request and pairs points with bindings of their metric's name.  `SeriesStayApart` speaks of what has really been heard: exports received with their times (`arrivals`), and which query returned what for which time (`results`).  It is inductive together with the same statement on the calls under way (`MeantInvariant`), that an export under way is one that arrived (`ArrivalsInvariant`), and that nothing heard is forgotten (`HeardStays`, `MeantStays`).  `AnsweredIsStored` needs `ReachedInvariant`: whatever is wanted of the metrics taken so far is stored, on its way, expired, from the future, or still in `todo`; at the answer the last is empty, and the handler has no call under way.  Underneath, `PairsSpec` shows that the two nested loops meet every pair (division with rest), `SelectedSpec` that the bindings of a name are exactly those registered under it, and `RoutedIsWanted` and `WantedIsRouted` that the code's first-attribute search is the matching `README.md` promises.

`LeastNatural`, that a set of naturals with an element has a least one, is how these modules argue by induction: `DropsExist` and `SelectionExists` look at the smallest counterexample.

Only model-checked: liveness (`EveryServiceServed`, `CancelStops`, `Converges`, `AnswersSettle`, `SignalEnds`), which is beyond the prover, and the four runs that end in a violation.  Every invariant and every action property of a passing run, and each of the three refinements of an abstract module, is a theorem.

## 5. Where code and documents differ

* `unanimity`: a policy whose evaluation fails or that returns no decision is left out (`reconciler.go:207`, `:215`), and the rest may scale down; the comment of `computeDesired` (`:303`) speaks of all policies.
* `straddle`: the cutoff is the time at which the reconciliation *began* (`reconciler.go:171`, `:285`), so a bucket that starts there may hold a sample observed before the scale took effect, against the comment at `:366`.
* `evicted`: the limit on the total takes even the only sample of a series (`store.go:224`), against the repository's `README.md:167`; a target policy on that metric then fails, although the line goes on that an eviction can only make a window incomplete.
* `partial`: a service that sets one half of its cooldown gets zero for the other (`config.go:215`), not the default that `README.md:48` promises to whatever is not overridden.

The repository's `README.md:53` and `:55` call a cooldown the "minimum time between consecutive scale-up actions" (and scale-down).  The code measures it from the start of the reconciliation that scaled (`reconciler.go:171`, `:285`) to the next cooldown test, and only for a `Scale` that returned no error (`:278`).  On the platform two consecutive scales are therefore closer than the cooldown when the first took long, and as close as two ticks when the first took effect and reported an error.  What the code does guarantee is `CooldownBetweenEffects`: of three such scales, the second successful, the last takes effect at least a cooldown after the first.

Modelled as it is, and worth knowing: a failed `Scale` that took effect starts no cooldown; a restart forgets every cooldown; the memory adapter takes negative counts; without any decision the bounds are not enforced; services that share an identifier overwrite each other; a schedule entry with its minimum above its maximum makes `clamp` return either; one missing ECS service ends the tick for all; a count above 2^31-1 wraps around in `Scale`, which reports success; a default that is explicitly 0 becomes the built-in one; a negative `reconcile_interval` is accepted and panics in the ticker; a graceful stop has no deadline, and a second signal is swallowed while it waits; a schedule entry that spans midnight needs both weekdays listed; the gauge `ninjascale_cooldown_active` stays at 1 until the next attempt to scale.

## 6. Plan

Done, in this order: `Reconciler` (the most important behaviour), `ScaleHistory` and their proofs; `Windows` and `Autoscaler`; `MetricStore` against `MetricHistory` and its invariant proved; `HealthServer`; `ECSAdapter` against `CountReader`; `Schedules` and `Configuration` with their proofs; `Intake` against `MetricStore`, proved; `Autoscaler` proved, and shown to implement `Reconciler`; and `MetricStore` and `Intake` proved completely.

What is left: `Autoscaler`'s history is a function of time, with one metric a service.  That a snapshot of `MetricStore` is such a history while no limit is reached is what `RecentHistory` says, read next to `StoreRecent`; composing the two modules, and with them windows on a store that is full, is the next step.

### Not modelled

The expression language, YAML, HTTP, gRPC and AWS libraries: third-party code, which the modules use as the program does.  The exported metrics, `/healthz` and the log: nothing in the program reads them back, and no property could tell them apart (this is why the HTTP server counts as partly modelled).  The command line, but for the dry-run flag.
