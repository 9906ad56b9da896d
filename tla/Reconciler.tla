----------------------------- MODULE Reconciler -----------------------------
(***************************************************************************)
(* The reconciliation loop of internal/reconciler/reconciler.go: one       *)
(* goroutine that, on every tick, reads the current counts of all services *)
(* in one call and then decides, service by service, whether to ask the    *)
(* platform for another count.                                             *)
(*                                                                         *)
(* The goroutine is sequential, but everything around it moves between two *)
(* of its steps: the clock (which it reads separately at the start of a    *)
(* service, for the cooldown and in the metric store), the count on the    *)
(* platform (operators and other controllers write it), the answer of a    *)
(* call (a Scale that reports an error may have taken effect), the         *)
(* cancellation of the context, and a restart of the process, which        *)
(* forgets every cooldown and cutoff.                                      *)
(*                                                                         *)
(* A policy is what it says about the current count: Evaluate takes the    *)
(* opinion of every policy as a parameter.  Next lets them be arbitrary;   *)
(* module Autoscaler computes them from the metric history.                *)
(*                                                                         *)
(* Time is a number of ticks since Go's zero time; 0 is time.Time{}, which *)
(* the code tests with IsZero.                                             *)
(***************************************************************************)
EXTENDS Integers, FiniteSetsExt

CONSTANTS
  NumServices,   \* services are visited in configuration order 1..NumServices
  Identifiers,   \* the names the platform knows
  Identifier,    \* Identifier[s]: the platform name of service s
  Policies,      \* Policies[s]: the policies of service s
  Opinions,      \* counts a policy may ask for; a window may go below zero
  NoOpinion,     \* a nil decision, or an evaluation error
  Silent,        \* may a policy have no opinion at all (BOOLEAN)
  Bounds,        \* Bounds[s]: configured [min, max] of service s
  Schedule,      \* Schedule[s][t]: bounds of the entry active at t, or NoMatch
  NoMatch,
  Cooldown,      \* Cooldown[s][dir]
  DryRun,        \* DryRun[i]: is the dry-run flag set after i restarts
  TakesNegative, \* does the platform take a negative count: the memory adapter does
  MaxCount,      \* bound: largest count anyone puts on the platform
  MaxTime,       \* bound: the clock stops here
  Horizon,       \* bound: nobody else changes the platform after this time
  MaxRestarts    \* bound: restarts of the process

Services == 1..NumServices
Directions == {"up", "down"}
BoundPairs == [min : 0..MaxCount, max : 0..MaxCount]

\* The counts of a schedule entry are never validated: they may be negative, the
\* minimum above the maximum, and one that is left out is 0.
Limits == -MaxCount..MaxCount
\* The counts a platform may hold.
Counts == IF TakesNegative THEN Limits ELSE 0..MaxCount
EntryPairs == [min : Limits, max : Limits]

ASSUME SizeAssumption ==
  /\ NumServices \in Nat \ {0}
  /\ {MaxCount, MaxTime, Horizon, MaxRestarts} \subseteq Nat
  /\ MaxTime > 0
  /\ DryRun \in [0..MaxRestarts -> BOOLEAN]
  /\ {Silent, TakesNegative} \subseteq BOOLEAN

ASSUME ConfigAssumption ==
  /\ Identifier \in [Services -> Identifiers]
  /\ DOMAIN Policies = Services
  /\ Opinions \subseteq (-2 * MaxCount)..(2 * MaxCount)
  /\ NoOpinion \notin Opinions
  /\ NoMatch \notin EntryPairs
  /\ Bounds \in [Services -> BoundPairs]
  /\ Schedule \in [Services -> [0..MaxTime -> EntryPairs \cup {NoMatch}]]
  /\ Cooldown \in [Services -> [Directions -> Int]]

VARIABLES
  clock,      \* r.clock
  phase,      \* where the loop's goroutine is
  svc,        \* the service being reconciled
  now,        \* reconcileService's now, read once at its start
  counts,     \* the answer of GetCurrentCounts, for the whole tick
  opinions,   \* what every policy of svc said
  desired,    \* the count computed for svc
  platform,   \* the desired count the platform holds, by identifier
  lastScale,  \* serviceState's lastUpscaleTime and lastDownscaleTime
  cutoff,     \* resetCutoff of the window policies of a service
  cancelled,  \* is the context done
  restarts,   \* restarts so far
  outside,    \* ghost: identifiers others wrote since the counts were read
  lastEvent   \* ghost: when the reconciliation began that scaled a service last

loopVars == <<svc, now, opinions, desired>>
stateVars == <<lastScale, cutoff, lastEvent>>
vars == <<clock, phase, loopVars, counts, platform, stateVars, cancelled,
          restarts, outside>>

Phases == {"fetch", "select", "begin", "evaluate", "cooldown", "scale",
           "applied", "stopped"}
Deciding == {"cooldown", "scale", "applied"}

Never == [up |-> 0, down |-> 0]
NoCounts == [id \in Identifiers |-> 0]

-----------------------------------------------------------------------------
(* The decision, as pure functions of what a service has been told.        *)

Current == counts[Identifier[svc]]
Direction == IF desired < Current THEN "down" ELSE "up"

\* The decisions that reach computeDesired: a policy that fails is skipped,
\* and so is one that returns no decision.
Decisions(said) == {said[p] : p \in DOMAIN said} \ {NoOpinion}

\* A mutated ComputeDesired: one policy is enough for a downscale.
ComputeDesiredWithoutUnanimity(current, decisions) ==
  LET highest == Max(decisions \cup {current})
      lower == {d \in decisions : d < current}
  IN  IF highest > current THEN highest
      ELSE IF lower = {} THEN current ELSE Max(lower \cup {0})

\* Scale-up wins; otherwise every decision must be below the current count
\* and the least aggressive of them is taken, but never below zero.
ComputeDesired(current, decisions) ==
  LET highest == Max(decisions \cup {current})
  IN  IF highest > current THEN highest
      ELSE IF \E d \in decisions : d >= current THEN current
      ELSE Max(decisions \cup {0})

\* A mutated Clamp: an upscale is not limited.
ClampBelowOnly(val, min, max) == IF val < min THEN min ELSE val

Clamp(val, min, max) ==
  IF val < min THEN min ELSE IF val > max THEN max ELSE val

\* The bounds of the schedule entry active at t replace the configured ones.
ActiveBounds(s, t) == IF Schedule[s][t] = NoMatch THEN Bounds[s] ELSE Schedule[s][t]

DesiredFor(said) ==
  LET active == ActiveBounds(svc, now)
  IN  Clamp(ComputeDesired(Current, Decisions(said)), active.min, active.max)

\* A mutated CanScale: the other direction's timestamp is compared.
CanScaleByOtherDirection(s, dir, current, t) ==
  LET other == IF dir = "up" THEN "down" ELSE "up"
  IN  \/ current = 0 /\ dir = "up"
      \/ lastScale[s][other] = 0
      \/ t - lastScale[s][other] >= Cooldown[s][dir]

\* A mutated CanScale: the comparison with the cooldown is the wrong way round.
CanScaleWhileRecent(s, dir, current, t) ==
  \/ current = 0 /\ dir = "up"
  \/ lastScale[s][dir] = 0
  \/ t - lastScale[s][dir] <= Cooldown[s][dir]

\* Is service s out of its cooldown at t?  Scaling up from zero always is.
CanScale(s, dir, current, t) ==
  \/ current = 0 /\ dir = "up"
  \/ lastScale[s][dir] = 0
  \/ t - lastScale[s][dir] >= Cooldown[s][dir]

-----------------------------------------------------------------------------
Init ==
  /\ clock = 1
  /\ phase = "fetch"
  /\ svc = 1
  /\ now = 0
  /\ counts = NoCounts
  /\ opinions = << >>
  /\ desired = 0
  /\ platform \in [Identifiers -> 0..MaxCount]
  /\ lastScale = [s \in Services |-> Never]
  /\ cutoff = [s \in Services |-> 0]
  /\ cancelled = FALSE
  /\ restarts = 0
  /\ outside = {}
  /\ lastEvent = [s \in Services |-> Never]

Forget == /\ now' = 0
          /\ opinions' = << >>
          /\ desired' = 0

\* A mutated Leave: a service that is left ends the tick.
LeaveTick == Forget /\ svc' = 1 /\ phase' = "select"

\* A mutated Leave: the next tick does not start again at the first service.
LeavePastEnd ==
  /\ Forget
  /\ svc' = svc + 1
  /\ phase' = IF svc < NumServices THEN "begin" ELSE "select"

\* The end of reconcileService, whatever it returned: the loop of Tick goes on
\* with the next service, or Tick returns.
Leave ==
  /\ Forget
  /\ IF svc < NumServices
     THEN svc' = svc + 1 /\ phase' = "begin"
     ELSE svc' = 1 /\ phase' = "select"

\* A mutated RecordScaleEvent: only an upscale moves the policies' cutoff.
RecordScaleEventKeepingCutoff ==
  /\ lastScale' = [lastScale EXCEPT ![svc][Direction] = now]
  /\ cutoff' = IF Direction = "up" THEN [cutoff EXCEPT ![svc] = now] ELSE cutoff
  /\ lastEvent' = [lastEvent EXCEPT ![svc][Direction] = now]

\* recordScaleEvent: the start of this reconciliation becomes the time of the
\* event, for the cooldown and for the cutoff of every policy of the service.
RecordScaleEvent ==
  /\ lastScale' = [lastScale EXCEPT ![svc][Direction] = now]
  /\ cutoff' = [cutoff EXCEPT ![svc] = now]
  /\ lastEvent' = [lastEvent EXCEPT ![svc][Direction] = now]

-----------------------------------------------------------------------------
(* Steps of the loop.                                                      *)

\* The ticker's channel is ready in Run's select.
StartTick ==
  /\ phase = "select"
  /\ phase' = "fetch"
  /\ UNCHANGED <<clock, loopVars, counts, platform, stateVars, cancelled,
                 restarts, outside>>

\* GetCurrentCounts answers for every service at once.
FetchCounts ==
  /\ phase = "fetch"
  /\ counts' = platform
  /\ outside' = {}
  /\ phase' = "begin"
  /\ UNCHANGED <<clock, loopVars, platform, stateVars, cancelled, restarts>>

\* A mutated FetchFails: the tick goes on with the counts of an earlier one.
FetchFailsButGoesOn ==
  /\ phase = "fetch"
  /\ phase' = "begin"
  /\ outside' = {}
  /\ UNCHANGED <<clock, loopVars, counts, platform, stateVars, cancelled, restarts>>

\* GetCurrentCounts fails for the whole batch: the tick ends.
FetchFails ==
  /\ phase = "fetch"
  /\ phase' = "select"
  /\ UNCHANGED <<clock, loopVars, counts, platform, stateVars, cancelled,
                 restarts, outside>>

\* reconcileService reads the clock once, before anything else.
BeginService ==
  /\ phase = "begin"
  /\ now' = clock
  /\ phase' = "evaluate"
  /\ UNCHANGED <<clock, svc, opinions, desired, counts, platform,
                 stateVars, cancelled, restarts, outside>>

\* Every policy is evaluated on one snapshot; `said` is what each answered.
\* Nothing is changed when nobody decides, or when the count is already right.
Evaluate(said) ==
  /\ phase = "evaluate"
  /\ IF Decisions(said) = {} \/ DesiredFor(said) = Current
     THEN Leave
     ELSE /\ phase' = "cooldown"
          /\ opinions' = said
          /\ desired' = DesiredFor(said)
          /\ UNCHANGED <<svc, now>>
  /\ UNCHANGED <<clock, counts, platform, stateVars, cancelled, restarts, outside>>

CooldownBlocks ==
  /\ phase = "cooldown"
  /\ ~CanScale(svc, Direction, Current, clock)
  /\ Leave
  /\ UNCHANGED <<clock, counts, platform, stateVars, cancelled, restarts, outside>>

\* A mutated DryRunScale: the call is made all the same.
DryRunScaleForReal ==
  /\ phase = "cooldown"
  /\ DryRun[restarts]
  /\ CanScale(svc, Direction, Current, clock)
  /\ platform' = [platform EXCEPT ![Identifier[svc]] = desired]
  /\ RecordScaleEvent
  /\ Leave
  /\ UNCHANGED <<clock, counts, cancelled, restarts, outside>>

\* A dry run reports the scale and records the event without calling the platform.
DryRunScale ==
  /\ phase = "cooldown"
  /\ DryRun[restarts]
  /\ CanScale(svc, Direction, Current, clock)
  /\ RecordScaleEvent
  /\ Leave
  /\ UNCHANGED <<clock, counts, platform, cancelled, restarts, outside>>

\* adapter.Scale is called ...
IssueScale ==
  /\ phase = "cooldown"
  /\ ~DryRun[restarts]
  /\ CanScale(svc, Direction, Current, clock)
  /\ phase' = "scale"
  /\ UNCHANGED <<clock, svc, now, opinions, desired, counts, platform,
                 stateVars, cancelled, restarts, outside>>

\* ... the platform acts on it: the memory adapter stores any count, ECS refuses a
\* negative one ...
ScaleTakesEffect ==
  /\ phase = "scale"
  /\ desired \in Counts
  /\ platform' = [platform EXCEPT ![Identifier[svc]] = desired]
  /\ phase' = "applied"
  /\ UNCHANGED <<clock, loopVars, counts, stateVars, cancelled, restarts, outside>>

\* ... and the call returns without an error,
ScaleSucceeds ==
  /\ phase = "applied"
  /\ RecordScaleEvent
  /\ Leave
  /\ UNCHANGED <<clock, counts, platform, cancelled, restarts, outside>>

\* A mutated ScaleFails: the cooldown is started before the error is looked at.
ScaleFailsRecorded ==
  /\ phase \in {"scale", "applied"}
  /\ lastScale' = [lastScale EXCEPT ![svc][Direction] = now]
  /\ cutoff' = [cutoff EXCEPT ![svc] = now]
  /\ Leave
  /\ UNCHANGED <<clock, counts, platform, lastEvent, cancelled, restarts, outside>>

\* or with one, whether or not the platform acted: nothing is recorded.
ScaleFails ==
  /\ phase \in {"scale", "applied"}
  /\ Leave
  /\ UNCHANGED <<clock, counts, platform, stateVars, cancelled, restarts, outside>>

\* A mutated Stop: the context is only looked at when the tick did nothing.
StopWhenUnscaled ==
  /\ phase = "select"
  /\ cancelled
  /\ lastEvent = [s \in Services |-> Never]
  /\ phase' = "stopped"
  /\ UNCHANGED <<clock, loopVars, counts, platform, stateVars, cancelled,
                 restarts, outside>>

\* Run's select sees that the context is done.  Nothing looks at it earlier.
Stop ==
  /\ phase = "select"
  /\ cancelled
  /\ phase' = "stopped"
  /\ UNCHANGED <<clock, loopVars, counts, platform, stateVars, cancelled,
                 restarts, outside>>

-----------------------------------------------------------------------------
(* Steps of everything else.                                               *)

Advance ==
  /\ clock < MaxTime
  /\ clock' = clock + 1
  /\ UNCHANGED <<phase, loopVars, counts, platform, stateVars, cancelled,
                 restarts, outside>>

\* An operator or another controller sets the count of an identifier.
OutsideChange ==
  /\ clock <= Horizon
  /\ \E id \in Identifiers, n \in 0..MaxCount :
       /\ platform' = [platform EXCEPT ![id] = n]
       /\ outside' = outside \cup {id}
  /\ UNCHANGED <<clock, phase, loopVars, counts, stateVars, cancelled, restarts>>

Cancel ==
  /\ ~cancelled
  /\ cancelled' = TRUE
  /\ UNCHANGED <<clock, phase, loopVars, counts, platform, stateVars, restarts,
                 outside>>

\* The process dies at any point and is started again: New makes an empty state
\* map, BuildServices policies without a cutoff, and Run ticks at once.
Restart ==
  /\ restarts < MaxRestarts
  /\ restarts' = restarts + 1
  /\ phase' = "fetch"
  /\ svc' = 1
  /\ Forget
  /\ counts' = NoCounts
  /\ lastScale' = [s \in Services |-> Never]
  /\ cutoff' = [s \in Services |-> 0]
  /\ lastEvent' = [s \in Services |-> Never]
  /\ cancelled' = FALSE
  /\ outside' = {}
  /\ UNCHANGED <<clock, platform>>

Answers == [Policies[svc] -> Opinions \cup (IF Silent THEN {NoOpinion} ELSE {})]

Loop ==
  \/ StartTick
  \/ FetchCounts
  \/ FetchFails
  \/ BeginService
  \/ \E said \in Answers : Evaluate(said)
  \/ CooldownBlocks
  \/ DryRunScale
  \/ IssueScale
  \/ ScaleTakesEffect
  \/ ScaleSucceeds
  \/ ScaleFails
  \/ Stop

Next == Loop \/ Advance \/ OutsideChange \/ Cancel \/ Restart

Spec == Init /\ [][Next]_vars

\* The goroutine runs and its calls return; a done context is chosen by the
\* select sooner or later, for select picks a ready case at random; the clock
\* runs on.
LoopFairness == WF_vars(Loop) /\ SF_vars(Stop) /\ WF_vars(Advance)

FairSpec == Spec /\ LoopFairness

\* Nothing in the code makes a call succeed.  Where a property needs a platform on
\* which calls that are made again and again succeed at last, it says so.
PlatformFairness == SF_vars(FetchCounts) /\ SF_vars(ScaleTakesEffect)

-----------------------------------------------------------------------------
(* Properties.                                                             *)

\* Every variable has its type.
TypeOK ==
  /\ clock \in 1..MaxTime
  /\ phase \in Phases
  /\ svc \in Services
  /\ now \in 0..MaxTime
  /\ counts \in [Identifiers -> Counts]
  /\ opinions = << >> \/ opinions \in [Policies[svc] -> Opinions \cup {NoOpinion}]
  /\ desired \in Limits
  /\ platform \in [Identifiers -> Counts]
  /\ lastScale \in [Services -> [Directions -> 0..MaxTime]]
  /\ cutoff \in [Services -> 0..MaxTime]
  /\ cancelled \in BOOLEAN
  /\ restarts \in 0..MaxRestarts
  /\ outside \subseteq Identifiers
  /\ lastEvent \in [Services -> [Directions -> 0..MaxTime]]

\* A cooldown only ever holds back a service that was scaled in that direction,
\* successfully, by this process and less than a cooldown ago: neither a failed
\* call, nor a scale in the other direction or of another service, delays one.
BlockedOnlyAfterSuccess ==
  (phase = "cooldown" /\ ~CanScale(svc, Direction, Current, clock)) =>
    /\ lastEvent[svc][Direction] # 0
    /\ clock - lastEvent[svc][Direction] < Cooldown[svc][Direction]

\* Every count asked for follows from the opinions or from the bounds: an upscale
\* goes no further than the highest opinion, or than zero from below it, a downscale
\* happens only when all opinions are below the current count and goes no lower than
\* any of them, unless the bound that is active forces more.
ScaleIsJustified ==
  phase \in Deciding =>
    LET active == ActiveBounds(svc, now)
        told == Decisions(opinions)
    IN  /\ told # {}
        /\ desired > Current =>
             \/ desired = active.min
             \/ \E d \in told : d >= desired
             \/ Current < 0 /\ desired <= 0
        /\ desired < Current =>
             \/ desired = active.max
             \/ \A d \in told : d < Current /\ d <= desired

\* The platform is only asked for counts inside the bounds that were active when
\* the reconciliation started; a schedule entry is not validated, and where its
\* minimum is above its maximum the count lies between the two.
WithinActiveBounds ==
  phase \in Deciding =>
    LET active == IF Schedule[svc][now] = NoMatch THEN Bounds[svc]
                  ELSE Schedule[svc][now]
        limits == {active.min, active.max}
    IN  desired >= Min(limits) /\ desired <= Max(limits)

\* The counts are read once per tick and used for every service after it: up to
\* the moment a Scale takes effect the service is decided on the count the
\* platform really has, unless someone outside wrote it since or an earlier
\* service of the tick shares the identifier.
DecidedOnFreshCount ==
  phase \in {"begin", "evaluate", "cooldown", "scale"} =>
    \/ Current = platform[Identifier[svc]]
    \/ Identifier[svc] \in outside
    \/ \E s \in 1..(svc - 1) : Identifier[s] = Identifier[svc]

\* The cutoff of a service's window policies is the time of its last recorded
\* scale event, in whichever direction.
CutoffIsLastScale ==
  \A s \in Services : cutoff[s] = Max({lastScale[s][d] : d \in Directions})

\* What holds between any two steps of the loop, and is enough to prove the
\* properties above: no recorded time lies in the future, a service is decided at
\* a time no recorded time is past, on opinions of its own policies, a call is
\* under way only for a service that was out of its cooldown, and the recorded
\* times are those of the calls that succeeded.
LoopInvariant ==
  /\ TypeOK
  /\ now <= clock
  /\ lastScale = lastEvent
  /\ \A s \in Services, d \in Directions : lastScale[s][d] <= clock
  /\ phase \in {"evaluate"} \cup Deciding =>
       /\ now > 0
       /\ \A s \in Services, d \in Directions : lastScale[s][d] <= now
  /\ phase \in {"scale", "applied"} => CanScale(svc, Direction, Current, clock)
  /\ phase \in Deciding =>
       opinions \in [Policies[svc] -> Opinions \cup {NoOpinion}]
  /\ CutoffIsLastScale
  /\ ScaleIsJustified
  /\ WithinActiveBounds

\* README.md: "Multiple policies: ..." and computeDesired's comment "only
\* downscale if ALL policies agree to downscale": a downscale the bounds do not
\* force has every policy of the service behind it.
DownscaleNeedsAllPolicies ==
  (phase \in Deciding /\ desired < Current /\ desired # ActiveBounds(svc, now).max)
    => \A p \in Policies[svc] : opinions[p] # NoOpinion /\ opinions[p] < Current

\* A dry run never writes the platform: only others do.
DryRunOnlyWatches ==
  [][DryRun[restarts] => (platform' = platform \/ OutsideChange)]_vars

\* A tick that could read the counts gets to every service, whatever the calls made
\* for the services before it return and also when the context is cancelled in the
\* middle of it, unless the process is restarted.
EveryServiceServed ==
  \A s \in Services, r \in 0..MaxRestarts :
    (phase = "begin" /\ svc = 1 /\ restarts = r)
      ~> (restarts > r \/ (phase = "evaluate" /\ svc = s))

\* Once the context is cancelled the loop stops, or the process is restarted.
CancelStops == cancelled ~> (phase = "stopped" \/ ~cancelled)

\* On a platform on which calls made again and again succeed at last, when every
\* policy keeps asking for one same count, the platform ends up with that count
\* within the bounds, or the loop was stopped or restarted as a dry run: no failed call,
\* no cooldown and no change from outside leaves a service at another count.
Converges ==
  (PlatformFairness /\ \A m, n \in Opinions : m = n) =>
    \/ <>cancelled \/ <>DryRun[restarts]
    \/ <>[](\A s \in Services, n \in Opinions :
              LET active == ActiveBounds(s, clock)
              IN  platform[Identifier[s]] = Clamp(n, active.min, active.max))
=============================================================================
