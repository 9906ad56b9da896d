----------------------------- MODULE Autoscaler -----------------------------
(***************************************************************************)
(* The reconciler at work on the metric history: module Reconciler with the *)
(* opinions computed by the policies of module Windows from a snapshot of   *)
(* the store.                                                               *)
(*                                                                         *)
(* Samples arrive through the receivers at any time between two steps of    *)
(* the loop, late or twice; the store forgets by age, when a sample is      *)
(* added and when a snapshot is taken, each time with a clock of its own.   *)
(* Here the store is a function per service (module MetricStore has its     *)
(* slices, its lock and its limits on the number of samples), every service *)
(* has one metric, and the cancellation of the context is left to module    *)
(* Reconciler.  All other steps of the loop are here, the dry run included. *)
(***************************************************************************)
EXTENDS ScaleHistory

CONSTANTS
  Window,        \* Window[p]: the windows of policy p, or NoWindow for a target
  NoWindow,
  NoThreshold,
  Values,        \* the values of samples
  RetentionFloor,  \* the least retained interval, 30 s in the code
  Lags,          \* bound: how long after its time a sample may arrive
  MaxSamples     \* bound: samples of one metric that one process accepts

INSTANCE Windows

WindowPolicies(s) == {p \in Policies[s] : Window[p] # NoWindow}

Thresholds == {<<p, dir>> : p \in DOMAIN Window, dir \in Directions}

Configured == {c \in Thresholds : Window[c[1]] # NoWindow /\ Window[c[1]][c[2]] # NoThreshold}

\* A mutated MetricRetention: the longest window and one of its buckets.
MetricRetentionOneBucket ==
  Max({Window[c[1]][c[2]].sustained + Window[c[1]].bucket : c \in Configured}
        \cup {RetentionFloor})

\* config.MetricRetention: the longest window of any policy plus two of its
\* buckets, but no less than the floor.
MetricRetention ==
  Max({Window[c[1]][c[2]].sustained + 2 * Window[c[1]].bucket : c \in Configured}
        \cup {RetentionFloor})

ASSUME WindowAssumption ==
  /\ IsFiniteSet(DOMAIN Window)
  /\ Values \subseteq Int
  /\ {RetentionFloor, MaxSamples} \cup Lags \subseteq Nat
  /\ UNION {Policies[s] : s \in Services} \subseteq DOMAIN Window
  /\ \A c \in Configured :
       LET w == Window[c[1]]
       IN  /\ w.bucket \in Nat \ {0}
           /\ w[c[2]].sustained \in Nat \ {0}
           /\ w[c[2]].sustained % w.bucket = 0
           /\ w[c[2]].step \in Nat \ {0}

\* The bound on opinions leaves room for all that these policies may ask for.
ASSUME ReachAssumption ==
  /\ Silent
  /\ (-2 * MaxCount)..(2 * MaxCount) \subseteq Opinions
  /\ \A v \in Values : v <= 2 * MaxCount
  /\ \A c \in Configured : Window[c[1]][c[2]].step <= MaxCount

VARIABLES
  store,      \* store[s]: the retained samples of the metric of service s
  accepted,   \* ghost: every sample Add accepted, forgotten or not
  effective   \* ghost: when the last successful call for a service took effect

metricVars == <<store, accepted>>
allVars == <<historyVars, metricVars, effective>>

Times == 1..MaxTime
EmptySeries == [at \in {} |-> 0]

\* A mutated Prune: also the latest sample may be dropped.
PruneEvenLatest(series, oldest) ==
  [at \in {t \in DOMAIN series : t >= oldest} |-> series[at]]

\* pruneSamples: drop what is older than `oldest`, but never the latest sample.
Prune(series, oldest) ==
  LET fresh == {at \in DOMAIN series : at >= oldest}
      kept == IF fresh = {} /\ DOMAIN series # {} THEN {Max(DOMAIN series)} ELSE fresh
  IN  [at \in kept |-> series[at]]

\* Add replaces the sample of the same time and otherwise inserts.
Insert(series, at, value) ==
  [t \in DOMAIN series \cup {at} |-> IF t = at THEN value ELSE series[t]]

Forgotten(t) == t - MetricRetention

Snapshot == [s \in Services |-> Prune(store[s], Forgotten(clock))]

Opinion(p, series) ==
  IF Window[p] = NoWindow THEN TargetOpinion(series)
  ELSE WindowOpinion(Window[p], Current, series, now, cutoff[svc])

Said == [p \in Policies[svc] |-> Opinion(p, Snapshot[svc])]

-----------------------------------------------------------------------------
InitAll ==
  /\ InitHistory
  /\ store = [s \in Services |-> EmptySeries]
  /\ accepted = [s \in Services |-> EmptySeries]
  /\ effective = [s \in Services |-> NoTime]

\* A sample reaches Add from a receiver or from a Prometheus poll; one from the
\* future or already out of the retained interval is refused.
Observe ==
  /\ \E s \in Services, at \in Times, value \in Values :
       /\ at <= clock
       /\ clock - at \in Lags
       /\ at >= Forgotten(clock)
       /\ Cardinality(DOMAIN accepted[s] \cup {at}) <= MaxSamples
       /\ accepted' = [accepted EXCEPT ![s] =
                         [t \in DOMAIN @ \cup {at} |-> IF t = at THEN value ELSE @[t]]]
       /\ store' = [r \in Services |->
                      LET series == IF r = s THEN Insert(store[r], at, value)
                                    ELSE store[r]
                      IN  Prune(series, Forgotten(clock))]
  /\ UNCHANGED <<historyVars, effective>>

\* The service's policies are evaluated on one snapshot, which prunes the store.
EvaluatePolicies ==
  /\ Evaluate(Said)
  /\ store' = Snapshot
  /\ UNCHANGED <<accepted, effectVars, effective>>

\* Scales and what is reported of them; the metrics are not touched.
Scaling ==
  /\ \/ Effect /\ UNCHANGED effective
     \/ Success /\ effective' = [effective EXCEPT ![svc] = effect]
     \/ Failure /\ UNCHANGED effective
     \/ DryRunReport /\ effective' = [effective EXCEPT ![svc] = clock]
  /\ UNCHANGED metricVars

RestartAll ==
  /\ RestartHistory
  /\ store' = [s \in Services |-> EmptySeries]
  /\ accepted' = [s \in Services |-> EmptySeries]
  /\ effective' = [s \in Services |-> NoTime]

NextAll ==
  \/ Observe
  \/ EvaluatePolicies
  \/ Scaling
  \/ RestartAll
  \/ (Control \/ Environment) /\ UNCHANGED <<metricVars, effective>>

SpecAll == InitAll /\ [][NextAll]_allVars

-----------------------------------------------------------------------------
(* Properties.                                                             *)

\* The store holds the recent part of what was accepted: nothing else, with the
\* values last accepted, without a hole, everything still inside the retained
\* interval, and always the latest sample.
StoreIsRecentHistory ==
  \A s \in Services :
    LET kept == DOMAIN store[s]
        all == DOMAIN accepted[s]
    IN  /\ kept \subseteq all /\ all \subseteq Times
        /\ \A at \in kept : store[s][at] = accepted[s][at]
        /\ \A at \in kept, later \in all : later >= at => later \in kept
        /\ {at \in all : at >= Forgotten(clock)} \subseteq kept
        /\ all # {} => kept # {}

\* What a breached direction claims, of a history without any forgetting and
\* without the code's index arithmetic: in every aligned bucket that ended by t,
\* and not a whole window before, the last sample compares with the threshold.
Sustained(window, dir, series, t) ==
  \A start \in 0..t :
    (/\ start % window.bucket = 0
     /\ start + window.bucket <= t
     /\ start + window.bucket > t - window[dir].sustained)
    => \E at \in DOMAIN series :
         /\ start <= at /\ at < start + window.bucket
         /\ \A later \in DOMAIN series : later > at => later >= start + window.bucket
         /\ Compare(dir, series[at], window[dir].threshold)

\* A window that is breached in the store is breached in the complete history of
\* accepted samples: forgetting, late samples and delays between reading the
\* clock and taking the snapshot never make up a breach.
BreachIsSustained ==
  phase = "evaluate" =>
    \A p \in WindowPolicies(svc), dir \in Directions :
      (/\ Window[p][dir] # NoThreshold
       /\ Breached(Window[p], dir, Snapshot[svc], now, cutoff[svc]))
      => Sustained(Window[p], dir, accepted[svc], now)

\* The retained interval covers every window: a threshold that is sustained in the
\* complete history, in buckets none of which starts before the cutoff, is seen as
\* breached, as long as the snapshot follows the service's clock reading within
\* one bucket.
RetentionCoversWindows ==
  phase = "evaluate" =>
    \A p \in WindowPolicies(svc), dir \in Directions :
      (/\ Window[p][dir] # NoThreshold
       /\ clock - now <= Window[p].bucket
       /\ now - (now % Window[p].bucket) - Window[p][dir].sustained
            >= cutoff[svc]
       /\ Sustained(Window[p], dir, accepted[svc], now))
      => Breached(Window[p], dir, Snapshot[svc], now, cutoff[svc])

Decides == phase = "evaluate" /\ phase' = "cooldown"

\* Does window policy p ask for another count?
Asks(p) == Window[p] # NoWindow /\ opinions'[p] \notin {NoOpinion, Current}

\* After any scale of a service a window policy has to see its whole window anew:
\* it asks for a change only when the reconciliation that scaled the service last,
\* in either direction, is at least the window's length ago.
WindowsStartOver ==
  [][Decides =>
       \A p \in Policies[svc], dir \in Directions :
         (Asks(p) /\ lastEvent[svc][dir] # NoTime)
         => LET mine == IF opinions'[p] > Current THEN "up" ELSE "down"
            IN  now - lastEvent[svc][dir] >= Window[p][mine].sustained]_allVars

\* README.md: missing, stale, partial, gapped or pre-reset data holds the current
\* count when a downscale is configured: whatever the other policies of the
\* service ask for, no downscale that the bounds do not force happens unless the
\* load was low through the whole window.
HoldGatesDownscale ==
  [][(Decides /\ desired' < Current /\ desired' # ActiveBounds(svc, now).max) =>
       \A p \in WindowPolicies(svc) :
         Window[p].down # NoThreshold =>
           Sustained(Window[p], "down", accepted[svc], now)]_allVars

\* implementation-notes.md and recordScaleEvent's comment "Policy-local
\* cutoffs prevent pre-scale buckets from being reused": no sample that was
\* observed before the last successful scale took effect supports another one.
NoPreScaleSampleReused ==
  [][Decides =>
       \A p \in Policies[svc] :
         Asks(p) =>
           LET mine == IF opinions'[p] > Current THEN "up" ELSE "down"
           IN  \A at \in BucketTimes(Snapshot[svc], now, Window[p].bucket,
                                     Required(Window[p], mine)) :
                 at >= effective[svc]]_allVars
=============================================================================
