------------------------- MODULE Autoscaler_proofs --------------------------
(***************************************************************************)
(* Theorems about module Autoscaler: the loop at work on the metric history *)
(* is the loop of module Reconciler, and what its windows see is what was   *)
(* observed, for any windows, policies, cooldowns and samples.              *)
(***************************************************************************)
EXTENDS Autoscaler, Reconciler_proofs

-----------------------------------------------------------------------------
(* Buckets.                                                                *)

\* Multiplying by a positive width keeps the order.
LEMMA Scaled ==
  ASSUME NEW width \in Nat \ {0}, NEW m \in Int, NEW n \in Int, m <= n
  PROVE  width * m <= width * n
<1>1. PICK d \in Nat : n = m + d
  BY m <= n, n - m \in Nat
<1>2. width * n = width * m + width * d
  BY <1>1
<1>3. width * d \in Nat
  OBVIOUS
<1> QED
  BY <1>2, <1>3

\* A time is a whole number of widths and a rest.
LEMMA WholeBuckets ==
  ASSUME NEW t \in Int, NEW width \in Nat \ {0}
  PROVE  /\ t % width \in 0..(width - 1)
         /\ t = width * (t \div width) + (t % width)
OBVIOUS

\* That number and that rest are the only ones.
LEMMA UniqueRest ==
  ASSUME NEW width \in Nat \ {0}, NEW k \in Int, NEW rest \in 0..(width - 1),
         NEW t \in Int, t = width * k + rest
  PROVE  t \div width = k /\ t % width = rest
<1> DEFINE q == t \div width
<1>1. t % width \in 0..(width - 1) /\ t = width * q + (t % width) /\ q \in Int
  BY WholeBuckets
<1> HIDE DEF q
<1>2. ~(q + 1 <= k)
  <2> SUFFICES ASSUME q + 1 <= k PROVE FALSE
    OBVIOUS
  <2>1. width * (q + 1) <= width * k
    BY <1>1, Scaled
  <2>2. width * (q + 1) = width * q + width
    BY <1>1
  <2> QED
    BY <2>1, <2>2, <1>1
<1>3. ~(k + 1 <= q)
  <2> SUFFICES ASSUME k + 1 <= q PROVE FALSE
    OBVIOUS
  <2>1. width * (k + 1) <= width * q
    BY <1>1, Scaled
  <2>2. width * (k + 1) = width * k + width
    OBVIOUS
  <2> QED
    BY <2>1, <2>2, <1>1
<1>4. q = k
  BY <1>1, <1>2, <1>3
<1> QED
  BY <1>1, <1>4 DEF q

\* The buckets of a window: aligned, completed by t, the first one a whole window
\* before the last completed boundary, the next one only after t.
LEMMA BucketsOfWindow ==
  ASSUME NEW width \in Nat \ {0}, NEW count \in Nat, NEW t \in Int,
         NEW i \in 0..(count - 1)
  PROVE  LET start == BucketStart(t, width, count, i)
         IN  /\ start \in Int /\ start % width = 0
             /\ start + width <= t
             /\ start + width > t - width * count
             /\ start >= OldestStart(t, width, count)
<1> DEFINE q == t \div width
           start == BucketStart(t, width, count, i)
<1>1. t % width \in 0..(width - 1) /\ t = width * q + (t % width) /\ q \in Int
  BY WholeBuckets
<1>2. /\ OldestStart(t, width, count) = width * q - width * count
      /\ start = width * q - width * count + width * i
  BY <1>1 DEF OldestStart, BucketStart, Truncate
<1> HIDE DEF q, start
<1>3. start = width * (q - count + i) /\ q - count + i \in Int
  BY <1>1, <1>2
<1>4. start \in Int /\ start % width = 0
  <2> DEFINE k == q - count + i
  <2>1. k \in Int /\ start \in Int /\ start = width * k + 0 /\ 0 \in 0..(width - 1)
    BY <1>3
  <2> HIDE DEF k
  <2> QED
    BY <2>1, UniqueRest
<1>5. width * (q - count + i) <= width * (q - 1) /\ width * (q - count) <= width * (q - count + i)
  BY <1>1, Scaled
<1>6. width * (q - 1) = width * q - width /\ width * (q - count) = width * q - width * count
  BY <1>1
<1> QED
  BY <1>1, <1>2, <1>3, <1>4, <1>5, <1>6 DEF start

\* Every aligned bucket that ended by t and not a window before is one of them.
LEMMA WindowHasBucket ==
  ASSUME NEW width \in Nat \ {0}, NEW count \in Nat, NEW t \in Int,
         NEW start \in Int, start % width = 0, start + width <= t,
         start + width > t - width * count
  PROVE  \E i \in 0..(count - 1) : BucketStart(t, width, count, i) = start
<1> DEFINE q == t \div width
           r == start \div width
<1>1. t % width \in 0..(width - 1) /\ t = width * q + (t % width) /\ q \in Int
  BY WholeBuckets
<1>2. start = width * r /\ r \in Int
  BY WholeBuckets
<1>3. Truncate(t, width) = width * q
  BY <1>1 DEF Truncate
<1> HIDE DEF q, r
<1>4. r + 1 <= q
  <2> SUFFICES ASSUME q <= r PROVE FALSE
    BY <1>1, <1>2
  <2>1. width * q <= width * r
    BY <1>1, <1>2, Scaled
  <2> QED
    BY <2>1, <1>1, <1>2
<1>5. q - count <= r
  <2> SUFFICES ASSUME r + 1 <= q - count PROVE FALSE
    BY <1>1, <1>2
  <2>1. width * (r + 1) <= width * (q - count)
    BY <1>1, <1>2, Scaled
  <2>2. width * (r + 1) = start + width /\ width * (q - count) = width * q - width * count
    BY <1>1, <1>2
  <2> QED
    BY <2>1, <2>2, <1>1, <1>2
<1> DEFINE i == r - (q - count)
<1>6. i \in 0..(count - 1)
  BY <1>1, <1>2, <1>4, <1>5
<1>7. BucketStart(t, width, count, i) = start
  <2>1. width * i = width * r - width * q + width * count
    BY <1>1, <1>2
  <2>2. BucketStart(t, width, count, i) = width * q - count * width + i * width
    BY <1>3 DEF BucketStart, OldestStart
  <2>3. count * width = width * count /\ i * width = width * i
    BY <1>6
  <2> HIDE DEF i
  <2> QED
    BY <2>1, <2>2, <2>3, <1>1, <1>2, <1>6
<1> QED
  BY <1>6, <1>7

-----------------------------------------------------------------------------
(* The retained interval.                                                  *)

\* There are finitely many configured directions, so MetricRetention is the largest
\* of its candidates: no window with two of its buckets exceeds it.
LEMMA RetentionSpec ==
  /\ MetricRetention \in Int
  /\ \A c \in Configured :
       Window[c[1]][c[2]].sustained + 2 * Window[c[1]].bucket <= MetricRetention
<1> DEFINE Needed(c) == Window[c[1]][c[2]].sustained + 2 * Window[c[1]].bucket
           needs == {Needed(c) : c \in Configured}
           f == [c \in Configured |-> Needed(c)]
<1>1. IsFiniteSet(Configured)
  <2>1. IsFiniteSet(Directions)
    <3>1. IsFiniteSet({"up"} \cup {"down"})
      BY FS_EmptySet, FS_Singleton, FS_Union
    <3>2. {"up"} \cup {"down"} = Directions
      BY DEF Directions
    <3> QED
      BY <3>1, <3>2
  <2>2. IsFiniteSet((DOMAIN Window) \X Directions)
    BY <2>1, WindowAssumption, FS_Product
  <2>3. Configured \subseteq (DOMAIN Window) \X Directions
    BY DEF Configured, Thresholds
  <2> QED
    BY <2>2, <2>3, FS_Subset
<1>2. IsFiniteSet(needs \cup {RetentionFloor})
  <2>1. f \in Surjection(Configured, needs)
    BY DEF Surjection
  <2>2. IsFiniteSet(needs)
    BY <2>1, <1>1, FS_Surjection
  <2> QED
    BY <2>2, FS_AddElement
<1>3. \A c \in Configured : Needed(c) \in Int
  BY WindowAssumption
<1>4. needs \cup {RetentionFloor} \subseteq Int /\ needs \cup {RetentionFloor} # {}
  BY <1>3, WindowAssumption
<1>5. MetricRetention = Max(needs \cup {RetentionFloor})
  BY DEF MetricRetention
<1>6. /\ MetricRetention \in needs \cup {RetentionFloor}
      /\ \A x \in needs \cup {RetentionFloor} : x <= MetricRetention
  BY <1>2, <1>4, <1>5, MaxOfFinite
<1> QED
  BY <1>4, <1>6

\* A configured direction of a window policy.
LEMMA DirectionType ==
  ASSUME NEW s \in Services, NEW p \in WindowPolicies(s), NEW dir \in Directions,
         Window[p][dir] # NoThreshold
  PROVE  LET w == Window[p]
             count == Required(w, dir)
         IN  /\ <<p, dir>> \in Configured
             /\ w.bucket \in Nat \ {0} /\ w[dir].sustained \in Nat \ {0}
             /\ w[dir].step \in Nat \ {0} /\ w[dir].step <= MaxCount
             /\ count \in Nat /\ count > 0 /\ w[dir].sustained = w.bucket * count
<1> DEFINE w == Window[p]
           count == Required(w, dir)
<1>1. p \in DOMAIN Window /\ Window[p] # NoWindow
  BY WindowAssumption DEF WindowPolicies
<1>2. <<p, dir>> \in Configured
  BY <1>1 DEF Configured, Thresholds
<1>3. /\ w.bucket \in Nat \ {0} /\ w[dir].sustained \in Nat \ {0}
      /\ w[dir].step \in Nat \ {0} /\ w[dir].step <= MaxCount
      /\ w[dir].sustained % w.bucket = 0
  BY <1>2, WindowAssumption, ReachAssumption
<1>4. w[dir].sustained = w.bucket * count /\ count \in Int
  <2>1. count = w[dir].sustained \div w.bucket
    BY DEF Required
  <2> DEFINE b == w.bucket
             length == w[dir].sustained
  <2>2. b \in Nat \ {0} /\ length \in Int /\ length % b = 0
    BY <1>3
  <2> HIDE DEF w, count, b, length
  <2>3. length = b * (length \div b) + (length % b) /\ length \div b \in Int
    BY <2>2, WholeBuckets
  <2>4. length = b * (length \div b)
    BY <2>2, <2>3
  <2> QED
    BY <2>1, <2>3, <2>4 DEF b, length
<1>5. count > 0
  <2> SUFFICES ASSUME count <= 0 PROVE FALSE
    BY <1>4
  <2>1. w.bucket * count <= w.bucket * 0
    <3> HIDE DEF w, count
    <3> QED
      BY <1>3, <1>4, Scaled
  <2> QED
    BY <2>1, <1>3, <1>4
<1> QED
  BY <1>2, <1>3, <1>4, <1>5

-----------------------------------------------------------------------------
(* The store and the history of what it accepted.                          *)

\* What StoreIsRecentHistory says of one series at time t.
RecentPart(series, history, t) ==
  /\ DOMAIN series \subseteq DOMAIN history
  /\ \A at \in DOMAIN series : series[at] = history[at]
  /\ \A at \in DOMAIN series, later \in DOMAIN history :
       later >= at => later \in DOMAIN series
  /\ \A at \in DOMAIN history : at >= Forgotten(t) => at \in DOMAIN series
  /\ DOMAIN history # {} => DOMAIN series # {}

IsHistory(history) ==
  /\ DOMAIN history \subseteq Times
  /\ \A at \in DOMAIN history : history[at] \in Values

HistoryType ==
  /\ DOMAIN accepted = Services
  /\ \A s \in Services : IsHistory(accepted[s])

StoreInvariant ==
  \A s \in Services : RecentPart(store[s], accepted[s], clock)

AutoscalerInvariant == LoopInvariant /\ HistoryType /\ StoreInvariant

LEMMA ForgottenType ==
  ASSUME NEW t \in Int
  PROVE  Forgotten(t) \in Int
BY RetentionSpec DEF Forgotten

\* A non-empty set of times has a latest one.
LEMMA LatestTime ==
  ASSUME NEW T, T \subseteq Times, T # {}
  PROVE  Max(T) \in T /\ \A at \in T : at <= Max(T)
<1>1. T \subseteq Int /\ MaxTime \in Int /\ \A at \in T : at <= MaxTime
  BY SizeAssumption DEF Times
<1> QED
  BY <1>1, MaxOfBounded

\* Pruning keeps the recent part.
LEMMA PruneKeeps ==
  ASSUME NEW series, NEW history, NEW t \in Int, IsHistory(history),
         RecentPart(series, history, t)
  PROVE  RecentPart(Prune(series, Forgotten(t)), history, t)
<1> DEFINE pruned == Prune(series, Forgotten(t))
           fresh == {at \in DOMAIN series : at >= Forgotten(t)}
<1>0. DOMAIN history \subseteq Int /\ Forgotten(t) \in Int
  BY SizeAssumption, ForgottenType DEF IsHistory, Times
<1>1. \A at \in DOMAIN pruned : pruned[at] = series[at]
  BY DEF Prune
<1>2. CASE fresh = {} /\ DOMAIN series # {}
  <2>1. DOMAIN pruned = {Max(DOMAIN series)}
    BY <1>2 DEF Prune
  <2>2. Max(DOMAIN series) \in DOMAIN series /\ \A at \in DOMAIN series : at <= Max(DOMAIN series)
    BY <1>2, LatestTime DEF RecentPart, IsHistory
  <2>3. \A later \in DOMAIN history : later >= Max(DOMAIN series) => later = Max(DOMAIN series)
    BY <1>0, <2>2 DEF RecentPart
  <2>4. \A at \in DOMAIN history : ~(at >= Forgotten(t))
    BY <1>2 DEF RecentPart
  <2>5. DOMAIN series \subseteq DOMAIN history /\ \A at \in DOMAIN series : series[at] = history[at]
    BY DEF RecentPart
  <2> DEFINE newest == Max(DOMAIN series)
  <2> HIDE DEF pruned, newest
  <2>6. /\ DOMAIN pruned = {newest} /\ newest \in DOMAIN history
        /\ \A at \in DOMAIN pruned : pruned[at] = history[at]
    BY <1>1, <2>1, <2>2, <2>5 DEF newest
  <2>7. \A later \in DOMAIN history : later >= newest => later = newest
    BY <2>3 DEF newest
  <2>8. RecentPart(pruned, history, t)
    BY <2>4, <2>6, <2>7 DEF RecentPart
  <2> QED
    BY <2>8 DEF pruned
<1>3. CASE ~(fresh = {} /\ DOMAIN series # {})
  <2>1. DOMAIN pruned = fresh
    BY <1>3 DEF Prune
  <2>2. DOMAIN pruned \subseteq DOMAIN series
    BY <2>1
  <2>3. \A at \in DOMAIN pruned, later \in DOMAIN history :
          later >= at => later \in DOMAIN pruned
    <3> SUFFICES ASSUME NEW at \in DOMAIN pruned, NEW later \in DOMAIN history, later >= at
                 PROVE  later \in DOMAIN pruned
      OBVIOUS
    <3>1. at \in DOMAIN series /\ at \in DOMAIN history /\ at >= Forgotten(t)
      BY <2>1 DEF RecentPart
    <3>2. later \in DOMAIN series
      BY <3>1 DEF RecentPart
    <3>3. later >= Forgotten(t)
      BY <1>0, <3>1
    <3> QED
      BY <2>1, <3>2, <3>3
  <2>4. \A at \in DOMAIN history : at >= Forgotten(t) => at \in DOMAIN pruned
    BY <2>1 DEF RecentPart
  <2>5. DOMAIN history # {} => DOMAIN pruned # {}
    BY <1>3, <2>1 DEF RecentPart
  <2> HIDE DEF pruned
  <2>6. RecentPart(pruned, history, t)
    BY <1>1, <2>2, <2>3, <2>4, <2>5 DEF RecentPart
  <2> QED
    BY <2>6 DEF pruned
<1> QED
  BY <1>2, <1>3

\* A sample inside the retained interval reaches both.
LEMMA InsertKeeps ==
  ASSUME NEW series, NEW history, NEW t \in Int, IsHistory(history),
         RecentPart(series, history, t),
         NEW at \in Times, at >= Forgotten(t), NEW value \in Values
  PROVE  /\ IsHistory(Insert(history, at, value))
         /\ RecentPart(Insert(series, at, value), Insert(history, at, value), t)
<1> DEFINE longer == Insert(series, at, value)
           whole == Insert(history, at, value)
<1>0. DOMAIN history \subseteq Int /\ Forgotten(t) \in Int /\ at \in Int
  BY SizeAssumption, ForgottenType DEF IsHistory, Times
<1>1. /\ DOMAIN longer = DOMAIN series \cup {at}
      /\ \A u \in DOMAIN longer : longer[u] = IF u = at THEN value ELSE series[u]
      /\ DOMAIN whole = DOMAIN history \cup {at}
      /\ \A u \in DOMAIN whole : whole[u] = IF u = at THEN value ELSE history[u]
  BY DEF Insert
<1> HIDE DEF longer, whole
<1>2. IsHistory(whole)
  BY <1>1 DEF IsHistory
<1>3. /\ DOMAIN longer \subseteq DOMAIN whole
      /\ \A u \in DOMAIN longer : longer[u] = whole[u]
  BY <1>1 DEF RecentPart
<1>4. \A u \in DOMAIN longer, later \in DOMAIN whole : later >= u => later \in DOMAIN longer
  <2> SUFFICES ASSUME NEW u \in DOMAIN longer, NEW later \in DOMAIN whole,
                      later >= u, later # at
               PROVE  later \in DOMAIN series
    BY <1>1
  <2>1. later \in DOMAIN history
    BY <1>1
  <2>2. CASE u = at
    <3>1. later >= Forgotten(t)
      BY <1>0, <2>1, <2>2
    <3> QED
      BY <2>1, <3>1 DEF RecentPart
  <2>3. CASE u # at
    <3>1. u \in DOMAIN series
      BY <1>1, <2>3
    <3>2. \A v \in DOMAIN series, w \in DOMAIN history : w >= v => w \in DOMAIN series
      BY DEF RecentPart
    <3> QED
      BY <2>1, <3>1, <3>2
  <2> QED
    BY <2>2, <2>3
<1>5. /\ \A u \in DOMAIN whole : u >= Forgotten(t) => u \in DOMAIN longer
      /\ DOMAIN longer # {}
  BY <1>1 DEF RecentPart
<1> QED
  BY <1>2, <1>3, <1>4, <1>5 DEF RecentPart, longer, whole

\* What is recent stays recent as time passes.
LEMMA LaterKeeps ==
  ASSUME NEW series, NEW history, NEW t \in Int, NEW u \in Int, t <= u,
         IsHistory(history), RecentPart(series, history, t)
  PROVE  RecentPart(series, history, u)
<1>1. \A at \in DOMAIN history : at >= Forgotten(u) => at >= Forgotten(t)
  BY RetentionSpec, SizeAssumption DEF Forgotten, IsHistory, Times
<1> QED
  BY <1>1 DEF RecentPart

\* A snapshot is a recent part of the history too.
LEMMA SnapshotIsRecent ==
  ASSUME AutoscalerInvariant, NEW s \in Services
  PROVE  RecentPart(Snapshot[s], accepted[s], clock) /\ IsHistory(Snapshot[s])
<1>1. clock \in Int /\ IsHistory(accepted[s]) /\ RecentPart(store[s], accepted[s], clock)
  BY SizeAssumption DEF AutoscalerInvariant, LoopInvariant, TypeOK, HistoryType, StoreInvariant
<1>2. Snapshot[s] = Prune(store[s], Forgotten(clock))
  BY DEF Snapshot
<1>3. RecentPart(Snapshot[s], accepted[s], clock)
  BY <1>1, <1>2, PruneKeeps
<1>4. IsHistory(Snapshot[s])
  BY <1>1, <1>3 DEF RecentPart, IsHistory
<1> QED
  BY <1>3, <1>4

-----------------------------------------------------------------------------
(* The autoscaler is the reconciler.                                       *)

\* The policies answer with opinions, so that what they compute is one of the
\* answers that module Reconciler chooses from.
LEMMA SaidIsAnswer ==
  ASSUME AutoscalerInvariant
  PROVE  Said \in Answers
<1>0. /\ svc \in Services /\ Current \in Limits /\ MaxCount \in Nat
      /\ IsHistory(Snapshot[svc])
  BY CountsType, SizeAssumption, SnapshotIsRecent
  DEF AutoscalerInvariant, LoopInvariant, TypeOK
<1>1. Answers = [Policies[svc] -> Opinions \cup {NoOpinion}]
  BY ReachAssumption DEF Answers
<1>2. ASSUME NEW p \in Policies[svc]
      PROVE  Opinion(p, Snapshot[svc]) \in Opinions \cup {NoOpinion}
  <2> DEFINE series == Snapshot[svc]
  <2>1. CASE Window[p] = NoWindow
    <3>1. CASE DOMAIN series = {}
      BY <2>1, <3>1 DEF Opinion, TargetOpinion
    <3>2. CASE DOMAIN series # {}
      <4> DEFINE newest == series[Max(DOMAIN series)]
      <4>1. newest \in Int /\ newest <= 2 * MaxCount
        BY <1>0, <3>2, LatestTime, WindowAssumption, ReachAssumption DEF IsHistory
      <4>2. Opinion(p, series) = Max({0, newest})
        BY <2>1, <3>2 DEF Opinion, TargetOpinion
      <4> HIDE DEF newest
      <4>3. Opinion(p, series) \in (-2 * MaxCount)..(2 * MaxCount)
        BY <1>0, <4>1, <4>2, MaxOfTwo
      <4> QED
        BY <4>3, ReachAssumption
    <3> QED
      BY <3>1, <3>2
  <2>2. CASE Window[p] # NoWindow
    <3> DEFINE w == Window[p]
    <3>1. p \in WindowPolicies(svc)
      BY <2>2 DEF WindowPolicies
    <3>2. ASSUME NEW dir \in Directions, w[dir] # NoThreshold
          PROVE  w[dir].step \in 0..MaxCount
      <4>1. w[dir].step \in Nat \ {0} /\ w[dir].step <= MaxCount
        BY <1>0, <3>1, <3>2, DirectionType
      <4> HIDE DEF w
      <4> QED
        BY <1>0, <4>1
    <3>3. Opinion(p, series) = WindowOpinion(w, Current, series, now, cutoff[svc])
      BY <2>2 DEF Opinion
    <3> HIDE DEF w, series
    <3>4. /\ w.up # NoThreshold => Current + w.up.step \in Opinions
          /\ w.down # NoThreshold => Current - w.down.step \in Opinions
      <4>1. w.up # NoThreshold => w.up.step \in 0..MaxCount
        BY <3>2 DEF Directions
      <4>2. w.down # NoThreshold => w.down.step \in 0..MaxCount
        BY <3>2 DEF Directions
      <4> QED
        BY <1>0, <4>1, <4>2, ReachAssumption DEF Limits
    <3>5. Current \in Opinions
      BY <1>0, ReachAssumption DEF Limits
    <3> QED
      BY <3>3, <3>4, <3>5 DEF WindowOpinion, series
  <2> QED
    BY <2>1, <2>2
<1> QED
  BY <1>1, <1>2 DEF Said

\* Every step of the autoscaler is a step of the loop with its history, or none.
LEMMA StepIsLoopStep ==
  ASSUME AutoscalerInvariant, [NextAll]_allVars
  PROVE  [NextHistory]_historyVars /\ [Next]_vars
<1> SUFFICES [NextHistory]_historyVars
  BY HistoryStep
<1>1. CASE Observe \/ UNCHANGED allVars
  BY <1>1 DEF Observe, allVars
<1>2. CASE EvaluatePolicies
  BY <1>2, SaidIsAnswer DEF EvaluatePolicies, NextHistory, Evaluation
<1>3. CASE Scaling \/ RestartAll \/ Control \/ Environment
  BY <1>3 DEF Scaling, RestartAll, NextHistory
<1> QED
  BY <1>1, <1>2, <1>3 DEF NextAll

\* A step that leaves the store and the history alone keeps the invariant of them.
LEMMA HistoryStays ==
  ASSUME AutoscalerInvariant, UNCHANGED metricVars, clock <= clock', clock' \in Int
  PROVE  HistoryType' /\ StoreInvariant'
<1>1. HistoryType'
  BY DEF AutoscalerInvariant, HistoryType, metricVars
<1>2. ASSUME NEW s \in Services
      PROVE  RecentPart(store'[s], accepted'[s], clock')
  <2>1. /\ clock \in Int /\ IsHistory(accepted[s])
        /\ RecentPart(store[s], accepted[s], clock)
    BY SizeAssumption
    DEF AutoscalerInvariant, LoopInvariant, TypeOK, HistoryType, StoreInvariant
  <2>2. RecentPart(store[s], accepted[s], clock')
    BY <2>1, LaterKeeps
  <2> QED
    BY <2>2 DEF metricVars
<1> QED
  BY <1>1, <1>2 DEF StoreInvariant

LEMMA NextAutoscaler == AutoscalerInvariant /\ [NextAll]_allVars => AutoscalerInvariant'
<1> SUFFICES ASSUME AutoscalerInvariant, [NextAll]_allVars PROVE AutoscalerInvariant'
  OBVIOUS
<1>1. LoopInvariant'
  BY StepIsLoopStep, NextInvariant DEF AutoscalerInvariant
<1>2. clock \in Int /\ clock' \in Int
  BY <1>1, SizeAssumption DEF AutoscalerInvariant, LoopInvariant, TypeOK
<1>3. HistoryType' /\ StoreInvariant'
  <2>1. CASE Observe
    <3>1. PICK s \in Services, at \in Times, value \in Values :
            /\ at >= Forgotten(clock)
            /\ accepted' = [accepted EXCEPT ![s] =
                              [t \in DOMAIN @ \cup {at} |-> IF t = at THEN value ELSE @[t]]]
            /\ store' = [r \in Services |->
                           LET series == IF r = s THEN Insert(store[r], at, value)
                                         ELSE store[r]
                           IN  Prune(series, Forgotten(clock))]
      BY <2>1 DEF Observe
    <3>2. clock' = clock
      BY <2>1 DEF Observe, historyVars, vars
    <3>3. DOMAIN accepted' = Services
      BY <3>1 DEF AutoscalerInvariant, HistoryType
    <3>4. ASSUME NEW r \in Services
          PROVE  IsHistory(accepted'[r]) /\ RecentPart(store'[r], accepted'[r], clock)
      <4>0. IsHistory(accepted[r]) /\ RecentPart(store[r], accepted[r], clock)
        BY DEF AutoscalerInvariant, HistoryType, StoreInvariant
      <4>1. CASE r = s
        <5>1. /\ accepted'[r] = Insert(accepted[r], at, value)
              /\ store'[r] = Prune(Insert(store[r], at, value), Forgotten(clock))
          BY <3>1, <4>1 DEF Insert, AutoscalerInvariant, HistoryType
        <5>2. /\ IsHistory(accepted'[r])
              /\ RecentPart(Insert(store[r], at, value), accepted'[r], clock)
          BY <3>1, <4>0, <5>1, <1>2, InsertKeeps
        <5> QED
          BY <1>2, <5>1, <5>2, PruneKeeps
      <4>2. CASE r # s
        <5>1. accepted'[r] = accepted[r] /\ store'[r] = Prune(store[r], Forgotten(clock))
          BY <3>1, <4>2 DEF AutoscalerInvariant, HistoryType
        <5> QED
          BY <1>2, <4>0, <5>1, PruneKeeps
      <4> QED
        BY <4>1, <4>2
    <3> QED
      BY <3>2, <3>3, <3>4 DEF HistoryType, StoreInvariant
  <2>2. CASE EvaluatePolicies
    <3>1. /\ accepted' = accepted /\ store' = Snapshot /\ clock' = clock
      BY <2>2 DEF EvaluatePolicies, Evaluate
    <3>2. \A s \in Services : RecentPart(store'[s], accepted'[s], clock')
      BY <3>1, SnapshotIsRecent
    <3> QED
      BY <3>1, <3>2 DEF AutoscalerInvariant, HistoryType, StoreInvariant
  <2>3. CASE RestartAll
    <3>1. \A s \in Services : accepted'[s] = EmptySeries /\ store'[s] = EmptySeries
      BY <2>3 DEF RestartAll
    <3>2. DOMAIN accepted' = Services /\ DOMAIN EmptySeries = {}
      BY <2>3 DEF RestartAll, EmptySeries
    <3> QED
      BY <3>1, <3>2 DEF HistoryType, StoreInvariant, IsHistory, RecentPart
  <2>4. CASE \/ Scaling
             \/ (Control \/ Environment) /\ UNCHANGED <<metricVars, effective>>
             \/ UNCHANGED allVars
    <3>1. UNCHANGED metricVars
      BY <2>4 DEF Scaling, allVars
    <3>2. CASE Scaling \/ Control \/ UNCHANGED allVars
      <4>1. clock' = clock
        BY <3>2 DEF Scaling, Effect, Success, Failure, DryRunReport, Control, allVars,
           historyVars, vars, ScaleTakesEffect, ScaleSucceeds, ScaleFails, DryRunScale,
           StartTick, FetchCounts, FetchFails, BeginService, CooldownBlocks, IssueScale
      <4> QED
        BY <1>2, <3>1, <4>1, HistoryStays
    <3>3. CASE Environment
      <4>1. clock <= clock'
        BY <1>2, <3>3 DEF Environment, Advance, OutsideChange
      <4> QED
        BY <1>2, <3>1, <4>1, HistoryStays
    <3> QED
      BY <2>4, <3>2, <3>3
  <2> QED
    BY <2>1, <2>2, <2>3, <2>4 DEF NextAll
<1> QED
  BY <1>1, <1>3 DEF AutoscalerInvariant

LEMMA InitAutoscaler == InitAll => AutoscalerInvariant
<1> SUFFICES ASSUME InitAll PROVE AutoscalerInvariant
  OBVIOUS
<1>1. LoopInvariant
  BY InitInvariant DEF InitAll, InitHistory
<1>2. /\ DOMAIN accepted = Services /\ DOMAIN EmptySeries = {}
      /\ \A s \in Services : accepted[s] = EmptySeries /\ store[s] = EmptySeries
  BY DEF InitAll, EmptySeries
<1> QED
  BY <1>1, <1>2 DEF AutoscalerInvariant, HistoryType, StoreInvariant, IsHistory, RecentPart

LEMMA AutoscalerInvariantHolds == SpecAll => []AutoscalerInvariant
  BY InitAutoscaler, NextAutoscaler, PTL DEF SpecAll

-----------------------------------------------------------------------------
(* What the windows see.                                                   *)

\* A direction that is breached in a recent part of a history is sustained in the
\* whole of it: each bucket of the window shows the last of its samples there.
LEMMA BreachShowsAll ==
  ASSUME NEW s \in Services, NEW p \in WindowPolicies(s), NEW dir \in Directions,
         Window[p][dir] # NoThreshold,
         NEW series, NEW history, IsHistory(history), NEW u \in Int,
         RecentPart(series, history, u), NEW t \in Int, NEW after,
         Breached(Window[p], dir, series, t, after)
  PROVE  Sustained(Window[p], dir, history, t)
<1> DEFINE w == Window[p]
           count == Required(w, dir)
           Low(i) == BucketStart(t, w.bucket, count, i)
<1>1. /\ w.bucket \in Nat \ {0} /\ count \in Nat /\ w[dir].sustained = w.bucket * count
  BY DirectionType
<1>2. /\ \A i \in 0..(count - 1) : InBucket(series, Low(i), w.bucket) # {}
      /\ \A at \in BucketTimes(series, t, w.bucket, count) :
           Compare(dir, series[at], w[dir].threshold)
  <2>1. /\ BucketStatus(series, t, w.bucket, count, after) = "complete"
        /\ \A at \in BucketTimes(series, t, w.bucket, count) :
             Compare(dir, series[at], w[dir].threshold)
    BY DEF Breached
  <2> HIDE DEF w, count
  <2>2. MissingBuckets(series, t, w.bucket, count) = {}
    BY <2>1 DEF BucketStatus
  <2>3. \A i \in 0..(count - 1) : InBucket(series, Low(i), w.bucket) # {}
    BY <2>2 DEF MissingBuckets
  <2> QED
    BY <2>1, <2>3
<1>3. /\ DOMAIN series \subseteq DOMAIN history
      /\ \A at \in DOMAIN series : series[at] = history[at]
      /\ \A at \in DOMAIN series, later \in DOMAIN history :
           later >= at => later \in DOMAIN series
      /\ DOMAIN history \subseteq Times /\ Times \subseteq Int
  BY SizeAssumption DEF RecentPart, IsHistory, Times
<1> HIDE DEF w, count
<1> SUFFICES ASSUME NEW start \in 0..t, start % w.bucket = 0, start + w.bucket <= t,
                    start + w.bucket > t - w[dir].sustained
             PROVE  \E at \in DOMAIN history :
                      /\ start <= at /\ at < start + w.bucket
                      /\ \A later \in DOMAIN history : later > at => later >= start + w.bucket
                      /\ Compare(dir, history[at], w[dir].threshold)
  BY DEF Sustained, w
<1>4. PICK i \in 0..(count - 1) : Low(i) = start
  <2>1. start \in Int /\ start + w.bucket > t - w.bucket * count
    BY <1>1
  <2> QED
    BY <2>1, <1>1, WindowHasBucket
<1> DEFINE bucket == InBucket(series, start, w.bucket)
           at == Max(bucket)
<1>5. bucket # {} /\ bucket \subseteq DOMAIN series
  BY <1>2, <1>4 DEF InBucket
<1>6. at \in bucket /\ \A x \in bucket : x <= at
  <2>1. bucket \subseteq Times
    BY <1>3, <1>5
  <2> QED
    BY <1>5, <2>1, LatestTime
<1>7. at \in BucketTimes(series, t, w.bucket, count)
  BY <1>4 DEF BucketTimes, BucketTime
<1>8. Compare(dir, series[at], w[dir].threshold)
  BY <1>2, <1>7
<1> HIDE DEF at
<1>9. at \in DOMAIN series /\ start <= at /\ at < start + w.bucket
  BY <1>6 DEF InBucket
<1>10. ASSUME NEW later \in DOMAIN history, later > at
       PROVE  later >= start + w.bucket
  <2>1. later \in Int /\ at \in Int
    BY <1>3, <1>9
  <2>2. later \in DOMAIN series
    BY <1>3, <1>9, <1>10, <2>1
  <2>3. ~(later < start + w.bucket)
    <3> SUFFICES ASSUME later < start + w.bucket PROVE FALSE
      OBVIOUS
    <3>1. later \in bucket
      BY <1>1, <1>9, <1>10, <2>1, <2>2 DEF InBucket
    <3> HIDE DEF bucket
    <3> QED
      BY <3>1, <1>6, <1>10, <2>1
  <2> QED
    BY <1>1, <2>1, <2>3
<1> QED
  BY <1>3, <1>8, <1>9, <1>10

\* And the converse, while the whole window is retained and lies after the cutoff.
LEMMA SustainedShows ==
  ASSUME NEW s \in Services, NEW p \in WindowPolicies(s), NEW dir \in Directions,
         Window[p][dir] # NoThreshold,
         NEW series, NEW history, IsHistory(history), NEW u \in Int,
         RecentPart(series, history, u), NEW t \in Int, NEW after \in Nat,
         u - t <= Window[p].bucket,
         t - (t % Window[p].bucket) - Window[p][dir].sustained >= after,
         Sustained(Window[p], dir, history, t)
  PROVE  Breached(Window[p], dir, series, t, after)
<1> DEFINE w == Window[p]
           count == Required(w, dir)
           Low(i) == BucketStart(t, w.bucket, count, i)
           bucket(i) == InBucket(series, Low(i), w.bucket)
<1>1. /\ w.bucket \in Nat \ {0} /\ count \in Nat /\ count > 0
      /\ w[dir].sustained \in Nat /\ w[dir].sustained = w.bucket * count
      /\ <<p, dir>> \in Configured
  BY DirectionType
<1>2. w[dir].sustained + 2 * w.bucket <= MetricRetention
  BY <1>1, RetentionSpec
<1>3. /\ \A x \in DOMAIN series : x \in DOMAIN history /\ series[x] = history[x]
      /\ \A x \in DOMAIN history : x >= Forgotten(u) => x \in DOMAIN series
      /\ DOMAIN history \subseteq Times /\ Times \subseteq Int
  BY SizeAssumption DEF RecentPart, IsHistory, Times
<1>4. /\ t % w.bucket \in 0..(w.bucket - 1)
      /\ OldestStart(t, w.bucket, count) = t - (t % w.bucket) - w[dir].sustained
  <2>1. t % w.bucket \in 0..(w.bucket - 1)
    BY <1>1, WholeBuckets
  <2>2. count * w.bucket = w[dir].sustained
    BY <1>1
  <2> HIDE DEF w, count
  <2> QED
    BY <2>1, <2>2 DEF OldestStart, Truncate
<1>5. ASSUME NEW start \in 0..t, start % w.bucket = 0, start + w.bucket <= t,
             start + w.bucket > t - w[dir].sustained
      PROVE  \E at \in DOMAIN history :
               /\ start <= at /\ at < start + w.bucket
               /\ \A later \in DOMAIN history : later > at => later >= start + w.bucket
               /\ Compare(dir, history[at], w[dir].threshold)
  BY <1>5 DEF Sustained
<1>6. t - (t % w.bucket) - w[dir].sustained >= after /\ u - t <= w.bucket
  OBVIOUS
<1> HIDE DEF w, count
<1>7. ASSUME NEW i \in 0..(count - 1)
      PROVE  /\ Low(i) >= after
             /\ bucket(i) # {}
             /\ Compare(dir, series[Max(bucket(i))], w[dir].threshold)
  <2> DEFINE start == Low(i)
  <2>1. /\ start \in Int /\ start % w.bucket = 0 /\ start + w.bucket <= t
        /\ start + w.bucket > t - w[dir].sustained
        /\ start >= t - (t % w.bucket) - w[dir].sustained
    BY <1>1, <1>4, BucketsOfWindow
  <2> HIDE DEF start
  <2>2. start >= after /\ start \in 0..t
    BY <2>1, <1>1, <1>4, <1>6
  <2>3. PICK at \in DOMAIN history :
          /\ start <= at /\ at < start + w.bucket
          /\ \A later \in DOMAIN history : later > at => later >= start + w.bucket
          /\ Compare(dir, history[at], w[dir].threshold)
    BY <2>1, <2>2, <1>5
  <2>4. at \in Int
    BY <1>3
  <2>5. at \in DOMAIN series
    <3> DEFINE b == w.bucket
               length == w[dir].sustained
               rest == t % w.bucket
    <3>0. /\ b \in Int /\ length \in Int /\ rest \in Int /\ rest < b
          /\ MetricRetention \in Int /\ length + 2 * b <= MetricRetention
          /\ start >= t - rest - length /\ u - t <= b /\ start <= at
      BY <1>1, <1>2, <1>4, <1>6, <2>1, <2>3, RetentionSpec
    <3> HIDE DEF b, length, rest
    <3>1. at >= Forgotten(u)
      BY <3>0, <2>1, <2>4 DEF Forgotten
    <3> QED
      BY <1>3, <3>1
  <2> DEFINE inside == InBucket(series, start, w.bucket)
             newest == Max(inside)
  <2>6. at \in inside /\ inside \subseteq Times
    BY <1>3, <2>3, <2>5 DEF InBucket
  <2>7. newest \in inside /\ \A x \in inside : x <= newest
    BY <2>6, LatestTime
  <2> HIDE DEF newest
  <2>8. newest = at
    <3>1. newest \in DOMAIN history /\ newest < start + w.bucket /\ newest \in Int
      BY <1>3, <2>7 DEF InBucket
    <3>2. at <= newest
      BY <2>6, <2>7
    <3>3. ~(newest > at)
      <4> SUFFICES ASSUME newest > at PROVE FALSE
        OBVIOUS
      <4>1. newest >= start + w.bucket
        BY <3>1, <2>3
      <4> HIDE DEF inside
      <4> QED
        BY <4>1, <3>1, <2>1, <1>1
    <3> HIDE DEF inside
    <3> QED
      BY <3>1, <3>2, <3>3, <2>4
  <2>9. Compare(dir, series[newest], w[dir].threshold)
    BY <1>3, <2>3, <2>5, <2>8
  <2> QED
    BY <2>2, <2>6, <2>9 DEF newest, start
<1>8. ~BeforeCutoff(t, w.bucket, count, after)
  <2>1. \A i \in 0..(count - 1) : Low(i) \in Int
    BY <1>1, BucketsOfWindow
  <2> QED
    BY <1>7, <2>1 DEF BeforeCutoff
<1>9. DOMAIN series # {} /\ MissingBuckets(series, t, w.bucket, count) = {}
  <2>1. 0 \in 0..(count - 1)
    BY <1>1
  <2> QED
    BY <1>7, <2>1 DEF InBucket, MissingBuckets
<1>10. BucketStatus(series, t, w.bucket, count, after) = "complete"
  BY <1>1, <1>8, <1>9 DEF BucketStatus
<1>11. \A at \in BucketTimes(series, t, w.bucket, count) :
         Compare(dir, series[at], w[dir].threshold)
  BY <1>7 DEF BucketTimes, BucketTime
<1> QED
  BY <1>10, <1>11 DEF Breached, w, count

\* A window that starts before a cutoff is not judged: a breach at t lies wholly
\* after it.
LEMMA BreachAfterCutoff ==
  ASSUME NEW s \in Services, NEW p \in WindowPolicies(s), NEW dir \in Directions,
         Window[p][dir] # NoThreshold, NEW series, NEW t \in Int,
         NEW after \in Nat, after # NoTime,
         Breached(Window[p], dir, series, t, after)
  PROVE  t - after >= Window[p][dir].sustained
<1> DEFINE w == Window[p]
           count == Required(w, dir)
           oldest == OldestStart(t, w.bucket, count)
<1>1. /\ w.bucket \in Nat \ {0} /\ count \in Nat /\ count > 0
      /\ w[dir].sustained \in Nat /\ w[dir].sustained = w.bucket * count
  BY DirectionType
<1>2. BucketStatus(series, t, w.bucket, count, after) = "complete"
  BY DEF Breached
<1> HIDE DEF w, count
<1>3. t % w.bucket \in 0..(w.bucket - 1)
  BY <1>1, WholeBuckets
<1>4. oldest = t - (t % w.bucket) - w[dir].sustained
  <2>1. count * w.bucket = w[dir].sustained
    BY <1>1
  <2> QED
    BY <2>1 DEF OldestStart, Truncate
<1>5. ~BeforeCutoff(t, w.bucket, count, after)
  BY <1>2 DEF BucketStatus
<1>6. oldest >= after
  <2>1. BucketStart(t, w.bucket, count, 0) = oldest /\ oldest \in Int
    <3>1. 0 * w.bucket = 0 /\ oldest \in Int
      BY <1>1, <1>3, <1>4
    <3> QED
      BY <3>1 DEF BucketStart
  <2>2. 0 \in 0..(count - 1)
    BY <1>1
  <2>3. ~(oldest < after)
    BY <1>5, <2>1, <2>2 DEF BeforeCutoff
  <2> QED
    BY <2>1, <2>3
<1>7. t - after >= w[dir].sustained
  <2> HIDE DEF oldest
  <2> QED
    BY <1>1, <1>3, <1>4, <1>6
<1> QED
  BY <1>7 DEF w

\* A window policy asks for more when its upper direction is breached, for less
\* when its lower one is, and otherwise for what there is.
LEMMA SaidByWindow ==
  ASSUME AutoscalerInvariant, NEW p \in WindowPolicies(svc)
  PROVE  LET w == Window[p]
             Shows(dir) == /\ w[dir] # NoThreshold
                           /\ Breached(w, dir, Snapshot[svc], now, cutoff[svc])
         IN  /\ Said[p] # NoOpinion => Said[p] \in Int
             /\ (Said[p] # NoOpinion /\ Said[p] > Current) => Shows("up")
             /\ (Said[p] # NoOpinion /\ Said[p] < Current) => Shows("down")
             /\ Said[p] = NoOpinion => w.down = NoThreshold
<1> DEFINE w == Window[p]
           Shows(dir) == /\ w[dir] # NoThreshold
                         /\ Breached(w, dir, Snapshot[svc], now, cutoff[svc])
<1>0. /\ svc \in Services /\ Current \in -MaxCount..MaxCount /\ MaxCount \in Nat
      /\ Current \in Opinions /\ Current # NoOpinion
  <2>1. svc \in Services /\ Current \in -MaxCount..MaxCount /\ MaxCount \in Nat
    BY CountsType, SizeAssumption DEF AutoscalerInvariant, LoopInvariant, TypeOK, Limits
  <2>2. Current \in (-2 * MaxCount)..(2 * MaxCount)
    BY <2>1
  <2> QED
    BY <2>1, <2>2, ReachAssumption, ConfigAssumption
<1>1. Said[p] = WindowOpinion(w, Current, Snapshot[svc], now, cutoff[svc])
  BY DEF Said, Opinion, WindowPolicies
<1>2. ASSUME NEW dir \in Directions, w[dir] # NoThreshold
      PROVE  w[dir].step \in Nat \ {0} /\ w[dir].step <= MaxCount
  BY <1>0, <1>2, DirectionType
<1>3. /\ w["up"] # NoThreshold => w["up"].step \in 1..MaxCount
      /\ w["down"] # NoThreshold => w["down"].step \in 1..MaxCount
  <2>1. "up" \in Directions /\ "down" \in Directions
    BY DEF Directions
  <2> HIDE DEF w
  <2> QED
    BY <1>0, <1>2, <2>1
<1>4. \A n \in (-2 * MaxCount)..(2 * MaxCount) : n # NoOpinion
  BY ReachAssumption, ConfigAssumption
<1> HIDE DEF w
<1>6. CASE Shows("up")
  <2>1. Said[p] = Current + w["up"].step
    BY <1>1, <1>6 DEF WindowOpinion
  <2>2. w["up"].step \in 1..MaxCount
    BY <1>3, <1>6
  <2>3. Said[p] \in (-2 * MaxCount)..(2 * MaxCount) /\ Said[p] > Current
    BY <1>0, <2>1, <2>2
  <2>4. Said[p] # NoOpinion /\ ~(Said[p] < Current) /\ Said[p] \in Int
    BY <1>0, <1>4, <2>3
  <2> QED
    BY <1>6, <2>4 DEF w
<1>7. CASE ~Shows("up") /\ w.down = NoThreshold
  BY <1>1, <1>7 DEF WindowOpinion, w
<1>8. CASE ~Shows("up") /\ Shows("down")
  <2>1. Said[p] = Current - w["down"].step
    BY <1>1, <1>8 DEF WindowOpinion
  <2>2. w["down"].step \in 1..MaxCount
    BY <1>3, <1>8
  <2>3. Said[p] \in (-2 * MaxCount)..(2 * MaxCount) /\ Said[p] < Current
    BY <1>0, <2>1, <2>2
  <2>4. Said[p] # NoOpinion /\ ~(Said[p] > Current) /\ Said[p] \in Int
    BY <1>0, <1>4, <2>3
  <2> QED
    BY <1>8, <2>4 DEF w
<1>9. CASE ~Shows("up") /\ ~Shows("down") /\ w.down # NoThreshold
  BY <1>0, <1>1, <1>4, <1>9 DEF WindowOpinion
<1> QED
  BY <1>6, <1>7, <1>8, <1>9

\* A service is decided only where its policies are evaluated, on what they said.
LEMMA DecisionStep ==
  ASSUME AutoscalerInvariant, [NextAll]_allVars, Decides
  PROVE  /\ Said \in [Policies[svc] -> Opinions \cup {NoOpinion}]
         /\ Decisions(Said) # {} /\ opinions' = Said /\ desired' = DesiredFor(Said)
         /\ UNCHANGED <<svc, now, counts>>
<1>1. Said \in [Policies[svc] -> Opinions \cup {NoOpinion}]
  BY SaidIsAnswer, ReachAssumption DEF Answers
<1>2. ~Observe /\ ~UNCHANGED allVars
  BY DEF Decides, Observe, allVars, historyVars, vars
<1>3. ~Scaling
  BY DEF Decides, Scaling, Effect, Success, Failure, DryRunReport, ScaleTakesEffect,
     ScaleSucceeds, ScaleFails, DryRunScale
<1>4. ~RestartAll /\ ~Control /\ ~Environment
  BY DEF Decides, RestartAll, RestartHistory, Restart, Control, StartTick, FetchCounts,
     FetchFails, BeginService, CooldownBlocks, IssueScale, Environment, Advance,
     OutsideChange
<1>5. Evaluate(Said)
  BY <1>2, <1>3, <1>4 DEF NextAll, EvaluatePolicies
<1>6. ~Leave
  BY DEF Decides, Leave
<1> QED
  BY <1>1, <1>5, <1>6 DEF Evaluate

-----------------------------------------------------------------------------
(* The properties.                                                         *)

\* The autoscaler implements the loop: whatever the receivers deliver and the
\* store forgets, its behaviour is one that module Reconciler allows, so that all
\* that is proved there of any opinions holds of those computed from metrics; and
\* so is the history of its effects.
THEOREM AutoscalerIsReconciler == SpecAll => Spec /\ SpecHistory
<1>1. InitAll => Init /\ InitHistory
  BY DEF InitAll, InitHistory
<1>2. AutoscalerInvariant /\ [NextAll]_allVars => [Next]_vars /\ [NextHistory]_historyVars
  BY StepIsLoopStep
<1> QED
  BY <1>1, <1>2, AutoscalerInvariantHolds, PTL DEF SpecAll, Spec, SpecHistory

\* The store holds the recent part of what was accepted, without holes.
THEOREM StoreRecent == SpecAll => []StoreIsRecentHistory
<1>1. AutoscalerInvariant => StoreIsRecentHistory
  BY DEF AutoscalerInvariant, HistoryType, StoreInvariant, IsHistory, RecentPart,
     StoreIsRecentHistory
<1> QED
  BY <1>1, AutoscalerInvariantHolds, PTL

\* Neither forgetting, nor late samples, nor the delay between reading the clock
\* and taking the snapshot make up a breach.
THEOREM BreachSustained == SpecAll => []BreachIsSustained
<1>1. AutoscalerInvariant => BreachIsSustained
  <2> SUFFICES ASSUME AutoscalerInvariant, phase = "evaluate",
                      NEW p \in WindowPolicies(svc), NEW dir \in Directions,
                      Window[p][dir] # NoThreshold,
                      Breached(Window[p], dir, Snapshot[svc], now, cutoff[svc])
               PROVE  Sustained(Window[p], dir, accepted[svc], now)
    BY DEF BreachIsSustained
  <2>1. svc \in Services /\ clock \in Int /\ now \in Int
    BY SizeAssumption DEF AutoscalerInvariant, LoopInvariant, TypeOK
  <2>2. /\ IsHistory(accepted[svc])
        /\ RecentPart(Snapshot[svc], accepted[svc], clock)
    BY <2>1, SnapshotIsRecent DEF AutoscalerInvariant, HistoryType
  <2> QED
    BY <2>1, <2>2, BreachShowsAll
<1> QED
  BY <1>1, AutoscalerInvariantHolds, PTL

\* No window is longer than what MetricRetention makes the store retain.
THEOREM RetentionCovers == SpecAll => []RetentionCoversWindows
<1>1. AutoscalerInvariant => RetentionCoversWindows
  <2> SUFFICES ASSUME AutoscalerInvariant, phase = "evaluate",
                      NEW p \in WindowPolicies(svc), NEW dir \in Directions,
                      Window[p][dir] # NoThreshold,
                      clock - now <= Window[p].bucket,
                      now - (now % Window[p].bucket) - Window[p][dir].sustained
                        >= cutoff[svc],
                      Sustained(Window[p], dir, accepted[svc], now)
               PROVE  Breached(Window[p], dir, Snapshot[svc], now, cutoff[svc])
    BY DEF RetentionCoversWindows
  <2>1. svc \in Services /\ clock \in Int /\ now \in Int /\ cutoff[svc] \in Nat
    BY SizeAssumption DEF AutoscalerInvariant, LoopInvariant, TypeOK
  <2>2. /\ IsHistory(accepted[svc])
        /\ RecentPart(Snapshot[svc], accepted[svc], clock)
    BY <2>1, SnapshotIsRecent DEF AutoscalerInvariant, HistoryType
  <2> QED
    BY <2>1, <2>2, SustainedShows
<1> QED
  BY <1>1, AutoscalerInvariantHolds, PTL

\* After a scale in either direction every window policy waits for its window.
THEOREM WindowsStart == SpecAll => WindowsStartOver
<1> DEFINE mine(p) == IF opinions'[p] > Current THEN "up" ELSE "down"
           StartOver == Decides =>
             \A p \in Policies[svc], dir \in Directions :
               (Asks(p) /\ lastEvent[svc][dir] # NoTime)
                 => now - lastEvent[svc][dir] >= Window[p][mine(p)].sustained
<1>1. AutoscalerInvariant /\ [NextAll]_allVars => StartOver
  <2> SUFFICES ASSUME AutoscalerInvariant, [NextAll]_allVars, Decides,
                      NEW p \in Policies[svc], NEW dir \in Directions,
                      Asks(p), lastEvent[svc][dir] # NoTime
               PROVE  now - lastEvent[svc][dir] >= Window[p][mine(p)].sustained
    OBVIOUS
  <2>0. /\ svc \in Services /\ now \in Int /\ Current \in Int /\ cutoff[svc] \in Nat
        /\ \A d \in Directions : lastScale[svc][d] \in Nat
        /\ lastScale[svc][dir] = lastEvent[svc][dir]
    BY CountsType, SizeAssumption DEF AutoscalerInvariant, LoopInvariant, TypeOK, Limits
  <2>1. opinions'[p] = Said[p] /\ Said[p] # NoOpinion /\ Said[p] # Current
    BY DecisionStep DEF Asks
  <2>2. p \in WindowPolicies(svc)
    BY DEF Asks, WindowPolicies
  <2>3. mine(p) \in Directions
    BY DEF Directions
  <2>4. /\ Window[p][mine(p)] # NoThreshold
        /\ Breached(Window[p], mine(p), Snapshot[svc], now, cutoff[svc])
    BY <2>0, <2>1, <2>2, SaidByWindow
  <2>5. cutoff[svc] >= lastEvent[svc][dir] /\ cutoff[svc] # NoTime
    <3> DEFINE recorded == {lastScale[svc][d] : d \in Directions}
               up == lastScale[svc]["up"]
               down == lastScale[svc]["down"]
    <3>1. cutoff[svc] = Max(recorded)
      BY <2>0 DEF AutoscalerInvariant, LoopInvariant, CutoffIsLastScale
    <3>2. recorded = {up, down} /\ up \in Nat /\ down \in Nat /\ lastScale[svc][dir] \in {up, down}
      BY <2>0 DEF Directions
    <3> HIDE DEF recorded, up, down
    <3>3. cutoff[svc] = IF up >= down THEN up ELSE down
      BY <3>1, <3>2, MaxOfTwo
    <3>4. lastScale[svc][dir] # 0
      BY <2>0 DEF NoTime
    <3> QED
      BY <2>0, <3>2, <3>3, <3>4 DEF NoTime
  <2>6. now - cutoff[svc] >= Window[p][mine(p)].sustained
    <3> HIDE DEF mine
    <3> QED
      BY <2>0, <2>2, <2>3, <2>4, <2>5, BreachAfterCutoff
  <2>7. Window[p][mine(p)].sustained \in Nat
    <3> HIDE DEF mine
    <3> QED
      BY <2>0, <2>2, <2>3, <2>4, DirectionType
  <2> QED
    BY <2>0, <2>5, <2>6, <2>7
<1>2. SpecAll => [][StartOver]_allVars
  BY <1>1, AutoscalerInvariantHolds, PTL DEF SpecAll
<1> QED
  BY <1>2 DEF WindowsStartOver

\* A window that is not complete and low holds the count, whatever the other
\* policies of the service ask for.
THEOREM HoldGates == SpecAll => HoldGatesDownscale
<1> DEFINE Gated == (Decides /\ desired' < Current /\ desired' # ActiveBounds(svc, now).max) =>
             \A p \in WindowPolicies(svc) :
               Window[p].down # NoThreshold =>
                 Sustained(Window[p], "down", accepted[svc], now)
<1>1. AutoscalerInvariant /\ [NextAll]_allVars => Gated
  <2> SUFFICES ASSUME AutoscalerInvariant, [NextAll]_allVars, Decides,
                      desired' < Current, desired' # ActiveBounds(svc, now).max,
                      NEW p \in WindowPolicies(svc), Window[p].down # NoThreshold
               PROVE  Sustained(Window[p], "down", accepted[svc], now)
    OBVIOUS
  <2>0. /\ svc \in Services /\ now \in Int /\ clock \in Int
    BY SizeAssumption DEF AutoscalerInvariant, LoopInvariant, TypeOK
  <2>1. /\ Said \in [Policies[svc] -> Opinions \cup {NoOpinion}] /\ Decisions(Said) # {}
        /\ opinions' = Said /\ desired' = DesiredFor(Said) /\ UNCHANGED <<svc, now, counts>>
        /\ phase = "evaluate" /\ phase' = "cooldown"
    BY DecisionStep DEF Decides
  <2>2. ScaleIsJustified'
    BY <2>1, EvaluateDecides DEF AutoscalerInvariant
  <2>3. \A d \in Decisions(Said) : d < Current
    BY <2>1, <2>2 DEF ScaleIsJustified, Deciding, Decisions, ActiveBounds, Current
  <2>4. Said[p] # NoOpinion
    BY SaidByWindow
  <2>5. Said[p] \in Decisions(Said)
    BY <2>1, <2>4 DEF Decisions, WindowPolicies
  <2>6. Breached(Window[p], "down", Snapshot[svc], now, cutoff[svc])
    BY <2>3, <2>4, <2>5, SaidByWindow
  <2>7. /\ IsHistory(accepted[svc])
        /\ RecentPart(Snapshot[svc], accepted[svc], clock)
    BY <2>0, SnapshotIsRecent DEF AutoscalerInvariant, HistoryType
  <2>8. "down" \in Directions
    BY DEF Directions
  <2> QED
    BY <2>0, <2>6, <2>7, <2>8, BreachShowsAll
<1>2. SpecAll => [][Gated]_allVars
  BY <1>1, AutoscalerInvariantHolds, PTL DEF SpecAll
<1> QED
  BY <1>2 DEF HoldGatesDownscale
=============================================================================
