---------------------------- MODULE MetricStore -----------------------------
(***************************************************************************)
(* MetricStore of internal/metrics/store.go: the sample slices behind a     *)
(* mutex, written by the goroutines of the OTLP receiver and by the         *)
(* Prometheus poll, and read through snapshots.                             *)
(*                                                                         *)
(* Add reads the clock and validates the sample before it takes the lock,   *)
(* so a goroutine may insert, prune and enforce the limits with a time that *)
(* others have left behind: BeginAdd and FinishAdd are two steps.  Ties in  *)
(* the search for the globally oldest sample are broken by the iteration    *)
(* order of a Go map, that is, by any choice.                               *)
(***************************************************************************)
EXTENDS Integers, Sequences, FiniteSetsExt, Functions

CONSTANTS
  Keys,          \* MetricKey: a service and a metric name
  Values,        \* finite values; NaN and infinities are refused
  Adders,        \* goroutines that call Add
  Idle,          \* an adder outside of Add
  Retention,     \* s.retention
  MaxPerSeries,  \* s.maxSamplesPerSeries
  MaxTotal,      \* s.maxSamplesTotal
  MaxTime        \* bound: the clock stops here

ASSUME StoreAssumption ==
  /\ Retention \in Nat
  /\ {MaxPerSeries, MaxTotal, MaxTime} \subseteq Nat \ {0}
  /\ IsFiniteSet(Keys)  \* they are named by the configuration

VARIABLES
  clock,      \* s.clock
  series,     \* s.series; an absent key is an empty slice
  adding,     \* adding[a]: the call of Add that a is in, validated, or Idle
  accepted    \* ghost: every sample an Add has stored, by key and time

vars == <<clock, series, adding, accepted>>

Times == 1..MaxTime
Samples == [at : Times, value : Values]
Offers == [key : Keys, at : Times, value : Values]
Calls == [key : Keys, at : Times, value : Values, now : Times]

ASSUME IdleAssumption == Idle \notin Calls

NoSamples == [at \in {} |-> 0]

-----------------------------------------------------------------------------
(* The slices.                                                             *)

\* sort.Search for the first sample not before t, as the number of samples before it.
Search(samples, t) ==
  CHOOSE i \in 0..Len(samples) :
    /\ \A j \in 1..i : samples[j].at < t
    /\ i < Len(samples) => samples[i + 1].at >= t

Inserted(samples, i, sample) ==
  SubSeq(samples, 1, i) \o <<sample>> \o SubSeq(samples, i + 1, Len(samples))

Has(samples, i, t) == i < Len(samples) /\ samples[i + 1].at = t

\* A mutated Insert: samples are appended in the order in which they arrive.
InsertAtEnd(samples, sample) ==
  LET i == Search(samples, sample.at)
  IN  IF Has(samples, i, sample.at) THEN [samples EXCEPT ![i + 1] = sample]
      ELSE Append(samples, sample)

\* A mutated Insert: the first value observed at a time is kept.
InsertFirstValue(samples, sample) ==
  LET i == Search(samples, sample.at)
  IN  IF Has(samples, i, sample.at) THEN samples ELSE Inserted(samples, i, sample)

\* The sample goes where the search finds its time, in the place of one with the
\* same time.
Insert(samples, sample) ==
  LET i == Search(samples, sample.at)
  IN  IF Has(samples, i, sample.at) THEN [samples EXCEPT ![i + 1] = sample]
      ELSE Inserted(samples, i, sample)

\* A mutated PruneSamples: a series that is entirely expired is emptied.
PruneSamplesFully(samples, oldest) ==
  SubSeq(samples, Search(samples, oldest) + 1, Len(samples))

\* pruneSamples: what is older than `oldest` goes, but for the latest sample.
PruneSamples(samples, oldest) ==
  LET first == Search(samples, oldest)
  IN  IF Len(samples) <= 1 THEN samples
      ELSE IF first = Len(samples) THEN <<samples[Len(samples)]>>
      ELSE SubSeq(samples, first + 1, Len(samples))

PruneAll(all, oldest) == [k \in Keys |-> PruneSamples(all[k], oldest)]

Newest(samples, n) ==
  IF Len(samples) <= n THEN samples
  ELSE SubSeq(samples, Len(samples) - n + 1, Len(samples))

\* How many elements the sets of[k] have together.
Count(of) == Cardinality(UNION {{k} \X of[k] : k \in Keys})

Total(all) == Count([k \in Keys |-> DOMAIN all[k]])

Drop(samples, n) == SubSeq(samples, n + 1, Len(samples))

\* Is it the globally oldest samples that go when drops[k] samples of k do?
OldestGo(all, drops) ==
  \A k, l \in Keys : \A i \in 1..drops[k], j \in (drops[l] + 1)..Len(all[l]) :
    all[k][i].at <= all[l][j].at

\* A mutated EnforceSampleLimits: the limit on the total is forgotten.
EnforceSampleLimitsPerSeries(before) ==
  {[k \in Keys |-> Newest(before[k], MaxPerSeries)]}

\* How many samples of each key go when the oldest of all goes n times.
Drops(all, n) ==
  {drops \in [Keys -> 0..n] :
     /\ \A k \in Keys : drops[k] <= Len(all[k])
     /\ Count([k \in Keys |-> 1..drops[k]]) = n
     /\ OldestGo(all, drops)}

\* enforceSampleLimitsLocked: every series keeps its newest MaxPerSeries samples;
\* then, while there are more than MaxTotal, the oldest sample of all goes, even
\* when it is the only one of its series.
EnforceSampleLimits(before) ==
  LET all == [k \in Keys |-> Newest(before[k], MaxPerSeries)]
      excess == Total(all) - MaxTotal
  IN  IF excess <= 0 THEN {all}
      ELSE {[k \in Keys |-> Drop(all[k], drops[k])] : drops \in Drops(all, excess)}

\* A mutated Expiry: samples are dropped one tick early.
ExpiryEarly(t) == t - Retention + 1

Expiry(t) == t - Retention

\* The views a snapshot taken at time t may return; the store becomes the view.
Views(t) == EnforceSampleLimits(PruneAll(series, Expiry(t)))

-----------------------------------------------------------------------------
Init ==
  /\ clock = 1
  /\ series = [k \in Keys |-> << >>]
  /\ adding = [a \in Adders |-> Idle]
  /\ accepted = [k \in Keys |-> NoSamples]

\* Add refuses keys without a name, zero times and values that are not finite,
\* samples from the future and from before the retained interval.
Accepts(offer) ==
  /\ offer \in Offers
  /\ offer.at <= clock /\ offer.at >= Expiry(clock)

\* Add before the lock: the clock is read and the sample validated.
Offer(a, offer) ==
  /\ adding[a] = Idle
  /\ Accepts(offer)
  /\ adding' = [adding EXCEPT ![a] =
       [key |-> offer.key, at |-> offer.at, value |-> offer.value, now |-> clock]]
  /\ UNCHANGED <<clock, series, accepted>>

BeginAdd(a) == \E offer \in Offers : Offer(a, offer)

\* Add under the lock: insert, prune every series, enforce the limits, all with
\* the time read before.
FinishAdd(a) ==
  /\ adding[a] # Idle
  /\ LET call == adding[a]
         sample == [at |-> call.at, value |-> call.value]
         longer == [series EXCEPT ![call.key] = Insert(@, sample)]
     IN  /\ series' \in EnforceSampleLimits(PruneAll(longer, Expiry(call.now)))
         /\ accepted' = [accepted EXCEPT ![call.key] =
              [t \in DOMAIN @ \cup {call.at} |->
                 IF t = call.at THEN call.value ELSE @[t]]]
  /\ adding' = [adding EXCEPT ![a] = Idle]
  /\ UNCHANGED clock

\* Snapshot reads the clock under the lock.
Snapshot ==
  /\ series' \in Views(clock)
  /\ UNCHANGED <<clock, adding, accepted>>

Advance ==
  /\ clock < MaxTime
  /\ clock' = clock + 1
  /\ UNCHANGED <<series, adding, accepted>>

Next ==
  \/ \E a \in Adders : BeginAdd(a)
  \/ \E a \in Adders : FinishAdd(a)
  \/ Snapshot
  \/ Advance

Spec == Init /\ [][Next]_vars

-----------------------------------------------------------------------------
(* Properties.                                                             *)

\* Every variable has its type.
TypeOK ==
  /\ clock \in Times
  /\ series \in [Keys -> Seq(Samples)]
  /\ adding \in [Adders -> Calls \cup {Idle}]
  /\ DOMAIN accepted = Keys
  /\ \A k \in Keys :
       DOMAIN accepted[k] \subseteq Times /\ accepted[k] \in [DOMAIN accepted[k] -> Values]

\* Both limits hold whenever the lock is free.
LimitsRespected ==
  /\ \A k \in Keys : Len(series[k]) <= MaxPerSeries
  /\ Total(series) <= MaxTotal

Ascending(samples) ==
  \A i, j \in DOMAIN samples : i < j => samples[i].at < samples[j].at

\* Every slice is strictly ascending in time, in whatever order samples arrive:
\* all binary searches (of Add, pruneSamples and CompleteBuckets) rely on it.
SeriesSorted == \A k \in Keys : Ascending(series[k])

Held(samples) ==
  [t \in {samples[i].at : i \in DOMAIN samples} |->
     (CHOOSE s \in Range(samples) : s.at = t).value]

\* A sample that was accepted at time t and is not held is gone for its age or for want
\* of room, and what is held is not older: no later loss can give its place away.
GoneForAReason(all, k, t) ==
  \/ t < Expiry(clock)
  \/ /\ Len(all[k]) = MaxPerSeries
     /\ \A at \in DOMAIN Held(all[k]) : at > t
  \/ /\ Total(all) = MaxTotal
     /\ \A l \in Keys : \A at \in DOMAIN Held(all[l]) : at >= t

NoLimitReached ==
  /\ \A k \in Keys : Cardinality(DOMAIN accepted[k]) <= MaxPerSeries
  /\ Count([k \in Keys |-> DOMAIN accepted[k]]) <= MaxTotal

\* What every critical section keeps, with whatever time it runs: sorted slices within
\* the limits that hold what was last accepted, without losses but for a reason that
\* stands, and the latest sample of a series as long as no limit is reached.
StoreInvariant ==
  /\ TypeOK
  /\ SeriesSorted
  /\ LimitsRespected
  /\ \A a \in Adders : adding[a] # Idle => adding[a].now <= clock
  /\ \A k \in Keys :
       LET held == Held(series[k])
           all == DOMAIN accepted[k]
       IN  /\ \A t \in DOMAIN held : t \in all /\ held[t] = accepted[k][t]
           /\ \A t \in all : t \in DOMAIN held \/ GoneForAReason(series, k, t)
           /\ NoLimitReached /\ all # {} => Max(all) \in DOMAIN held

\* Whatever a snapshot shows of the retained interval is what was last accepted,
\* and from the oldest sample it shows on nothing is missing: concurrent adds
\* with times left behind leave no hole that a window could take for a gap.
SnapshotHasNoHoles ==
  \A view \in Views(clock), k \in Keys :
    LET shown == Held(view[k])
    IN  \A at \in DOMAIN shown :
          /\ at \in DOMAIN accepted[k] /\ shown[at] = accepted[k][at]
          /\ at >= Expiry(clock) =>
               \A later \in DOMAIN accepted[k] : later >= at => later \in DOMAIN shown

\* While no limit on the number of samples is reached a snapshot shows everything
\* accepted in the retained interval; beyond it, only the sample that is the
\* latest of its series.
SnapshotIsRecentHistory ==
  NoLimitReached =>
  \A view \in Views(clock), k \in Keys :
    LET shown == DOMAIN Held(view[k])
        all == DOMAIN accepted[k]
    IN  /\ {at \in all : at >= Expiry(clock)} \subseteq shown
        /\ \A at \in shown : at < Expiry(clock) => shown = {Max(all)}
        /\ all # {} => Max(all) \in shown

\* README.md, "Metric history": one latest sample per series remains available
\* for target policies.
LatestRemains ==
  \A view \in Views(clock), k \in Keys :
    DOMAIN accepted[k] # {} => view[k] # << >>

History == INSTANCE MetricHistory WITH held <- [k \in Keys |-> Held(series[k])]

\* The store implements the history it promises: samples leave oldest first, and
\* only for their age or for want of room.
ImplementsHistory == History!HeldSpec
=============================================================================
