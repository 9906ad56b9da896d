--------------------------- MODULE MetricHistory ----------------------------
(***************************************************************************)
(* What the metric store promises (internal/metrics/store.go, README.md     *)
(* "Metric history"): a history per key from which samples only ever leave  *)
(* oldest first, and only for being older than the retained interval or     *)
(* because a limit on the number of samples is reached.                     *)
(***************************************************************************)
EXTENDS Integers, FiniteSets

CONSTANTS
  Keys,          \* MetricKey: a service and a metric name
  Values,        \* finite values; NaN and infinities are refused before
  Times,         \* the times at which something is observed
  Retention,     \* the retained interval
  MaxPerSeries,  \* maxSamplesPerSeries
  MaxTotal       \* maxSamplesTotal

VARIABLES
  clock,         \* s.clock
  held           \* held[k]: the samples of k by time

heldVars == <<clock, held>>

NoSamples == [at \in {} |-> 0]

Size(history) == Cardinality(UNION {{k} \X DOMAIN history[k] : k \in Keys})

With(history, key, at, value) ==
  [history EXCEPT ![key] =
     [t \in DOMAIN @ \cup {at} |-> IF t = at THEN value ELSE @[t]]]

\* `after` is `before` without some of the oldest samples of each key, each of
\* them dropped for its age or for want of room.
ForgetsOldestFirst(before, after) ==
  \A k \in Keys :
    LET was == DOMAIN before[k]
        is == DOMAIN after[k]
    IN  /\ is \subseteq was
        /\ \A at \in is : after[k][at] = before[k][at]
        /\ \A at \in is, later \in was : later >= at => later \in is
        /\ \A gone \in was \ is :
             \/ gone < clock - Retention
             \/ Cardinality(is) = MaxPerSeries
             \/ Size(after) = MaxTotal

HeldInit == clock = 1 /\ held = [k \in Keys |-> NoSamples]

Remember ==
  /\ clock' = clock
  /\ \E k \in Keys, at \in Times, value \in Values :
       ForgetsOldestFirst(With(held, k, at, value), held')

Forget ==
  /\ clock' = clock
  /\ ForgetsOldestFirst(held, held')

Tick == clock' > clock /\ held' = held

HeldNext == Remember \/ Forget \/ Tick

HeldSpec == HeldInit /\ [][HeldNext]_heldVars
=============================================================================
