------------------------------ MODULE Windows -------------------------------
(***************************************************************************)
(* What a window policy sees in a metric series: the completed time buckets *)
(* of CompleteBuckets (internal/metrics/store.go) and the evaluation of     *)
(* WindowPolicy and TargetPolicy (internal/policy).                         *)
(*                                                                         *)
(* A series is a function from the finite set of times at which a sample    *)
(* was observed to the sample's value.  A direction of a window policy is a *)
(* record [threshold, sustained, step]; a window policy is a record         *)
(* [bucket, up, down] whose directions may be NoThreshold.                  *)
(***************************************************************************)
EXTENDS Integers, FiniteSetsExt

CONSTANTS
  NoThreshold,    \* a direction the policy does not configure
  NoOpinion       \* a nil decision, or an evaluation error

NoTime == 0       \* time.Time{}

\* t.Truncate(width): buckets are aligned to Go's zero time.
Truncate(t, width) == t - (t % width)

\* The start of the oldest of the last `count` buckets completed at time t.
OldestStart(t, width, count) == Truncate(t, width) - count * width

BucketStart(t, width, count, i) == OldestStart(t, width, count) + i * width

\* Buckets are half-open: a sample on a boundary belongs to the later one.
InBucket(series, start, width) ==
  {at \in DOMAIN series : start <= at /\ at < start + width}

\* The buckets, numbered from the oldest, in which nothing was observed.
MissingBuckets(series, t, width, count) ==
  {i \in 0..(count - 1) : InBucket(series, BucketStart(t, width, count, i), width) = {}}

\* A mutated BeforeCutoff: only the newest bucket has to start after the reset.
BeforeCutoffNewestOnly(t, width, count, after) ==
  after # NoTime /\ BucketStart(t, width, count, count - 1) < after

\* Does some bucket of the window start before the policy's last reset?
BeforeCutoff(t, width, count, after) ==
  /\ after # NoTime
  /\ \E i \in 0..(count - 1) : BucketStart(t, width, count, i) < after

\* What CompleteBuckets reports of the window.
BucketStatus(series, t, width, count, after) ==
  IF width <= 0 \/ count <= 0 THEN "incomplete"
  ELSE IF BeforeCutoff(t, width, count, after) THEN "pre_reset"
  ELSE IF DOMAIN series = {} THEN "missing"
  ELSE LET missing == MissingBuckets(series, t, width, count)
       IN  IF missing = {} THEN "complete"
           ELSE IF count - 1 \in missing THEN "stale"
           ELSE IF \E i \in missing : i > 0 THEN "gap"
           ELSE "incomplete"

\* The latest sample of a bucket stands for it.
BucketTime(series, t, width, count, i) ==
  Max(InBucket(series, BucketStart(t, width, count, i), width))

BucketTimes(series, t, width, count) ==
  {BucketTime(series, t, width, count, i) : i \in 0..(count - 1)}

-----------------------------------------------------------------------------
\* Thresholds are strict.
Compare(dir, value, threshold) ==
  IF dir = "up" THEN value > threshold ELSE value < threshold

Required(window, dir) == window[dir].sustained \div window.bucket

\* A mutated Breached: one breaching bucket is enough.
BreachedOnce(window, dir, series, t, after) ==
  LET count == Required(window, dir)
  IN  /\ BucketStatus(series, t, window.bucket, count, after) = "complete"
      /\ \E at \in BucketTimes(series, t, window.bucket, count) :
           Compare(dir, series[at], window[dir].threshold)

\* A direction is breached when its window is complete and every bucket of it
\* compares.
Breached(window, dir, series, t, after) ==
  LET count == Required(window, dir)
  IN  /\ BucketStatus(series, t, window.bucket, count, after) = "complete"
      /\ \A at \in BucketTimes(series, t, window.bucket, count) :
           Compare(dir, series[at], window[dir].threshold)

\* A mutated WindowOpinion: a window that cannot be judged says nothing.
WindowOpinionWithoutHold(window, current, series, t, after) ==
  IF window.up # NoThreshold /\ Breached(window, "up", series, t, after)
  THEN current + window.up.step
  ELSE IF window.down # NoThreshold /\ Breached(window, "down", series, t, after)
  THEN current - window.down.step
  ELSE NoOpinion

\* WindowPolicy.Evaluate: an upscale if it is breached; otherwise, when a
\* downscale is configured, the downscale or the explicit wish to stay.
WindowOpinion(window, current, series, t, after) ==
  IF window.up # NoThreshold /\ Breached(window, "up", series, t, after)
  THEN current + window.up.step
  ELSE IF window.down = NoThreshold THEN NoOpinion
  ELSE IF Breached(window, "down", series, t, after) THEN current - window.down.step
  ELSE current

\* TargetPolicy.Evaluate, for an expression that is the value of its metric: the
\* latest sample counts, however old it is, and there must be one.
TargetOpinion(series) ==
  IF DOMAIN series = {} THEN NoOpinion
  ELSE Max({0, series[Max(DOMAIN series)]})
=============================================================================
