---------------------------- MODULE HealthServer ----------------------------
(***************************************************************************)
(* The readiness probe of internal/server/server.go: getCachedHealth, called *)
(* by concurrent HTTP requests, answers from a cache or, when the cached     *)
(* result has expired, checks the platform and caches what it found.        *)
(*                                                                         *)
(* The cache is read under a lock, the check is made without one and its    *)
(* result is stored under the lock again, so that several probes may check   *)
(* at once and store their results in another order than they were made in. *)
(* The check is given the context of the request: a client that gives up    *)
(* makes it fail, and that failure is cached like any other.                *)
(*                                                                         *)
(* Time is kept as ages, which stop counting where nothing depends on them. *)
(***************************************************************************)
EXTENDS Integers, FiniteSetsExt

CONSTANTS
  Probes,        \* clients that ask /readyz one request at a time
  TTL,           \* healthCacheTTL
  CheckTimeout,  \* the deadline getCachedHealth gives a check
  MaxFlips,      \* bound: changes of the platform's health
  MaxFailures    \* bound: checks that time out or whose client gives up

ASSUME HealthAssumption ==
  /\ {TTL, CheckTimeout} \subseteq Nat \ {0}
  /\ {MaxFlips, MaxFailures} \subseteq Nat

VARIABLES
  cluster,    \* what the platform says of the adapter's cluster
  cache,      \* healthCacheErr, as a result, and the age of healthCacheTime
  at,         \* at[p]: where request p is
  waited,     \* waited[p]: how long its check has been under way
  found,      \* found[p]: what the platform answered its check, or "nothing"
  answer,     \* answer[p]: the last answer given to p, or "nothing"
  flips,      \* changes of the platform's health so far
  failures,   \* failed checks so far
  steady      \* ghost: since when the platform is as it is and no check failed

cacheVars == <<cache, answer>>
probeVars == <<at, waited, found>>
vars == <<cluster, cacheVars, probeVars, flips, failures, steady>>

Places == {"idle", "checking", "storing"}
Results == {"ok", "error"}

\* By then every answer knows.
Horizon == TTL + CheckTimeout

\* A cluster that was deleted is reported as inactive for a while, then not at all.
Clusters == {"active", "inactive", "without status", "absent"}

\* ECSAdapter.HealthCheck: a cluster without a status passes for an active one.
Truth == IF cluster \in {"active", "without status"} THEN "ok" ELSE "error"

\* An age after another tick.
Older(age, limit) == Min({age + 1, limit})

\* A mutated Usable: once there is a result in the cache it never expires.
UsableOnceFilled == \E p \in Probes : answer[p] # "nothing"

\* The cached result is younger than the TTL; the zero time is infinitely old.
Usable == cache.age < TTL

\* A mutated Stored: a failed check leaves the cached result as it is.
StoredWhenHealthy(result) ==
  [result |-> IF result = "ok" THEN result ELSE cache.result, age |-> 0]

\* A mutated Stored: the first error is remembered.
StoredFirstError(result) ==
  [result |-> IF cache.result = "error" THEN "error" ELSE result, age |-> 0]

\* What the cache holds after a check found `result`: errors are cached as well.
Stored(result) == [result |-> result, age |-> 0]

-----------------------------------------------------------------------------
Init ==
  /\ cluster \in Clusters
  /\ cache = [result |-> "ok", age |-> TTL]
  /\ at = [p \in Probes |-> "idle"]
  /\ waited = [p \in Probes |-> 0]
  /\ found = [p \in Probes |-> "nothing"]
  /\ answer = [p \in Probes |-> "nothing"]
  /\ flips = 0
  /\ failures = 0
  /\ steady = 0

\* getCachedHealth under the read lock: the cached result is the answer.
AnswerFromCache(p) ==
  /\ at[p] = "idle"
  /\ Usable
  /\ answer' = [answer EXCEPT ![p] = cache.result]
  /\ UNCHANGED <<cluster, cache, probeVars, flips, failures, steady>>

\* The cache has expired: the lock is given back and the platform is asked.
BeginCheck(p) ==
  /\ at[p] = "idle"
  /\ ~Usable
  /\ at' = [at EXCEPT ![p] = "checking"]
  /\ UNCHANGED <<cluster, cacheVars, waited, found, flips, failures, steady>>

\* The platform looks at itself some time before its answer arrives.
PlatformAnswers(p) ==
  /\ at[p] = "checking"
  /\ found[p] = "nothing"
  /\ found' = [found EXCEPT ![p] = Truth]
  /\ UNCHANGED <<cluster, cacheVars, at, waited, flips, failures, steady>>

CheckReturns(p) ==
  /\ at[p] = "checking"
  /\ found[p] # "nothing"
  /\ at' = [at EXCEPT ![p] = "storing"]
  /\ UNCHANGED <<cluster, cacheVars, waited, found, flips, failures, steady>>

\* The deadline passes, or the client of the request gives up.
CheckFails(p) ==
  /\ at[p] = "checking"
  /\ failures < MaxFailures
  /\ failures' = failures + 1
  /\ steady' = 0
  /\ found' = [found EXCEPT ![p] = "error"]
  /\ at' = [at EXCEPT ![p] = "storing"]
  /\ UNCHANGED <<cluster, cacheVars, waited, flips>>

\* getCachedHealth under the write lock.
Store(p) ==
  /\ at[p] = "storing"
  /\ cache' = Stored(found[p])
  /\ answer' = [answer EXCEPT ![p] = found[p]]
  /\ at' = [at EXCEPT ![p] = "idle"]
  /\ waited' = [waited EXCEPT ![p] = 0]
  /\ found' = [found EXCEPT ![p] = "nothing"]
  /\ UNCHANGED <<cluster, flips, failures, steady>>

\* Time passes while no check is over its deadline; storing takes no time.
Tick ==
  /\ \A p \in Probes : at[p] # "storing" /\ waited[p] < CheckTimeout
  /\ cache' = [cache EXCEPT !.age = Older(@, TTL)]
  /\ waited' = [p \in Probes |-> IF at[p] = "checking" THEN waited[p] + 1 ELSE 0]
  /\ steady' = Older(steady, Horizon)
  /\ UNCHANGED <<cluster, at, found, answer, flips, failures>>

\* The cluster comes, goes or changes its status.
Flip ==
  /\ flips < MaxFlips
  /\ flips' = flips + 1
  /\ cluster' \in Clusters \ {cluster}
  /\ steady' = IF Truth' = Truth THEN steady ELSE 0
  /\ UNCHANGED <<cacheVars, probeVars, failures>>

Request(p) ==
  \/ AnswerFromCache(p)
  \/ BeginCheck(p)
  \/ PlatformAnswers(p)
  \/ CheckReturns(p)
  \/ CheckFails(p)
  \/ Store(p)

Next == (\E p \in Probes : Request(p)) \/ Tick \/ Flip

Spec == Init /\ [][Next]_vars

\* Clients keep asking, handlers run, time goes on.
FairSpec == Spec /\ (\A p \in Probes : WF_vars(Request(p))) /\ WF_vars(Tick)

-----------------------------------------------------------------------------
(* Properties.                                                             *)

\* Every variable has its type.
TypeOK ==
  /\ cluster \in Clusters
  /\ cache \in [result : Results, age : 0..TTL]
  /\ at \in [Probes -> Places]
  /\ waited \in [Probes -> 0..CheckTimeout]
  /\ found \in [Probes -> Results \cup {"nothing"}]
  /\ answer \in [Probes -> Results \cup {"nothing"}]
  /\ flips \in 0..MaxFlips
  /\ failures \in 0..MaxFailures
  /\ steady \in 0..Horizon

\* What is about to be stored, and what the cache can still answer, was found
\* before the last change of the platform or failed check only if that is no longer
\* ago than the check, or the lifetime of the cache and a check, can take.
StaleResultsAreYoung ==
  /\ \A p \in Probes : found[p] \notin {"nothing", Truth} => steady <= waited[p]
  /\ (Usable /\ cache.result # Truth) => steady <= cache.age + CheckTimeout

\* What holds between any two steps, and is enough to prove AnswersCatchUp.
HealthInvariant ==
  /\ TypeOK
  /\ \A p \in Probes : at[p] = "idle" => found[p] = "nothing"
  /\ \A p \in Probes : at[p] = "storing" => found[p] # "nothing"
  /\ StaleResultsAreYoung

\* When the platform has been in one state for the lifetime of the cache and the
\* deadline of a check, and no check failed meanwhile, every answer given is that
\* state: neither does a probe that was slow to store its result revive an old
\* one, nor is a failure remembered.
AnswersCatchUp ==
  [][\A p \in Probes :
       (steady >= Horizon /\ (AnswerFromCache(p) \/ Store(p))) => answer'[p] = Truth]_vars

\* When the platform stops changing and checks stop failing every client is told
\* the truth for good.
AnswersSettle == <>[](\A p \in Probes : answer[p] = Truth)
=============================================================================
