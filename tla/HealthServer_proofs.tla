------------------------ MODULE HealthServer_proofs -------------------------
(***************************************************************************)
(* Theorems about module HealthServer, for any number of clients and any    *)
(* lifetime and deadline: how long an answer may be behind the platform.    *)
(***************************************************************************)
EXTENDS HealthServer, MaxLemmas, TLAPS

\* The constants as naturals, and where the ages end.
LEMMA Limits ==
  /\ TTL \in Nat /\ TTL > 0 /\ CheckTimeout \in Nat /\ CheckTimeout > 0
  /\ MaxFlips \in Nat /\ MaxFailures \in Nat
  /\ Horizon = TTL + CheckTimeout /\ Horizon \in Nat
BY HealthAssumption DEF Horizon

\* An age grows by at most one tick and stays below its limit.
LEMMA OlderSpec ==
  ASSUME NEW limit \in Nat, NEW age \in 0..limit
  PROVE  /\ Older(age, limit) \in 0..limit
         /\ Older(age, limit) <= age + 1
         /\ Older(age, limit) < limit => Older(age, limit) = age + 1
<1>1. age + 1 \in Int /\ limit \in Int
  OBVIOUS
<1>2. Older(age, limit) = IF age + 1 <= limit THEN age + 1 ELSE limit
  BY <1>1, MinOfTwo DEF Older
<1> QED
  BY <1>2

\* The invariant holds at the start: nothing is under way and the cache expired.
LEMMA InitHealth == Init => HealthInvariant
<1> SUFFICES ASSUME Init PROVE HealthInvariant
  OBVIOUS
<1>1. TypeOK
  BY Limits DEF Init, TypeOK, Results, Places
<1>2. StaleResultsAreYoung
  BY Limits DEF Init, StaleResultsAreYoung, Usable
<1> QED
  BY <1>1, <1>2 DEF HealthInvariant, Init

\* Every step keeps the invariant.
LEMMA NextHealth == HealthInvariant /\ [Next]_vars => HealthInvariant'
<1> SUFFICES ASSUME HealthInvariant, [Next]_vars PROVE HealthInvariant'
  OBVIOUS
<1> USE Limits DEF HealthInvariant, TypeOK, Places, Results
<1>1. ASSUME NEW p \in Probes, AnswerFromCache(p) PROVE HealthInvariant'
  BY <1>1 DEF AnswerFromCache, probeVars, StaleResultsAreYoung, Truth, Usable
<1>2. ASSUME NEW p \in Probes, BeginCheck(p) PROVE HealthInvariant'
  BY <1>2 DEF BeginCheck, cacheVars, StaleResultsAreYoung, Truth, Usable
<1>3. ASSUME NEW p \in Probes, PlatformAnswers(p) PROVE HealthInvariant'
  BY <1>3 DEF PlatformAnswers, cacheVars, StaleResultsAreYoung, Truth, Usable
<1>4. ASSUME NEW p \in Probes, CheckReturns(p) PROVE HealthInvariant'
  BY <1>4 DEF CheckReturns, cacheVars, StaleResultsAreYoung, Truth, Usable
<1>5. ASSUME NEW p \in Probes, CheckFails(p) PROVE HealthInvariant'
  <2>1. TypeOK'
    BY <1>5 DEF CheckFails, cacheVars
  <2>2. \A q \in Probes : /\ at'[q] = "idle" => found'[q] = "nothing"
                          /\ at'[q] = "storing" => found'[q] # "nothing"
    BY <1>5 DEF CheckFails
  <2>3. Truth' = Truth /\ Usable' = Usable
    BY <1>5 DEF CheckFails, cacheVars, Truth, Usable
  <2>4. StaleResultsAreYoung'
    BY <1>5, <2>1, <2>3 DEF CheckFails, cacheVars, StaleResultsAreYoung
  <2> QED
    BY <2>1, <2>2, <2>4
<1>6. ASSUME NEW p \in Probes, Store(p) PROVE HealthInvariant'
  <2>1. found[p] \in Results
    BY <1>6 DEF Store
  <2>2. TypeOK'
    BY <1>6, <2>1 DEF Store, Stored
  <2>3. \A q \in Probes : /\ at'[q] = "idle" => found'[q] = "nothing"
                          /\ at'[q] = "storing" => found'[q] # "nothing"
    BY <1>6 DEF Store
  <2>4. Truth' = Truth
    BY <1>6 DEF Store, Truth
  <2>5. \A q \in Probes : found'[q] \notin {"nothing", Truth} => steady' <= waited'[q]
    BY <1>6 DEF Store, StaleResultsAreYoung
  <2>6. found[p] # Truth => steady <= CheckTimeout
    BY <1>6, <2>1 DEF StaleResultsAreYoung
  <2>7. cache'.result # Truth => steady' <= cache'.age + CheckTimeout
    BY <1>6, <2>6 DEF Store, Stored
  <2> QED
    BY <2>2, <2>3, <2>4, <2>5, <2>7 DEF StaleResultsAreYoung
<1>7. CASE Tick
  <2>1. /\ Older(cache.age, TTL) \in 0..TTL
        /\ Older(cache.age, TTL) < TTL => Older(cache.age, TTL) = cache.age + 1
    BY OlderSpec
  <2>2. Older(steady, Horizon) \in 0..Horizon /\ Older(steady, Horizon) <= steady + 1
    BY OlderSpec
  <2>3. /\ cache' = [cache EXCEPT !.age = Older(cache.age, TTL)]
        /\ steady' = Older(steady, Horizon)
        /\ waited' = [p \in Probes |-> IF at[p] = "checking" THEN waited[p] + 1 ELSE 0]
        /\ \A p \in Probes : at[p] # "storing" /\ waited[p] < CheckTimeout
        /\ UNCHANGED <<cluster, at, found, answer, flips, failures>>
    BY <1>7 DEF Tick
  <2>4. TypeOK'
    BY <2>1, <2>2, <2>3
  <2>5. \A p \in Probes : found[p] \notin {"nothing", Truth} => steady' <= waited'[p]
    <3> TAKE p \in Probes
    <3> HAVE found[p] \notin {"nothing", Truth}
    <3>1. at[p] = "checking" /\ steady <= waited[p]
      BY <2>3 DEF StaleResultsAreYoung
    <3>2. waited'[p] = waited[p] + 1
      BY <2>3, <3>1
    <3> QED
      BY <2>2, <2>3, <3>1, <3>2
  <2>6. (Usable' /\ cache'.result # Truth) => steady' <= cache'.age + CheckTimeout
    <3> HAVE Usable' /\ cache'.result # Truth
    <3>1. cache'.age = cache.age + 1 /\ cache.age < TTL /\ cache.result # Truth
      BY <2>1, <2>3 DEF Usable
    <3> QED
      BY <2>2, <2>3, <3>1 DEF StaleResultsAreYoung, Usable
  <2> QED
    BY <2>3, <2>4, <2>5, <2>6 DEF StaleResultsAreYoung, Truth
<1>8. CASE Flip
  <2>1. TypeOK'
    BY <1>8 DEF Flip, cacheVars, probeVars
  <2>2. CASE Truth' = Truth
    BY <1>8, <2>1, <2>2 DEF Flip, cacheVars, probeVars, StaleResultsAreYoung, Usable
  <2>3. CASE Truth' # Truth
    BY <1>8, <2>1, <2>3 DEF Flip, cacheVars, probeVars, StaleResultsAreYoung, Usable
  <2> QED
    BY <2>2, <2>3
<1>9. CASE UNCHANGED vars
  BY <1>9 DEF vars, cacheVars, probeVars, StaleResultsAreYoung, Truth, Usable
<1> QED
  BY <1>1, <1>2, <1>3, <1>4, <1>5, <1>6, <1>7, <1>8, <1>9 DEF Next, Request

\* Every result that is stored or cached is the platform's state, or was found no
\* longer ago than a check, or the cache's lifetime and a check, can take.
THEOREM HealthInvariantHolds == Spec => []HealthInvariant
  BY InitHealth, NextHealth, PTL DEF Spec

\* Once the platform has been in one state for a lifetime of the cache and a check,
\* and no check failed meanwhile, every answer is that state.
THEOREM AnswersCatchUpHolds == Spec => AnswersCatchUp
<1> DEFINE CatchesUp(p) ==
      (steady >= Horizon /\ (AnswerFromCache(p) \/ Store(p))) => answer'[p] = Truth
<1>1. HealthInvariant /\ [Next]_vars => \A p \in Probes : CatchesUp(p)
  <2> SUFFICES ASSUME HealthInvariant, NEW p \in Probes, steady >= Horizon
               PROVE  /\ AnswerFromCache(p) => answer'[p] = Truth
                      /\ Store(p) => answer'[p] = Truth
    OBVIOUS
  <2>1. ASSUME AnswerFromCache(p) PROVE answer'[p] = Truth
    <3>1. cache.age < TTL /\ cache.age \in Nat /\ steady \in Nat
      BY <2>1, Limits DEF AnswerFromCache, Usable, HealthInvariant, TypeOK
    <3>2. ~(steady <= cache.age + CheckTimeout)
      BY <3>1, Limits
    <3>3. cache.result = Truth
      BY <2>1, <3>2 DEF AnswerFromCache, HealthInvariant, StaleResultsAreYoung
    <3> QED
      BY <2>1, <3>3 DEF AnswerFromCache, HealthInvariant, TypeOK
  <2>2. ASSUME Store(p) PROVE answer'[p] = Truth
    <3>1. waited[p] \in 0..CheckTimeout /\ steady \in Nat
      BY Limits DEF HealthInvariant, TypeOK
    <3>2. ~(steady <= waited[p])
      BY <3>1, Limits
    <3>3. found[p] = Truth
      BY <2>2, <3>2 DEF Store, HealthInvariant, StaleResultsAreYoung
    <3> QED
      BY <2>2, <3>3 DEF Store, HealthInvariant, TypeOK
  <2> QED
    BY <2>1, <2>2
<1>2. HealthInvariant /\ [Next]_vars => [\A p \in Probes : CatchesUp(p)]_vars
  BY <1>1
<1> QED
  BY <1>2, HealthInvariantHolds, PTL DEF Spec, AnswersCatchUp
=============================================================================
