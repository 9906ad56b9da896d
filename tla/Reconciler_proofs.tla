-------------------------- MODULE Reconciler_proofs --------------------------
(***************************************************************************)
(* Theorems about modules Reconciler and ScaleHistory, for any number of services and         *)
(* policies, any bounds, schedules and cooldowns, and any opinions.         *)
(***************************************************************************)
EXTENDS ScaleHistory, MaxLemmas

-----------------------------------------------------------------------------
(* The decision.                                                           *)

\* The decisions of a set of opinions are among the counts policies may ask for.
LEMMA DecisionsType ==
  ASSUME NEW P, NEW said \in [P -> Opinions \cup {NoOpinion}]
  PROVE  Decisions(said) \subseteq (-2 * MaxCount)..(2 * MaxCount)
BY ConfigAssumption DEF Decisions

\* What computeDesired returns: a decision when it scales up, or zero from below it,
\* the current count, or, when all decisions are lower, a count none of them is
\* above.
LEMMA ComputeDesiredSpec ==
  ASSUME NEW current \in Limits,
         NEW told, told \subseteq (-2 * MaxCount)..(2 * MaxCount)
  PROVE  LET wanted == ComputeDesired(current, told)
         IN  /\ wanted \in Int
             /\ wanted > current => wanted \in told \/ (current < 0 /\ wanted = 0)
             /\ wanted < current => \A d \in told : d < current /\ d <= wanted
<1> DEFINE top == Max(told \cup {current})
           low == Max(told \cup {0})
<1>1. /\ MaxCount \in Nat /\ told \subseteq Int /\ 2 * MaxCount \in Int
      /\ current \in Int /\ current <= 2 * MaxCount
  BY SizeAssumption DEF Limits
<1>2. \A x \in told : x <= 2 * MaxCount
  BY <1>1
<1>3. top \in told \cup {current} /\ \A x \in told \cup {current} : x <= top
  <2>1. \A x \in told \cup {current} : x <= 2 * MaxCount
    BY <1>1, <1>2
  <2>2. told \cup {current} \subseteq Int /\ told \cup {current} # {}
    BY <1>1
  <2> QED
    BY <2>1, <2>2, <1>1, MaxOfBounded
<1>4. low \in told \cup {0} /\ \A x \in told \cup {0} : x <= low
  <2>1. \A x \in told \cup {0} : x <= 2 * MaxCount
    BY <1>1, <1>2
  <2>2. told \cup {0} \subseteq Int /\ told \cup {0} # {}
    BY <1>1
  <2> QED
    BY <2>1, <2>2, <1>1, MaxOfBounded
<1>5. ComputeDesired(current, told) =
        IF top > current THEN top
        ELSE IF \E d \in told : d >= current THEN current ELSE low
  BY DEF ComputeDesired
<1> HIDE DEF top, low
<1>6. top \in Int /\ low \in Int
  BY <1>1, <1>3, <1>4
<1> QED
  BY <1>1, <1>3, <1>4, <1>5, <1>6

\* Clamp returns its argument or a bound, and lands between the bounds.
LEMMA ClampSpec ==
  ASSUME NEW val \in Int, NEW low \in Int, NEW high \in Int
  PROVE  LET kept == Clamp(val, low, high)
         IN  /\ kept \in {val, low, high}
             /\ kept > val => kept = low
             /\ kept < val => kept = high
             /\ kept = val => (low <= val /\ val <= high)
BY DEF Clamp

\* The bounds in force at any time are a pair of numbers in the range of an entry's.
LEMMA ActiveBoundsType ==
  ASSUME NEW s \in Services, NEW t \in 0..MaxTime
  PROVE  ActiveBounds(s, t) \in EntryPairs
<1>1. Bounds[s] \in EntryPairs
  <2>1. Bounds[s] \in BoundPairs
    BY ConfigAssumption
  <2>2. 0..MaxCount \subseteq Limits
    BY SizeAssumption DEF Limits
  <2> QED
    BY <2>1, <2>2 DEF BoundPairs, EntryPairs
<1>2. Schedule[s] \in [0..MaxTime -> EntryPairs \cup {NoMatch}]
  BY ConfigAssumption
<1>3. Schedule[s][t] \in EntryPairs \cup {NoMatch}
  BY <1>2
<1> QED
  BY <1>1, <1>3 DEF ActiveBounds

\* The counts a platform may hold are limits; the current one is such a count.
LEMMA CountsType ==
  /\ 0 \in Counts /\ 0..MaxCount \subseteq Counts /\ Counts \subseteq Limits
  /\ TypeOK => Current \in Limits
<1>1. 0 \in Counts /\ 0..MaxCount \subseteq Counts /\ Counts \subseteq Limits
  BY SizeAssumption DEF Counts, Limits
<1>2. TypeOK => Current \in Counts
  BY ConfigAssumption DEF TypeOK, Current
<1> QED
  BY <1>1, <1>2

\* The count computed for a service lies in the range of the bounds.
LEMMA DesiredForType ==
  ASSUME TypeOK, NEW said \in [Policies[svc] -> Opinions \cup {NoOpinion}]
  PROVE  DesiredFor(said) \in Limits
<1> DEFINE active == ActiveBounds(svc, now)
           wanted == ComputeDesired(Current, Decisions(said))
<1>1. Current \in Limits
  BY CountsType
<1>2. wanted \in Int
  BY <1>1, DecisionsType, ComputeDesiredSpec
<1>3. active \in EntryPairs
  BY ActiveBoundsType DEF TypeOK
<1>4. active.min \in Limits /\ active.max \in Limits
  BY <1>3 DEF EntryPairs
<1>5. DesiredFor(said) = Clamp(wanted, active.min, active.max)
  BY DEF DesiredFor
<1> HIDE DEF active, wanted
<1> QED
  BY <1>2, <1>4, <1>5, SizeAssumption DEF Clamp, Limits
-----------------------------------------------------------------------------
(* Type correctness.                                                       *)

\* The sizes as numbers, and there is a first and a last service.
LEMMA Sizes ==
  /\ MaxCount \in Nat /\ MaxTime \in Nat /\ MaxRestarts \in Nat
  /\ 0 \in 0..MaxCount /\ 0 \in Limits /\ 0 \in 0..MaxTime /\ 1 \in 1..MaxTime /\ 0 \in 0..MaxRestarts
  /\ 1 \in Services
BY SizeAssumption DEF Services, Limits

\* Leaving a service, whatever the reason, keeps the loop's locals typed.
LEMMA LeaveType ==
  ASSUME TypeOK, Leave
  PROVE  /\ phase' \in Phases
         /\ svc' \in Services
         /\ now' \in 0..MaxTime /\ opinions' = << >> /\ desired' \in Limits
BY Sizes, SizeAssumption DEF TypeOK, Leave, Forget, Phases, Services

\* Recording a scale event keeps the recorded times typed.
LEMMA RecordType ==
  ASSUME TypeOK, RecordScaleEvent
  PROVE  /\ lastScale' \in [Services -> [Directions -> 0..MaxTime]]
         /\ lastEvent' \in [Services -> [Directions -> 0..MaxTime]]
         /\ cutoff' \in [Services -> 0..MaxTime]
<1>1. Direction \in Directions
  BY DEF Direction, Directions
<1>2. now \in 0..MaxTime /\ svc \in Services
  BY DEF TypeOK
<1>3. [lastScale[svc] EXCEPT ![Direction] = now] \in [Directions -> 0..MaxTime]
  BY <1>1, <1>2 DEF TypeOK
<1>4. [lastEvent[svc] EXCEPT ![Direction] = now] \in [Directions -> 0..MaxTime]
  BY <1>1, <1>2 DEF TypeOK
<1> QED
  BY <1>2, <1>3, <1>4 DEF TypeOK, RecordScaleEvent

\* The initial states are typed.
LEMMA InitType == Init => TypeOK
<1> SUFFICES ASSUME Init PROVE TypeOK
  OBVIOUS
<1>1. Never \in [Directions -> 0..MaxTime]
  BY SizeAssumption DEF Never, Directions
<1>2. platform \in [Identifiers -> Counts]
  BY CountsType DEF Init
<1> QED
  BY <1>1, <1>2, Sizes, CountsType DEF Init, TypeOK, Phases, NoCounts

\* Every step keeps the types.
LEMMA NextType == TypeOK /\ [Next]_vars => TypeOK'
<1> SUFFICES ASSUME TypeOK, [Next]_vars PROVE TypeOK'
  OBVIOUS
<1> USE DEF stateVars
<1>1. CASE StartTick
  BY <1>1 DEF StartTick, TypeOK, Phases, loopVars
<1>2. CASE FetchCounts
  BY <1>2 DEF FetchCounts, TypeOK, Phases, loopVars
<1>3. CASE FetchFails
  BY <1>3 DEF FetchFails, TypeOK, Phases, loopVars
<1>4. CASE BeginService
  BY <1>4 DEF BeginService, TypeOK, Phases
<1>5. CASE \E said \in Answers : Evaluate(said)
  <2>1. PICK said \in Answers : Evaluate(said)
    BY <1>5
  <2>2. said \in [Policies[svc] -> Opinions \cup {NoOpinion}]
    BY <2>1 DEF Answers
  <2>3. DesiredFor(said) \in Limits
    BY <2>2, DesiredForType
  <2>4. CASE Leave
    BY <2>1, <2>4, LeaveType DEF Evaluate, TypeOK
  <2>5. CASE ~Leave
    BY <2>1, <2>2, <2>3, <2>5 DEF Evaluate, TypeOK, Phases
  <2> QED
    BY <2>4, <2>5
<1>6. CASE CooldownBlocks
  BY <1>6, LeaveType DEF CooldownBlocks, TypeOK
<1>7. CASE DryRunScale
  BY <1>7, LeaveType, RecordType DEF DryRunScale, TypeOK
<1>8. CASE IssueScale
  BY <1>8 DEF IssueScale, TypeOK, Phases
<1>9. CASE ScaleTakesEffect
  <2>1. desired \in Counts
    BY <1>9 DEF ScaleTakesEffect
  <2> QED
    BY <1>9, <2>1, ConfigAssumption DEF ScaleTakesEffect, TypeOK, Phases, loopVars
<1>10. CASE ScaleSucceeds
  BY <1>10, LeaveType, RecordType DEF ScaleSucceeds, TypeOK
<1>11. CASE ScaleFails
  BY <1>11, LeaveType DEF ScaleFails, TypeOK
<1>12. CASE Stop
  BY <1>12 DEF Stop, TypeOK, Phases, loopVars
<1>13. CASE Advance
  BY <1>13, Sizes DEF Advance, TypeOK, loopVars
<1>14. CASE OutsideChange
  BY <1>14, Sizes, CountsType DEF OutsideChange, TypeOK, loopVars
<1>15. CASE Cancel
  BY <1>15 DEF Cancel, TypeOK, loopVars
<1>16. CASE Restart
  <2>1. Never \in [Directions -> 0..MaxTime]
    BY Sizes DEF Never, Directions
  <2>2. /\ lastScale' \in [Services -> [Directions -> 0..MaxTime]]
        /\ lastEvent' \in [Services -> [Directions -> 0..MaxTime]]
        /\ cutoff' \in [Services -> 0..MaxTime]
        /\ counts' \in [Identifiers -> Counts]
    BY <1>16, <2>1, Sizes, CountsType DEF Restart, NoCounts
  <2>3. /\ phase' \in Phases /\ svc' \in Services /\ now' \in 0..MaxTime
        /\ opinions' = << >> /\ desired' \in Limits
    BY <1>16, Sizes DEF Restart, Forget, Phases
  <2>4. restarts' \in 0..MaxRestarts
    BY <1>16, Sizes DEF Restart, TypeOK
  <2>5. cancelled' = FALSE /\ outside' = {} /\ clock' = clock /\ platform' = platform
    BY <1>16 DEF Restart
  <2> QED
    BY <2>2, <2>3, <2>4, <2>5 DEF TypeOK
<1>17. CASE UNCHANGED vars
  BY <1>17 DEF vars, loopVars, TypeOK
<1> QED
  BY <1>1, <1>2, <1>3, <1>4, <1>5, <1>6, <1>7, <1>8, <1>9, <1>10, <1>11, <1>12,
     <1>13, <1>14, <1>15, <1>16, <1>17 DEF Next, Loop

\* The variables of the loop keep their types, in particular every count asked
\* for is one a bound or a policy can name.
THEOREM TypeCorrect == Spec => []TypeOK
  BY InitType, NextType, PTL DEF Spec
-----------------------------------------------------------------------------
(* The loop invariant.                                                     *)

\* Leaving a service ends up in a phase that has nothing to decide.
LEMMA LeavePhase ==
  ASSUME Leave
  PROVE  phase' \notin {"evaluate"} \cup Deciding /\ now' = 0
BY DEF Leave, Forget, Deciding

\* A step that records nothing and leaves nothing to decide keeps the invariant.
LEMMA QuietStep ==
  ASSUME LoopInvariant, TypeOK', UNCHANGED stateVars, clock' = clock,
         now' <= clock, phase' \notin {"evaluate"} \cup Deciding
  PROVE  LoopInvariant'
BY DEF LoopInvariant, stateVars, CutoffIsLastScale, ScaleIsJustified,
       WithinActiveBounds, Deciding

\* In particular one that only leaves the service.
LEMMA LeaveStep ==
  ASSUME LoopInvariant, TypeOK', Leave, UNCHANGED <<clock, stateVars>>
  PROVE  LoopInvariant'
<1>1. now' <= clock
  BY LeavePhase DEF LoopInvariant, TypeOK
<1> QED
  BY <1>1, LeavePhase, QuietStep

\* A step that changes nothing the decision of a service rests on keeps it, also
\* when time goes on: out of its cooldown the service is and remains.
LEMMA SteadyStep ==
  ASSUME LoopInvariant, TypeOK', UNCHANGED <<stateVars, loopVars, counts>>,
         clock <= clock',
         phase' = phase \/ (phase \in Deciding /\ phase' \in Deciding),
         phase' \in {"scale", "applied"} => CanScale(svc, Direction, Current, clock)
  PROVE  LoopInvariant'
<1>1. /\ now' <= clock'
      /\ \A s \in Services, d \in Directions : lastScale'[s][d] <= clock'
  BY DEF LoopInvariant, stateVars, loopVars, TypeOK
<1>2. phase' \in Deciding <=> phase \in Deciding
  OBVIOUS
<1>3. ScaleIsJustified'
  BY <1>2 DEF LoopInvariant, ScaleIsJustified, Current, Decisions, ActiveBounds, loopVars
<1>4. WithinActiveBounds'
  BY <1>2 DEF LoopInvariant, WithinActiveBounds, loopVars
<1>5. CutoffIsLastScale'
  BY DEF LoopInvariant, CutoffIsLastScale, stateVars
<1>6. phase' \in {"evaluate"} \cup Deciding => phase \in {"evaluate"} \cup Deciding
  BY <1>2
<1>7. phase' \in {"scale", "applied"} => CanScale(svc, Direction, Current, clock)'
  <2> SUFFICES ASSUME CanScale(svc, Direction, Current, clock)
               PROVE  CanScale(svc, Direction, Current, clock)'
    OBVIOUS
  <2>1. svc \in Services /\ Direction \in Directions
    BY DEF LoopInvariant, TypeOK, Direction, Directions
  <2>2. /\ lastScale[svc][Direction] \in Int /\ Cooldown[svc][Direction] \in Int
        /\ clock \in Int /\ clock' \in Int
    BY <2>1, ConfigAssumption, Sizes DEF LoopInvariant, TypeOK
  <2>3. Current' = Current /\ Direction' = Direction /\ svc' = svc /\ lastScale' = lastScale
    BY DEF Current, Direction, stateVars, loopVars
  <2> QED
    BY <2>2, <2>3 DEF CanScale
<1> QED
  BY <1>1, <1>2, <1>3, <1>4, <1>5, <1>6, <1>7 DEF LoopInvariant, stateVars, loopVars

\* When one of the two timestamps of a service is t and the other is no later,
\* the later of them is t.
LEMMA LaterOfBoth ==
  ASSUME NEW up \in Int, NEW down \in Int, NEW t \in Int,
         up <= t, down <= t, up = t \/ down = t
  PROVE  Max({up, down}) = t
BY MaxOfTwo

\* Recording a scale event at the time the reconciliation began keeps the
\* recorded times ordered, and that time is the latest of the service's.
LEMMA RecordStep ==
  ASSUME LoopInvariant, TypeOK', RecordScaleEvent, Leave, clock' = clock,
         phase \in Deciding
  PROVE  LoopInvariant'
<1>1. phase' \notin {"evaluate"} \cup Deciding /\ now' = 0
  BY LeavePhase
<1>0. Direction \in Directions
  BY DEF Direction, Directions
<1>2. /\ svc \in Services /\ Direction \in Directions
      /\ now \in Int /\ clock \in Int /\ 0 <= now /\ now <= clock
      /\ lastScale \in [Services -> [Directions -> 0..MaxTime]]
      /\ cutoff \in [Services -> 0..MaxTime]
  BY <1>0, Sizes DEF LoopInvariant, TypeOK
<1>3. /\ lastScale' = [lastScale EXCEPT ![svc][Direction] = now]
      /\ lastEvent' = [lastEvent EXCEPT ![svc][Direction] = now]
      /\ cutoff' = [cutoff EXCEPT ![svc] = now]
  BY DEF RecordScaleEvent
<1>4. lastScale' = lastEvent'
  BY <1>3 DEF LoopInvariant
<1>5. \A d \in Directions : lastScale'[svc][d] = IF d = Direction THEN now ELSE lastScale[svc][d]
  BY <1>2, <1>3
<1>6. \A s \in Services \ {svc} : lastScale'[s] = lastScale[s] /\ cutoff'[s] = cutoff[s]
  BY <1>2, <1>3
<1>7. \A d \in Directions : lastScale[svc][d] \in Int /\ lastScale[svc][d] <= now
  BY <1>2 DEF LoopInvariant
<1>8. \A s \in Services, d \in Directions : lastScale'[s][d] <= clock'
  <2> TAKE s \in Services, d \in Directions
  <2>1. CASE s = svc
    BY <2>1, <1>2, <1>5, <1>7
  <2>2. CASE s # svc
    BY <2>2, <1>6 DEF LoopInvariant
  <2> QED
    BY <2>1, <2>2
<1>9. CutoffIsLastScale'
  <2> SUFFICES ASSUME NEW s \in Services
               PROVE  cutoff'[s] = Max({lastScale'[s][d] : d \in Directions})
    BY DEF CutoffIsLastScale
  <2>1. CASE s = svc
    <3> DEFINE f == lastScale'[svc]
    <3>1. "up" \in Directions /\ "down" \in Directions
      BY DEF Directions
    <3>2. f["up"] \in Int /\ f["down"] \in Int /\ f["up"] <= now /\ f["down"] <= now
      BY <1>2, <1>5, <1>7, <3>1
    <3>3. f["up"] = now \/ f["down"] = now
      BY <1>2, <1>5, <3>1 DEF Directions
    <3>4. {f[d] : d \in Directions} = {f["up"], f["down"]}
      BY DEF Directions
    <3>5. Max({f["up"], f["down"]}) = now
      BY <3>2, <3>3, <1>2, LaterOfBoth
    <3>6. cutoff'[svc] = now
      BY <1>2, <1>3
    <3> QED
      BY <2>1, <3>4, <3>5, <3>6
  <2>2. CASE s # svc
    BY <2>2, <1>6 DEF LoopInvariant, CutoffIsLastScale
  <2> QED
    BY <2>1, <2>2
<1>10. ScaleIsJustified' /\ WithinActiveBounds'
  BY <1>1 DEF ScaleIsJustified, WithinActiveBounds, Deciding
<1> QED
  BY <1>1, <1>2, <1>4, <1>8, <1>9, <1>10 DEF LoopInvariant, Deciding

\* What Evaluate computes is justified by the opinions and lies within the bounds.
LEMMA EvaluateDecides ==
  ASSUME LoopInvariant, NEW said \in [Policies[svc] -> Opinions \cup {NoOpinion}],
         Decisions(said) # {}, phase = "evaluate",
         opinions' = said, desired' = DesiredFor(said), phase' = "cooldown",
         UNCHANGED <<svc, now, counts>>
  PROVE  ScaleIsJustified' /\ WithinActiveBounds'
<1> DEFINE active == ActiveBounds(svc, now)
           told == Decisions(said)
           wanted == ComputeDesired(Current, told)
<1>1. Current \in Limits /\ Current \in Int /\ Current' = Current
  BY CountsType, Sizes DEF LoopInvariant, Current, Limits
<1>2. told \subseteq (-2 * MaxCount)..(2 * MaxCount) /\ 2 * MaxCount \in Int
  BY DecisionsType, Sizes
<1>3. /\ wanted \in Int
      /\ wanted > Current => wanted \in told \/ (Current < 0 /\ wanted = 0)
      /\ wanted < Current => \A d \in told : d < Current /\ d <= wanted
  BY <1>1, <1>2, ComputeDesiredSpec
<1>4. active \in EntryPairs /\ active' = active
  BY ActiveBoundsType DEF LoopInvariant, TypeOK, ActiveBounds
<1>5. active.min \in Int /\ active.max \in Int
  BY <1>4, Sizes DEF EntryPairs, Limits
<1>6. desired' = Clamp(wanted, active.min, active.max)
  BY DEF DesiredFor
<1>7. told # {} /\ Decisions(opinions)' = told
  BY DEF Decisions
<1>8. \A d \in told : d \in Int
  BY <1>2
<1>9. ScaleIsJustified'
  <2> HIDE DEF active, told, wanted
  <2>1. /\ desired' \in {wanted, active.min, active.max}
        /\ desired' > wanted => desired' = active.min
        /\ desired' < wanted => desired' = active.max
        /\ desired' \in Int
    BY <1>3, <1>5, <1>6, ClampSpec
  <2>2. desired' > Current => \/ desired' = active.min
                              \/ \E d \in told : d >= desired'
                              \/ Current < 0 /\ desired' <= 0
    BY <2>1, <1>1, <1>3, <1>8, Sizes
  <2>3. desired' < Current => desired' = active.max \/ \A d \in told : d < Current /\ d <= desired'
    BY <2>1, <1>1, <1>3, <1>5, <1>8, Sizes
  <2> QED
    BY <2>2, <2>3, <1>1, <1>4, <1>7 DEF ScaleIsJustified, active, told
<1>10. WithinActiveBounds'
  <2>1. active = IF Schedule[svc][now] = NoMatch THEN Bounds[svc] ELSE Schedule[svc][now]
    BY DEF ActiveBounds
  <2> DEFINE limits == {active.min, active.max}
  <2>2. /\ Max(limits) = IF active.min >= active.max THEN active.min ELSE active.max
        /\ Min(limits) = IF active.min <= active.max THEN active.min ELSE active.max
    BY <1>5, MaxOfTwo, MinOfTwo
  <2>3. desired' >= Min(limits) /\ desired' <= Max(limits)
    <3> HIDE DEF active, limits, wanted
    <3> QED
      BY <2>2, <1>3, <1>5, <1>6 DEF Clamp
  <2> QED
    BY <2>1, <2>3, <1>4 DEF WithinActiveBounds
<1> QED
  BY <1>9, <1>10

\* Nothing is recorded and nothing decided at the start.
LEMMA InitInvariant == Init => LoopInvariant
<1> SUFFICES ASSUME Init PROVE LoopInvariant
  OBVIOUS
<1>1. CutoffIsLastScale
  <2> SUFFICES ASSUME NEW s \in Services
               PROVE  cutoff[s] = Max({lastScale[s][d] : d \in Directions})
    BY DEF CutoffIsLastScale
  <2>1. {lastScale[s][d] : d \in Directions} = {0, 0}
    BY DEF Init, Never, Directions
  <2>2. Max({0, 0}) = 0
    BY MaxOfTwo
  <2> QED
    BY <2>1, <2>2 DEF Init
<1> QED
  BY <1>1, InitType DEF Init, LoopInvariant, Never, Directions, ScaleIsJustified,
     WithinActiveBounds, Deciding

\* Every step of the loop and of what surrounds it keeps the invariant.
LEMMA NextInvariant == LoopInvariant /\ [Next]_vars => LoopInvariant'
<1> SUFFICES ASSUME LoopInvariant, [Next]_vars PROVE LoopInvariant'
  OBVIOUS
<1>0. TypeOK /\ TypeOK'
  BY NextType DEF LoopInvariant
<1>00. phase \in {"scale", "applied"} => CanScale(svc, Direction, Current, clock)
  BY DEF LoopInvariant
<1>1. CASE StartTick
  BY <1>0, <1>1, QuietStep DEF StartTick, loopVars, Deciding, LoopInvariant
<1>2. CASE FetchCounts
  BY <1>0, <1>2, QuietStep DEF FetchCounts, loopVars, Deciding, LoopInvariant
<1>3. CASE FetchFails
  BY <1>0, <1>3, QuietStep DEF FetchFails, loopVars, Deciding, LoopInvariant
<1>4. CASE BeginService
  <2>1. /\ now' = clock /\ clock' = clock /\ phase' = "evaluate"
        /\ UNCHANGED stateVars
    BY <1>4 DEF BeginService
  <2>2. clock > 0 /\ now' <= clock'
    BY <1>0, <2>1, Sizes DEF TypeOK
  <2>3. CutoffIsLastScale'
    BY <2>1 DEF LoopInvariant, CutoffIsLastScale, stateVars
  <2>4. ScaleIsJustified' /\ WithinActiveBounds' /\ phase' \notin Deciding
    BY <2>1 DEF ScaleIsJustified, WithinActiveBounds, Deciding
  <2> QED
    BY <1>0, <2>1, <2>2, <2>3, <2>4 DEF LoopInvariant, stateVars
<1>5. CASE \E said \in Answers : Evaluate(said)
  <2>1. PICK said \in Answers : Evaluate(said)
    BY <1>5
  <2>2. said \in [Policies[svc] -> Opinions \cup {NoOpinion}]
    BY <2>1 DEF Answers
  <2>3. phase = "evaluate" /\ UNCHANGED <<clock, counts, stateVars>>
    BY <2>1 DEF Evaluate
  <2>4. CASE Leave
    BY <1>0, <2>3, <2>4, LeaveStep
  <2>5. CASE ~Leave
    <3>1. /\ Decisions(said) # {} /\ phase' = "cooldown" /\ opinions' = said
          /\ desired' = DesiredFor(said) /\ UNCHANGED <<svc, now>>
      BY <2>1, <2>5 DEF Evaluate
    <3>2. ScaleIsJustified' /\ WithinActiveBounds'
      BY <2>2, <2>3, <3>1, EvaluateDecides
    <3> QED
      BY <1>0, <2>2, <2>3, <3>1, <3>2
         DEF LoopInvariant, stateVars, CutoffIsLastScale
  <2> QED
    BY <2>4, <2>5
<1>6. CASE CooldownBlocks
  BY <1>0, <1>6, LeaveStep DEF CooldownBlocks
<1>7. CASE DryRunScale
  BY <1>0, <1>7, RecordStep DEF DryRunScale, Deciding
<1>8. CASE IssueScale
  BY <1>0, <1>8, SteadyStep DEF IssueScale, Deciding, loopVars, TypeOK
<1>9. CASE ScaleTakesEffect
  BY <1>0, <1>00, <1>9, SteadyStep DEF ScaleTakesEffect, Deciding, TypeOK
<1>10. CASE ScaleSucceeds
  BY <1>0, <1>10, RecordStep DEF ScaleSucceeds, Deciding
<1>11. CASE ScaleFails
  BY <1>0, <1>11, LeaveStep DEF ScaleFails
<1>12. CASE Stop
  BY <1>0, <1>12, QuietStep DEF Stop, loopVars, Deciding, LoopInvariant
<1>13. CASE Advance
  BY <1>0, <1>00, <1>13, SteadyStep DEF Advance, TypeOK
<1>14. CASE OutsideChange
  BY <1>0, <1>00, <1>14, SteadyStep DEF OutsideChange, TypeOK
<1>15. CASE Cancel
  BY <1>0, <1>00, <1>15, SteadyStep DEF Cancel, TypeOK
<1>16. CASE Restart
  <2>1. /\ lastScale' = [s \in Services |-> Never] /\ lastEvent' = lastScale'
        /\ cutoff' = [s \in Services |-> 0] /\ clock' = clock /\ now' = 0
        /\ phase' = "fetch"
    BY <1>16 DEF Restart, Forget
  <2>2. CutoffIsLastScale'
    <3> SUFFICES ASSUME NEW s \in Services
                 PROVE  cutoff'[s] = Max({lastScale'[s][d] : d \in Directions})
      BY DEF CutoffIsLastScale
    <3>1. {lastScale'[s][d] : d \in Directions} = {0, 0}
      BY <2>1 DEF Never, Directions
    <3>2. Max({0, 0}) = 0
      BY MaxOfTwo
    <3> QED
      BY <2>1, <3>1, <3>2
  <2>3. \A s \in Services, d \in Directions : lastScale'[s][d] = 0
    BY <2>1 DEF Never, Directions
  <2> QED
    BY <1>0, <2>1, <2>2, <2>3 DEF LoopInvariant, TypeOK, Deciding, ScaleIsJustified,
       WithinActiveBounds
<1>17. CASE UNCHANGED vars
  BY <1>0, <1>00, <1>17, SteadyStep DEF vars, TypeOK
<1> QED
  BY <1>1, <1>2, <1>3, <1>4, <1>5, <1>6, <1>7, <1>8, <1>9, <1>10, <1>11, <1>12,
     <1>13, <1>14, <1>15, <1>16, <1>17 DEF Next, Loop

\* The loop invariant: recorded times are those of the calls that succeeded, lie
\* before the reconciliation in progress, and the later of a service's two is the
\* cutoff of its window policies.
THEOREM LoopInvariantHolds == Spec => []LoopInvariant
  BY InitInvariant, NextInvariant, PTL DEF Spec

-----------------------------------------------------------------------------
(* The properties.                                                         *)

\* Every count asked for is backed by the policies' opinions or forced by a bound.
THEOREM ScaleJustified == Spec => []ScaleIsJustified
<1>1. LoopInvariant => ScaleIsJustified
  BY DEF LoopInvariant
<1> QED
  BY <1>1, LoopInvariantHolds, PTL

\* No count outside the bounds in force is ever asked for, inverted or not.
THEOREM BoundsHonoured == Spec => []WithinActiveBounds
<1>1. LoopInvariant => WithinActiveBounds
  BY DEF LoopInvariant
<1> QED
  BY <1>1, LoopInvariantHolds, PTL

\* The window policies' cutoff is the time of the last recorded scale event.
THEOREM CutoffCorrect == Spec => []CutoffIsLastScale
<1>1. LoopInvariant => CutoffIsLastScale
  BY DEF LoopInvariant
<1> QED
  BY <1>1, LoopInvariantHolds, PTL

\* Only a successful scale of the same service in the same direction starts the
\* cooldown that holds a service back.
THEOREM CooldownOnlyAfterSuccess == Spec => []BlockedOnlyAfterSuccess
<1>1. LoopInvariant => BlockedOnlyAfterSuccess
  <2> SUFFICES ASSUME LoopInvariant, phase = "cooldown",
                      ~CanScale(svc, Direction, Current, clock)
               PROVE  /\ lastEvent[svc][Direction] # 0
                      /\ clock - lastEvent[svc][Direction] < Cooldown[svc][Direction]
    BY DEF BlockedOnlyAfterSuccess
  <2>1. svc \in Services /\ Direction \in Directions
    BY DEF LoopInvariant, TypeOK, Direction, Directions
  <2>2. lastScale[svc][Direction] \in Int /\ Cooldown[svc][Direction] \in Int
    BY <2>1, ConfigAssumption, Sizes DEF LoopInvariant, TypeOK
  <2>3. clock \in Int
    BY Sizes DEF LoopInvariant, TypeOK
  <2> QED
    BY <2>1, <2>2, <2>3 DEF CanScale, LoopInvariant
<1> QED
  BY <1>1, LoopInvariantHolds, PTL

-----------------------------------------------------------------------------
(* The counts of a tick.                                                   *)

\* The count read for service s is the platform's, or there is a reason.
Fresh(s) ==
  \/ counts[Identifier[s]] = platform[Identifier[s]]
  \/ Identifier[s] \in outside
  \/ \E e \in 1..(s - 1) : Identifier[e] = Identifier[s]

\* So it is for every service still to be decided; the one whose Scale has taken
\* effect is the reason for those that share its identifier.
FreshInvariant ==
  /\ phase \in {"begin", "evaluate", "cooldown", "scale"} =>
       \A s \in Services : s >= svc => Fresh(s)
  /\ phase = "applied" => \A s \in Services : s > svc => Fresh(s)

\* A step that writes neither keeps the counts as fresh as they were.
LEMMA FreshStays ==
  ASSUME NEW s, Fresh(s), UNCHANGED <<counts, platform, outside>>
  PROVE  Fresh(s)'
BY DEF Fresh

\* Leaving a service leaves those after it to be decided.
LEMMA LeaveFresh ==
  ASSUME TypeOK, FreshInvariant, Leave, UNCHANGED <<counts, platform, outside>>,
         phase \in {"evaluate", "cooldown", "scale", "applied"}
  PROVE  FreshInvariant'
<1>1. \A s \in Services : s > svc => Fresh(s)'
  <2>1. \A s \in Services : s > svc => Fresh(s)
    BY Sizes DEF FreshInvariant, TypeOK, Services
  <2> QED
    BY <2>1, FreshStays
<1>2. CASE svc < NumServices
  <2>1. svc' = svc + 1 /\ phase' = "begin"
    BY <1>2 DEF Leave
  <2> QED
    BY <1>1, <2>1, Sizes DEF FreshInvariant, TypeOK, Services
<1>3. CASE ~(svc < NumServices)
  BY <1>3 DEF Leave, FreshInvariant
<1> QED
  BY <1>2, <1>3

\* Every step keeps the invariant.
LEMMA NextFresh == TypeOK /\ FreshInvariant /\ [Next]_vars => FreshInvariant'
<1> SUFFICES ASSUME TypeOK, FreshInvariant, [Next]_vars PROVE FreshInvariant'
  OBVIOUS
<1>1. CASE StartTick \/ FetchFails \/ Stop \/ Restart
  BY <1>1 DEF StartTick, FetchFails, Stop, Restart, FreshInvariant
<1>2. CASE FetchCounts
  BY <1>2 DEF FetchCounts, FreshInvariant, Fresh
<1>3. CASE BeginService \/ IssueScale \/ Advance \/ Cancel \/ UNCHANGED vars
  <2>1. UNCHANGED <<svc, counts, platform, outside>>
    BY <1>3 DEF BeginService, IssueScale, Advance, Cancel, vars, loopVars
  <2>2. /\ phase' \in {"begin", "evaluate", "cooldown", "scale"} =>
             phase \in {"begin", "evaluate", "cooldown", "scale"}
        /\ phase' = "applied" => phase = "applied"
    BY <1>3 DEF BeginService, IssueScale, Advance, Cancel, vars
  <2> QED
    BY <2>1, <2>2, FreshStays DEF FreshInvariant
<1>4. CASE \E said \in Answers : Evaluate(said)
  <2>1. PICK said \in Answers : Evaluate(said)
    BY <1>4
  <2>2. phase = "evaluate" /\ UNCHANGED <<counts, platform, outside>>
    BY <2>1 DEF Evaluate
  <2>3. Leave \/ (phase' = "cooldown" /\ svc' = svc)
    BY <2>1 DEF Evaluate
  <2> QED
    BY <2>2, <2>3, LeaveFresh, FreshStays DEF FreshInvariant
<1>5. CASE CooldownBlocks \/ DryRunScale \/ ScaleSucceeds \/ ScaleFails
  BY <1>5, LeaveFresh DEF CooldownBlocks, DryRunScale, ScaleSucceeds, ScaleFails
<1>6. CASE ScaleTakesEffect
  <2>1. /\ phase = "scale" /\ phase' = "applied"
        /\ UNCHANGED <<svc, counts, outside>>
        /\ platform' = [platform EXCEPT ![Identifier[svc]] = desired]
    BY <1>6 DEF ScaleTakesEffect, loopVars
  <2>2. ASSUME NEW s \in Services, s > svc PROVE Fresh(s)'
    <3>1. Fresh(s)
      BY <2>1, <2>2, Sizes DEF FreshInvariant, TypeOK, Services
    <3>2. svc \in 1..(s - 1)
      BY <2>2, Sizes DEF TypeOK, Services
    <3>3. CASE Identifier[s] = Identifier[svc]
      BY <3>2, <3>3 DEF Fresh
    <3>4. CASE Identifier[s] # Identifier[svc]
      <4>1. platform'[Identifier[s]] = platform[Identifier[s]]
        BY <2>1, <3>4, ConfigAssumption DEF TypeOK
      <4> QED
        BY <2>1, <3>1, <4>1 DEF Fresh
    <3> QED
      BY <3>3, <3>4
  <2> QED
    BY <2>1, <2>2 DEF FreshInvariant
<1>7. CASE OutsideChange
  <2>1. PICK id \in Identifiers, n \in 0..MaxCount :
          platform' = [platform EXCEPT ![id] = n] /\ outside' = outside \cup {id}
    BY <1>7 DEF OutsideChange
  <2>2. UNCHANGED <<phase, svc, counts>>
    BY <1>7 DEF OutsideChange, loopVars
  <2>3. \A s \in Services : Fresh(s) => Fresh(s)'
    BY <2>1, <2>2, ConfigAssumption DEF Fresh, TypeOK
  <2> QED
    BY <2>2, <2>3 DEF FreshInvariant
<1> QED
  BY <1>1, <1>2, <1>3, <1>4, <1>5, <1>6, <1>7 DEF Next, Loop

\* A service is decided on the count the platform has, unless someone outside or
\* an earlier service of the same identifier wrote it since the tick began.
THEOREM CountIsFresh == Spec => []DecidedOnFreshCount
<1>1. Init => FreshInvariant
  BY DEF Init, FreshInvariant
<1>2. TypeOK /\ FreshInvariant => DecidedOnFreshCount
  BY Sizes DEF FreshInvariant, Fresh, DecidedOnFreshCount, Current, TypeOK, Services
<1> QED
  BY <1>1, <1>2, NextFresh, TypeCorrect, PTL DEF Spec

\* A process started with the dry-run flag never writes the platform, also when one
\* without it was restarted in the middle of a Scale.
THEOREM DryRunWatches == Spec => DryRunOnlyWatches
<1> DEFINE Undecided == DryRun[restarts] => phase \notin {"scale", "applied"}
<1>1. Init => Undecided
  BY DEF Init
<1>2. Undecided /\ [Next]_vars => Undecided'
  <2> SUFFICES ASSUME Undecided, [Next]_vars PROVE Undecided'
    OBVIOUS
  <2>1. CASE Restart
    BY <2>1 DEF Restart
  <2>2. CASE ~Restart
    BY <2>2 DEF Next, Loop, StartTick, FetchCounts, FetchFails, BeginService, Evaluate,
       CooldownBlocks, DryRunScale, IssueScale, ScaleTakesEffect, ScaleSucceeds,
       ScaleFails, Stop, Advance, OutsideChange, Cancel, Leave, vars
  <2> QED
    BY <2>1, <2>2
<1>3. Undecided /\ [Next]_vars
        => [DryRun[restarts] => (platform' = platform \/ OutsideChange)]_vars
  BY DEF Next, Loop, StartTick, FetchCounts, FetchFails, BeginService, Evaluate,
     CooldownBlocks, DryRunScale, IssueScale, ScaleTakesEffect, ScaleSucceeds, ScaleFails,
     Stop, Advance, Cancel, Restart, vars
<1> QED
  BY <1>1, <1>2, <1>3, PTL DEF Spec, DryRunOnlyWatches

-----------------------------------------------------------------------------
(* The history of effects.                                                 *)

\* The loop handles one service at a time, so whatever took effect before a
\* reconciliation began is no later than the start of it, from which the cooldown
\* after it is measured.
HistoryInvariant ==
  /\ effect \in Int /\ effect <= clock
  /\ latest \in [Services -> [Directions -> Int]]
  /\ earlier \in [Services -> [Directions -> Int]]
  /\ \A s \in Services, d \in Directions :
       /\ latest[s][d] <= clock
       /\ phase \in {"evaluate"} \cup Deciding => latest[s][d] <= now
       /\ 0 <= earlier[s][d] /\ earlier[s][d] <= lastScale[s][d]
       /\ 0 <= latest[s][d]
  /\ 0 <= effect

\* A step of the history is a step of the loop.
LEMMA HistoryStep == [NextHistory]_historyVars => [Next]_vars
BY DEF NextHistory, historyVars, Control, Evaluation, Effect, Success, Failure,
   DryRunReport, Cancellation, Environment, RestartHistory, Next, Loop

\* The end of a Scale, recorded or not, leaves the history in order.
LEMMA RememberKeeps ==
  ASSUME LoopInvariant, HistoryInvariant, NEW time \in Nat, time <= clock,
         NEW succeeded \in BOOLEAN, Remember(time, succeeded),
         IF succeeded THEN RecordScaleEvent ELSE lastScale' = lastScale,
         Leave, phase \in Deciding, clock' = clock
  PROVE  HistoryInvariant'
<1>1. svc \in Services /\ Direction \in Directions /\ clock \in Int /\ now \in Int
  BY Sizes DEF LoopInvariant, TypeOK, Direction, Directions
<1>2. phase' \notin {"evaluate"} \cup Deciding
  BY LeavePhase
<1>3. /\ latest' \in [Services -> [Directions -> Int]]
      /\ \A s \in Services, d \in Directions : 0 <= latest'[s][d] /\ latest'[s][d] <= clock
  BY <1>1 DEF HistoryInvariant, Remember
<1>4. earlier' \in [Services -> [Directions -> Int]] /\ lastScale \in [Services -> [Directions -> Nat]]
  BY <1>1, Sizes DEF HistoryInvariant, LoopInvariant, TypeOK, Remember
<1>5. ASSUME NEW s \in Services, NEW d \in Directions
      PROVE  0 <= earlier'[s][d] /\ earlier'[s][d] <= lastScale'[s][d]
  <2>0. 0 <= earlier[s][d] /\ earlier[s][d] <= lastScale[s][d]
    BY DEF HistoryInvariant
  <2>1. CASE succeeded /\ s = svc /\ d = Direction
    <3>1. earlier'[s][d] = latest[s][d]
      BY <1>1, <2>1 DEF HistoryInvariant, Remember
    <3>2. lastScale'[s][d] = now
      BY <1>1, <1>4, <2>1 DEF RecordScaleEvent
    <3>3. 0 <= latest[s][d] /\ latest[s][d] <= now
      BY DEF HistoryInvariant
    <3> QED
      BY <3>1, <3>2, <3>3
  <2>2. CASE succeeded /\ ~(s = svc /\ d = Direction)
    <3>1. earlier'[s][d] = earlier[s][d]
      BY <1>1, <2>2 DEF HistoryInvariant, Remember
    <3>2. lastScale'[s][d] = lastScale[s][d]
      BY <1>1, <1>4, <2>2 DEF RecordScaleEvent
    <3> QED
      BY <2>0, <3>1, <3>2
  <2>3. CASE ~succeeded
    BY <2>0, <2>3 DEF Remember
  <2> QED
    BY <2>1, <2>2, <2>3
<1>6. effect' = 0
  BY DEF Remember
<1> QED
  BY <1>1, <1>2, <1>3, <1>4, <1>5, <1>6 DEF HistoryInvariant

\* A step that leaves the history alone keeps it, if it only reads the clock when it
\* starts a service.
LEMMA EffectsStay ==
  ASSUME LoopInvariant, HistoryInvariant, UNCHANGED <<effectVars, lastScale>>,
         clock' \in Int, clock <= clock',
         \/ phase' \notin {"evaluate"} \cup Deciding
         \/ now' = clock
         \/ now' = now /\ phase \in {"evaluate"} \cup Deciding
  PROVE  HistoryInvariant'
<1>1. clock \in Int
  BY Sizes DEF LoopInvariant, TypeOK
<1>2. ASSUME NEW s \in Services, NEW d \in Directions
      PROVE  /\ latest[s][d] <= clock'
             /\ phase' \in {"evaluate"} \cup Deciding => latest[s][d] <= now'
  <2>1. /\ latest[s][d] \in Int /\ latest[s][d] <= clock
        /\ phase \in {"evaluate"} \cup Deciding => latest[s][d] <= now
    BY DEF HistoryInvariant
  <2> QED
    BY <1>1, <2>1
<1>3. effect <= clock'
  BY <1>1 DEF HistoryInvariant
<1> QED
  BY <1>2, <1>3 DEF HistoryInvariant, effectVars

LEMMA InitHistoryInvariant == InitHistory => HistoryInvariant
<1> SUFFICES ASSUME InitHistory PROVE HistoryInvariant
  OBVIOUS
<1>1. \A d \in Directions : Never[d] = 0
  BY DEF Never, Directions
<1>2. Never \in [Directions -> Int]
  BY DEF Never, Directions
<1> QED
  BY <1>1, <1>2 DEF InitHistory, Init, HistoryInvariant, Deciding

LEMMA NextHistoryInvariant ==
  LoopInvariant /\ HistoryInvariant /\ [NextHistory]_historyVars => HistoryInvariant'
<1> SUFFICES ASSUME LoopInvariant, HistoryInvariant, [NextHistory]_historyVars
             PROVE  HistoryInvariant'
  OBVIOUS
<1>0. clock \in Nat /\ TypeOK /\ TypeOK' /\ clock' \in Nat
  BY HistoryStep, NextType, Sizes DEF LoopInvariant, TypeOK
<1>1. CASE StartTick /\ UNCHANGED effectVars
  BY <1>0, <1>1, EffectsStay DEF StartTick, stateVars, Deciding
<1>2. CASE FetchCounts /\ UNCHANGED effectVars
  BY <1>0, <1>2, EffectsStay DEF FetchCounts, stateVars, Deciding
<1>3. CASE FetchFails /\ UNCHANGED effectVars
  BY <1>0, <1>3, EffectsStay DEF FetchFails, stateVars, Deciding
<1>4. CASE BeginService /\ UNCHANGED effectVars
  BY <1>0, <1>4, EffectsStay DEF BeginService, stateVars
<1>5. CASE CooldownBlocks /\ UNCHANGED effectVars
  BY <1>0, <1>5, LeavePhase, EffectsStay DEF CooldownBlocks, stateVars
<1>6. CASE IssueScale /\ UNCHANGED effectVars
  BY <1>0, <1>6, EffectsStay DEF IssueScale, stateVars, Deciding
<1>7. CASE Evaluation
  <2>1. PICK said \in Answers : Evaluate(said)
    BY <1>7 DEF Evaluation
  <2>2. phase = "evaluate" /\ clock' = clock /\ UNCHANGED <<effectVars, lastScale>>
    BY <1>7, <2>1 DEF Evaluation, Evaluate, stateVars
  <2>3. Leave \/ now' = now
    BY <2>1 DEF Evaluate
  <2> QED
    BY <1>0, <2>2, <2>3, LeavePhase, EffectsStay
<1>8. CASE Effect
  <2>1. /\ effect' = clock /\ UNCHANGED <<latest, earlier, lastScale, clock, now>>
        /\ phase \in Deciding
    BY <1>8 DEF Effect, ScaleTakesEffect, stateVars, loopVars, Deciding
  <2> QED
    BY <1>0, <2>1 DEF HistoryInvariant
<1>9. CASE Success
  <2>1. /\ Remember(effect, TRUE) /\ RecordScaleEvent /\ Leave /\ clock' = clock
        /\ phase \in Deciding
    BY <1>9 DEF Success, ScaleSucceeds, Deciding
  <2>2. effect \in Nat /\ effect <= clock
    BY DEF HistoryInvariant
  <2> QED
    BY <2>1, <2>2, RememberKeeps
<1>10. CASE Failure
  <2>1. /\ Remember(effect, FALSE) /\ lastScale' = lastScale /\ Leave /\ clock' = clock
        /\ phase \in Deciding
    BY <1>10 DEF Failure, ScaleFails, stateVars, Deciding
  <2>2. effect \in Nat /\ effect <= clock
    BY DEF HistoryInvariant
  <2> QED
    BY <2>1, <2>2, RememberKeeps
<1>11. CASE DryRunReport
  <2>1. /\ Remember(clock, TRUE) /\ RecordScaleEvent /\ Leave /\ clock' = clock
        /\ phase \in Deciding
    BY <1>11 DEF DryRunReport, DryRunScale, Deciding
  <2>2. clock \in Nat /\ clock <= clock
    BY <1>0
  <2> QED
    BY <2>1, <2>2, RememberKeeps
<1>12. CASE Cancellation
  <2>1. CASE Cancel
    <3>1. UNCHANGED <<effectVars, lastScale, clock, phase, now>>
      BY <1>12, <2>1 DEF Cancellation, Cancel, stateVars, loopVars
    <3> QED
      BY <1>0, <3>1, EffectsStay
  <2>2. CASE Stop
    BY <1>0, <1>12, <2>2, EffectsStay DEF Cancellation, Stop, stateVars, Deciding
  <2> QED
    BY <1>12, <2>1, <2>2 DEF Cancellation
<1>13. CASE Environment
  <2>1. UNCHANGED <<effectVars, lastScale, phase, now>> /\ clock <= clock'
    BY <1>0, <1>13 DEF Environment, Advance, OutsideChange, stateVars, loopVars
  <2> QED
    BY <1>0, <2>1, EffectsStay
<1>14. CASE RestartHistory
  <2>1. /\ effect' = 0 /\ clock' = clock /\ phase' = "fetch"
        /\ latest' = [s \in Services |-> Never] /\ earlier' = latest' /\ lastScale' = latest'
    BY <1>14 DEF RestartHistory, Restart
  <2>2. (\A d \in Directions : Never[d] = 0) /\ Never \in [Directions -> Int]
    BY DEF Never, Directions
  <2> QED
    BY <1>0, <2>1, <2>2 DEF HistoryInvariant, Deciding
<1>15. CASE UNCHANGED historyVars
  <2>1. UNCHANGED <<effectVars, lastScale, clock, phase, now>>
    BY <1>15 DEF historyVars, vars, stateVars, loopVars
  <2> QED
    BY <1>0, <2>1, EffectsStay
<1>16. Control => UNCHANGED effectVars
  BY DEF Control
<1> QED
  BY <1>1, <1>2, <1>3, <1>4, <1>5, <1>6, <1>7, <1>8, <1>9, <1>10, <1>11, <1>12, <1>13,
     <1>14, <1>15, <1>16 DEF NextHistory, Control

\* Of three scales of a service in one direction, the second of them successful, the
\* last takes effect a cooldown after the first did, whatever the calls took and the
\* others reported.
THEOREM EffectsApart == SpecHistory => CooldownBetweenEffects
<1> DEFINE Apart == \/ earlier[svc][Direction] = 0
                    \/ Current = 0 /\ Direction = "up"
                    \/ clock - earlier[svc][Direction] >= Cooldown[svc][Direction]
<1>1. LoopInvariant /\ HistoryInvariant => ((Effect \/ DryRunReport) => Apart)
  <2> SUFFICES ASSUME LoopInvariant, HistoryInvariant, Effect \/ DryRunReport
               PROVE  Apart
    OBVIOUS
  <2>1. CanScale(svc, Direction, Current, clock)
    BY DEF Effect, ScaleTakesEffect, DryRunReport, DryRunScale, LoopInvariant
  <2>2. svc \in Services /\ Direction \in Directions
    BY DEF LoopInvariant, TypeOK, Direction, Directions
  <2>3. /\ lastScale[svc][Direction] \in Int /\ Cooldown[svc][Direction] \in Int
        /\ clock \in Int /\ earlier[svc][Direction] \in Int
        /\ 0 <= earlier[svc][Direction] /\ earlier[svc][Direction] <= lastScale[svc][Direction]
    BY <2>2, ConfigAssumption, Sizes DEF LoopInvariant, TypeOK, HistoryInvariant
  <2> QED
    BY <2>1, <2>3 DEF CanScale
<1>2. LoopInvariant /\ HistoryInvariant
        => [(Effect \/ DryRunReport) => Apart]_historyVars
  BY <1>1
<1>3. InitHistory => LoopInvariant /\ HistoryInvariant
  BY InitInvariant, InitHistoryInvariant DEF InitHistory
<1>4. LoopInvariant /\ HistoryInvariant /\ [NextHistory]_historyVars
        => (LoopInvariant /\ HistoryInvariant)'
  BY HistoryStep, NextInvariant, NextHistoryInvariant
<1> QED
  BY <1>2, <1>3, <1>4, PTL DEF SpecHistory, CooldownBetweenEffects
=============================================================================
