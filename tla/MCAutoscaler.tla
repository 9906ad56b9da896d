---------------------------- MODULE MCAutoscaler ----------------------------
(* Small instances of module Autoscaler: one service with a window policy,  *)
(* alone or beside a target policy on the same metric.                      *)
EXTENDS Autoscaler

CONSTANTS web, win, quick, target

OneService == [s \in {1} |-> web]

WindowOnly == <<{win}>>
AllPolicies == <<{win, quick, target}>>

AllBounds == <<[min |-> 0, max |-> MaxCount]>>
NoSchedule == [s \in Services |-> [t \in 0..MaxTime |-> NoMatch]]

\* What the properties about windows and the store depend on: the history of
\* effects on the platform is not read by any step.
WithoutEffects == <<vars, metricVars>>

NeverDry == [i \in 0..MaxRestarts |-> FALSE]

\* The process is restarted with the dry-run flag.
DryAfterRestart == [i \in 0..MaxRestarts |-> i > 0]

NoCooldown == <<[up |-> 0, down |-> 0]>>
LongCooldown == <<[up |-> 0, down |-> 3]>>

AllOpinions == (-2 * MaxCount)..(2 * MaxCount)

Evaluated(up, down, width) ==
  [bucket |-> width,
   up |-> [threshold |-> 1, sustained |-> up, step |-> 1],
   down |-> [threshold |-> 1, sustained |-> down, step |-> 1]]

\* One-tick buckets, two of them to scale up and one to scale down; beside them
\* two-tick buckets, in which samples may straddle a reset.
BothWindows ==
  [x \in {win, quick, target} |->
     CASE x = target -> NoWindow
       [] x = quick -> Evaluated(2, 1, 1)
       [] x = win -> Evaluated(2, 2, 2)]
=============================================================================
