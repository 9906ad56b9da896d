---------------------------- MODULE MCReconciler ----------------------------
(* Small instances of module Reconciler.  The first service has two policies *)
(* and a schedule whose entries narrow, widen and invert its bounds over the *)
(* few instants of the clock; the second has one policy and no schedule.    *)
EXTENDS Reconciler

CONSTANTS web, api, p, q

OneService == [s \in {1} |-> web]
TwoServices == <<web, api>>

TwoPolicies == <<{p, q}>>
OnePolicyEach == <<{p}, {p}>>

WideBounds == [s \in Services |-> [min |-> 0, max |-> MaxCount]]
InnerBounds == [s \in Services |-> [min |-> 1, max |-> MaxCount - 1]]

NoSchedule == [s \in Services |-> [t \in 0..MaxTime |-> NoMatch]]

\* At time 2 the counts of the entry are negative, at time 3 its minimum is and the
\* service may be anything up to 1, at time 4 it has no max_count and is inverted.
NarrowSchedule ==
  [s \in Services |->
     [t \in 0..MaxTime |->
        CASE t = 2 -> [min |-> -2, max |-> -1]
          [] t = 3 -> [min |-> -2, max |-> 1]
          [] t = 4 -> [min |-> 2, max |-> 0]
          [] OTHER -> NoMatch]]

NeverDry == [i \in 0..MaxRestarts |-> FALSE]
\* The process is restarted with the dry-run flag.
DryAfterRestart == [i \in 0..MaxRestarts |-> i > 0]

Cooldowns == [s \in Services |-> [up |-> 2, down |-> 3]]
ShortCooldowns == [s \in Services |-> [up |-> 1, down |-> 2]]
UnitCooldowns == [s \in Services |-> [up |-> 1, down |-> 1]]

MCOpinions == {-2, 0, 1, 3}
FewOpinions == {0, 2}
SteadyOpinion == {1}
=============================================================================
