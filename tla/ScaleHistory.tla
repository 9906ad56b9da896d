---------------------------- MODULE ScaleHistory -----------------------------
(***************************************************************************)
(* Module Reconciler with a history of the times at which its calls of     *)
(* Scale took effect on the platform.  The code keeps no such times: a      *)
(* cooldown is measured between the starts of reconciliations.  The history *)
(* changes nothing of the loop, it is there to say what those cooldowns are *)
(* worth to the platform.                                                  *)
(***************************************************************************)
EXTENDS Reconciler

VARIABLES
  effect,   \* when the Scale in flight took effect, or 0
  latest,   \* when the latest Scale took effect, whatever it reported
  earlier   \* `latest` when the last successful Scale was decided

effectVars == <<effect, latest, earlier>>
historyVars == <<vars, effectVars>>

InitHistory ==
  /\ Init
  /\ effect = 0
  /\ latest = [s \in Services |-> Never]
  /\ earlier = [s \in Services |-> Never]

\* A Scale of svc has ended that took effect at `time`, or never if it is 0.
Remember(time, succeeded) ==
  /\ latest' = IF time = 0 THEN latest ELSE [latest EXCEPT ![svc][Direction] = time]
  /\ earlier' = IF succeeded
                THEN [earlier EXCEPT ![svc][Direction] = latest[svc][Direction]]
                ELSE earlier
  /\ effect' = 0

\* The platform acts on a call, and the call ends; a dry run does both at once.
Effect == ScaleTakesEffect /\ effect' = clock /\ UNCHANGED <<latest, earlier>>

Success == ScaleSucceeds /\ Remember(effect, TRUE)

Failure == ScaleFails /\ Remember(effect, FALSE)

DryRunReport == DryRunScale /\ Remember(clock, TRUE)

\* The steps of the loop that do not depend on the policies and scale nothing.
Control ==
  /\ \/ StartTick
     \/ FetchCounts
     \/ FetchFails
     \/ BeginService
     \/ CooldownBlocks
     \/ IssueScale
  /\ UNCHANGED effectVars

Environment == (Advance \/ OutsideChange) /\ UNCHANGED effectVars

Cancellation == (Cancel \/ Stop) /\ UNCHANGED effectVars

Evaluation == (\E said \in Answers : Evaluate(said)) /\ UNCHANGED effectVars

RestartHistory ==
  /\ Restart
  /\ effect' = 0
  /\ latest' = [s \in Services |-> Never]
  /\ earlier' = [s \in Services |-> Never]

NextHistory ==
  \/ Control
  \/ Evaluation
  \/ Effect
  \/ Success
  \/ Failure
  \/ DryRunReport
  \/ Cancellation
  \/ Environment
  \/ RestartHistory

SpecHistory == InitHistory /\ [][NextHistory]_historyVars

-----------------------------------------------------------------------------
(* Properties.                                                             *)

\* README.md, "minimum time between consecutive scale-up actions", as far as the
\* code keeps it.  The cooldown runs from the start of the reconciliation that
\* scaled, so a slow Scale brings the next one closer, and one that failed starts
\* none.  But of any three scales of a service in one direction, the second of them
\* successful, the last takes effect at least a cooldown after the first did,
\* however long the calls take and whatever the first and the last report, unless
\* the service wakes up from zero.  A dry run keeps the same distance between the
\* scales it reports.
CooldownBetweenEffects ==
  [][Effect \/ DryRunReport =>
       \/ earlier[svc][Direction] = 0
       \/ Current = 0 /\ Direction = "up"
       \/ clock - earlier[svc][Direction] >= Cooldown[svc][Direction]]_historyVars
=============================================================================
