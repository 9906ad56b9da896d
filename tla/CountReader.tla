----------------------------- MODULE CountReader ----------------------------
(***************************************************************************)
(* What the reconciliation loop takes GetCurrentCounts for, seen from one   *)
(* identifier (internal/adapter/adapter.go): a call either fails, or returns *)
(* a count the platform had at one moment between its beginning and its     *)
(* end.  Module Reconciler reads its counts in one step on the strength of  *)
(* this.                                                                    *)
(***************************************************************************)
CONSTANTS
  Counts,
  Gone,      \* the platform has no such service
  Unread

VARIABLES
  count,     \* the platform's count, or Gone
  wanted,    \* does the call in progress ask for this identifier
  held,      \* what the call holds for it, or Unread
  call       \* "idle", "reading", "done" or "failed"

readerVars == <<count, wanted, held, call>>

ReaderInit ==
  /\ count \in Counts \cup {Gone}
  /\ wanted = FALSE
  /\ held = Unread
  /\ call = "idle"

Begin ==
  /\ call # "reading"
  /\ call' = "reading"
  /\ wanted' \in BOOLEAN
  /\ held' = Unread
  /\ count' = count

Read ==
  /\ call = "reading" /\ wanted /\ count # Gone
  /\ held' = count
  /\ UNCHANGED <<count, wanted, call>>

\* A call that returns without an error holds every count it was asked for.
Return ==
  /\ call = "reading"
  /\ wanted => held # Unread
  /\ call' = "done"
  /\ UNCHANGED <<count, wanted, held>>

Fail ==
  /\ call = "reading"
  /\ call' = "failed"
  /\ UNCHANGED <<count, wanted, held>>

Change ==
  /\ count' \in Counts \cup {Gone}
  /\ UNCHANGED <<wanted, held, call>>

ReaderNext == Begin \/ Read \/ Return \/ Fail \/ Change

ReaderSpec == ReaderInit /\ [][ReaderNext]_readerVars
=============================================================================
