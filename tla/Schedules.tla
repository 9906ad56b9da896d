------------------------------ MODULE Schedules ------------------------------
(***************************************************************************)
(* The bounds a schedule puts in force, GetActiveBounds of                  *)
(* internal/schedule/schedule.go.  Time is a number of minutes since the    *)
(* midnight, in UTC, that begins a first day of the week; an entry is a     *)
(* record [days, start, end, min, max] whose times are pairs of two-digit   *)
(* fields that nothing keeps below 24 and 60.                               *)
(***************************************************************************)
EXTENDS Integers, Sequences, FiniteSetsExt

CONSTANTS
  HourLength,   \* minutes of an hour, 60
  DayHours,     \* hours of a day, 24
  WeekLength,   \* days of a week, 7
  MaxField,     \* the largest two-digit field, 99
  Offset,       \* Offset[zone][t]: what the zone's clock is ahead of UTC at t
  NoMatch       \* no entry is active

DayLength == HourLength * DayHours
Zones == DOMAIN Offset

ASSUME CalendarAssumption ==
  /\ HourLength \in Nat \ {0}
  /\ DayHours \in Nat \ {0}
  /\ WeekLength \in Nat \ {0}
  /\ MaxField \in Nat
  /\ "UTC" \in Zones

Fields == [hour : 0..MaxField, minute : 0..MaxField]
Days == 0..(WeekLength - 1)

\* The zone was loaded once when the configuration was validated; where it cannot
\* be loaded any more, UTC stands in.
Local(zone, t) == t + Offset[IF zone \in Zones THEN zone ELSE "UTC"][t]
\* A mutated Weekday: the day is that of UTC.
WeekdayOfUTC(zone, t) == (t \div DayLength) % WeekLength

Weekday(zone, t) == (Local(zone, t) \div DayLength) % WeekLength
MinuteOfDay(zone, t) == Local(zone, t) % DayLength

ParseTimeMinutes(time) == time.hour * HourLength + time.minute

ContainsDay(days, day) == days = {} \/ day \in days

\* Both ends belong to the span; one that ends before it starts spans midnight.
InSpan(start, end, minute) ==
  IF end < start THEN minute >= start \/ minute <= end
  ELSE minute >= start /\ minute <= end

Active(entry, zone, t) ==
  /\ ContainsDay(entry.days, Weekday(zone, t))
  /\ InSpan(ParseTimeMinutes(entry.start), ParseTimeMinutes(entry.end),
            MinuteOfDay(zone, t))

\* A mutated GetActiveBounds: the last active entry wins.
GetActiveBoundsOfLast(entries, zone, t) ==
  LET active == {i \in DOMAIN entries : Active(entries[i], zone, t)}
  IN  IF active = {} THEN NoMatch
      ELSE [min |-> entries[Max(active)].min, max |-> entries[Max(active)].max]

\* The counts of the first entry that is active.
GetActiveBounds(entries, zone, t) ==
  LET active == {i \in DOMAIN entries : Active(entries[i], zone, t)}
  IN  IF active = {} THEN NoMatch
      ELSE [min |-> entries[Min(active)].min, max |-> entries[Min(active)].max]

-----------------------------------------------------------------------------
(* What a span means, to check InSpan against.                              *)

\* The minutes met on a walk around the clock from the first to the last one.
Walk(start, end) ==
  {(start + step) % DayLength : step \in 0..((end - start) % DayLength)}

\* A time past the end of the day is one that the clock never shows: a span with
\* such an end runs to midnight, one with such a start begins at midnight, and
\* with both it is never active, or always when it spans midnight.
Covers(start, end, minute) ==
  LET last == DayLength - 1
  IN  IF start <= last /\ end <= last THEN minute \in Walk(start, end)
      ELSE IF start <= last THEN minute \in Walk(start, last)
      ELSE IF end <= last THEN minute \in Walk(0, end)
      ELSE end < start
=============================================================================
