------------------------- MODULE Configuration_proofs -------------------------
(***************************************************************************)
(* Theorems about module Configuration, for any document, any calendar and  *)
(* any zones.                                                               *)
(***************************************************************************)
EXTENDS Configuration, MaxLemmas

-----------------------------------------------------------------------------
(* Arithmetic of the clock.                                                *)

\* A day has minutes.
LEMMA DayLengthType == DayLength \in Nat \ {0}
<1>1. HourLength \in Nat /\ HourLength > 0 /\ DayHours \in Nat /\ DayHours > 0
  BY CalendarAssumption
<1>2. \A m, n \in Nat : m > 0 /\ n > 0 => m * n \in Nat /\ m * n > 0
  OBVIOUS
<1> QED
  BY <1>1, <1>2 DEF DayLength

\* On a clock of D minutes, the minutes from one to another are those met on the
\* way, around midnight if need be.
LEMMA ClockWalk ==
  ASSUME NEW D \in Nat \ {0}, NEW start \in 0..(D - 1), NEW end \in 0..(D - 1),
         NEW minute \in 0..(D - 1)
  PROVE  InSpan(start, end, minute) <=>
           minute \in {(start + step) % D : step \in 0..((end - start) % D)}
<1> DEFINE length == (end - start) % D
<1>1. length = IF end < start THEN end - start + D ELSE end - start
  OBVIOUS
<1> HIDE DEF length
<1>2. ASSUME InSpan(start, end, minute)
      PROVE  \E step \in 0..length : minute = (start + step) % D
  <2>1. CASE minute >= start
    <3>1. minute - start \in 0..length
      BY <1>1, <1>2, <2>1 DEF InSpan
    <3>2. minute = minute % D /\ start + (minute - start) = minute
      OBVIOUS
    <3> QED
      BY <3>1, <3>2
  <2>2. CASE minute < start
    <3>1. minute - start + D \in 0..length
      BY <1>1, <1>2, <2>2 DEF InSpan
    <3>2. minute = (minute + D) % D /\ start + (minute - start + D) = minute + D
      OBVIOUS
    <3> QED
      BY <3>1, <3>2
  <2> QED
    BY <2>1, <2>2
<1>3. ASSUME NEW step \in 0..length, minute = (start + step) % D
      PROVE  InSpan(start, end, minute)
  <2>1. step \in Int /\ 0 <= step /\ step < D /\ step <= length /\ length \in Int
    BY <1>1
  <2>2. minute = IF start + step < D THEN start + step ELSE start + step - D
    BY <1>3, <2>1
  <2> QED
    BY <1>1, <2>1, <2>2 DEF InSpan
<1> QED
  BY <1>2, <1>3 DEF length

\* Of times the clock shows, a span has exactly the minutes walked over.
LEMMA SpanIsWalk ==
  ASSUME NEW start \in 0..(DayLength - 1), NEW end \in 0..(DayLength - 1),
         NEW minute \in 0..(DayLength - 1)
  PROVE  InSpan(start, end, minute) <=> minute \in Walk(start, end)
BY DayLengthType, ClockWalk DEF Walk

\* Of any times that are parsed, a span has exactly the minutes it covers.
LEMMA SpanCovers ==
  ASSUME NEW start \in Nat, NEW end \in Nat, NEW minute \in 0..(DayLength - 1)
  PROVE  InSpan(start, end, minute) <=> Covers(start, end, minute)
<1> DEFINE last == DayLength - 1
<1>1. last \in Nat /\ minute \in Nat /\ minute <= last
  BY DayLengthType
<1>2. CASE start <= last /\ end <= last
  BY <1>1, <1>2, SpanIsWalk DEF Covers
<1>3. CASE start <= last /\ end > last
  <2>1. Covers(start, end, minute) <=> minute \in Walk(start, last)
    BY <1>1, <1>3 DEF Covers
  <2>2. InSpan(start, last, minute) <=> minute \in Walk(start, last)
    BY <1>1, <1>3, SpanIsWalk
  <2> QED
    BY <1>1, <1>3, <2>1, <2>2 DEF InSpan
<1>4. CASE start > last /\ end <= last
  <2>1. Covers(start, end, minute) <=> minute \in Walk(0, end)
    BY <1>1, <1>4 DEF Covers
  <2>2. InSpan(0, end, minute) <=> minute \in Walk(0, end)
    BY <1>1, <1>4, SpanIsWalk
  <2> QED
    BY <1>1, <1>4, <2>1, <2>2 DEF InSpan
<1>5. CASE start > last /\ end > last
  BY <1>1, <1>5 DEF Covers, InSpan
<1> QED
  BY <1>1, <1>2, <1>3, <1>4, <1>5
-----------------------------------------------------------------------------
(* Type correctness.                                                       *)

\* A sequence mapped element by element is a sequence.
LEMMA MapSeq ==
  ASSUME NEW S, NEW T, NEW s \in Seq(S), NEW f, f = [i \in DOMAIN s |-> f[i]],
         \A i \in DOMAIN s : f[i] \in T
  PROVE  f \in Seq(T)
<1>1. Len(s) \in Nat /\ DOMAIN s = 1..Len(s)
  OBVIOUS
<1>2. f \in [1..Len(s) -> T]
  BY <1>1
<1> QED
  BY <1>1, <1>2

\* Decoding keeps a document one, and of a service only its cooldown changes.
LEMMA DecodeType ==
  ASSUME NEW c \in Documents
  PROVE  /\ Decode(c) \in Documents
         /\ DOMAIN Decode(c).services = DOMAIN c.services
         /\ \A i \in DOMAIN c.services :
              LET was == c.services[i]
                  is == Decode(c).services[i]
              IN  /\ is.min = was.min /\ is.max = was.max
                  /\ is.policies = was.policies
                  /\ was.cooldown = Nil => is.cooldown = Nil
                  /\ was.cooldown # Nil =>
                       /\ is.cooldown # Nil
                       /\ \A d \in Directions :
                            was.cooldown[d] # Absent => is.cooldown[d] = was.cooldown[d]
<1> DEFINE half(x) == IF x = Absent THEN 0 ELSE x
           halves(svc) == [d \in Directions |-> half(svc.cooldown[d])]
           cooldown(svc) == IF svc.cooldown = Nil THEN Nil ELSE halves(svc)
           decoded(svc) == [svc EXCEPT !.cooldown = cooldown(svc)]
           list == [i \in DOMAIN c.services |-> decoded(c.services[i])]
<1>1. Decode(c) = [c EXCEPT !.services = list]
  BY DEF Decode
<1>2. \A svc \in Services : svc.cooldown # Nil =>
        /\ halves(svc) \in [Directions -> {Absent} \cup Int]
        /\ \A d \in Directions :
             svc.cooldown[d] # Absent => halves(svc)[d] = svc.cooldown[d]
  BY DEF Services
<1> HIDE DEF halves
<1>3. \A svc \in Services : decoded(svc) \in Services
  BY <1>2 DEF Services
<1>4. c.services \in Seq(Services)
  BY DEF Documents
<1>5. \A i \in DOMAIN c.services : c.services[i] \in Services
  BY <1>4
<1>6. list \in Seq(Services)
  BY <1>3, <1>4, <1>5, MapSeq
<1>7. Decode(c) \in Documents /\ Decode(c).services = list
  BY <1>1, <1>6 DEF Documents
<1>8. ASSUME NEW i \in DOMAIN c.services
      PROVE  /\ decoded(c.services[i]).min = c.services[i].min
             /\ decoded(c.services[i]).max = c.services[i].max
             /\ decoded(c.services[i]).policies = c.services[i].policies
             /\ decoded(c.services[i]).cooldown = cooldown(c.services[i])
  BY <1>5 DEF Services
<1>9. \A svc \in Services : svc.cooldown # Nil => halves(svc) # Nil
  BY <1>2, DocumentAssumption
<1> HIDE DEF decoded
<1> QED
  BY <1>2, <1>5, <1>7, <1>8, <1>9

\* A policy with its bucket filled in is a policy, and differs from what it was in
\* an absent bucket only.
LEMMA WithBucketType ==
  ASSUME NEW p \in Policies
  PROVE  /\ WithBucket(p) \in Policies
         /\ WithBucket(p).type = p.type
         /\ p.bucket # Nil => WithBucket(p) = p
<1>1. DefaultBucket \in Int
  BY DefaultsAssumption
<1> QED
  BY <1>1 DEF WithBucket, Policies

\* Filling in the defaults keeps a document one and overrides nothing that a
\* service says for itself.
LEMMA DefaultsType ==
  ASSUME NEW c \in Documents
  PROVE  /\ ApplyDefaults(c) \in Documents
         /\ DOMAIN ApplyDefaults(c).services = DOMAIN c.services
         /\ \A i \in DOMAIN c.services :
              LET was == c.services[i]
                  is == ApplyDefaults(c).services[i]
              IN  /\ was.min # Nil => is.min = was.min
                  /\ was.max # Nil => is.max = was.max
                  /\ was.cooldown # Nil => is.cooldown = was.cooldown
                  /\ is.policies = [j \in DOMAIN was.policies |-> WithBucket(was.policies[j])]
<1> DEFINE defaults == [min |-> Or(c.defaults.min, DefaultMin),
                        max |-> Or(c.defaults.max, DefaultMax),
                        cooldown |-> [up |-> Or(c.defaults.cooldown.up, DefaultUp),
                                      down |-> Or(c.defaults.cooldown.down, DefaultDown)]]
           list == [i \in DOMAIN c.services |-> Filled(c.services[i], defaults)]
           interval == Or(c.interval, DefaultInterval)
<1>1. {DefaultInterval, DefaultMin, DefaultMax, DefaultUp, DefaultDown} \subseteq Int
  BY DefaultsAssumption
<1>2. c.interval \in Int /\ c.defaults.min \in Int /\ c.defaults.max \in Int
      /\ c.defaults.cooldown \in [Directions -> Int]
  BY DEF Documents
<1>3. defaults \in [min : Int, max : Int, cooldown : [Directions -> Int]]
  <2>1. c.defaults.cooldown.up \in Int /\ c.defaults.cooldown.down \in Int
    BY <1>2 DEF Directions
  <2>2. defaults.cooldown \in [Directions -> Int]
    BY <1>1, <2>1 DEF Or, Directions
  <2> QED
    BY <1>1, <1>2, <2>2 DEF Or
<1>4. interval \in Int
  BY <1>1, <1>2 DEF Or
<1> HIDE DEF defaults, interval
<1>5. c.services \in Seq(Services) /\ \A i \in DOMAIN c.services : c.services[i] \in Services
  <2>1. c.services \in Seq(Services)
    BY DEF Documents
  <2> QED
    BY <2>1
<1>6. ASSUME NEW svc \in Services
      PROVE  /\ Filled(svc, defaults) \in Services
             /\ svc.min # Nil => Filled(svc, defaults).min = svc.min
             /\ svc.max # Nil => Filled(svc, defaults).max = svc.max
             /\ svc.cooldown # Nil => Filled(svc, defaults).cooldown = svc.cooldown
             /\ Filled(svc, defaults).policies
                  = [j \in DOMAIN svc.policies |-> WithBucket(svc.policies[j])]
  <2> DEFINE filled == [j \in DOMAIN svc.policies |-> WithBucket(svc.policies[j])]
  <2>1. svc.policies \in Seq(Policies)
    BY DEF Services
  <2>2. \A j \in DOMAIN svc.policies : WithBucket(svc.policies[j]) \in Policies
    BY <2>1, WithBucketType
  <2>3. filled \in Seq(Policies)
    BY <2>1, <2>2, MapSeq
  <2>4. defaults.cooldown \in [Directions -> {Absent} \cup Int]
    BY <1>3
  <2> HIDE DEF filled
  <2> QED
    BY <1>3, <2>3, <2>4 DEF Filled, Services, filled
<1>7. list \in Seq(Services)
  BY <1>5, <1>6, MapSeq
<1>8. ApplyDefaults(c) = [c EXCEPT !.interval = interval, !.defaults = defaults,
                                    !.services = list]
  BY DEF ApplyDefaults, interval, defaults
<1> HIDE DEF list
<1>9. ApplyDefaults(c) \in Documents /\ ApplyDefaults(c).services = list
  BY <1>3, <1>4, <1>7, <1>8 DEF Documents
<1> QED
  BY <1>5, <1>6, <1>9 DEF list

\* A source that can be read holds a document.
LEMMA ChosenType ==
  ASSUME env \in Environments, Chosen # Broken
  PROVE  Chosen \in Documents
BY DocumentAssumption DEF Chosen

-----------------------------------------------------------------------------
(* Start-up.                                                               *)

\* Nothing is loaded at first.
LEMMA InitStartUp == Init => StartUpInvariant
BY DefaultsAssumption DEF Init, StartUpInvariant, TypeOK, Running

\* A start that is refused has nothing to keep.
LEMMA RefuseKeeps ==
  ASSUME StartUpInvariant, Refuse
  PROVE  StartUpInvariant'
BY DEF Refuse, StartUpInvariant, TypeOK, Running

\* Every step of start-up, and every minute after it, keeps the invariant.
LEMMA NextStartUp == StartUpInvariant /\ [Next]_vars => StartUpInvariant'
<1> SUFFICES ASSUME StartUpInvariant, [Next]_vars PROVE StartUpInvariant'
  OBVIOUS
<1>0. env \in Environments /\ t \in 0..MaxTime
  BY DEF StartUpInvariant, TypeOK
<1>1. CASE Load
  <2>1. Chosen \in Documents
    BY <1>0, <1>1, ChosenType DEF Load
  <2>2. /\ config' = Decode(Chosen) /\ stage' = "defaults" /\ Chosen' = Chosen
        /\ Chosen # Broken
        /\ UNCHANGED <<env, services, retention, t>>
    BY <1>1 DEF Load, Chosen
  <2>3. config' \in Documents
    BY <2>1, <2>2, DecodeType
  <2> QED
    BY <1>0, <2>2, <2>3 DEF StartUpInvariant, TypeOK, Running
<1>2. CASE LoadFails
  BY <1>2, RefuseKeeps DEF LoadFails
<1>3. CASE Default
  <2>1. /\ config' = ApplyDefaults(config) /\ stage' = "validate" /\ Chosen' = Chosen
        /\ UNCHANGED <<env, services, retention, t>> /\ stage = "defaults"
    BY <1>3 DEF Default, Chosen
  <2>2. config \in Documents /\ config = Decode(Chosen)
    BY <2>1 DEF StartUpInvariant, TypeOK
  <2>3. config' \in Documents
    BY <2>1, <2>2, DefaultsType
  <2> QED
    BY <1>0, <2>1, <2>2, <2>3 DEF StartUpInvariant, TypeOK, Running
<1>4. CASE Validate
  <2>1. CASE Valid(config)
    <3>1. /\ stage = "validate" /\ stage' = "build" /\ Chosen' = Chosen
          /\ UNCHANGED <<env, config, services, retention, t>>
      BY <1>4, <2>1 DEF Validate, Chosen
    <3>2. Valid(config)'
      BY <2>1, <3>1
    <3> QED
      BY <1>0, <3>1, <3>2 DEF StartUpInvariant, TypeOK, Running
  <2>2. CASE ~Valid(config)
    BY <1>4, <2>2, RefuseKeeps DEF Validate
  <2> QED
    BY <2>1, <2>2
<1>5. CASE BuildAll
  <2>1. /\ stage = "build" /\ stage' = "ready" /\ Chosen' = Chosen
        /\ services' = BuildServices(config) /\ UNCHANGED <<env, config, t>>
    BY <1>5 DEF BuildAll, Chosen
  <2>2. Valid(config)' /\ services' = BuildServices(config)'
    BY <2>1 DEF StartUpInvariant
  <2> QED
    BY <1>0, <2>1, <2>2 DEF StartUpInvariant, TypeOK
<1>6. CASE BuildFails
  BY <1>6, RefuseKeeps DEF BuildFails
<1>7. CASE Minute
  <2>1. /\ t' = t + 1 /\ t < MaxTime /\ Chosen' = Chosen
        /\ UNCHANGED <<env, stage, config, services, retention>>
    BY <1>7 DEF Minute, Chosen
  <2>2. t' \in 0..MaxTime
    BY <1>0, <2>1, DefaultsAssumption
  <2>3. Valid(config)' = Valid(config) /\ BuildServices(config)' = BuildServices(config)
    BY <2>1
  <2> QED
    BY <2>1, <2>2, <2>3 DEF StartUpInvariant, TypeOK, Running
<1>8. CASE UNCHANGED vars
  <2>1. UNCHANGED <<env, stage, config, services, retention, t>> /\ Chosen' = Chosen
    BY <1>8 DEF vars, Chosen
  <2>2. Valid(config)' = Valid(config) /\ BuildServices(config)' = BuildServices(config)
    BY <2>1
  <2> QED
    BY <2>1, <2>2 DEF StartUpInvariant, TypeOK, Running
<1> QED
  BY <1>1, <1>2, <1>3, <1>4, <1>5, <1>6, <1>7, <1>8 DEF Next

\* Services are only ever built of a document that was decoded, filled and found
\* valid, in this order, wherever it came from.
THEOREM StartUpHolds == Spec => []StartUpInvariant
  BY InitStartUp, NextStartUp, PTL DEF Spec

-----------------------------------------------------------------------------
(* What a service runs with.                                               *)

\* No default replaces what a service says for itself.
THEOREM ExplicitHolds == Spec => []ExplicitWins
<1>1. StartUpInvariant => ExplicitWins
  <2> SUFFICES ASSUME StartUpInvariant, Running, NEW i \in DOMAIN services
      PROVE  LET given == Chosen.services[i]
                 svc == services[i]
             IN  /\ given.min # Nil => svc.min = given.min
                 /\ given.max # Nil => svc.max = given.max
                 /\ given.cooldown # Nil =>
                      \A d \in Directions :
                        given.cooldown[d] # Absent => svc.cooldown[d] = given.cooldown[d]
                 /\ \A j \in DOMAIN given.policies :
                      (given.policies[j].type = "window" /\ given.policies[j].bucket # Nil)
                      => svc.policies[j].bucket = given.policies[j].bucket
    BY DEF ExplicitWins
  <2> DEFINE decoded == Decode(Chosen)
             filled == ApplyDefaults(decoded)
  <2>1. env \in Environments /\ config = filled /\ services = BuildServices(config)
    BY DEF StartUpInvariant, TypeOK, Running
  <2>2. Chosen \in Documents
    BY <2>1, ChosenType DEF StartUpInvariant, Running
  <2>3. decoded \in Documents
    BY <2>2, DecodeType
  <2>4. DOMAIN filled.services = DOMAIN Chosen.services /\ i \in DOMAIN Chosen.services
    BY <2>1, <2>2, <2>3, DecodeType, DefaultsType DEF BuildServices
  <2>5. services[i] = Build(filled.services[i])
    BY <2>1, <2>4 DEF BuildServices
  <2> DEFINE given == Chosen.services[i]
             was == decoded.services[i]
             is == filled.services[i]
  <2>6. /\ was.min = given.min /\ was.max = given.max /\ was.policies = given.policies
        /\ given.cooldown # Nil =>
             /\ was.cooldown # Nil
             /\ \A d \in Directions :
                  given.cooldown[d] # Absent => was.cooldown[d] = given.cooldown[d]
    BY <2>2, <2>4, DecodeType
  <2>7. /\ was.min # Nil => is.min = was.min
        /\ was.max # Nil => is.max = was.max
        /\ was.cooldown # Nil => is.cooldown = was.cooldown
        /\ is.policies = [j \in DOMAIN was.policies |-> WithBucket(was.policies[j])]
    BY <2>2, <2>3, <2>4, DecodeType, DefaultsType
  <2>8. \A j \in DOMAIN given.policies : given.policies[j] \in Policies
    <3>1. Chosen.services \in Seq(Services)
      BY <2>2 DEF Documents
    <3>2. given \in Services
      BY <2>4, <3>1
    <3>3. given.policies \in Seq(Policies)
      BY <3>2 DEF Services
    <3> QED
      BY <3>3
  <2> HIDE DEF given, was, is
  <2>9. ASSUME NEW j \in DOMAIN given.policies, given.policies[j].type = "window",
               given.policies[j].bucket # Nil
        PROVE  Build(is).policies[j].bucket = given.policies[j].bucket
    <3>1. is.policies[j] = given.policies[j]
      BY <2>6, <2>7, <2>8, <2>9, WithBucketType
    <3>2. j \in DOMAIN is.policies
      BY <2>6, <2>7
    <3>3. Build(is).policies[j] = BuildPolicy(is.policies[j], is)
      BY <3>2 DEF Build
    <3> QED
      BY <2>9, <3>1, <3>3 DEF BuildPolicy
  <2>10. Build(is).min = is.min /\ Build(is).max = is.max /\ Build(is).cooldown = is.cooldown
    BY DEF Build
  <2> HIDE DEF decoded, filled
  <2>11. services[i] = Build(is)
    BY <2>5 DEF is
  <2> QED
    BY <2>6, <2>7, <2>9, <2>10, <2>11 DEF given
<1> QED
  BY <1>1, StartUpHolds, PTL
-----------------------------------------------------------------------------
(* Schedules.                                                              *)

\* A remainder.
LEMMA Remainder ==
  ASSUME NEW D \in Nat \ {0}, NEW x \in Int
  PROVE  x % D \in 0..(D - 1)
OBVIOUS

\* The clock of a zone shows a minute of the day.
LEMMA MinuteOfDayType ==
  ASSUME NEW zone, NEW minute \in 0..MaxTime
  PROVE  MinuteOfDay(zone, minute) \in 0..(DayLength - 1)
<1> DEFINE loaded == IF zone \in Zones THEN zone ELSE "UTC"
<1>1. loaded \in Zones
  BY CalendarAssumption
<1>2. Offset[loaded] \in [0..MaxTime -> Int] /\ MaxTime \in Nat
  BY <1>1, DefaultsAssumption
<1>3. Local(zone, minute) \in Int
  BY <1>2 DEF Local
<1> QED
  BY <1>3, DayLengthType, Remainder DEF MinuteOfDay

\* A pair of fields is a number of minutes.
LEMMA ParsedType ==
  ASSUME NEW time \in Fields
  PROVE  ParseTimeMinutes(time) \in Nat
<1>1. time.hour \in Nat /\ time.minute \in Nat /\ HourLength \in Nat
  BY CalendarAssumption DEF Fields
<1>2. \A m, n \in Nat : m * n \in Nat
  OBVIOUS
<1> QED
  BY <1>1, <1>2 DEF ParseTimeMinutes

\* An entry with valid times is active in the minutes its span covers, on its days.
LEMMA ActiveCovers ==
  ASSUME NEW entry, entry.start \in Fields, entry.end \in Fields,
         NEW zone, NEW minute \in 0..MaxTime
  PROVE  Active(entry, zone, minute) <=>
           /\ entry.days = {} \/ Weekday(zone, minute) \in entry.days
           /\ Covers(ParseTimeMinutes(entry.start), ParseTimeMinutes(entry.end),
                     MinuteOfDay(zone, minute))
BY ParsedType, MinuteOfDayType, SpanCovers DEF Active, ContainsDay

\* The smallest element of a set of naturals, as FiniteSetsExt chooses it.
LEMMA MinOfNaturals ==
  ASSUME NEW S, S \subseteq Nat, S # {}
  PROVE  Min(S) \in S /\ \A x \in S : Min(S) <= x
BY LeastNatural DEF Min

\* GetActiveBounds finds the first active entry.
LEMMA FirstActive ==
  ASSUME NEW S, NEW entries \in Seq(S), NEW zone, NEW minute
  PROVE  LET found == GetActiveBounds(entries, zone, minute)
         IN  \/ /\ found = NoMatch
                /\ \A i \in DOMAIN entries : ~Active(entries[i], zone, minute)
             \/ \E i \in DOMAIN entries :
                  /\ Active(entries[i], zone, minute)
                  /\ found = [min |-> entries[i].min, max |-> entries[i].max]
                  /\ \A j \in 1..(i - 1) : ~Active(entries[j], zone, minute)
<1> DEFINE active == {i \in DOMAIN entries : Active(entries[i], zone, minute)}
<1>1. DOMAIN entries = 1..Len(entries) /\ Len(entries) \in Nat
  OBVIOUS
<1>2. active \subseteq Nat
  BY <1>1
<1>3. CASE active = {}
  BY <1>3 DEF GetActiveBounds
<1>4. CASE active # {}
  <2>1. Min(active) \in active /\ \A i \in active : Min(active) <= i
    BY <1>2, <1>4, MinOfNaturals
  <2>2. GetActiveBounds(entries, zone, minute)
          = [min |-> entries[Min(active)].min, max |-> entries[Min(active)].max]
    BY <1>4 DEF GetActiveBounds
  <2>3. ASSUME NEW j \in 1..(Min(active) - 1) PROVE ~Active(entries[j], zone, minute)
    <3> DEFINE least == Min(active)
    <3>1. least \in 1..Len(entries) /\ \A i \in active : least <= i
      BY <1>1, <2>1
    <3>2. j \in 1..(least - 1)
      OBVIOUS
    <3> HIDE DEF least
    <3>3. j \in DOMAIN entries /\ ~(least <= j)
      BY <1>1, <3>1, <3>2
    <3> QED
      BY <3>1, <3>3
  <2> QED
    BY <2>1, <2>2, <2>3
<1> QED
  BY <1>3, <1>4

\* What runs in a service's schedule was validated.
LEMMA ScheduleOfService ==
  ASSUME StartUpInvariant, Running, NEW svc \in Range(services), svc.schedule # Nil
  PROVE  /\ svc.schedule.entries \in Seq(Entries)
         /\ \A i \in DOMAIN svc.schedule.entries :
              /\ svc.schedule.entries[i].start \in Fields
              /\ svc.schedule.entries[i].end \in Fields
<1>1. /\ services = BuildServices(config) /\ Valid(config) /\ config \in Documents
  BY DEF StartUpInvariant, TypeOK, Running
<1>2. PICK i \in DOMAIN config.services : svc = Build(config.services[i])
  BY <1>1 DEF Range, BuildServices
<1> DEFINE given == config.services[i].schedule
<1>3. config.services[i] \in Services
  <2>1. config.services \in Seq(Services)
    BY <1>1 DEF Documents
  <2> QED
    BY <1>2, <2>1
<1>4. given # Nil /\ svc.schedule.entries = given.entries
  BY <1>2 DEF Build
<1>5. given.entries \in Seq(Entries)
  BY <1>3, <1>4 DEF Services
<1>6. ScheduleValid(given)
  BY <1>1, <1>2 DEF Valid, ServiceValid
<1> HIDE DEF given
<1>7. \A j \in DOMAIN given.entries : {given.entries[j].start, given.entries[j].end} \subseteq Fields
  BY <1>4, <1>6 DEF ScheduleValid
<1> QED
  BY <1>4, <1>5, <1>7

\* At every minute, in every zone, the bounds are those of the first entry whose
\* span covers it.
THEOREM FirstSpan == Spec => []BoundsAreOfFirstSpan
<1>1. StartUpInvariant => BoundsAreOfFirstSpan
  <2> SUFFICES ASSUME StartUpInvariant, Running,
                      NEW svc \in {s \in Range(services) : s.schedule # Nil}
      PROVE  LET zone == svc.schedule.zone
                 meets(e) ==
                   /\ e.days = {} \/ Weekday(zone, t) \in e.days
                   /\ Covers(ParseTimeMinutes(e.start), ParseTimeMinutes(e.end),
                             MinuteOfDay(zone, t))
                 entries == svc.schedule.entries
                 found == GetActiveBounds(entries, zone, t)
             IN  \/ found = NoMatch /\ \A i \in DOMAIN entries : ~meets(entries[i])
                 \/ \E i \in DOMAIN entries :
                      /\ meets(entries[i])
                      /\ found = [min |-> entries[i].min, max |-> entries[i].max]
                      /\ \A j \in 1..(i - 1) : ~meets(entries[j])
    BY DEF BoundsAreOfFirstSpan
  <2> DEFINE zone == svc.schedule.zone
             entries == svc.schedule.entries
             meets(e) ==
               /\ e.days = {} \/ Weekday(zone, t) \in e.days
               /\ Covers(ParseTimeMinutes(e.start), ParseTimeMinutes(e.end),
                         MinuteOfDay(zone, t))
  <2>1. t \in 0..MaxTime
    BY DEF StartUpInvariant, TypeOK
  <2>2. entries \in Seq(Entries)
    BY ScheduleOfService
  <2>3. \A i \in DOMAIN entries : entries[i].start \in Fields /\ entries[i].end \in Fields
    BY ScheduleOfService
  <2>4. ASSUME NEW i \in DOMAIN entries
        PROVE  Active(entries[i], zone, t) <=> meets(entries[i])
    <3> DEFINE e == entries[i]
    <3>1. e.start \in Fields /\ e.end \in Fields
      BY <2>3
    <3> HIDE DEF e
    <3>2. Active(e, zone, t) <=> meets(e)
      BY <2>1, <3>1, ActiveCovers
    <3> QED
      BY <3>2 DEF e
  <2>5. DOMAIN entries = 1..Len(entries) /\ Len(entries) \in Nat
    BY <2>2
  <2> HIDE DEF entries, meets, zone
  <2>6. \/ /\ GetActiveBounds(entries, zone, t) = NoMatch
           /\ \A i \in DOMAIN entries : ~Active(entries[i], zone, t)
        \/ \E i \in DOMAIN entries :
             /\ Active(entries[i], zone, t)
             /\ GetActiveBounds(entries, zone, t)
                  = [min |-> entries[i].min, max |-> entries[i].max]
             /\ \A j \in 1..(i - 1) : ~Active(entries[j], zone, t)
    BY <2>2, FirstActive
  <2>7. \/ /\ GetActiveBounds(entries, zone, t) = NoMatch
           /\ \A i \in DOMAIN entries : ~meets(entries[i])
        \/ \E i \in DOMAIN entries :
             /\ meets(entries[i])
             /\ GetActiveBounds(entries, zone, t)
                  = [min |-> entries[i].min, max |-> entries[i].max]
             /\ \A j \in 1..(i - 1) : ~meets(entries[j])
    BY <2>4, <2>5, <2>6
  <2> QED
    BY <2>7 DEF entries, meets, zone
<1> QED
  BY <1>1, StartUpHolds, PTL

\* A minute later, with no midnight, start or end between, a span is as it was.
LEMMA SpanStays ==
  ASSUME NEW start \in Nat, NEW end \in Nat, NEW minute \in Nat,
         start # minute + 1, end # minute
  PROVE  InSpan(start, end, minute + 1) <=> InSpan(start, end, minute)
BY DEF InSpan

\* A time one minute later is on the same day, unless a new one begins.
LEMMA NextMinute ==
  ASSUME NEW D \in Nat \ {0}, NEW x \in Int, (x + 1) % D # 0
  PROVE  (x + 1) % D = (x % D) + 1 /\ (x + 1) \div D = x \div D
<1> DEFINE r == x % D
           q == x \div D
           s == (x + 1) % D
           k == (x + 1) \div D
<1>1. /\ r \in 0..(D - 1) /\ q \in Int /\ x = D * q + r
      /\ s \in 1..(D - 1) /\ k \in Int /\ x + 1 = D * k + s
  OBVIOUS
<1> HIDE DEF r, q, s, k
<1>2. D * (k - q) = r + 1 - s
  BY <1>1
<1>3. k = q
  <2>1. ~(k - q >= 1)
    <3> SUFFICES ASSUME k - q >= 1 PROVE FALSE
      OBVIOUS
    <3>1. PICK d \in Nat : k - q = d + 1
      BY <1>1, k - q - 1 \in Nat
    <3>2. D * (k - q) = D * d + D /\ D * d \in Nat
      BY <3>1
    <3> QED
      BY <1>1, <1>2, <3>2
  <2>2. ~(k - q <= -1)
    <3> SUFFICES ASSUME k - q <= -1 PROVE FALSE
      OBVIOUS
    <3>1. PICK d \in Nat : q - k = d + 1
      BY <1>1, q - k - 1 \in Nat
    <3>2. D * (k - q) = -(D * d) - D /\ D * d \in Nat
      BY <1>1, <3>1
    <3> QED
      BY <1>1, <1>2, <3>2
  <2> QED
    BY <1>1, <2>1, <2>2
<1> QED
  BY <1>1, <1>2, <1>3 DEF r, q, s, k

\* A running service's bounds change with the activity of its entries only, and
\* that only at their boundaries.
THEOREM ChangesAtBoundaries == Spec => BoundsChangeAtBoundaries
<1> DEFINE AtBoundary(svc) ==
             LET zone == svc.schedule.zone
                 was == MinuteOfDay(zone, t)
                 is == MinuteOfDay(zone, t')
             IN  \/ Local(zone, t') # Local(zone, t) + 1
                 \/ is = 0
                 \/ \E e \in Range(svc.schedule.entries) :
                      ParseTimeMinutes(e.start) = is \/ ParseTimeMinutes(e.end) = was
           Changes == \A svc \in Range(services) :
             BoundsOf(svc, t') # BoundsOf(svc, t) => AtBoundary(svc)
<1>1. StartUpInvariant /\ StartUpInvariant' /\ [Next]_vars => Changes
  <2> SUFFICES ASSUME StartUpInvariant, StartUpInvariant', [Next]_vars,
                      NEW svc \in Range(services), ~AtBoundary(svc)
               PROVE  BoundsOf(svc, t') = BoundsOf(svc, t)
    OBVIOUS
  <2>1. CASE t' = t
    BY <2>1
  <2>2. CASE svc.schedule = Nil
    BY <2>2 DEF BoundsOf
  <2>3. CASE t' # t /\ svc.schedule # Nil
    <3> DEFINE zone == svc.schedule.zone
               entries == svc.schedule.entries
               was == MinuteOfDay(zone, t)
               is == MinuteOfDay(zone, t')
    <3>1. Running /\ t \in 0..MaxTime /\ t' \in 0..MaxTime
      BY <2>3 DEF Next, vars, Load, LoadFails, Default, Validate, BuildAll, BuildFails, Refuse,
         Minute, Running, StartUpInvariant, TypeOK
    <3>2. /\ entries \in Seq(Entries)
          /\ \A i \in DOMAIN entries : entries[i].start \in Fields /\ entries[i].end \in Fields
      BY <2>3, <3>1, ScheduleOfService
    <3>3. /\ Local(zone, t') = Local(zone, t) + 1 /\ is # 0
          /\ \A i \in DOMAIN entries :
               /\ ParseTimeMinutes(entries[i].start) # is
               /\ ParseTimeMinutes(entries[i].end) # was
      BY DEF Range
    <3> HIDE DEF entries
    <3>4. Local(zone, t) \in Int
      <4>1. (IF zone \in Zones THEN zone ELSE "UTC") \in Zones
        BY CalendarAssumption
      <4> QED
        BY <4>1, <3>1, DefaultsAssumption DEF Local
    <3>5. is = was + 1 /\ Weekday(zone, t') = Weekday(zone, t) /\ was \in Nat
      <4>1. was \in Nat
        BY <3>1, DayLengthType, MinuteOfDayType
      <4>2. (Local(zone, t) + 1) % DayLength # 0
        BY <3>3 DEF MinuteOfDay
      <4>3. /\ (Local(zone, t) + 1) % DayLength = (Local(zone, t) % DayLength) + 1
            /\ (Local(zone, t) + 1) \div DayLength = Local(zone, t) \div DayLength
        BY <3>4, <4>2, DayLengthType, NextMinute
      <4> QED
        BY <3>3, <4>1, <4>3 DEF MinuteOfDay, Weekday
    <3> HIDE DEF was, is, zone
    <3>6. ASSUME NEW i \in DOMAIN entries
          PROVE  Active(entries[i], zone, t') <=> Active(entries[i], zone, t)
      <4> DEFINE start == ParseTimeMinutes(entries[i].start)
                 end == ParseTimeMinutes(entries[i].end)
      <4>1. start \in Nat /\ end \in Nat
        BY <3>2, ParsedType
      <4>2. start # was + 1 /\ end # was
        BY <3>3, <3>5
      <4> HIDE DEF start, end
      <4>3. InSpan(start, end, is) <=> InSpan(start, end, was)
        BY <3>5, <4>1, <4>2, SpanStays
      <4> QED
        BY <3>5, <4>3 DEF Active, start, end, was, is
    <3>7. GetActiveBounds(entries, zone, t') = GetActiveBounds(entries, zone, t)
      BY <3>6 DEF GetActiveBounds
    <3> QED
      BY <3>7 DEF BoundsOf, entries, zone
  <2> QED
    BY <2>1, <2>2, <2>3
<1>2. Spec => [][Changes]_vars
  BY <1>1, StartUpHolds, PTL DEF Spec
<1> QED
  BY <1>2 DEF BoundsChangeAtBoundaries

-----------------------------------------------------------------------------
(* What is accepted.                                                       *)

\* The only checks that look at two services are those of their own names.
THEOREM ServicesAreApart == Spec => []ServicesApart
<1>1. StartUpInvariant => ServicesApart
  <2> SUFFICES ASSUME StartUpInvariant, stage = "validate", config.services # << >>,
                      IsInjective(Names(config.services))
               PROVE  Valid(config) <=>
                        \A i \in DOMAIN config.services :
                          Valid([config EXCEPT !.services = <<config.services[i]>>])
    BY DEF ServicesApart
  <2> DEFINE alone(i) == [config EXCEPT !.services = <<config.services[i]>>]
  <2>1. config \in Documents /\ config.services \in Seq(Services)
    BY DEF StartUpInvariant, TypeOK, Documents
  <2>2. 1 \in DOMAIN config.services
    BY <2>1
  <2>3. ASSUME NEW i \in DOMAIN config.services
        PROVE  Valid(alone(i)) <=>
                 /\ AdapterValid(config.adapter) /\ SourcesValid(config.sources)
                 /\ ServiceValid(config.services[i], config.sources)
    <3> DEFINE svc == config.services[i]
    <3>1. /\ alone(i).adapter = config.adapter /\ alone(i).sources = config.sources
          /\ alone(i).services = <<svc>>
      BY <2>1 DEF Documents
    <3> HIDE DEF svc, alone
    <3>2. DOMAIN <<svc>> = {1} /\ <<svc>>[1] = svc /\ <<svc>> # << >>
      OBVIOUS
    <3>3. IsInjective(Names(<<svc>>))
      BY <3>2 DEF IsInjective, Names
    <3> QED
      BY <3>1, <3>2, <3>3 DEF Valid, svc
  <2>4. Valid(config) <=>
          /\ AdapterValid(config.adapter) /\ SourcesValid(config.sources)
          /\ \A i \in DOMAIN config.services : ServiceValid(config.services[i], config.sources)
    BY DEF Valid
  <2> HIDE DEF alone
  <2>5. Valid(config) <=> \A i \in DOMAIN config.services : Valid(alone(i))
    BY <2>2, <2>3, <2>4
  <2> QED
    BY <2>5 DEF alone
<1> QED
  BY <1>1, StartUpHolds, PTL

\* The sets of a sequence's elements are finite.
LEMMA FiniteRange ==
  ASSUME NEW S, NEW things \in Seq(S)
  PROVE  IsFiniteSet(Range(things)) /\ IsFiniteSet(DOMAIN things)
<1>1. DOMAIN things = 1..Len(things) /\ Len(things) \in Nat
  OBVIOUS
<1>2. IsFiniteSet(1..Len(things))
  BY <1>1, FS_Interval
<1>3. things \in Surjection(DOMAIN things, Range(things))
  BY <1>1 DEF Surjection, Range
<1> QED
  BY <1>1, <1>2, <1>3, FS_Surjection

\* A valid configuration has finitely many windows, so MetricRetention is no less
\* than any of them with two of its buckets.
LEMMA RetentionIsEnough ==
  ASSUME NEW c \in Documents, Valid(c),
         NEW p \in WindowsOf(c), NEW d \in Directions, p[d] # Nil
  PROVE  MetricRetention(c) >= p[d].sustained + 2 * p.bucket
<1> DEFINE Needed(x) == x[1][x[2]].sustained + 2 * x[1].bucket
           directed == {x \in WindowsOf(c) \X Directions : x[1][x[2]] # Nil}
           needs == {Needed(x) : x \in directed}
           f == [x \in directed |-> Needed(x)]
           ranges == {Range(c.services[i].policies) : i \in DOMAIN c.services}
           g == [i \in DOMAIN c.services |-> Range(c.services[i].policies)]
<1>1. /\ c.services \in Seq(Services)
      /\ \A i \in DOMAIN c.services : c.services[i].policies \in Seq(Policies)
  <2>1. c.services \in Seq(Services)
    BY DEF Documents
  <2>2. \A i \in DOMAIN c.services : c.services[i] \in Services
    BY <2>1
  <2>3. \A svc \in Services : svc.policies \in Seq(Policies)
    BY DEF Services
  <2> QED
    BY <2>1, <2>2, <2>3
<1>2. IsFiniteSet(WindowsOf(c))
  <2>1. IsFiniteSet(DOMAIN c.services) /\ g \in Surjection(DOMAIN c.services, ranges)
    BY <1>1, FiniteRange DEF Surjection
  <2>2. IsFiniteSet(ranges)
    BY <2>1, FS_Surjection
  <2>3. \A r \in ranges : IsFiniteSet(r)
    BY <1>1, FiniteRange
  <2>4. IsFiniteSet(UNION ranges)
    BY <2>2, <2>3, FS_UNION
  <2>5. WindowsOf(c) \subseteq UNION ranges
    BY DEF WindowsOf
  <2> QED
    BY <2>4, <2>5, FS_Subset
<1>3. IsFiniteSet(needs)
  <2>1. IsFiniteSet(Directions)
    <3>1. IsFiniteSet({"up"} \cup {"down"}) /\ {"up"} \cup {"down"} = Directions
      BY FS_EmptySet, FS_Singleton, FS_Union DEF Directions
    <3> QED
      BY <3>1
  <2>2. IsFiniteSet(WindowsOf(c) \X Directions)
    BY <1>2, <2>1, FS_Product
  <2>3. IsFiniteSet(directed)
    BY <2>2, FS_Subset
  <2>4. f \in Surjection(directed, needs)
    BY DEF Surjection
  <2> QED
    BY <2>3, <2>4, FS_Surjection
<1>4. ASSUME NEW q \in WindowsOf(c)
      PROVE  /\ q \in Policies /\ q.bucket \in Int
             /\ \A e \in Directions : q[e] # Nil => q[e].sustained \in Int
  <2>1. PICK i \in DOMAIN c.services : q \in Range(c.services[i].policies) /\ q.type = "window"
    BY DEF WindowsOf
  <2>2. PICK j \in DOMAIN c.services[i].policies : q = c.services[i].policies[j]
    BY <2>1 DEF Range
  <2>3. q \in Policies
    BY <1>1, <2>2
  <2>4. PolicyValid(q, Range(Names(c.services[i].metrics)))
    BY <2>2 DEF Valid, ServiceValid
  <2>5. q.bucket # Nil
    BY <2>1, <2>4 DEF PolicyValid
  <2>6. q.bucket \in Int
    BY <2>3, <2>5 DEF Policies
  <2>7. \A e \in Directions : q[e] # Nil => q[e].sustained \in Int
    BY <2>3 DEF Policies, Directions, Thresholds
  <2> QED
    BY <2>3, <2>6, <2>7
<1> DEFINE all == {RetentionFloor} \cup needs
<1>5. all \subseteq Int /\ all # {}
  <2>1. \A x \in directed : Needed(x) \in Int
    BY <1>4
  <2> QED
    BY <2>1, DefaultsAssumption
<1>6. IsFiniteSet(all)
  BY <1>3, FS_AddElement
<1>7. all = {RetentionFloor} \cup
        UNION {{q[e].sustained + 2 * q.bucket : e \in {e \in Directions : q[e] # Nil}} :
                 q \in WindowsOf(c)}
  <2>1. ASSUME NEW n
        PROVE  n \in needs <=> \E q \in WindowsOf(c) : \E e \in Directions :
                                  q[e] # Nil /\ n = q[e].sustained + 2 * q.bucket
    <3>1. ASSUME n \in needs
          PROVE  \E q \in WindowsOf(c) : \E e \in Directions :
                   q[e] # Nil /\ n = q[e].sustained + 2 * q.bucket
      <4>1. PICK x \in directed : n = Needed(x)
        BY <3>1
      <4>2. x[1] \in WindowsOf(c) /\ x[2] \in Directions /\ x[1][x[2]] # Nil
        OBVIOUS
      <4> QED
        BY <4>1, <4>2
    <3>2. ASSUME NEW q \in WindowsOf(c), NEW e \in Directions, q[e] # Nil,
                 n = q[e].sustained + 2 * q.bucket
          PROVE  n \in needs
      <4>1. <<q, e>> \in directed /\ Needed(<<q, e>>) = n
        BY <3>2
      <4> QED
        BY <4>1
    <3> HIDE DEF needs
    <3> QED
      BY <3>1, <3>2
  <2> HIDE DEF needs
  <2> QED
    BY <2>1
<1>8. MetricRetention(c) = Max(all)
  BY <1>7 DEF MetricRetention
<1>9. \A n \in all : n <= MetricRetention(c) /\ MetricRetention(c) \in Int
  <2> HIDE DEF all
  <2> QED
    BY <1>5, <1>6, <1>8, MaxOfFinite
<1>10. p[d].sustained + 2 * p.bucket \in all
  <2>1. <<p, d>> \in directed /\ Needed(<<p, d>>) = p[d].sustained + 2 * p.bucket
    OBVIOUS
  <2> QED
    BY <2>1
<1> QED
  BY <1>5, <1>9, <1>10

\* A length that is a multiple of a width is some number of widths.
LEMMA WholeWidths ==
  ASSUME NEW length \in Int, length > 0, NEW width \in Int, width > 0, length % width = 0
  PROVE  \E count \in 1..length : length = count * width
<1> DEFINE k == length \div width
<1>1. k \in Int /\ length = width * k
  <2>1. length = width * (length \div width) + (length % width)
    OBVIOUS
  <2> QED
    BY <2>1
<1> HIDE DEF k
<1>2. k > 0
  <2> SUFFICES ASSUME k <= 0 PROVE FALSE
    BY <1>1
  <2>1. PICK d \in Nat : k = -d
    BY <1>1, -k \in Nat
  <2>2. width * k = -(width * d) /\ width * d \in Nat
    BY <2>1
  <2> QED
    BY <1>1, <2>2
<1>3. k <= length
  <2>1. PICK d \in Nat : width = d + 1
    BY width - 1 \in Nat
  <2>2. width * k = d * k + k /\ d * k \in Nat
    BY <1>1, <1>2, <2>1
  <2> QED
    BY <1>1, <2>2
<1>4. length = k * width
  BY <1>1
<1> QED
  BY <1>1, <1>2, <1>3, <1>4

\* What is built of a policy of a valid service.
LEMMA PolicyMayRun ==
  ASSUME NEW c \in Documents, Valid(c), NEW i \in DOMAIN c.services,
         NEW j \in DOMAIN c.services[i].policies
  PROVE  LET svc == c.services[i]
             p == BuildPolicy(svc.policies[j], svc)
         IN  /\ p.service = svc.name
             /\ p.requires \subseteq Range(Names(svc.metrics))
             /\ "bucket" \in DOMAIN p =>
                  /\ p.bucket > 0
                  /\ \A d \in Directions : p[d] # Nil =>
                       /\ p[d].step > 0
                       /\ \E count \in 1..p[d].sustained :
                            p[d].sustained = count * p.bucket
                       /\ MetricRetention(c) >= p[d].sustained + 2 * p.bucket
<1> DEFINE svc == c.services[i]
           q == svc.policies[j]
           names == Range(Names(svc.metrics))
           p == BuildPolicy(q, svc)
<1>1. q \in Policies
  <2>1. c.services \in Seq(Services)
    BY DEF Documents
  <2>2. svc \in Services
    BY <2>1
  <2>3. svc.policies \in Seq(Policies)
    BY <2>2 DEF Services
  <2> QED
    BY <2>3
<1>2. PolicyValid(q, names)
  BY DEF Valid, ServiceValid
<1>3. q.type = "window" => q \in WindowsOf(c)
  BY DEF WindowsOf, Range
<1> HIDE DEF svc, q, names
<1>4. CASE q.type = "window"
  <2>1. p = [service |-> svc.name, requires |-> {q.metric}, bucket |-> q.bucket,
             up |-> q.up, down |-> q.down]
    BY <1>4 DEF BuildPolicy
  <2>2. q.metric \in names /\ q.bucket # Nil /\ q.bucket > 0
        /\ ThresholdValid(q.up, q.bucket) /\ ThresholdValid(q.down, q.bucket)
    BY <1>2, <1>4 DEF PolicyValid
  <2>3. q.bucket \in Int
    BY <1>1, <2>2 DEF Policies
  <2>4. ASSUME NEW d \in Directions, q[d] # Nil
        PROVE  /\ q[d].step > 0
               /\ \E count \in 1..q[d].sustained : q[d].sustained = count * q.bucket
               /\ MetricRetention(c) >= q[d].sustained + 2 * q.bucket
    <3>1. ThresholdValid(q[d], q.bucket)
      BY <2>2 DEF Directions
    <3>2. q[d] \in Thresholds
      BY <1>1, <2>4 DEF Policies, Directions
    <3>3. q[d].sustained \in Int
      BY <3>2 DEF Thresholds
    <3>4. q[d].sustained > 0 /\ q[d].sustained % q.bucket = 0 /\ q[d].step > 0
      BY <2>4, <3>1 DEF ThresholdValid
    <3>5. \E count \in 1..q[d].sustained : q[d].sustained = count * q.bucket
      BY <2>2, <2>3, <3>3, <3>4, WholeWidths
    <3>6. MetricRetention(c) >= q[d].sustained + 2 * q.bucket
      BY <1>3, <1>4, <2>4, RetentionIsEnough
    <3> QED
      BY <3>4, <3>5, <3>6
  <2>5. \A d \in Directions : p[d] = q[d]
    BY <2>1 DEF Directions
  <2>6. p.service = svc.name /\ p.requires = {q.metric} /\ p.bucket = q.bucket
    BY <2>1
  <2> HIDE DEF p
  <2>7. /\ p.service = svc.name
        /\ p.requires \subseteq names
        /\ p.bucket > 0
        /\ \A d \in Directions : p[d] # Nil =>
             /\ p[d].step > 0
             /\ \E count \in 1..p[d].sustained : p[d].sustained = count * p.bucket
             /\ MetricRetention(c) >= p[d].sustained + 2 * p.bucket
    BY <2>2, <2>4, <2>5, <2>6
  <2> QED
    BY <2>7 DEF p, q, svc, names
<1>5. CASE q.type # "window"
  <2>1. p = [service |-> svc.name, requires |-> names, expression |-> q.expression]
    BY <1>5 DEF BuildPolicy, names
  <2>2. p.service = svc.name /\ p.requires = names /\ "bucket" \notin DOMAIN p
    BY <2>1
  <2> QED
    BY <2>2 DEF p, q, svc, names
<1> QED
  BY <1>4, <1>5

\* Whatever document is accepted, the loop may start on the services built of it.
THEOREM MayStart == Spec => []LoopMayStart
<1> DEFINE Retains == Running => retention = MetricRetention(config)
<1>1. Init => Retains
  BY DEF Init, Running
<1>2. Retains /\ [Next]_vars => Retains'
  BY DEF Next, vars, Load, LoadFails, Default, Validate, BuildAll, BuildFails, Refuse,
     Minute, Running
<1>3. StartUpInvariant /\ Retains => LoopMayStart
  <2> SUFFICES ASSUME StartUpInvariant, Retains, Running, NEW i \in DOMAIN services
               PROVE  LET svc == services[i]
                      IN  /\ 0 <= svc.min /\ svc.min <= svc.max
                          /\ svc.policies # << >>
                          /\ \A p \in Range(svc.policies) :
                               /\ p.service = svc.name
                               /\ p.requires \subseteq Range(Names(svc.metrics))
                               /\ "bucket" \in DOMAIN p =>
                                    /\ p.bucket > 0
                                    /\ \A d \in Directions : p[d] # Nil =>
                                         /\ p[d].step > 0
                                         /\ \E count \in 1..p[d].sustained :
                                              p[d].sustained = count * p.bucket
                                         /\ retention >= p[d].sustained + 2 * p.bucket
    BY DEF LoopMayStart
  <2> DEFINE given == config.services[i]
             svc == services[i]
  <2>1. /\ config \in Documents /\ Valid(config) /\ services = BuildServices(config)
        /\ retention = MetricRetention(config)
    BY DEF StartUpInvariant, TypeOK, Running
  <2>2. i \in DOMAIN config.services /\ svc = Build(given)
    BY <2>1 DEF BuildServices
  <2>3. ServiceValid(given, config.sources)
    BY <2>1, <2>2 DEF Valid
  <2>4. /\ svc.name = given.name /\ svc.metrics = given.metrics
        /\ svc.min = given.min /\ svc.max = given.max
        /\ svc.policies = [j \in DOMAIN given.policies |-> BuildPolicy(given.policies[j], given)]
    <3> HIDE DEF given, svc
    <3> QED
      BY <2>2 DEF Build
  <2>5. given.policies # << >> /\ given.min >= 0 /\ given.min <= given.max
    BY <2>3 DEF ServiceValid
  <2>6. given.policies \in Seq(Policies) /\ given.min \in {Nil} \cup Int
    <3>1. config.services \in Seq(Services)
      BY <2>1 DEF Documents
    <3>2. given \in Services
      BY <2>2, <3>1
    <3> QED
      BY <3>2 DEF Services
  <2>7. svc.policies # << >>
    <3>1. 1 \in DOMAIN given.policies
      BY <2>5, <2>6
    <3>2. 1 \in DOMAIN svc.policies
      BY <2>4, <3>1
    <3> QED
      BY <3>2
  <2>8. 0 <= svc.min /\ svc.min <= svc.max
    BY <2>4, <2>5, <2>6
  <2>9. ASSUME NEW p \in Range(svc.policies)
        PROVE  /\ p.service = svc.name
               /\ p.requires \subseteq Range(Names(svc.metrics))
               /\ "bucket" \in DOMAIN p =>
                    /\ p.bucket > 0
                    /\ \A d \in Directions : p[d] # Nil =>
                         /\ p[d].step > 0
                         /\ \E count \in 1..p[d].sustained :
                              p[d].sustained = count * p.bucket
                         /\ retention >= p[d].sustained + 2 * p.bucket
    <3>1. PICK j \in DOMAIN given.policies : p = BuildPolicy(given.policies[j], given)
      BY <2>4 DEF Range
    <3> QED
      BY <2>1, <2>2, <2>4, <3>1, PolicyMayRun
  <2> QED
    BY <2>7, <2>8, <2>9
<1> QED
  BY <1>1, <1>2, <1>3, StartUpHolds, PTL DEF Spec
=============================================================================
