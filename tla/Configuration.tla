---------------------------- MODULE Configuration ----------------------------
(***************************************************************************)
(* From a document to running services (internal/config/config.go and the  *)
(* first half of cmd/ninjascale/main.go): where the document comes from,    *)
(* its defaults, its validation and the services built from it; then the    *)
(* minutes that pass while their schedules are asked for bounds.            *)
(*                                                                         *)
(* Nil is an absent pointer; "" and 0 are the zero values that YAML leaves  *)
(* in an absent string or number.  Absent stands for an absent half of a    *)
(* service's cooldown, which Decode turns into 0.  A source "prometheus.x"  *)
(* is "prometheus" from x, an expression the set of names it refers to.     *)
(***************************************************************************)
EXTENDS Schedules, Functions

CONSTANTS
  Environments,  \* what NINJASCALE_CONFIG_BASE64, NINJASCALE_CONFIG and the file hold
  Absent,
  Broken,        \* text that cannot be read, decoded or parsed
  Nil,
  DefaultInterval, DefaultMin, DefaultMax, DefaultUp, DefaultDown, DefaultBucket,
  RetentionFloor,
  MaxTime        \* bound: minutes of running time

Directions == {"up", "down"}

Thresholds == [threshold : Int, sustained : Int, step : Int]
Policies ==
  [type : STRING, metric : STRING, expression : {Nil} \cup SUBSET STRING,
   bucket : {Nil} \cup Int, up : {Nil} \cup Thresholds, down : {Nil} \cup Thresholds]
Bindings ==
  [name : STRING, source : STRING, from : STRING, query : STRING, metric : STRING,
   attributes : SUBSET [key : STRING, value : STRING]]
Entries ==
  [days : SUBSET Int, start : {Nil} \cup Fields, end : {Nil} \cup Fields,
   min : Int, max : Int]
Services ==
  [name : STRING, identifier : STRING, min : {Nil} \cup Int, max : {Nil} \cup Int,
   cooldown : {Nil} \cup [Directions -> {Absent} \cup Int],
   schedule : {Nil} \cup [zone : STRING, entries : Seq(Entries)],
   metrics : Seq(Bindings), policies : Seq(Policies)]
Documents ==
  [interval : Int, services : Seq(Services),
   defaults : [min : Int, max : Int, cooldown : [Directions -> Int]],
   adapter : [type : STRING, region : STRING, cluster : STRING],
   sources : Seq([name : STRING, address : STRING])]

ASSUME DocumentAssumption ==
  /\ Environments \subseteq
       [base64 : {Absent, Broken} \cup Documents, raw : {Absent, Broken} \cup Documents,
        file : {Broken} \cup Documents]
  /\ Nil \notin Int \cup [Directions -> {Absent} \cup Int]

ASSUME DefaultsAssumption ==
  /\ {DefaultInterval, DefaultMin, DefaultMax, DefaultUp, DefaultDown, DefaultBucket,
      RetentionFloor, MaxTime} \subseteq Nat \ {0}
  /\ DefaultMin <= DefaultMax
  /\ \A zone \in Zones : Offset[zone] \in [0..MaxTime -> Int]

VARIABLES
  env,        \* the process environment and the file
  stage,      \* how far start-up has come
  config,     \* cfg
  services,   \* the services BuildServices returns
  retention,  \* MetricRetention's
  t           \* minutes of running time

vars == <<env, stage, config, services, retention, t>>

Or(value, default) == IF value = 0 THEN default ELSE value

\* yaml.Unmarshal: a cooldown that is given is a struct, whose absent half is 0.
Decode(document) ==
  LET half(x) == IF x = Absent THEN 0 ELSE x
      decoded(svc) ==
        [svc EXCEPT !.cooldown =
           IF svc.cooldown = Nil THEN Nil
           ELSE [d \in Directions |-> half(svc.cooldown[d])]]
  IN  [document EXCEPT !.services =
         [i \in DOMAIN document.services |-> decoded(document.services[i])]]

\* A mutated WithBucket: an explicit 0 is taken for an absent duration.
WithBucketForZero(policy) ==
  IF policy.type = "window" /\ policy.bucket \in {Nil, 0}
  THEN [policy EXCEPT !.bucket = DefaultBucket] ELSE policy

WithBucket(policy) ==
  IF policy.type = "window" /\ policy.bucket = Nil
  THEN [policy EXCEPT !.bucket = DefaultBucket] ELSE policy

Filled(svc, defaults) ==
  [svc EXCEPT !.min = IF @ = Nil THEN defaults.min ELSE @,
              !.max = IF @ = Nil THEN defaults.max ELSE @,
              !.cooldown = IF @ = Nil THEN defaults.cooldown ELSE @,
              !.policies = [j \in DOMAIN @ |-> WithBucket(svc.policies[j])]]

\* applyDefaults
ApplyDefaults(c) ==
  LET defaults == [min |-> Or(c.defaults.min, DefaultMin),
                   max |-> Or(c.defaults.max, DefaultMax),
                   cooldown |-> [up |-> Or(c.defaults.cooldown.up, DefaultUp),
                                 down |-> Or(c.defaults.cooldown.down, DefaultDown)]]
  IN  [c EXCEPT !.interval = Or(@, DefaultInterval),
                !.defaults = defaults,
                !.services = [i \in DOMAIN @ |-> Filled(c.services[i], defaults)]]

-----------------------------------------------------------------------------
(* validate                                                                *)

AdapterValid(adapter) ==
  \/ adapter.type = "memory"
  \/ adapter.type = "ecs" /\ adapter.region # "" /\ adapter.cluster # ""

Names(things) == [i \in DOMAIN things |-> things[i].name]
Named(things) == \A i \in DOMAIN things : things[i].name # ""

SourcesValid(sources) ==
  /\ Named(sources) /\ IsInjective(Names(sources))
  /\ \A i \in DOMAIN sources : sources[i].address # ""

BindingValid(m, sources) ==
  \/ m.source = "otlp" /\ m.metric # "" /\ \A a \in m.attributes : a.key # ""
  \/ /\ m.source = "prometheus"
     /\ m.from \in Range(Names(sources))
     /\ m.query # ""
     /\ m.attributes = {}

ScheduleValid(schedule) ==
  schedule # Nil =>
    /\ schedule.zone \in Zones \cup {""}
    /\ \A i \in DOMAIN schedule.entries :
         /\ {schedule.entries[i].start, schedule.entries[i].end} \subseteq Fields
         /\ schedule.entries[i].days \subseteq Days

ThresholdValid(threshold, bucket) ==
  threshold # Nil =>
    /\ threshold.sustained > 0
    /\ threshold.sustained % bucket = 0
    /\ threshold.step > 0

PolicyValid(p, names) ==
  \/ /\ p.type = "window"
     /\ p.metric \in names
     /\ p.bucket # Nil /\ p.bucket > 0
     /\ p.up # Nil \/ p.down # Nil
     /\ ThresholdValid(p.up, p.bucket) /\ ThresholdValid(p.down, p.bucket)
  \/ /\ p.type = "target"
     /\ p.expression # Nil
     /\ p.expression \subseteq names \cup {"current"}

ServiceValid(svc, sources) ==
  /\ svc.name # "" /\ svc.identifier # ""
  /\ svc.policies # << >>
  /\ svc.min >= 0 /\ svc.min <= svc.max
  /\ Named(svc.metrics) /\ IsInjective(Names(svc.metrics))
  /\ \A i \in DOMAIN svc.metrics : BindingValid(svc.metrics[i], sources)
  /\ ScheduleValid(svc.schedule)
  /\ \A i \in DOMAIN svc.policies : PolicyValid(svc.policies[i], Range(Names(svc.metrics)))

\* A mutated Valid: the local names of all services have to differ.
ValidSharingNames(c) ==
  /\ AdapterValid(c.adapter)
  /\ c.services # << >>
  /\ SourcesValid(c.sources)
  /\ IsInjective(Names(c.services))
  /\ \A i \in DOMAIN c.services : ServiceValid(c.services[i], c.sources)
  /\ \A i, j \in DOMAIN c.services :
       i # j => Range(Names(c.services[i].metrics)) \cap Range(Names(c.services[j].metrics)) = {}

Valid(c) ==
  /\ AdapterValid(c.adapter)
  /\ c.services # << >>
  /\ SourcesValid(c.sources)
  /\ IsInjective(Names(c.services))
  /\ \A i \in DOMAIN c.services : ServiceValid(c.services[i], c.sources)

-----------------------------------------------------------------------------
(* BuildServices and MetricRetention                                       *)

\* A target policy requires every metric of its service, named in it or not.
BuildPolicy(p, svc) ==
  IF p.type = "window"
  THEN [service |-> svc.name, requires |-> {p.metric}, bucket |-> p.bucket,
        up |-> p.up, down |-> p.down]
  ELSE [service |-> svc.name, requires |-> Range(Names(svc.metrics)),
        expression |-> p.expression]

Build(svc) ==
  [name |-> svc.name, identifier |-> svc.identifier, min |-> svc.min, max |-> svc.max,
   cooldown |-> svc.cooldown, metrics |-> svc.metrics,
   schedule |-> IF svc.schedule = Nil THEN Nil
                ELSE [zone |-> IF svc.schedule.zone = "" THEN "UTC" ELSE svc.schedule.zone,
                      entries |-> svc.schedule.entries],
   policies |-> [j \in DOMAIN svc.policies |-> BuildPolicy(svc.policies[j], svc)]]

BuildServices(c) == [i \in DOMAIN c.services |-> Build(c.services[i])]

WindowsOf(c) ==
  {p \in UNION {Range(c.services[i].policies) : i \in DOMAIN c.services} : p.type = "window"}

\* A mutated MetricRetention: the windows of the last service decide.
MetricRetentionOfLast(c) ==
  LET last == [c EXCEPT !.services = <<c.services[Len(c.services)]>>]
  IN  Max({RetentionFloor} \cup
          UNION {{p[d].sustained + 2 * p.bucket : d \in {e \in Directions : p[e] # Nil}} :
                   p \in WindowsOf(last)})

MetricRetention(c) ==
  Max({RetentionFloor} \cup
      UNION {{p[d].sustained + 2 * p.bucket : d \in {e \in Directions : p[e] # Nil}} :
               p \in WindowsOf(c)})

-----------------------------------------------------------------------------
Init ==
  /\ env \in Environments
  /\ stage = "load"
  /\ config = Nil
  /\ services = << >>
  /\ retention = 0
  /\ t = 0

Refuse == stage' = "refused" /\ UNCHANGED <<env, config, services, retention, t>>

\* LoadFromEnvOrFile: the first that is set counts, readable or not.
Chosen ==
  IF env.base64 # Absent THEN env.base64
  ELSE IF env.raw # Absent THEN env.raw
  ELSE env.file

\* A mutated Load: the document is validated as it stands.
LoadWithoutDefaults ==
  /\ stage = "load"
  /\ Chosen # Broken
  /\ config' = Decode(Chosen)
  /\ stage' = "validate"
  /\ UNCHANGED <<env, services, retention, t>>

Load ==
  /\ stage = "load"
  /\ Chosen # Broken
  /\ config' = Decode(Chosen)
  /\ stage' = "defaults"
  /\ UNCHANGED <<env, services, retention, t>>

LoadFails == stage = "load" /\ Chosen = Broken /\ Refuse

Default ==
  /\ stage = "defaults"
  /\ config' = ApplyDefaults(config)
  /\ stage' = "validate"
  /\ UNCHANGED <<env, services, retention, t>>

Validate ==
  /\ stage = "validate"
  /\ IF Valid(config)
     THEN stage' = "build" /\ UNCHANGED <<env, config, services, retention, t>>
     ELSE Refuse

BuildAll ==
  /\ stage = "build"
  /\ retention' = MetricRetention(config)
  /\ services' = BuildServices(config)
  /\ stage' = "ready"
  /\ UNCHANGED <<env, config, t>>

\* A bearer token, an AWS configuration or a client that cannot be loaded.
BuildFails == stage = "build" /\ Refuse

Minute ==
  /\ stage = "ready"
  /\ t < MaxTime
  /\ t' = t + 1
  /\ UNCHANGED <<env, stage, config, services, retention>>

Next == Load \/ LoadFails \/ Default \/ Validate \/ BuildAll \/ BuildFails \/ Minute

Spec == Init /\ [][Next]_vars

-----------------------------------------------------------------------------
(* Properties.                                                             *)

Running == stage = "ready"

\* The bounds reconcileService clamps to.
BoundsOf(svc, minute) ==
  LET found == IF svc.schedule = Nil THEN NoMatch
               ELSE GetActiveBounds(svc.schedule.entries, svc.schedule.zone, minute)
  IN  IF found = NoMatch THEN [min |-> svc.min, max |-> svc.max] ELSE found

\* Every variable has its type.
TypeOK ==
  /\ env \in Environments
  /\ stage \in {"load", "defaults", "validate", "build", "ready", "refused"}
  /\ stage \notin {"load", "refused"} => config \in Documents
  /\ t \in 0..MaxTime

\* What start-up keeps: the configuration is the chosen document, never one of a
\* lower rank when that is broken, decoded and then filled; it is valid before
\* anything is built, and the services are built of it.
StartUpInvariant ==
  /\ TypeOK
  /\ stage \notin {"load", "refused"} => Chosen # Broken
  /\ stage = "defaults" => config = Decode(Chosen)
  /\ stage \in {"validate", "build", "ready"} => config = ApplyDefaults(Decode(Chosen))
  /\ stage \in {"build", "ready"} => Valid(config)
  /\ Running => services = BuildServices(config)

\* What the other modules assume of a configuration holds of every one that is
\* accepted: bounds in order, whole windows of positive buckets, policies that
\* need only metrics their service is bound to, and a retained interval that
\* covers the longest window of any service with two buckets of slack.
LoopMayStart ==
  Running =>
    \A i \in DOMAIN services :
      LET svc == services[i]
      IN  /\ 0 <= svc.min /\ svc.min <= svc.max
          /\ svc.policies # << >>
          /\ \A p \in Range(svc.policies) :
               /\ p.service = svc.name
               /\ p.requires \subseteq Range(Names(svc.metrics))
               /\ "bucket" \in DOMAIN p =>
                    /\ p.bucket > 0
                    /\ \A d \in Directions : p[d] # Nil =>
                         /\ p[d].step > 0
                         /\ \E count \in 1..p[d].sustained :
                              p[d].sustained = count * p.bucket
                         /\ retention >= p[d].sustained + 2 * p.bucket

\* What a service says for itself is what it runs with, an explicit zero included,
\* or the document is refused; applyDefaults' comment: "A pointer preserves an
\* explicitly configured 0s so validation can reject it."
ExplicitWins ==
  Running =>
    \A i \in DOMAIN services :
      LET given == Chosen.services[i]
          svc == services[i]
      IN  /\ given.min # Nil => svc.min = given.min
          /\ given.max # Nil => svc.max = given.max
          /\ given.cooldown # Nil =>
               \A d \in Directions :
                 given.cooldown[d] # Absent => svc.cooldown[d] = given.cooldown[d]
          /\ \A j \in DOMAIN given.policies :
               (given.policies[j].type = "window" /\ given.policies[j].bucket # Nil)
               => svc.policies[j].bucket = given.policies[j].bucket

\* README.md: "Bindings are service-scoped, so local names may be reused": a
\* document whose services have names of their own is accepted exactly when each
\* of them is accepted alone.
ServicesApart ==
  (stage = "validate" /\ config.services # << >> /\ IsInjective(Names(config.services)))
  => (Valid(config) <=>
        \A i \in DOMAIN config.services :
          Valid([config EXCEPT !.services = <<config.services[i]>>]))

\* The bounds in force are those of the first entry whose span, walked around the
\* clock, meets the minute on a day the entry lists; no other minute has any.
BoundsAreOfFirstSpan ==
  Running =>
    \A svc \in {s \in Range(services) : s.schedule # Nil} :
      LET zone == svc.schedule.zone
          meets(e) ==
            /\ e.days = {} \/ Weekday(zone, t) \in e.days
            /\ Covers(ParseTimeMinutes(e.start), ParseTimeMinutes(e.end), MinuteOfDay(zone, t))
          entries == svc.schedule.entries
          found == GetActiveBounds(entries, zone, t)
      IN  \/ found = NoMatch /\ \A i \in DOMAIN entries : ~meets(entries[i])
          \/ \E i \in DOMAIN entries :
               /\ meets(entries[i])
               /\ found = [min |-> entries[i].min, max |-> entries[i].max]
               /\ \A j \in 1..(i - 1) : ~meets(entries[j])

\* The bounds of a service change only as an entry starts, after the last minute
\* of one, at midnight, or when the clock of its zone is put forward or back.
BoundsChangeAtBoundaries ==
  [][\A svc \in Range(services) :
       BoundsOf(svc, t') # BoundsOf(svc, t) =>
         LET zone == svc.schedule.zone
             was == MinuteOfDay(zone, t)
             is == MinuteOfDay(zone, t')
         IN  \/ Local(zone, t') # Local(zone, t) + 1
             \/ is = 0
             \/ \E e \in Range(svc.schedule.entries) :
                  ParseTimeMinutes(e.start) = is \/ ParseTimeMinutes(e.end) = was]_vars

\* README.md: "Defaults applied to all services unless overridden per service":
\* a cooldown that a service does not set is the default one.
DefaultsInherited ==
  Running =>
    \A i \in DOMAIN services :
      LET given == Chosen.services[i].cooldown
      IN  \A d \in Directions :
            (given = Nil \/ given[d] = Absent)
            => services[i].cooldown[d] = config.defaults.cooldown[d]
=============================================================================
