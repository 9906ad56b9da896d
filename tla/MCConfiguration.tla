--------------------------- MODULE MCConfiguration ---------------------------
(* Small instances of module Configuration: a document with two services,    *)
(* and documents that deviate from it in one or two fields of the first; a   *)
(* week of two days of three hours of two minutes.                          *)
EXTENDS Configuration

NoAttributes == {}
Window(sustained, step) == [threshold |-> 1, sustained |-> sustained, step |-> step]
Otlp(name) == [name |-> name, source |-> "otlp", from |-> "", query |-> "",
               metric |-> "raw", attributes |-> NoAttributes]
Query(name) == [name |-> name, source |-> "prometheus", from |-> "prom", query |-> "up",
                metric |-> "", attributes |-> NoAttributes]

WindowPolicy == [type |-> "window", metric |-> "load", bucket |-> Nil,
                 up |-> Window(2, 1), down |-> Nil, expression |-> Nil]
TargetPolicy == [type |-> "target", metric |-> "", bucket |-> Nil, up |-> Nil,
                 down |-> Nil, expression |-> {"load", "current"}]

First == [name |-> "web", identifier |-> "i", min |-> Nil, max |-> Nil, cooldown |-> Nil,
          schedule |-> Nil, metrics |-> <<Otlp("load")>>, policies |-> <<WindowPolicy>>]
Second == [First EXCEPT !.name = "api", !.metrics = <<Query("load"), Otlp("queue")>>,
                        !.policies = <<TargetPolicy>>]

Base == [interval |-> 0,
         defaults |-> [min |-> 0, max |-> 0, cooldown |-> [up |-> 0, down |-> 0]],
         sources |-> <<[name |-> "prom", address |-> "a"]>>,
         adapter |-> [type |-> "memory", region |-> "", cluster |-> ""],
         services |-> <<First, Second>>]

With(svc) == [Base EXCEPT !.services[1] = svc]

CountDocuments ==
  {With([First EXCEPT !.min = low, !.max = high]) :
     low \in {Nil, -1, 0, 2}, high \in {Nil, 0, 1, 4}}
CooldownDocuments ==
  {With([First EXCEPT !.cooldown = [up |-> up, down |-> down]]) :
     up \in {Absent, 0, 1}, down \in {Absent, -1, 4}}
WindowDocuments ==
  {With([First EXCEPT !.policies =
           <<[WindowPolicy EXCEPT !.bucket = bucket, !.up = up, !.down = down]>>]) :
     bucket \in {Nil, -1, 0, 1, 2, 3},
     up \in {Nil, Window(0, 1), Window(3, 1), Window(4, 0), Window(12, 1)},
     down \in {Nil, Window(2, 1), Window(6, 1)}}
BindingDocuments ==
  {With([First EXCEPT !.metrics = bindings, !.policies = policies]) :
     bindings \in {<<Otlp("load"), Query("load")>>, <<Otlp("load"), Query("queue")>>,
                   <<Query("queue")>>, <<[Otlp("load") EXCEPT !.metric = ""]>>,
                   <<[Query("load") EXCEPT !.from = "other"]>>},
     policies \in {<< >>, <<WindowPolicy>>, <<WindowPolicy, TargetPolicy>>}}
OtherDocuments ==
  {[Base EXCEPT !.services[1].name = "api"], [Base EXCEPT !.services = << >>],
   [Base EXCEPT !.sources = << >>], [Base EXCEPT !.defaults.min = 5],
   [Base EXCEPT !.adapter = [type |-> "ecs", region |-> "r", cluster |-> ""]],
   [Base EXCEPT !.defaults = [min |-> 2, max |-> 4, cooldown |-> [up |-> 1, down |-> 3]]]}

Entry(days, start, end, max) ==
  [days |-> days, start |-> start, end |-> end, min |-> 1, max |-> max]
Scheduled(zone, entries) == With([First EXCEPT !.schedule = [zone |-> zone, entries |-> entries]])

Clock == {x \in Fields : x.hour < 3 /\ x.minute < 2}
ScheduleDocuments ==
  {Scheduled("", <<Entry(days, start, end, 2)>>) :
     days \in SUBSET Days, start \in Fields, end \in Fields}
  \cup {Scheduled("Berlin", <<Entry({1}, start, end, 2), Entry({}, [hour |-> 1, minute |-> 1],
                                                            end, 3)>>) :
          start \in Clock, end \in Clock}
  \cup {Scheduled("Atlantis", << >>), Scheduled("", <<Entry({9}, Nil, Nil, 2)>>)}

MCDocuments == CountDocuments \cup CooldownDocuments \cup WindowDocuments
             \cup BindingDocuments \cup OtherDocuments \cup ScheduleDocuments

Alone(document) == [base64 |-> Absent, raw |-> Absent, file |-> document]
MCEnvironments ==
  {Alone(document) : document \in MCDocuments}
  \cup [base64 : {Absent, Broken, Base}, raw : {Absent, Broken, Base}, file : {Broken, Base}]
FewEnvironments == {Alone(document) : document \in CountDocuments \cup CooldownDocuments}

\* Berlin is an hour ahead of UTC, and two from minute 9 on.
MCOffset == [zone \in {"UTC", "Berlin"} |->
               [minute \in 0..MaxTime |->
                  IF zone = "UTC" THEN 0 ELSE IF minute < 9 THEN 2 ELSE 4]]
=============================================================================
