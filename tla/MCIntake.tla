------------------------------ MODULE MCIntake ------------------------------
(* A small instance of module Intake: a raw metric bound under two keys, one  *)
(* of them with a selector of two attributes, and two Prometheus metrics.     *)
EXTENDS Intake

CONSTANTS cpu, every, load, mem, g, h, loop

Attribute(k, v) == [key |-> k, value |-> v]

TwoBindings ==
  <<[metric |-> "cpu", key |-> cpu,
     attributes |-> {Attribute("env", "x"), Attribute("zone", "a")}],
    [metric |-> "cpu", key |-> every, attributes |-> {}]>>

TwoQueries == <<load, mem>>

Point(at, value, zone) ==
  [at |-> at, value |-> value,
   attributes |-> <<Attribute("env", "x"), Attribute("zone", zone)>>]

Metric(kind, points) == [kind |-> kind, name |-> "cpu", points |-> points]

\* Over gRPC a point of a series that one selector does not want; over HTTP one of a
\* given time, which may come late, or what has to be skipped: another kind of metric,
\* no value, a time in the future or out of range.
SomeRequests ==
  [c \in {g, h} |->
     IF c = g THEN {<<Metric("gauge", <<Point(0, 0, "b")>>)>>}
     ELSE {<<Metric("sum", <<Point(1, 1, "a")>>)>>,
           <<Metric("histogram", <<Point(0, 1, "a")>>),
             Metric("sum", <<Point(0, Unsupported, "a"), Point(MaxStamp, 0, "a"),
                             Point(MaxStamp + 1, 0, "b")>>)>>}]
=============================================================================
