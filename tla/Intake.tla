------------------------------- MODULE Intake -------------------------------
(***************************************************************************)
(* How samples get into the metric store, from the start of the process to  *)
(* its exit: the OTLP receiver (internal/metrics/otlp.go), the poll of the   *)
(* Prometheus sources (pollPrometheusMetrics, internal/metrics/prometheus.go)*)
(* and run of cmd/ninjascale/main.go, which puts them in order.              *)
(*                                                                         *)
(* Every handler of the receiver is a goroutine that calls Add, and so is    *)
(* the loop: they are the adders of module MetricStore.  A request is a      *)
(* sequence of metrics, a metric a sequence of points, which carry the time 0*)
(* when they have none; the attributes of a point are a sequence, those of a *)
(* selector a set.                                                          *)
(***************************************************************************)
EXTENDS MetricStore

CONSTANTS
  GrpcExports, HttpExports,  \* the exports ever sent, a goroutine each
  Loop,           \* the goroutine of Reconciler.Run
  Bindings,       \* the services' OTLP bindings, in order: [metric, key, attributes]
  Queries,        \* the keys of the services' Prometheus bindings, in order
  Requests,       \* Requests[c]: what export c may hold
  Unsupported,    \* the value of a point that holds neither a double nor an int
  MaxStamp,       \* the largest int64
  QueryValues,    \* values of the one series that a query returns
  Answered,       \* an export that is over
  Missing, Failed \* the other outcomes: no series; an error, or several series

Exports == GrpcExports \cup HttpExports

ASSUME IntakeAssumption ==
  /\ Adders = Exports \cup {Loop}
  /\ GrpcExports \cap HttpExports = {} /\ Loop \notin Exports
  /\ \A i \in DOMAIN Bindings : Bindings[i].key \in Keys
  /\ \A i \in DOMAIN Queries : Queries[i] \in Keys
  /\ Bindings \in Seq(Range(Bindings)) /\ Queries \in Seq(Keys)
  /\ QueryValues \subseteq Values
  /\ {Missing, Failed} \cap [at : Times, value : Values] = {}

VARIABLES
  main,       \* where run is
  stopped,    \* is the context cancelled?
  configured, \* how many bindings were passed to RegisterBinding
  bindings,   \* o.bindings, in the order of registration
  grpc, http, \* the servers: "off", "starting", "open", "draining" or "closed"
  exports,    \* exports[c]: Idle before, how far it has come, Answered after
  poll,       \* the tick under way: its evaluation time and what queries answered
  arrivals,   \* every export received so far, with the time it was received
  results     \* every result of a query so far: [query, at, value]

heard == <<arrivals, results>>
intakeVars == <<main, stopped, configured, bindings, grpc, http, exports, poll, heard>>
allVars == <<vars, intakeVars>>

Waiting == [at |-> 0, answers |-> << >>]

-----------------------------------------------------------------------------
(* Routing.                                                                *)

Points(metric) == IF metric.kind \in {"gauge", "sum"} THEN metric.points ELSE << >>

\* An export holds sequences; a time is unsigned.
ASSUME RequestsAssumption ==
  /\ DOMAIN Requests = Exports
  /\ \A c \in Exports : \A request \in Requests[c] :
       /\ request \in Seq(Range(request))
       /\ \A metric \in Range(request) :
            /\ Points(metric) \in Seq(Range(Points(metric)))
            /\ \A point \in Range(Points(metric)) :
                 /\ point.at \in Nat
                 /\ point.attributes \in Seq(Range(point.attributes))
  /\ Unsupported \notin Values

\* The keys of a point's attributes are unique, as OTLP demands of its clients.
ASSUME AttributesAssumption ==
  \A c \in Exports : \A request \in Requests[c] :
    \A metric \in Range(request) : \A point \in Range(Points(metric)) :
      \A i, j \in DOMAIN point.attributes :
        point.attributes[i].key = point.attributes[j].key => i = j

\* How far an export may have come.
Progress ==
  LET metrics == UNION {Range(request) : request \in UNION Range(Requests)}
      points == UNION {Range(Points(metric)) : metric \in metrics}
  IN  [request : UNION Range(Requests), received : Times, metrics : Nat,
       todo : Seq([point : points, binding : Range(Bindings)])]

ASSUME ProgressAssumption == {Idle, Answered} \cap Progress = {}

\* extractValue, and the time that an int64 of nanoseconds can hold.
Supported(point) == point.value # Unsupported /\ point.at <= MaxStamp

\* A mutated Matches: one listed key is enough.
MatchesAny(attributes, selector) ==
  selector = {} \/ selector \cap Range(attributes) # {}

\* matchesAttributes: the first attribute with a listed key has the listed value.
Matches(attributes, selector) ==
  \A want \in selector :
    \E i \in DOMAIN attributes :
      /\ attributes[i] = want
      /\ \A j \in 1..(i - 1) : attributes[j].key # want.key

\* The elements of s at the positions `picked`, in order: SelectSeq as a recursive
\* function.
Selected(s, picked) ==
  LET f[i \in 0..Len(s)] ==
        IF i = 0 THEN << >> ELSE IF i \in picked THEN Append(f[i - 1], s[i]) ELSE f[i - 1]
  IN  f[Len(s)]

Stamp(point, received) == IF point.at = 0 THEN received ELSE point.at

\* A mutated BoundTo: the first binding of a metric is the only one that counts.
FirstBoundTo(name) ==
  LET bound == Selected(bindings, {i \in DOMAIN bindings : bindings[i].metric = name})
  IN  IF bound = << >> THEN << >> ELSE <<bound[1]>>

\* o.bindings[name]
BoundTo(name) == Selected(bindings, {i \in DOMAIN bindings : bindings[i].metric = name})

\* processMetric: point by point and for each point binding by binding.
Pairs(points, bound) ==
  [n \in 1..(Len(points) * Len(bound)) |->
     [point |-> points[1 + ((n - 1) \div Len(bound))],
      binding |-> bound[1 + ((n - 1) % Len(bound))]]]

Routed(pair) ==
  Supported(pair.point) /\ Matches(pair.point.attributes, pair.binding.attributes)

\* The call of Add for a point and a binding.
Offered(pair, received) ==
  [key |-> pair.binding.key, at |-> Stamp(pair.point, received), value |-> pair.point.value]

-----------------------------------------------------------------------------
IntakeInit ==
  /\ Init
  /\ main = "setup"
  /\ stopped = FALSE
  /\ configured = 0
  /\ bindings = << >>
  /\ grpc = "off" /\ http = "off"
  /\ exports = [c \in Exports |-> Idle]
  /\ poll = Waiting
  /\ arrivals = {} /\ results = {}

(* run, before the loop.                                                   *)

\* RegisterBinding: a binding that is there already is not added again.
RegisterBinding ==
  /\ configured < Len(Bindings)
  /\ LET binding == Bindings[configured + 1]
     IN  bindings' = IF binding \in Range(bindings) THEN bindings
                     ELSE Append(bindings, binding)
  /\ configured' = configured + 1
  /\ UNCHANGED <<vars, main, stopped, grpc, http, exports, poll, heard>>

Registered == configured = Len(Bindings)

\* Start: the gRPC port is taken before it returns, the HTTP port by a goroutine.
Start ==
  /\ main = "setup" /\ Registered
  /\ main' = "running"
  /\ grpc' = "open" /\ http' = "starting"
  /\ poll' = [at |-> clock, answers |-> << >>]
  /\ UNCHANGED <<vars, stopped, configured, bindings, exports, heard>>

\* The gRPC port cannot be taken: run returns, the process exits.
StartFails ==
  /\ main = "setup" /\ Registered
  /\ main' = "failed"
  /\ UNCHANGED <<vars, stopped, configured, bindings, grpc, http, exports, poll, heard>>

\* The HTTP port is taken; or it cannot be, which is only logged.
ListenAndServe ==
  /\ http = "starting"
  /\ http' \in {"open", "closed"}
  /\ UNCHANGED <<vars, main, stopped, configured, bindings, grpc, exports, poll, heard>>

(* Exports.                                                                *)

UnderWay(c) == exports[c] \notin {Idle, Answered}

Open(c) == (c \in GrpcExports /\ grpc = "open") \/ (c \in HttpExports /\ http = "open")

Receive(c) ==
  /\ exports[c] = Idle
  /\ Open(c)
  /\ \E request \in Requests[c] :
       /\ exports' = [exports EXCEPT ![c] =
            [request |-> request, received |-> clock, metrics |-> 0, todo |-> << >>]]
       /\ arrivals' = arrivals \cup {[request |-> request, received |-> clock]}
  /\ UNCHANGED <<vars, main, stopped, configured, bindings, grpc, http, poll, results>>

\* The next metric: its bindings are copied under the read lock.
ProcessMetric(c) ==
  /\ UnderWay(c) /\ adding[c] = Idle
  /\ LET export == exports[c]
     IN  /\ export.todo = << >>
         /\ export.metrics < Len(export.request)
         /\ exports' = [exports EXCEPT ![c] =
              [export EXCEPT !.metrics = @ + 1,
                 !.todo = LET metric == export.request[export.metrics + 1]
                          IN  Pairs(Points(metric), BoundTo(metric.name))]]
  /\ UNCHANGED <<vars, main, stopped, configured, bindings, grpc, http, poll, heard>>

\* A mutated AddNext: the sample is judged by the time its export was received.
AddNextAsReceived(c) ==
  /\ UnderWay(c) /\ adding[c] = Idle
  /\ exports[c].todo # << >>
  /\ LET received == exports[c].received
         next == Offered(Head(exports[c].todo), received)
     IN  adding' = IF /\ Routed(Head(exports[c].todo)) /\ next \in Offers
                      /\ next.at <= received /\ next.at >= Expiry(received)
                   THEN [adding EXCEPT ![c] =
                           [key |-> next.key, at |-> next.at, value |-> next.value,
                            now |-> received]]
                   ELSE adding
  /\ exports' = [exports EXCEPT ![c].todo = Tail(@)]
  /\ UNCHANGED <<clock, series, accepted, main, stopped, configured, bindings, grpc, http, poll,
                 heard>>

\* The next point and binding, and the call of Add if they match; one that is not
\* accepted by now returns at once.
AddNext(c) ==
  /\ UnderWay(c) /\ adding[c] = Idle
  /\ exports[c].todo # << >>
  /\ LET pair == Head(exports[c].todo)
         next == Offered(pair, exports[c].received)
     IN  IF Routed(pair) /\ Accepts(next) THEN Offer(c, next) ELSE UNCHANGED vars
  /\ exports' = [exports EXCEPT ![c].todo = Tail(@)]
  /\ UNCHANGED <<main, stopped, configured, bindings, grpc, http, poll, heard>>

Answer(c) ==
  /\ UnderWay(c) /\ adding[c] = Idle
  /\ exports[c].todo = << >> /\ exports[c].metrics = Len(exports[c].request)
  /\ exports' = [exports EXCEPT ![c] = Answered]
  /\ UNCHANGED <<vars, main, stopped, configured, bindings, grpc, http, poll, heard>>

(* The loop.                                                               *)

Polled == Len(poll.answers) = Len(Queries)

\* The next tick; with the context cancelled as well, select takes either.
Tick ==
  /\ main = "running" /\ poll = Waiting
  /\ poll' = [at |-> clock, answers |-> << >>]
  /\ UNCHANGED <<vars, main, stopped, configured, bindings, grpc, http, exports, heard>>

\* What a query may answer; with the context cancelled it fails.
Outcomes ==
  IF stopped THEN {Failed}
  ELSE {Missing, Failed} \cup [at : {poll.at}, value : QueryValues]

\* A mutated Queried: every result goes to the key of the first query.
QueriedForFirst(answer) == [key |-> Queries[1], at |-> answer.at, value |-> answer.value]

\* What the poll offers for the next query.
Queried(answer) ==
  [key |-> Queries[Len(poll.answers) + 1], at |-> answer.at, value |-> answer.value]

\* What the next query returned, if anything.
Heard(answer) ==
  IF answer \in {Missing, Failed} THEN results
  ELSE results \cup
         {[query |-> Len(poll.answers) + 1, at |-> answer.at, value |-> answer.value]}

\* A mutated Query: an error ends the poll.
QueryUntilFailure ==
  /\ main = "running" /\ poll # Waiting /\ ~Polled /\ adding[Loop] = Idle
  /\ \E answer \in Outcomes :
       /\ IF answer \notin {Missing, Failed} /\ Accepts(Queried(answer))
          THEN Offer(Loop, Queried(answer)) ELSE UNCHANGED vars
       /\ poll' = IF answer = Failed THEN Waiting
                  ELSE [poll EXCEPT !.answers = Append(@, answer)]
       /\ results' = Heard(answer)
  /\ UNCHANGED <<main, stopped, configured, bindings, grpc, http, exports, arrivals>>

\* The query of the next binding: only exactly one series, or a scalar, is added.
Query ==
  /\ main = "running" /\ poll # Waiting /\ ~Polled /\ adding[Loop] = Idle
  /\ \E answer \in Outcomes :
       /\ IF answer \notin {Missing, Failed} /\ Accepts(Queried(answer))
          THEN Offer(Loop, Queried(answer)) ELSE UNCHANGED vars
       /\ poll' = [poll EXCEPT !.answers =
                     Append(@, IF answer = Failed THEN Missing ELSE answer)]
       /\ results' = Heard(answer)
  /\ UNCHANGED <<main, stopped, configured, bindings, grpc, http, exports, arrivals>>

\* The decisions about the services take snapshots.
Decide ==
  /\ main = "running" /\ poll # Waiting /\ Polled /\ adding[Loop] = Idle
  /\ Snapshot
  /\ UNCHANGED intakeVars

\* The tick is over; it took no snapshot if the counts could not be read.
EndTick ==
  /\ main = "running" /\ poll # Waiting /\ Polled /\ adding[Loop] = Idle
  /\ poll' = Waiting
  /\ UNCHANGED <<vars, main, stopped, configured, bindings, grpc, http, exports, heard>>

(* The end.                                                                *)

Signal ==
  /\ main \notin {"failed", "exited"} /\ ~stopped
  /\ stopped' = TRUE
  /\ UNCHANGED <<vars, main, configured, bindings, grpc, http, exports, poll, heard>>

\* A mutated Return: the context is looked at after a poll that was successful.
ReturnAfterSuccess ==
  /\ main = "running" /\ poll # Waiting /\ Polled /\ stopped
  /\ adding[Loop] = Idle
  /\ Missing \notin Range(poll.answers)
  /\ main' = "stop probes"
  /\ UNCHANGED <<vars, stopped, configured, bindings, grpc, http, exports, poll, heard>>

\* Run returns between two ticks; the deferred calls run, last first: the probe
\* server is stopped before the receiver.
Return ==
  /\ main = "running" /\ poll = Waiting /\ stopped
  /\ main' = "stop probes"
  /\ UNCHANGED <<vars, stopped, configured, bindings, grpc, http, exports, poll, heard>>

\* Stop begins: GracefulStop takes no more exports over gRPC.
Stop ==
  /\ main = "stop probes"
  /\ main' = "stop grpc"
  /\ grpc' = "draining"
  /\ UNCHANGED <<vars, stopped, configured, bindings, http, exports, poll, heard>>

Drained(set) == \A c \in set : ~UnderWay(c)

\* A mutated GrpcStopped: Stop of the gRPC server instead of GracefulStop.
GrpcCut ==
  /\ main = "stop grpc"
  /\ main' = "stop http"
  /\ grpc' = "closed" /\ http' = "draining"
  /\ UNCHANGED <<vars, stopped, configured, bindings, exports, poll, heard>>

\* The last export over gRPC was answered; Shutdown closes the HTTP port, one that
\* was not taken yet included.
GrpcStopped ==
  /\ main = "stop grpc" /\ Drained(GrpcExports)
  /\ main' = "stop http"
  /\ grpc' = "closed" /\ http' = "draining"
  /\ UNCHANGED <<vars, stopped, configured, bindings, exports, poll, heard>>

\* The last export over HTTP was answered; the process exits.
Exit ==
  /\ main = "stop http" /\ Drained(HttpExports)
  /\ main' = "exited"
  /\ http' = "closed"
  /\ UNCHANGED <<vars, stopped, configured, bindings, grpc, exports, poll, heard>>

-----------------------------------------------------------------------------
\* A handler's goroutine, and that of main but for the choices of select; both
\* outside of Add's critical section.
Handle(c) == ProcessMetric(c) \/ AddNext(c) \/ Answer(c)

Main ==
  \/ RegisterBinding \/ Start \/ StartFails
  \/ Query \/ EndTick
  \/ Stop \/ GrpcStopped \/ Exit

IntakeNext ==
  \/ Main \/ Tick \/ Decide \/ Return
  \/ ListenAndServe
  \/ \E c \in Exports : Receive(c) \/ Handle(c)
  \/ \E a \in Adders : FinishAdd(a) /\ UNCHANGED intakeVars
  \/ Signal
  \/ Advance /\ UNCHANGED intakeVars

IntakeSpec == IntakeInit /\ [][IntakeNext]_allVars

\* What FinishAdd(a), and nothing else, does to the calls under way.
Returns(a) == adding[a] # Idle /\ adding' = [adding EXCEPT ![a] = Idle]

\* No goroutine stands still: the lock is handed on, requests that have arrived are
\* worked off, queries return (the loop's context is cancelled by then), and select,
\* which takes any case that is ready, does not take the tick for ever.
IntakeFairness ==
  /\ \A a \in Adders : WF_adding(Returns(a))
  /\ \A c \in Exports : WF_exports(Handle(c))
  /\ WF_<<main, configured, poll>>(Main)
  /\ SF_main(Return)

FairIntakeSpec == IntakeSpec /\ IntakeFairness

-----------------------------------------------------------------------------
(* Properties.                                                             *)

\* An export is under way only from the time all bindings are registered ("Services
\* and aliases are complete before the receiver can accept data") until the process
\* exits: no order of signal, shutdown and exports cuts one off.
IntakeInvariant ==
  /\ configured \in 0..Len(Bindings)
  /\ \A i \in 1..configured : Bindings[i] \in Range(bindings)
  /\ main \in {"setup", "failed"} => grpc = "off" /\ http = "off"
  /\ main # "setup" => Registered
  /\ main \in {"setup", "failed", "exited"} => Drained(Exports)
  /\ main = "stop grpc" => grpc # "open"
  /\ main = "stop http" => grpc = "closed" /\ http = "draining"
  /\ main \in {"stop http", "exited"} => Drained(GrpcExports)
  /\ main = "exited" => grpc = "closed" /\ http = "closed"

\* What README.md promises of a metric: "A selector matches when the point has every
\* listed key with that value"; other points "remain missing".
WantedBy(binding, metric) ==
  {point \in Range(Points(metric)) :
     /\ metric.name = binding.metric
     /\ point.value \in Values /\ point.at <= MaxStamp
     /\ binding.attributes \subseteq Range(point.attributes)}

\* When an export is answered, every point of it that some service is bound to has
\* reached the store under each of its keys, but for points observed after the
\* export was received or before the interval retained by now.
AnsweredIsStored ==
  [][\A c \in Exports : UnderWay(c) /\ exports'[c] = Answered =>
       \A binding \in Range(Bindings), metric \in Range(exports[c].request) :
         \A point \in WantedBy(binding, metric) :
           LET at == Stamp(point, exports[c].received)
           IN  at <= exports[c].received /\ at >= Expiry(clock)
               => at \in DOMAIN accepted[binding.key]]_allVars

\* Is a value observed at a time meant for key k: a point that its selector matches, of
\* an export received, at the point's own time or, if it has none, at that of its export;
\* or what a query of that key returned for that time?
Meant(k, at, value) ==
  \/ \E binding \in Range(Bindings), arrival \in arrivals :
       /\ binding.key = k
       /\ \E metric \in Range(arrival.request) : \E point \in WantedBy(binding, metric) :
            point.value = value /\ Stamp(point, arrival.received) = at
  \/ \E i \in DOMAIN Queries :
       /\ Queries[i] = k
       /\ [query |-> i, at |-> at, value |-> value] \in results

\* Nothing else reaches a key: no point past a selector, and no result of the query of
\* another metric, in whatever order results arrive, fail or are missing.
SeriesStayApart ==
  \A k \in Keys : \A at \in DOMAIN accepted[k] : Meant(k, at, accepted[k][at])

\* Every tick asks for every Prometheus metric, whatever the other queries answer,
\* and stores each single sample unless it has expired meanwhile.
PollIsComplete ==
  [][poll # Waiting /\ poll' = Waiting =>
       \A i \in DOMAIN Queries :
         /\ i \in DOMAIN poll.answers
         /\ poll.answers[i] \notin {Missing, Failed} /\ poll.at >= Expiry(clock)
            => poll.at \in DOMAIN accepted[Queries[i]]]_allVars

\* A signal ends the process, whatever is under way.
SignalEnds == stopped ~> main \in {"failed", "exited"}

\* All that clients and queries do to the store is what module MetricStore allows.
ImplementsStore == Spec
=============================================================================
