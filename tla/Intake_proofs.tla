---------------------------- MODULE Intake_proofs ----------------------------
(***************************************************************************)
(* Theorems about module Intake, for any bindings, queries and requests and  *)
(* any number of exports: it implements the store, and so the history the    *)
(* store promises; start-up and shutdown keep the order that cuts no export  *)
(* off; no poll is left incomplete; no sample reaches a key it is not meant  *)
(* for; and an export is answered only when all that is wanted of it is      *)
(* stored.                                                                  *)
(***************************************************************************)
EXTENDS Intake, MetricStore_proofs

-----------------------------------------------------------------------------
(* Refinement.                                                             *)

\* Who adds is an export or the loop.
LEMMA WhoAdds == Exports \subseteq Adders /\ Loop \in Adders /\ Loop \notin Exports
BY IntakeAssumption DEF Exports

\* Every step of a handler, of the loop or of main is a step of the store or none.
LEMMA StepOfStore == [IntakeNext]_allVars => [Next]_vars
<1> SUFFICES ASSUME [IntakeNext]_allVars PROVE [Next]_vars
  OBVIOUS
<1>1. ASSUME NEW a \in Adders, NEW offer, Offer(a, offer) PROVE Next
  BY <1>1 DEF Next, BeginAdd, Offer, Accepts
<1>2. ASSUME NEW c \in Exports, Handle(c) PROVE [Next]_vars
  <2>1. CASE AddNext(c)
    <3>1. \/ Offer(c, Offered(Head(exports[c].todo), exports[c].received))
          \/ UNCHANGED vars
      BY <2>1 DEF AddNext
    <3> QED
      BY <1>1, <3>1, WhoAdds
  <2>2. CASE ProcessMetric(c) \/ Answer(c)
    BY <2>2 DEF ProcessMetric, Answer
  <2> QED
    BY <1>2, <2>1, <2>2 DEF Handle
<1>3. CASE Main
  <2>1. CASE Query
    <3>1. PICK answer \in Outcomes :
            IF answer \notin {Missing, Failed} /\ Accepts(Queried(answer))
            THEN Offer(Loop, Queried(answer)) ELSE UNCHANGED vars
      BY <2>1 DEF Query
    <3> QED
      BY <1>1, <3>1, WhoAdds
  <2>2. CASE ~Query
    BY <1>3, <2>2 DEF Main, RegisterBinding, Start, StartFails, EndTick, Stop, GrpcStopped,
                      Exit
  <2> QED
    BY <2>1, <2>2
<1>4. CASE Tick \/ Return \/ ListenAndServe \/ Signal \/ \E c \in Exports : Receive(c)
  BY <1>4 DEF Tick, Return, ListenAndServe, Signal, Receive
<1>5. CASE Decide \/ (Advance /\ UNCHANGED intakeVars)
          \/ \E a \in Adders : FinishAdd(a) /\ UNCHANGED intakeVars
  BY <1>5 DEF Decide, Next
<1>6. CASE UNCHANGED allVars
  BY <1>6 DEF allVars
<1> QED
  BY <1>2, <1>3, <1>4, <1>5, <1>6 DEF IntakeNext

\* Exports and polls, however they interleave, use the store as module MetricStore
\* describes it.
THEOREM IntakeImplementsStore == IntakeSpec => ImplementsStore
<1>1. IntakeInit => Init
  BY DEF IntakeInit
<1> QED
  BY <1>1, StepOfStore, PTL DEF IntakeSpec, Spec, ImplementsStore

\* So the store stays well formed under them.
THEOREM StoreOfIntake == IntakeSpec => []StoreInvariant
  BY IntakeImplementsStore, StoreInvariantHolds DEF ImplementsStore

\* And so what decisions see is the history the store promises, without holes, with
\* whatever exports, polls and the clock do meanwhile.
THEOREM IntakeKeepsHistory ==
  IntakeSpec => ImplementsHistory /\ []SnapshotHasNoHoles /\ []SnapshotIsRecentHistory
  BY IntakeImplementsStore, StoreImplementsHistory, NoHoles, RecentHistory DEF ImplementsStore

-----------------------------------------------------------------------------
(* Start-up and shutdown.                                                  *)

\* The order of start-up and shutdown, with the types it rests on.
Ordered ==
  /\ IntakeInvariant
  /\ bindings \in Seq(Range(Bindings))
  /\ exports = [c \in Exports |-> exports[c]]

\* The bindings are a sequence.
LEMMA BindingsType == Bindings \in Seq(Range(Bindings)) /\ Len(Bindings) \in Nat
<1>1. Bindings \in Seq(Range(Bindings))
  BY IntakeAssumption
<1> QED
  BY <1>1

\* Nothing is under way before the receiver is started.
LEMMA InitOrdered == IntakeInit => Ordered
<1> SUFFICES ASSUME IntakeInit PROVE Ordered
  OBVIOUS
<1> QED
  BY BindingsType DEF IntakeInit, Ordered, IntakeInvariant, Drained, UnderWay, Registered

\* Registering appends the next binding, or finds it there.
LEMMA RegisterKeeps ==
  ASSUME Ordered, RegisterBinding
  PROVE  Ordered'
<1> DEFINE binding == Bindings[configured + 1]
<1>1. configured \in Nat /\ configured + 1 \in 1..Len(Bindings)
  <2>1. configured \in 0..Len(Bindings)
    BY DEF Ordered, IntakeInvariant
  <2>2. configured < Len(Bindings)
    BY DEF RegisterBinding
  <2> QED
    BY <2>1, <2>2, BindingsType
<1>2. main = "setup"
  <2>1. configured # Len(Bindings)
    BY <1>1, BindingsType
  <2> QED
    BY <2>1 DEF Ordered, IntakeInvariant, Registered
<1>3. binding \in Range(Bindings)
  BY <1>1, BindingsType DEF Range
<1>4. /\ bindings' \in Seq(Range(Bindings))
      /\ Range(bindings) \subseteq Range(bindings') /\ binding \in Range(bindings')
  <2>1. CASE binding \in Range(bindings)
    BY <2>1 DEF RegisterBinding, Ordered
  <2>2. CASE binding \notin Range(bindings)
    <3>1. bindings \in Seq(Range(Bindings))
      BY DEF Ordered
    <3>2. bindings' = Append(bindings, binding)
      BY <2>2 DEF RegisterBinding
    <3>3. /\ bindings' \in Seq(Range(Bindings))
          /\ DOMAIN bindings = 1..Len(bindings) /\ Len(bindings) \in Nat
          /\ DOMAIN bindings' = 1..(Len(bindings) + 1)
          /\ \A i \in 1..Len(bindings) : bindings'[i] = bindings[i]
          /\ bindings'[Len(bindings) + 1] = binding
      BY <1>3, <3>1, <3>2
    <3> QED
      BY <3>3 DEF Range
  <2> QED
    BY <2>1, <2>2
<1>5. configured' = configured + 1 /\ UNCHANGED <<main, grpc, http, exports>>
  BY DEF RegisterBinding
<1>6. \A i \in 1..configured' : Bindings[i] \in Range(bindings')
  <2>1. \A i \in 1..configured' : i \in 1..configured \/ i = configured + 1
    BY <1>1, <1>5, BindingsType
  <2> QED
    BY <1>4, <2>1 DEF Ordered, IntakeInvariant
<1>7. configured' \in 0..Len(Bindings)
  BY <1>1, <1>5, BindingsType
<1> QED
  BY <1>2, <1>4, <1>5, <1>6, <1>7
     DEF Ordered, IntakeInvariant, Drained, UnderWay, Registered

\* Every step keeps the order.
LEMMA NextOrdered == Ordered /\ [IntakeNext]_allVars => Ordered'
<1> SUFFICES ASSUME Ordered, [IntakeNext]_allVars PROVE Ordered'
  OBVIOUS
<1> USE DEF Ordered, IntakeInvariant, Registered, Drained, UnderWay, Exports
<1>1. CASE RegisterBinding
  BY <1>1, RegisterKeeps
<1>2. CASE Start \/ StartFails
  BY <1>2 DEF Start, StartFails
<1>3. CASE Query \/ EndTick
  BY <1>3 DEF Query, EndTick
<1>4. CASE Stop
  BY <1>4 DEF Stop
<1>5. CASE GrpcStopped
  BY <1>5 DEF GrpcStopped
<1>6. CASE Exit
  BY <1>6 DEF Exit
<1>7. CASE Tick \/ Decide \/ Signal \/ Return
  BY <1>7 DEF Tick, Decide, Signal, Return, intakeVars
<1>8. CASE ListenAndServe
  BY <1>8 DEF ListenAndServe
<1>9. ASSUME NEW c \in Exports, Receive(c) PROVE Ordered'
  <2>1. main \notin {"setup", "failed", "exited"}
        /\ (c \in GrpcExports => main # "stop http") /\ Open(c)
    <3>1. (c \in GrpcExports /\ grpc = "open") \/ (c \in HttpExports /\ http = "open")
      BY <1>9 DEF Receive, Open
    <3>2. c \in GrpcExports => c \notin HttpExports
      BY IntakeAssumption
    <3> QED
      BY <3>1, <3>2, <1>9 DEF Receive
  <2>2. main = "stop http" => c \notin GrpcExports
    BY <2>1
  <2>3. exports' = [d \in Exports |-> exports'[d]]
        /\ \A d \in Exports : d # c => exports'[d] = exports[d]
    BY <1>9 DEF Receive
  <2> QED
    BY <1>9, <2>1, <2>2, <2>3 DEF Receive
<1>10. ASSUME NEW c \in Exports, Handle(c) PROVE Ordered'
  <2>1. /\ UnderWay(c)
        /\ exports' = [d \in Exports |-> exports'[d]]
        /\ \A d \in Exports : d # c => exports'[d] = exports[d]
        /\ UNCHANGED <<main, configured, bindings, grpc, http>>
    BY <1>10 DEF Handle, ProcessMetric, AddNext, Answer
  <2> QED
    BY <2>1
<1>11. CASE UNCHANGED intakeVars
  BY <1>11 DEF intakeVars
<1>12. CASE UNCHANGED allVars
  BY <1>12 DEF allVars, intakeVars
<1> QED
  BY <1>1, <1>2, <1>3, <1>4, <1>5, <1>6, <1>7, <1>8, <1>9, <1>10, <1>11, <1>12
     DEF IntakeNext, Main

\* No export is under way before every binding is registered or when the process
\* exits, whenever the signal arrives.
THEOREM NothingCutOff == IntakeSpec => []IntakeInvariant
<1>1. Ordered => IntakeInvariant
  BY DEF Ordered
<1> QED
  BY <1>1, InitOrdered, NextOrdered, PTL DEF IntakeSpec

-----------------------------------------------------------------------------
(* The poll.                                                               *)

Answers == {Missing} \cup [at : Times, value : Values]

\* A sample offered by the poll for key k is in the store, on its way, or expired.
Taken(k) ==
  \/ poll.at \in DOMAIN accepted[k]
  \/ adding[Loop] # Idle /\ adding[Loop].key = k /\ adding[Loop].at = poll.at
  \/ poll.at < Expiry(clock)

\* What a poll has achieved so far, with the types it rests on.
PollInvariant ==
  /\ accepted = [k \in Keys |-> accepted[k]]
  /\ poll = [at |-> poll.at, answers |-> poll.answers]
  /\ poll.at \in {0} \cup Times /\ poll.at <= clock
  /\ poll # Waiting => poll.at \in Times
  /\ poll.answers \in Seq(Answers) /\ Len(poll.answers) <= Len(Queries)
  /\ \A i \in 1..Len(poll.answers) : poll.answers[i] # Missing => Taken(Queries[i])

\* The queries are a sequence of keys.
LEMMA QueriesType ==
  /\ Queries \in Seq(Keys) /\ Len(Queries) \in Nat /\ DOMAIN Queries = 1..Len(Queries)
  /\ \A i \in 1..Len(Queries) : Queries[i] \in Keys
<1>1. Queries \in Seq(Keys)
  BY IntakeAssumption
<1> QED
  BY <1>1

\* Times are positive, and what has expired stays so.
LEMMA TimesType == Times \subseteq Nat \ {0} /\ 1 \in Times /\ Retention \in Nat
BY StoreAssumption DEF Times

LEMMA ExpiryType ==
  ASSUME NEW t \in Times PROVE t \in Int /\ Expiry(t) \in Int
<1>1. t \in Nat
  BY TimesType
<1>2. Retention \in Nat
  BY TimesType
<1> QED
  BY <1>1, <1>2 DEF Expiry

\* Before the first poll.
LEMMA InitPoll == IntakeInit => PollInvariant
<1> SUFFICES ASSUME IntakeInit PROVE PollInvariant
  OBVIOUS
<1>1. poll = Waiting /\ clock = 1 /\ accepted = [k \in Keys |-> NoSamples]
  BY DEF IntakeInit, Init
<1>2. << >> \in Seq(Answers) /\ Len(<< >>) = 0
  BY EmptySeq
<1> QED
  BY <1>1, <1>2, QueriesType DEF PollInvariant, Waiting

\* An empty poll has achieved nothing.
LEMMA FreshPoll ==
  ASSUME PollInvariant, UNCHANGED vars, clock \in Times,
         poll' = Waiting \/ poll' = [at |-> clock, answers |-> << >>]
  PROVE  PollInvariant'
<1>1. << >> \in Seq(Answers) /\ Len(<< >>) = 0
  BY EmptySeq
<1>2. clock' = clock /\ accepted' = accepted
  BY DEF vars
<1>3. /\ poll' = [at |-> poll'.at, answers |-> << >>] /\ poll'.answers = << >>
      /\ poll'.at \in {0} \cup Times /\ poll'.at <= clock'
      /\ poll' # Waiting => poll'.at \in Times
  <2>1. CASE poll' = Waiting
    <3>1. poll' = [at |-> 0, answers |-> << >>]
      BY <2>1 DEF Waiting
    <3>2. 0 <= clock
      BY TimesType
    <3> QED
      BY <1>2, <2>1, <3>1, <3>2
  <2>2. CASE poll' = [at |-> clock, answers |-> << >>]
    BY <1>2, <2>2, TimesType
  <2> QED
    BY <2>1, <2>2
<1>4. Len(poll'.answers) <= Len(Queries) /\ 1..Len(poll'.answers) = {}
  BY <1>1, <1>3, QueriesType
<1> QED
  BY <1>1, <1>2, <1>3, <1>4 DEF PollInvariant, Answers

\* While the poll stands still, what was taken stays taken.
LEMMA StepKeepsPoll ==
  ASSUME PollInvariant, UNCHANGED poll, clock \in Times, clock' \in Times, clock <= clock',
         accepted' = [k \in Keys |-> accepted'[k]],
         \A k \in Keys : Taken(k) => Taken(k)'
  PROVE  PollInvariant'
<1>1. \A i \in 1..Len(poll.answers) : Queries[i] \in Keys
  <2>1. Len(poll.answers) \in Nat /\ Len(poll.answers) <= Len(Queries)
    BY DEF PollInvariant
  <2> QED
    BY <2>1, QueriesType
<1>2. poll'.at <= clock'
  BY TimesType DEF PollInvariant
<1> QED
  BY <1>1, <1>2 DEF PollInvariant, Answers

\* Every query leaves its sample taken, unless there is none.
LEMMA QueryKeepsPoll ==
  ASSUME PollInvariant, StoreInvariant, Query
  PROVE  PollInvariant'
<1>a. PICK n \in Nat : n = Len(poll.answers)
  BY DEF PollInvariant
<1>b. n # Len(Queries) /\ n <= Len(Queries)
  BY <1>a DEF Query, Polled, PollInvariant
<1>c. n + 1 \in 1..Len(Queries)
  BY <1>a, <1>b, QueriesType
<1>d. PICK k \in Keys : k = Queries[n + 1]
  BY <1>c, QueriesType
<1>1. PICK answer \in Outcomes :
        /\ IF answer \notin {Missing, Failed} /\ Accepts(Queried(answer))
           THEN Offer(Loop, Queried(answer)) ELSE UNCHANGED vars
        /\ poll' = [poll EXCEPT !.answers =
                      Append(@, IF answer = Failed THEN Missing ELSE answer)]
  BY DEF Query
<1> DEFINE noted == IF answer = Failed THEN Missing ELSE answer
<1>2. adding[Loop] = Idle /\ poll # Waiting
  BY DEF Query
<1>4. poll.at \in Times /\ poll.at <= clock /\ clock \in Times
  BY <1>2 DEF PollInvariant, StoreInvariant, TypeOK
<1>5. noted \in Answers
      /\ (noted # Missing => answer \notin {Missing, Failed} /\ answer.at = poll.at
                             /\ answer.value \in Values)
  <2>1. answer \in {Missing, Failed} \/ answer \in [at : {poll.at}, value : QueryValues]
    BY DEF Outcomes
  <2>2. QueryValues \subseteq Values
    BY IntakeAssumption
  <2>3. CASE answer \in {Missing, Failed}
    BY <2>3 DEF Answers
  <2>4. CASE answer \in [at : {poll.at}, value : QueryValues]
    <3>1. answer \in [at : Times, value : Values] /\ answer.at = poll.at
      BY <1>4, <2>2, <2>4
    <3>2. answer \notin {Missing, Failed}
      BY <3>1, IntakeAssumption
    <3> QED
      BY <3>1, <3>2 DEF Answers
  <2> QED
    BY <2>1, <2>3, <2>4
<1>6. /\ poll'.at = poll.at /\ poll'.answers = Append(poll.answers, noted)
      /\ poll' = [at |-> poll'.at, answers |-> poll'.answers]
  BY <1>1 DEF PollInvariant
<1> HIDE DEF noted
<1>7. /\ poll'.answers \in Seq(Answers) /\ Len(poll'.answers) = n + 1
      /\ \A i \in 1..n : poll'.answers[i] = poll.answers[i]
      /\ poll'.answers[n + 1] = noted
  <2>1. poll.answers \in Seq(Answers)
    BY DEF PollInvariant
  <2> QED
    BY <1>a, <1>5, <1>6, <2>1
<1>8. clock' = clock /\ accepted' = accepted
  BY <1>1 DEF Offer, vars
<1>9. ASSUME noted # Missing PROVE Taken(k)'
  <2> DEFINE offer == Queried(answer)
  <2>1. offer.key = k /\ offer.at = poll.at /\ offer \in Offers
    BY <1>a, <1>d, <1>4, <1>5, <1>9 DEF Queried, Offers
  <2>2. CASE Accepts(offer)
    <3>1. Offer(Loop, offer)
      BY <1>1, <1>5, <1>9, <2>2
    <3>2. adding' = [adding EXCEPT ![Loop] =
            [key |-> offer.key, at |-> offer.at, value |-> offer.value, now |-> clock]]
          /\ adding \in [Adders -> Calls \cup {Idle}]
      BY <3>1 DEF Offer, StoreInvariant, TypeOK
    <3>3. [key |-> offer.key, at |-> offer.at, value |-> offer.value, now |-> clock] \in Calls
      BY <1>4, <2>1 DEF Offers, Calls
    <3>4. adding'[Loop].key = k /\ adding'[Loop].at = poll.at /\ adding'[Loop] # Idle
      BY <2>1, <3>2, <3>3, WhoAdds, IdleAssumption
    <3> QED
      BY <1>6, <3>4 DEF Taken
  <2>3. CASE ~Accepts(offer)
    <3>1. ~(poll.at >= Expiry(clock))
      BY <1>4, <2>1, <2>3 DEF Accepts
    <3>2. poll.at \in Int /\ Expiry(clock) \in Int
      BY <1>4, ExpiryType
    <3>3. poll.at < Expiry(clock)
      BY <3>1, <3>2
    <3> QED
      BY <1>6, <1>8, <3>3 DEF Taken, Expiry
  <2> QED
    BY <2>2, <2>3
<1>10. ASSUME NEW i \in 1..n, poll.answers[i] # Missing PROVE Taken(Queries[i])'
  <2>1. Taken(Queries[i])
    BY <1>a, <1>10 DEF PollInvariant
  <2> QED
    BY <1>2, <1>6, <1>8, <2>1 DEF Taken, Expiry
<1>11. \A i \in 1..(n + 1) : i \in 1..n \/ i = n + 1
  OBVIOUS
<1>12. ASSUME NEW i \in 1..Len(poll'.answers), poll'.answers[i] # Missing
       PROVE  Taken(Queries[i])'
  <2>1. i \in 1..n \/ i = n + 1
    BY <1>7, <1>11
  <2>2. CASE i \in 1..n
    BY <1>7, <1>10, <1>12, <2>2
  <2>3. CASE i = n + 1
    BY <1>7, <1>9, <1>12, <1>d, <2>3
  <2> QED
    BY <2>1, <2>2, <2>3
<1>13. n + 1 <= Len(Queries)
  BY <1>c, QueriesType
<1>14. accepted' = [x \in Keys |-> accepted'[x]] /\ poll'.at <= clock' /\ poll'.at \in Times
  BY <1>4, <1>6, <1>8 DEF PollInvariant
<1> QED
  BY <1>6, <1>7, <1>12, <1>13, <1>14 DEF PollInvariant, Answers

\* Every step keeps it.
LEMMA NextPoll ==
  PollInvariant /\ StoreInvariant /\ StoreInvariant' /\ [IntakeNext]_allVars => PollInvariant'
<1> SUFFICES ASSUME PollInvariant, StoreInvariant, StoreInvariant', [IntakeNext]_allVars
    PROVE  PollInvariant'
  OBVIOUS
<1>1. clock \in Times /\ clock' \in Times /\ adding \in [Adders -> Calls \cup {Idle}]
  BY DEF StoreInvariant, TypeOK
<1>2. ASSUME UNCHANGED <<clock, accepted, poll>>, adding'[Loop] = adding[Loop]
      PROVE  PollInvariant'
  <2>1. \A k \in Keys : Taken(k) => Taken(k)'
    BY <1>2 DEF Taken, Expiry
  <2>2. accepted' = [k \in Keys |-> accepted'[k]] /\ clock <= clock'
    BY <1>1, <1>2, TimesType DEF PollInvariant
  <2> QED
    BY <1>1, <1>2, <2>1, <2>2, StepKeepsPoll
<1>3. CASE UNCHANGED vars /\ UNCHANGED poll
  BY <1>2, <1>3 DEF vars
<1>4. ASSUME NEW a \in Adders, FinishAdd(a), UNCHANGED intakeVars PROVE PollInvariant'
  <2> DEFINE call == adding[a]
  <2>1. call \in Calls /\ call.key \in Keys
    BY <1>1, <1>4 DEF FinishAdd, Calls
  <2>2. /\ accepted' = [accepted EXCEPT ![call.key] =
             [t \in DOMAIN @ \cup {call.at} |-> IF t = call.at THEN call.value ELSE @[t]]]
        /\ adding' = [adding EXCEPT ![a] = Idle] /\ clock' = clock /\ poll' = poll
    BY <1>4 DEF FinishAdd, intakeVars
  <2>3. accepted' = [k \in Keys |-> accepted'[k]]
        /\ \A k \in Keys : DOMAIN accepted'[k]
                           = IF k = call.key THEN DOMAIN accepted[k] \cup {call.at}
                             ELSE DOMAIN accepted[k]
    BY <2>1, <2>2 DEF PollInvariant
  <2> HIDE DEF call
  <2>4. ASSUME NEW k \in Keys, Taken(k) PROVE Taken(k)'
    <3>1. CASE a = Loop /\ call.key = k /\ call.at = poll.at
      BY <2>2, <2>3, <3>1 DEF Taken
    <3>2. CASE a # Loop
      <4>1. adding'[Loop] = adding[Loop]
        BY <1>1, <2>2, <3>2, WhoAdds
      <4> QED
        BY <2>2, <2>3, <2>4, <4>1 DEF Taken, Expiry
    <3>3. CASE a = Loop /\ ~(call.key = k /\ call.at = poll.at)
      BY <2>2, <2>3, <2>4, <3>3 DEF Taken, Expiry, call
    <3> QED
      BY <3>1, <3>2, <3>3
  <2>5. clock <= clock'
    BY <1>1, <2>2, TimesType
  <2> QED
    BY <1>1, <2>2, <2>3, <2>4, <2>5, StepKeepsPoll
<1>5. CASE Query
  BY <1>5, QueryKeepsPoll
<1>6. CASE Start \/ Tick \/ EndTick
  BY <1>1, <1>6, FreshPoll DEF Start, Tick, EndTick
<1>7. ASSUME NEW c \in Exports, Receive(c) \/ Handle(c) PROVE PollInvariant'
  <2>1. CASE AddNext(c)
    <3>1. \/ Offer(c, Offered(Head(exports[c].todo), exports[c].received))
          \/ UNCHANGED vars
      BY <2>1 DEF AddNext
    <3>2. adding'[Loop] = adding[Loop] /\ UNCHANGED <<clock, accepted>>
      BY <1>1, <3>1, WhoAdds DEF Offer, vars
    <3> QED
      BY <1>2, <2>1, <3>2 DEF AddNext
  <2>2. CASE Receive(c) \/ ProcessMetric(c) \/ Answer(c)
    BY <1>3, <2>2 DEF Receive, ProcessMetric, Answer
  <2> QED
    BY <1>7, <2>1, <2>2 DEF Handle
<1>8. CASE Decide
  BY <1>2, <1>8 DEF Decide, Snapshot, intakeVars
<1>9. CASE Advance /\ UNCHANGED intakeVars
  <2>1. clock' = clock + 1 /\ UNCHANGED <<accepted, adding, poll>>
    BY <1>9 DEF Advance, intakeVars
  <2>2. clock \in Nat /\ Expiry(clock) \in Int /\ Expiry(clock') = Expiry(clock) + 1
    BY <1>1, <2>1, TimesType DEF Expiry
  <2>3. poll.at \in Int /\ clock <= clock'
    BY <2>1, <2>2, TimesType DEF PollInvariant
  <2>4. \A k \in Keys : Taken(k) => Taken(k)'
    BY <2>1, <2>2, <2>3 DEF Taken, Expiry
  <2>5. accepted' = [k \in Keys |-> accepted'[k]]
    BY <2>1 DEF PollInvariant
  <2> QED
    BY <1>1, <2>1, <2>3, <2>4, <2>5, StepKeepsPoll
<1>10. CASE RegisterBinding \/ StartFails \/ Stop \/ GrpcStopped \/ Exit
            \/ Return \/ ListenAndServe \/ Signal
  BY <1>3, <1>10 DEF RegisterBinding, StartFails, Stop, GrpcStopped, Exit, Return,
                     ListenAndServe, Signal
<1>11. CASE UNCHANGED allVars
  BY <1>3, <1>11 DEF allVars, intakeVars
<1> QED
  BY <1>4, <1>5, <1>6, <1>7, <1>8, <1>9, <1>10, <1>11 DEF IntakeNext, Main

\* So it always holds.
LEMMA PollHolds == IntakeSpec => []PollInvariant
BY InitPoll, NextPoll, StoreOfIntake, PTL DEF IntakeSpec

\* A poll ends only after it asked for every metric, and each single sample that has
\* not expired meanwhile is in the store by then.
THEOREM PollsAreComplete == IntakeSpec => PollIsComplete
<1> DEFINE Complete ==
      poll # Waiting /\ poll' = Waiting =>
        \A i \in DOMAIN Queries :
          /\ i \in DOMAIN poll.answers
          /\ poll.answers[i] \notin {Missing, Failed} /\ poll.at >= Expiry(clock)
             => poll.at \in DOMAIN accepted[Queries[i]]
<1>2. PollInvariant /\ StoreInvariant /\ [IntakeNext]_allVars => [Complete]_allVars
  <2> SUFFICES ASSUME PollInvariant, StoreInvariant, [IntakeNext]_allVars,
                      poll # Waiting, poll' = Waiting, NEW i \in DOMAIN Queries
      PROVE  /\ i \in DOMAIN poll.answers
             /\ poll.answers[i] \notin {Missing, Failed} /\ poll.at >= Expiry(clock)
                => poll.at \in DOMAIN accepted[Queries[i]]
    OBVIOUS
  <2>1. clock \in Times /\ poll.at \in Times
    BY DEF PollInvariant, StoreInvariant, TypeOK
  <2>2. EndTick
    <3>1. poll' # poll
      OBVIOUS
    <3>2. ~Start
      BY <2>1, TimesType DEF Start, Waiting
    <3>3. ~Query
      <4> SUFFICES ASSUME Query PROVE FALSE
        OBVIOUS
      <4>1. PICK answer : poll' = [poll EXCEPT !.answers = Append(@, answer)]
        BY DEF Query
      <4>2. poll'.at = poll.at
        BY <4>1 DEF PollInvariant
      <4> QED
        BY <2>1, <4>2, TimesType DEF Waiting
    <3>4. poll # Waiting
      OBVIOUS
    <3> QED
      BY <3>1, <3>2, <3>3, <3>4
         DEF IntakeNext, Main, RegisterBinding, StartFails, Stop, GrpcStopped, Exit, Tick,
             Decide, Return, ListenAndServe, Receive, Handle, ProcessMetric, AddNext, Answer,
             Signal, intakeVars, allVars
  <2>3. Len(poll.answers) = Len(Queries) /\ adding[Loop] = Idle
    BY <2>2 DEF EndTick, Polled
  <2>4. i \in DOMAIN poll.answers /\ i \in 1..Len(poll.answers)
    BY <2>3, QueriesType DEF PollInvariant
  <2>5. poll.answers[i] # Missing => Taken(Queries[i])
    BY <2>4 DEF PollInvariant
  <2>6. poll.at \in Int /\ Expiry(clock) \in Int
    BY <2>1, ExpiryType
  <2> QED
    BY <2>3, <2>4, <2>5, <2>6 DEF Taken
<1>3. PollIsComplete <=> [][Complete]_allVars
  BY DEF PollIsComplete
<1> QED
  BY <1>2, <1>3, PollHolds, StoreOfIntake, PTL DEF IntakeSpec

-----------------------------------------------------------------------------
(* What an export asks for.                                                *)

IsSeq(s) == s \in Seq(Range(s))

\* A sequence holds its elements, whatever set they were taken from.
LEMMA SeqFacts ==
  ASSUME NEW s, IsSeq(s)
  PROVE  /\ Len(s) \in Nat /\ DOMAIN s = 1..Len(s)
         /\ \A i \in 1..Len(s) : s[i] \in Range(s)
         /\ \A x \in Range(s) : \E i \in 1..Len(s) : x = s[i]
<1>1. Len(s) \in Nat /\ DOMAIN s = 1..Len(s)
  BY LenProperties DEF IsSeq
<1> QED
  BY <1>1 DEF Range

LEMMA SeqOf ==
  ASSUME NEW S, NEW s \in Seq(S) PROVE IsSeq(s) /\ \A x \in Range(s) : x \in S
<1>1. Len(s) \in Nat /\ DOMAIN s = 1..Len(s) /\ \A i \in 1..Len(s) : s[i] \in S
  BY LenProperties, ElementOfSeq
<1>2. s \in Seq(Range(s))
  <2>1. \A i \in 1..Len(s) : s[i] \in Range(s)
    BY <1>1 DEF Range
  <2>2. s = [i \in 1..Len(s) |-> s[i]]
    BY <1>1
  <2> QED
    BY <1>1, <2>1, <2>2, SeqDef
<1> QED
  BY <1>1, <1>2 DEF IsSeq, Range

\* The first element is in the sequence, and the others follow.
LEMMA HeadAndTail ==
  ASSUME NEW s, IsSeq(s), s # << >>
  PROVE  /\ Head(s) \in Range(s) /\ IsSeq(Tail(s))
         /\ \A x \in Range(Tail(s)) : x \in Range(s)
         /\ \A x \in Range(s) : x = Head(s) \/ x \in Range(Tail(s))
<1>1. s \in Seq(Range(s)) /\ Len(s) \in Nat /\ Len(s) # 0
  BY SeqFacts, EmptySeq DEF IsSeq
<1>2. Head(s) = s[1] /\ Head(s) \in Range(s)
  BY <1>1, SeqFacts
<1>3. /\ Tail(s) \in Seq(Range(s)) /\ Len(Tail(s)) = Len(s) - 1
      /\ \A i \in 1..(Len(s) - 1) : Tail(s)[i] = s[i + 1]
  BY <1>1
<1>4. IsSeq(Tail(s)) /\ \A x \in Range(Tail(s)) : x \in Range(s)
  BY <1>3, SeqOf
<1>5. ASSUME NEW x \in Range(s) PROVE x = Head(s) \/ x \in Range(Tail(s))
  <2>1. PICK i \in 1..Len(s) : x = s[i]
    BY SeqFacts
  <2>2. CASE i = 1
    BY <1>2, <2>1, <2>2
  <2>3. CASE i # 1
    <3>1. i - 1 \in 1..(Len(s) - 1) /\ (i - 1) + 1 = i
      BY <1>1, <2>3
    <3>2. Tail(s)[i - 1] = x /\ i - 1 \in 1..Len(Tail(s))
      BY <1>3, <2>1, <3>1
    <3> QED
      BY <1>4, <3>2, SeqFacts
  <2> QED
    BY <2>2, <2>3
<1> QED
  BY <1>2, <1>4, <1>5

Selection(s, picked, n, f) ==
  f = [i \in 0..n |->
         IF i = 0 THEN << >> ELSE IF i \in picked THEN Append(f[i - 1], s[i]) ELSE f[i - 1]]

\* The elements at the picked positions can be collected, however many there are,
LEMMA SelectionExists ==
  ASSUME NEW s, NEW picked, NEW n \in Nat
  PROVE  \E f : Selection(s, picked, n, f)
<1> DEFINE Bad == {m \in Nat : ~\E f : Selection(s, picked, m, f)}
<1> SUFFICES ASSUME Bad # {} PROVE FALSE
  OBVIOUS
<1>1. PICK m \in Bad : \A k \in Bad : m <= k
  BY LeastNatural
<1>2. m \in Nat /\ ~\E f : Selection(s, picked, m, f)
  OBVIOUS
<1>3. m # 0
  <2>1. Selection(s, picked, 0, [i \in 0..0 |-> << >>])
    BY DEF Selection
  <2> QED
    BY <1>2, <2>1
<1>4. m - 1 \in Nat /\ m - 1 \notin Bad
  BY <1>1, <1>2, <1>3
<1>5. PICK f : Selection(s, picked, m - 1, f)
  BY <1>4
<1> DEFINE g == [i \in 0..m |->
                   IF i = m THEN IF m \in picked THEN Append(f[m - 1], s[m]) ELSE f[m - 1]
                   ELSE f[i]]
<1>6. ASSUME NEW i \in 0..m
      PROVE  g[i] = IF i = 0 THEN << >>
                    ELSE IF i \in picked THEN Append(g[i - 1], s[i]) ELSE g[i - 1]
  <2>1. CASE i = m
    <3>1. i # 0 /\ m - 1 \in 0..m /\ m - 1 # m
      BY <1>2, <1>3, <2>1
    <3>2. g[m - 1] = f[m - 1]
      BY <3>1
    <3> QED
      BY <2>1, <3>1, <3>2
  <2>2. CASE i # m
    <3>1. i \in 0..(m - 1) /\ (i # 0 => i - 1 \in 0..m /\ i - 1 # m)
      BY <1>2, <2>2
    <3>2. g[i] = f[i] /\ (i # 0 => g[i - 1] = f[i - 1])
      BY <2>2, <3>1
    <3>3. f[i] = IF i = 0 THEN << >>
                 ELSE IF i \in picked THEN Append(f[i - 1], s[i]) ELSE f[i - 1]
      BY <1>5, <3>1 DEF Selection
    <3> QED
      BY <3>2, <3>3
  <2> QED
    BY <2>1, <2>2
<1>7. DOMAIN g = 0..m /\ g = [i \in 0..m |-> g[i]]
  OBVIOUS
<1> HIDE DEF g
<1>8. Selection(s, picked, m, g)
  BY <1>6, <1>7 DEF Selection
<1> QED
  BY <1>2, <1>8

\* and then they are what was collected.
LEMMA SelectedSpec ==
  ASSUME NEW s, IsSeq(s), NEW picked
  PROVE  /\ IsSeq(Selected(s, picked))
         /\ \A x \in Range(Selected(s, picked)) : \E i \in picked \cap DOMAIN s : x = s[i]
         /\ \A i \in picked \cap DOMAIN s : s[i] \in Range(Selected(s, picked))
<1> DEFINE n == Len(s)
           f == CHOOSE f : f = [i \in 0..Len(s) |->
                  IF i = 0 THEN << >>
                  ELSE IF i \in picked THEN Append(f[i - 1], s[i]) ELSE f[i - 1]]
<1>1. Selected(s, picked) = f[Len(s)]
  BY DEF Selected
<1>2. n \in Nat /\ DOMAIN s = 1..n /\ \A i \in 1..n : s[i] \in Range(s)
  BY SeqFacts
<1>3. Selection(s, picked, Len(s), f)
  <2>1. \E g : Selection(s, picked, Len(s), g)
    BY <1>2, SelectionExists
  <2>2. f = CHOOSE g : Selection(s, picked, Len(s), g)
    BY DEF Selection
  <2> HIDE DEF f
  <2> QED
    BY <2>1, <2>2
<1> HIDE DEF f, n
<1>4. \A i \in 0..n : f[i] = IF i = 0 THEN << >>
                             ELSE IF i \in picked THEN Append(f[i - 1], s[i]) ELSE f[i - 1]
  BY <1>3 DEF Selection, n
<1> DEFINE Picked(m) == {s[i] : i \in picked \cap (1..m)}
           Bad == {m \in 0..n : ~(f[m] \in Seq(Range(s)) /\ Range(f[m]) = Picked(m))}
<1>5. Bad = {}
  <2> SUFFICES ASSUME Bad # {} PROVE FALSE
    OBVIOUS
  <2>1. PICK m \in Bad : \A k \in Bad : m <= k
    <3>1. Bad \subseteq Nat
      OBVIOUS
    <3> HIDE DEF Bad
    <3> QED
      BY <3>1, LeastNatural
  <2>2. m \in 0..n /\ ~(f[m] \in Seq(Range(s)) /\ Range(f[m]) = Picked(m))
    OBVIOUS
  <2>3. m # 0
    <3> SUFFICES ASSUME m = 0 PROVE FALSE
      OBVIOUS
    <3>1. f[0] = << >> /\ << >> \in Seq(Range(s)) /\ Range(<< >>) = {}
      BY <1>2, <1>4, EmptySeq DEF Range
    <3>2. Picked(0) = {}
      OBVIOUS
    <3> HIDE DEF Picked
    <3> QED
      BY <2>2, <3>1, <3>2
  <2>4. m - 1 \in 0..n /\ m - 1 \notin Bad
    <3>1. m - 1 \in 0..n /\ ~(m <= m - 1)
      BY <1>2, <2>2, <2>3
    <3> HIDE DEF Bad
    <3> QED
      BY <2>1, <3>1
  <2>5. f[m - 1] \in Seq(Range(s)) /\ Range(f[m - 1]) = Picked(m - 1)
    BY <2>4
  <2>6. m \in 1..n
    BY <1>2, <2>2, <2>3
  <2>7. CASE m \notin picked
    <3>1. f[m] = f[m - 1]
      BY <1>4, <2>2, <2>3, <2>7
    <3>2. \A i : i \in picked \cap (1..m) <=> i \in picked \cap (1..(m - 1))
      BY <1>2, <2>6, <2>7
    <3>3. Picked(m) = Picked(m - 1)
      BY <3>2
    <3> HIDE DEF Picked
    <3> QED
      BY <2>2, <2>5, <3>1, <3>3
  <2>8. CASE m \in picked
    <3>1. f[m] = Append(f[m - 1], s[m]) /\ s[m] \in Range(s)
      BY <1>2, <1>4, <2>2, <2>3, <2>6, <2>8
    <3> DEFINE e == f[m - 1]
    <3>2. /\ e \in Seq(Range(s)) /\ Len(e) \in Nat /\ DOMAIN e = 1..Len(e)
      BY <2>5, LenProperties
    <3> HIDE DEF e
    <3>3. /\ Append(e, s[m]) \in Seq(Range(s)) /\ DOMAIN Append(e, s[m]) = 1..(Len(e) + 1)
          /\ \A i \in 1..Len(e) : Append(e, s[m])[i] = e[i]
          /\ Append(e, s[m])[Len(e) + 1] = s[m]
      BY <3>1, <3>2
    <3>4. Range(Append(e, s[m])) = Range(e) \cup {s[m]}
      BY <3>2, <3>3 DEF Range
    <3>5. \A i : i \in picked \cap (1..m) <=> i \in picked \cap (1..(m - 1)) \/ i = m
      BY <1>2, <2>6, <2>8
    <3>6. Picked(m) = Picked(m - 1) \cup {s[m]}
      BY <3>5
    <3> HIDE DEF Picked
    <3> QED
      BY <2>2, <2>5, <3>1, <3>3, <3>4, <3>6 DEF e
  <2> QED
    BY <2>7, <2>8
<1>6. n \in 0..n
  BY <1>2
<1>7. f[n] \in Seq(Range(s)) /\ Range(f[n]) = Picked(n)
  BY <1>5, <1>6
<1>8. IsSeq(f[n])
  BY <1>7, SeqOf
<1> QED
  BY <1>1, <1>2, <1>7, <1>8 DEF n

-----------------------------------------------------------------------------
(* Routing.                                                                *)

\* The bindings of a name are those registered for it.
LEMMA BoundSpec ==
  ASSUME IsSeq(bindings), NEW name
  PROVE  /\ IsSeq(BoundTo(name))
         /\ \A b \in Range(BoundTo(name)) : b \in Range(bindings) /\ b.metric = name
         /\ \A b \in Range(bindings) : b.metric = name => b \in Range(BoundTo(name))
<1> DEFINE picked == {i \in DOMAIN bindings : bindings[i].metric = name}
<1>1. BoundTo(name) = Selected(bindings, picked)
  BY DEF BoundTo
<1>2. /\ IsSeq(Selected(bindings, picked))
      /\ \A x \in Range(Selected(bindings, picked)) :
           \E i \in picked \cap DOMAIN bindings : x = bindings[i]
      /\ \A i \in picked \cap DOMAIN bindings :
           bindings[i] \in Range(Selected(bindings, picked))
  BY SelectedSpec
<1>3. ASSUME NEW b \in Range(BoundTo(name)) PROVE b \in Range(bindings) /\ b.metric = name
  <2>1. PICK i \in picked : b = bindings[i]
    BY <1>1, <1>2
  <2> QED
    BY <2>1 DEF Range
<1>4. ASSUME NEW b \in Range(bindings), b.metric = name PROVE b \in Range(BoundTo(name))
  <2>1. PICK i \in DOMAIN bindings : b = bindings[i]
    BY DEF Range
  <2>2. i \in picked \cap DOMAIN bindings
    BY <1>4, <2>1
  <2> QED
    BY <1>1, <1>2, <2>1, <2>2
<1> QED
  BY <1>1, <1>2, <1>3, <1>4

\* Division with a remainder.
LEMMA DivMod ==
  ASSUME NEW d \in Nat, d > 0, NEW a \in Nat
  PROVE  a \div d \in Nat /\ a % d \in 0..(d - 1) /\ a = d * (a \div d) + (a % d)
OBVIOUS

LEMMA DivBelow ==
  ASSUME NEW d \in Nat, d > 0, NEW q \in Nat, NEW a \in Nat, a < q * d
  PROVE  a \div d < q
<1> DEFINE p == a \div d
<1>1. p \in Nat /\ a >= d * p
  BY DivMod
<1> HIDE DEF p
<1>2. p < q
  <2> SUFFICES ASSUME p >= q PROVE FALSE
    BY <1>1
  <2>1. d * p >= d * q
    BY <1>1
  <2> QED
    BY <1>1, <2>1
<1> QED
  BY <1>2 DEF p

LEMMA DivModOf ==
  ASSUME NEW d \in Nat, d > 0, NEW q \in Nat, NEW r \in 0..(d - 1)
  PROVE  (q * d + r) \div d = q /\ (q * d + r) % d = r
<1> DEFINE a == q * d + r
<1>1. a \in Nat
  OBVIOUS
<1> HIDE DEF a
<1>2. a \div d \in Nat /\ a % d \in 0..(d - 1) /\ a = d * (a \div d) + (a % d)
  BY <1>1, DivMod
<1> QED
  BY <1>2 DEF a

\* Every point meets every binding.
LEMMA PairsSpec ==
  ASSUME NEW points, IsSeq(points), NEW bound, IsSeq(bound)
  PROVE  /\ IsSeq(Pairs(points, bound))
         /\ \A pair \in Range(Pairs(points, bound)) :
              \E point \in Range(points), b \in Range(bound) :
                pair = [point |-> point, binding |-> b]
         /\ \A point \in Range(points), b \in Range(bound) :
              [point |-> point, binding |-> b] \in Range(Pairs(points, bound))
<1> DEFINE pairs == Pairs(points, bound)
           m == Len(points)
           d == Len(bound)
<1>1. m \in Nat /\ d \in Nat /\ m * d \in Nat
  BY SeqFacts
<1>2. /\ DOMAIN pairs = 1..(m * d)
      /\ \A n \in 1..(m * d) : pairs[n] = [point |-> points[1 + ((n - 1) \div d)],
                                           binding |-> bound[1 + ((n - 1) % d)]]
      /\ pairs = [n \in 1..(m * d) |-> pairs[n]]
  BY DEF Pairs
<1>3. /\ \A i \in 1..m : points[i] \in Range(points)
      /\ \A point \in Range(points) : \E i \in 1..m : point = points[i]
      /\ \A i \in 1..d : bound[i] \in Range(bound)
      /\ \A b \in Range(bound) : \E i \in 1..d : b = bound[i]
  BY SeqFacts
<1> HIDE DEF pairs, m, d
<1>4. ASSUME NEW n \in 1..(m * d)
      PROVE  \E point \in Range(points), b \in Range(bound) :
               pairs[n] = [point |-> point, binding |-> b]
  <2>1. n - 1 \in Nat /\ n - 1 < m * d /\ d > 0
    <3>1. n - 1 \in Nat /\ n - 1 < m * d
      BY <1>1
    <3>2. d # 0
      BY <1>1, <3>1
    <3> QED
      BY <1>1, <3>1, <3>2
  <2>2. 1 + ((n - 1) \div d) \in 1..m
    <3>1. (n - 1) \div d < m /\ (n - 1) \div d \in Nat
      BY <1>1, <2>1, DivMod, DivBelow
    <3> QED
      BY <1>1, <3>1
  <2>3. 1 + ((n - 1) % d) \in 1..d
    <3>1. (n - 1) % d \in 0..(d - 1)
      BY <1>1, <2>1, DivMod
    <3> QED
      BY <1>1, <3>1
  <2>4. points[1 + ((n - 1) \div d)] \in Range(points) /\ bound[1 + ((n - 1) % d)] \in Range(bound)
    BY <1>3, <2>2, <2>3
  <2> QED
    BY <1>2, <2>4
<1>5. IsSeq(pairs)
  <2>1. \A n \in 1..(m * d) : pairs[n] \in Range(pairs)
    BY <1>2 DEF Range
  <2>2. pairs \in [1..(m * d) -> Range(pairs)]
    BY <1>2, <2>1
  <2> QED
    BY <1>1, <2>2, SeqDef DEF IsSeq
<1>6. ASSUME NEW pair \in Range(pairs)
      PROVE  \E point \in Range(points), b \in Range(bound) : pair = [point |-> point, binding |-> b]
  <2>1. PICK n \in 1..(m * d) : pair = pairs[n]
    BY <1>2 DEF Range
  <2> QED
    BY <1>4, <2>1
<1>7. ASSUME NEW point \in Range(points), NEW b \in Range(bound)
      PROVE  [point |-> point, binding |-> b] \in Range(pairs)
  <2>1. PICK i \in 1..m : point = points[i]
    BY <1>3
  <2>2. PICK j \in 1..d : b = bound[j]
    BY <1>3
  <2> DEFINE q == i - 1
             r == j - 1
             n == (q * d + r) + 1
  <2>3. q \in Nat /\ q <= m - 1 /\ r \in 0..(d - 1) /\ d > 0 /\ 1 + q = i /\ 1 + r = j
    BY <1>1
  <2> HIDE DEF q, r
  <2>4. q * d \in Nat /\ q * d <= (m - 1) * d /\ (m - 1) * d = m * d - d
    BY <1>1, <2>3
  <2>5. n \in 1..(m * d) /\ n - 1 = q * d + r
    <3>1. q * d + r \in Nat /\ q * d + r < m * d
      BY <1>1, <2>3, <2>4
    <3> QED
      BY <1>1, <3>1
  <2> HIDE DEF n
  <2>6. (n - 1) \div d = q /\ (n - 1) % d = r
    BY <1>1, <2>3, <2>5, DivModOf
  <2>7. pairs[n] = [point |-> points[1 + q], binding |-> bound[1 + r]]
    BY <1>2, <2>5, <2>6
  <2> QED
    BY <1>2, <2>1, <2>2, <2>3, <2>5, <2>7 DEF Range
<1> QED
  BY <1>5, <1>6, <1>7 DEF pairs

\* What is routed and has a value is what the selector wants,
LEMMA RoutedIsWanted ==
  ASSUME NEW metric, NEW pair, pair.point \in Range(Points(metric)), Routed(pair),
         pair.binding.metric = metric.name, pair.point.value \in Values
  PROVE  pair.point \in WantedBy(pair.binding, metric)
<1>1. \A want \in pair.binding.attributes : want \in Range(pair.point.attributes)
  BY DEF Routed, Matches, Range
<1> QED
  BY <1>1 DEF Routed, Supported, WantedBy

\* and the other way around.
LEMMA WantedIsRouted ==
  ASSUME NEW c \in Exports, NEW request \in Requests[c], NEW metric \in Range(request),
         NEW binding, NEW point \in WantedBy(binding, metric)
  PROVE  /\ point \in Range(Points(metric)) /\ point.at \in Nat /\ point.value \in Values
         /\ metric.name = binding.metric
         /\ Routed([point |-> point, binding |-> binding])
<1>1. /\ point \in Range(Points(metric)) /\ metric.name = binding.metric
      /\ point.value \in Values /\ point.at <= MaxStamp
      /\ binding.attributes \subseteq Range(point.attributes)
  BY DEF WantedBy
<1>2. /\ point.at \in Nat /\ IsSeq(point.attributes)
      /\ \A i, j \in DOMAIN point.attributes :
           point.attributes[i].key = point.attributes[j].key => i = j
  BY <1>1, RequestsAssumption, AttributesAssumption DEF IsSeq
<1>3. Supported(point)
  BY <1>1, RequestsAssumption DEF Supported
<1>4. Matches(point.attributes, binding.attributes)
  <2> SUFFICES ASSUME NEW want \in binding.attributes
      PROVE  \E i \in DOMAIN point.attributes :
               /\ point.attributes[i] = want
               /\ \A j \in 1..(i - 1) : point.attributes[j].key # want.key
    BY DEF Matches
  <2>1. PICK i \in DOMAIN point.attributes : point.attributes[i] = want
    BY <1>1 DEF Range
  <2>2. DOMAIN point.attributes = 1..Len(point.attributes) /\ Len(point.attributes) \in Nat
    BY <1>2, SeqFacts
  <2>3. ASSUME NEW j \in 1..(i - 1) PROVE point.attributes[j].key # want.key
    <3>1. j \in DOMAIN point.attributes /\ j # i
      BY <2>2
    <3> QED
      BY <1>2, <2>1, <3>1
  <2> QED
    BY <2>1, <2>3
<1> QED
  BY <1>1, <1>2, <1>3, <1>4 DEF Routed

-----------------------------------------------------------------------------
(* Exports under way.                                                      *)

\* How far an export has come, and that what it still has to match is its own.
Exporting(c) ==
  LET export == exports[c]
  IN  /\ export \in Progress
      /\ export.request \in Requests[c]
      /\ export.received <= clock
      /\ export.metrics <= Len(export.request)
      /\ \A pair \in Range(export.todo) : \E metric \in Range(export.request) :
           /\ pair.point \in Range(Points(metric))
           /\ pair.binding.metric = metric.name

ExportsInvariant == \A c \in Exports : UnderWay(c) => Exporting(c)

LEMMA ProgressType ==
  ASSUME NEW export \in Progress
  PROVE  /\ export = [request |-> export.request, received |-> export.received,
                      metrics |-> export.metrics, todo |-> export.todo]
         /\ export.received \in Times /\ export.metrics \in Nat
         /\ IsSeq(export.todo) /\ export # Idle /\ export # Answered
         /\ \A pair \in Range(export.todo) : pair.binding \in Range(Bindings)
<1> DEFINE metrics == UNION {Range(request) : request \in UNION Range(Requests)}
           points == UNION {Range(Points(metric)) : metric \in metrics}
<1>1. export \in [request : UNION Range(Requests), received : Times, metrics : Nat,
                  todo : Seq([point : points, binding : Range(Bindings)])]
  BY DEF Progress
<1> HIDE DEF metrics, points
<1>2. export.todo \in Seq([point : points, binding : Range(Bindings)])
  BY <1>1
<1>3. /\ IsSeq(export.todo)
      /\ \A pair \in Range(export.todo) : pair \in [point : points, binding : Range(Bindings)]
  BY <1>2, SeqOf
<1>4. export # Idle /\ export # Answered
  BY ProgressAssumption
<1> QED
  BY <1>1, <1>3, <1>4

\* A request is a sequence of metrics with their points.
LEMMA RequestType ==
  ASSUME NEW c \in Exports, NEW request \in Requests[c]
  PROVE  /\ request \in UNION Range(Requests) /\ IsSeq(request)
         /\ \A metric \in Range(request) : IsSeq(Points(metric))
BY RequestsAssumption DEF Range, IsSeq

LEMMA ProgressOf ==
  ASSUME NEW c \in Exports, NEW request \in Requests[c], NEW received \in Times,
         NEW metrics \in Nat, NEW todo, IsSeq(todo),
         \A pair \in Range(todo) :
           \E metric \in Range(request), binding \in Range(Bindings) :
             \E point \in Range(Points(metric)) : pair = [point |-> point, binding |-> binding]
  PROVE  [request |-> request, received |-> received, metrics |-> metrics, todo |-> todo]
           \in Progress
<1> DEFINE all == UNION {Range(r) : r \in UNION Range(Requests)}
           points == UNION {Range(Points(metric)) : metric \in all}
           S == [point : points, binding : Range(Bindings)]
<1>1. request \in UNION Range(Requests)
  BY RequestType
<1>2. \A metric \in Range(request) : metric \in all
  BY <1>1
<1>3. \A metric \in Range(request) : \A point \in Range(Points(metric)) : point \in points
  BY <1>2
<1> HIDE DEF all, points
<1>4. \A pair \in Range(todo) : pair \in S
  BY <1>3
<1>5. todo \in Seq(S)
  <2> HIDE DEF S
  <2>1. Len(todo) \in Nat /\ DOMAIN todo = 1..Len(todo) /\ \A i \in 1..Len(todo) : todo[i] \in S
    BY <1>4, SeqFacts
  <2>2. todo = [i \in 1..Len(todo) |-> todo[i]]
    BY <2>1 DEF IsSeq
  <2> QED
    BY <2>1, <2>2, SeqDef
<1> QED
  BY <1>1, <1>5 DEF Progress, all, points

\* The clock never goes back.
LEMMA ClockGrows ==
  ASSUME StoreInvariant, [Next]_vars PROVE clock <= clock' /\ clock \in Int /\ clock' \in Int
<1>1. clock \in Int
  BY StoreFacts
<1>2. clock' = clock \/ clock' = clock + 1
  BY DEF Next, BeginAdd, Offer, FinishAdd, Snapshot, Advance, vars
<1> QED
  BY <1>1, <1>2

\* Only its own handler changes an export.
LEMMA OnlyHandlers ==
  ASSUME [IntakeNext]_allVars, ~\E c \in Exports : Receive(c) \/ Handle(c)
  PROVE  UNCHANGED exports
BY DEF IntakeNext, allVars, intakeVars, Main, RegisterBinding, Start, StartFails, Query, EndTick,
       Stop, GrpcStopped, Exit, Tick, Decide, Return, ListenAndServe, Signal

\* An export that does not move stays as it is.
LEMMA ExportStays ==
  ASSUME StoreInvariant, NEW c \in Exports, Exporting(c), exports'[c] = exports[c],
         clock \in Int, clock' \in Int, clock <= clock'
  PROVE  Exporting(c)'
<1>1. exports[c].received \in Int
  BY ProgressType, StoreFacts DEF Exporting
<1>2. exports[c].received <= clock'
  BY <1>1 DEF Exporting
<1> QED
  BY <1>2 DEF Exporting, Progress, Points

\* The handler of an export takes metric by metric and pair by pair.
LEMMA HandleKeepsExport ==
  ASSUME StoreInvariant, Ordered, NEW c \in Exports, Receive(c) \/ Handle(c), ~Answer(c),
         UnderWay(c) => Exporting(c), clock' = clock
  PROVE  Exporting(c)'
<1>0. c \in DOMAIN exports
  BY DEF Ordered
<1>1. CASE Receive(c)
  <2>1. PICK request \in Requests[c] :
          exports'[c] = [request |-> request, received |-> clock, metrics |-> 0, todo |-> << >>]
    BY <1>0, <1>1 DEF Receive
  <2>2. clock \in Times /\ clock <= clock
    BY StoreFacts
  <2>3. IsSeq(<< >>) /\ Range(<< >>) = {}
    <3>1. Range(<< >>) = {} /\ << >> \in Seq({})
      BY EmptySeq DEF Range
    <3> QED
      BY <3>1 DEF IsSeq
  <2>4. exports'[c] \in Progress
    BY <2>1, <2>2, <2>3, ProgressOf
  <2>5. 0 <= Len(request)
    BY RequestType, SeqFacts
  <2> QED
    BY <2>1, <2>2, <2>3, <2>4, <2>5 DEF Exporting, Progress, Points
<1> SUFFICES ASSUME Handle(c), UnderWay(c), Exporting(c) PROVE Exporting(c)'
  BY <1>1 DEF Handle, ProcessMetric, AddNext, Answer
<1> DEFINE export == exports[c]
<1>2. /\ export = [request |-> export.request, received |-> export.received,
                   metrics |-> export.metrics, todo |-> export.todo]
      /\ export.received \in Times /\ export.metrics \in Nat /\ IsSeq(export.todo)
      /\ \A pair \in Range(export.todo) : pair.binding \in Range(Bindings)
      /\ export.request \in Requests[c] /\ export.received <= clock
      /\ export.metrics <= Len(export.request)
      /\ \A pair \in Range(export.todo) : \E metric \in Range(export.request) :
           pair.point \in Range(Points(metric)) /\ pair.binding.metric = metric.name
  BY ProgressType DEF Exporting
<1>3. CASE ProcessMetric(c)
  <2> DEFINE metric == export.request[export.metrics + 1]
             todo == Pairs(Points(metric), BoundTo(metric.name))
  <2>1. /\ exports'[c] = [export EXCEPT !.metrics = @ + 1, !.todo = todo]
        /\ export.metrics < Len(export.request)
    BY <1>0, <1>3 DEF ProcessMetric
  <2>2. exports'[c] = [request |-> export.request, received |-> export.received,
                       metrics |-> export.metrics + 1, todo |-> todo]
    BY <1>2, <2>1
  <2>3. Len(export.request) \in Nat /\ metric \in Range(export.request) /\ IsSeq(Points(metric))
    <3>1. IsSeq(export.request) /\ Len(export.request) \in Nat
      BY <1>2, RequestType, SeqFacts
    <3>2. export.metrics + 1 \in 1..Len(export.request)
      BY <1>2, <2>1, <3>1
    <3>3. metric \in Range(export.request)
      BY <3>1, <3>2, SeqFacts
    <3> QED
      BY <1>2, <3>1, <3>3, RequestType
  <2>4. IsSeq(bindings) /\ \A b \in Range(bindings) : b \in Range(Bindings)
    BY SeqOf DEF Ordered
  <2> HIDE DEF export, metric
  <2>5. /\ IsSeq(todo)
        /\ \A pair \in Range(todo) :
             \E point \in Range(Points(metric)), b \in Range(Bindings) :
               pair = [point |-> point, binding |-> b] /\ b.metric = metric.name
    <3>1. /\ IsSeq(BoundTo(metric.name))
          /\ \A b \in Range(BoundTo(metric.name)) : b \in Range(Bindings) /\ b.metric = metric.name
      BY <2>4, BoundSpec
    <3> QED
      BY <2>3, <3>1, PairsSpec
  <2> HIDE DEF todo
  <2>6. exports'[c] \in Progress
    <3>1. \A pair \in Range(todo) :
            \E m \in Range(export.request), b \in Range(Bindings) :
              \E point \in Range(Points(m)) : pair = [point |-> point, binding |-> b]
      BY <2>3, <2>5
    <3>2. /\ export.request \in Requests[c] /\ export.received \in Times
          /\ export.metrics + 1 \in Nat /\ IsSeq(todo)
      BY <1>2, <2>5
    <3> QED
      BY <2>2, <3>1, <3>2, ProgressOf
  <2>7. export.metrics + 1 <= Len(export.request)
    BY <1>2, <2>1, <2>3
  <2>8. \A pair \in Range(todo) : \E m \in Range(export.request) :
           pair.point \in Range(Points(m)) /\ pair.binding.metric = m.name
    BY <2>3, <2>5
  <2> QED
    BY <1>2, <2>2, <2>6, <2>7, <2>8 DEF Exporting, Progress, Points
<1>4. CASE AddNext(c)
  <2>1. exports'[c] = [export EXCEPT !.todo = Tail(@)] /\ export.todo # << >>
    BY <1>0, <1>4 DEF AddNext
  <2>2. exports'[c] = [request |-> export.request, received |-> export.received,
                       metrics |-> export.metrics, todo |-> Tail(export.todo)]
    BY <1>2, <2>1
  <2>3. IsSeq(Tail(export.todo))
        /\ \A pair \in Range(Tail(export.todo)) : pair \in Range(export.todo)
    BY <1>2, <2>1, HeadAndTail
  <2>4. exports'[c] \in Progress
    <3> DEFINE metrics == UNION {Range(request) : request \in UNION Range(Requests)}
               points == UNION {Range(Points(m)) : m \in metrics}
               S == [point : points, binding : Range(Bindings)]
    <3>1. export \in [request : UNION Range(Requests), received : Times, metrics : Nat,
                      todo : Seq(S)]
      BY DEF Exporting, Progress
    <3> HIDE DEF S
    <3>2. Tail(export.todo) \in Seq(S)
      BY <2>1, <3>1
    <3>3. exports'[c] \in [request : UNION Range(Requests), received : Times, metrics : Nat,
                           todo : Seq(S)]
      BY <2>2, <3>1, <3>2
    <3> QED
      BY <3>3 DEF Progress, S
  <2> QED
    BY <1>2, <2>2, <2>3, <2>4 DEF Exporting, Progress, Points
<1> QED
  BY <1>3, <1>4 DEF Handle

\* Every step keeps every export in order.
LEMMA NextExports ==
  StoreInvariant /\ Ordered /\ ExportsInvariant /\ [IntakeNext]_allVars => ExportsInvariant'
<1> SUFFICES ASSUME StoreInvariant, Ordered, ExportsInvariant, [IntakeNext]_allVars,
                    NEW d \in Exports, UnderWay(d)'
    PROVE  Exporting(d)'
  BY DEF ExportsInvariant
<1>1. clock <= clock' /\ clock \in Int /\ clock' \in Int
  BY StepOfStore, ClockGrows
<1>2. CASE exports'[d] = exports[d]
  BY <1>1, <1>2, ExportStays DEF ExportsInvariant, UnderWay
<1>3. ASSUME exports'[d] # exports[d] PROVE Exporting(d)'
  <2>1. PICK c \in Exports : Receive(c) \/ Handle(c)
    BY <1>3, OnlyHandlers
  <2>2. clock' = clock /\ (c # d => exports'[d] = exports[d])
    BY <2>1 DEF Receive, Handle, ProcessMetric, AddNext, Answer, Offer, vars, Ordered
  <2>3. ~Answer(d)
    BY DEF Answer, UnderWay, Ordered
  <2> QED
    BY <1>3, <2>1, <2>2, <2>3, HandleKeepsExport DEF ExportsInvariant
<1> QED
  BY <1>2, <1>3

-----------------------------------------------------------------------------
(* Nothing reaches a key that is not meant for it.                         *)

\* Meant, for what has been heard so far.
MeantBy(k, at, value, arrived, returned) ==
  \/ \E binding \in Range(Bindings), arrival \in arrived :
       /\ binding.key = k
       /\ \E metric \in Range(arrival.request) : \E point \in WantedBy(binding, metric) :
            point.value = value /\ Stamp(point, arrival.received) = at
  \/ \E i \in DOMAIN Queries :
       /\ Queries[i] = k
       /\ [query |-> i, at |-> at, value |-> value] \in returned

LEMMA MeantMeans ==
  \A k, at, value : Meant(k, at, value) <=> MeantBy(k, at, value, arrivals, results)
BY DEF Meant, MeantBy

\* What was meant stays so when more is heard.
LEMMA MeantStays ==
  ASSUME NEW k, NEW at, NEW value, NEW old, NEW seen, NEW arrived, NEW returned,
         old \subseteq arrived, seen \subseteq returned, MeantBy(k, at, value, old, seen)
  PROVE  MeantBy(k, at, value, arrived, returned)
BY DEF MeantBy

ArrivalsInvariant ==
  \A c \in Exports : UnderWay(c) =>
    [request |-> exports[c].request, received |-> exports[c].received] \in arrivals

MeantInvariant ==
  /\ \A a \in Adders : adding[a] # Idle =>
       MeantBy(adding[a].key, adding[a].at, adding[a].value, arrivals, results)
  /\ \A k \in Keys : \A at \in DOMAIN accepted[k] :
       MeantBy(k, at, accepted[k][at], arrivals, results)

\* Nothing heard is forgotten.
LEMMA HeardStays ==
  ASSUME [IntakeNext]_allVars PROVE arrivals \subseteq arrivals' /\ results \subseteq results'
<1>1. CASE Query
  BY <1>1 DEF Query, Heard
<1>2. ASSUME NEW c \in Exports, Receive(c) PROVE UNCHANGED results /\ arrivals \subseteq arrivals'
  BY <1>2 DEF Receive
<1>3. UNCHANGED heard \/ Query \/ \E c \in Exports : Receive(c)
  BY DEF IntakeNext, allVars, intakeVars, Main, RegisterBinding, Start, StartFails, EndTick, Stop,
         GrpcStopped, Exit, Tick, Decide, Return, ListenAndServe, Signal, Handle, ProcessMetric,
         AddNext, Answer
<1> QED
  BY <1>1, <1>2, <1>3 DEF heard

\* An export under way is one that has arrived.
LEMMA NextArrivals ==
  Ordered /\ ExportsInvariant /\ ArrivalsInvariant /\ [IntakeNext]_allVars
  => ArrivalsInvariant'
<1> SUFFICES ASSUME Ordered, ExportsInvariant, ArrivalsInvariant, [IntakeNext]_allVars,
                    NEW c \in Exports, UnderWay(c)'
    PROVE  [request |-> exports'[c].request, received |-> exports'[c].received] \in arrivals'
  BY DEF ArrivalsInvariant
<1>1. arrivals \subseteq arrivals' /\ c \in DOMAIN exports
  BY HeardStays DEF Ordered
<1>2. CASE exports'[c] = exports[c]
  BY <1>1, <1>2 DEF ArrivalsInvariant, UnderWay
<1>3. ASSUME exports'[c] # exports[c] PROVE Receive(c) \/ Handle(c)
  <2>1. PICK d \in Exports : Receive(d) \/ Handle(d)
    BY <1>3, OnlyHandlers
  <2>2. d # c => exports'[c] = exports[c]
    BY <2>1 DEF Receive, Handle, ProcessMetric, AddNext, Answer, Ordered
  <2> QED
    BY <1>3, <2>1, <2>2
<1>4. CASE Receive(c)
  <2>1. PICK request \in Requests[c] :
          /\ exports' = [exports EXCEPT ![c] =
               [request |-> request, received |-> clock, metrics |-> 0, todo |-> << >>]]
          /\ arrivals' = arrivals \cup {[request |-> request, received |-> clock]}
    BY <1>4 DEF Receive
  <2>2. exports'[c].request = request /\ exports'[c].received = clock
    BY <1>1, <2>1
  <2> QED
    BY <2>1, <2>2
<1>5. CASE Handle(c)
  <2>1. ~Answer(c)
    BY <1>1 DEF Answer, UnderWay
  <2>2. ProcessMetric(c) \/ AddNext(c)
    BY <1>5, <2>1 DEF Handle
  <2>3. UnderWay(c) /\ Exporting(c)
    BY <2>2 DEF ProcessMetric, AddNext, ExportsInvariant
  <2>4. exports[c] = [request |-> exports[c].request, received |-> exports[c].received,
                      metrics |-> exports[c].metrics, todo |-> exports[c].todo]
    BY <2>3, ProgressType DEF Exporting
  <2>5. exports'[c].request = exports[c].request /\ exports'[c].received = exports[c].received
    BY <1>1, <2>2, <2>4 DEF ProcessMetric, AddNext
  <2> QED
    BY <1>1, <2>3, <2>5 DEF ArrivalsInvariant
<1> QED
  BY <1>2, <1>3, <1>4, <1>5

\* What is offered is recorded with its key, time and value, when it has a value at all.
LEMMA OfferedFacts ==
  ASSUME StoreInvariant, NEW a \in Adders, NEW offer, Accepts(offer), Offer(a, offer)
  PROVE  /\ offer.key \in Keys /\ offer.at \in Times /\ offer.value \in Values
         /\ adding'[a] # Idle /\ adding'[a].key = offer.key
         /\ adding'[a].at = offer.at /\ adding'[a].value = offer.value
         /\ \A b \in Adders : b # a => adding'[b] = adding[b]
         /\ UNCHANGED <<clock, series, accepted>>
<1> DEFINE call == [key |-> offer.key, at |-> offer.at, value |-> offer.value, now |-> clock]
<1>1. offer \in Offers
  BY DEF Accepts
<1>2. clock \in Times /\ adding \in [Adders -> Calls \cup {Idle}]
  BY DEF StoreInvariant, TypeOK
<1>3. call \in Calls /\ call # Idle
  BY <1>1, <1>2, IdleAssumption DEF Offers, Calls
<1>4. adding'[a] = call /\ \A b \in Adders : b # a => adding'[b] = adding[b]
  BY <1>2 DEF Offer
<1> QED
  BY <1>1, <1>3, <1>4 DEF Offer, Offers

\* An export offers what a selector wants.
LEMMA PairIsMeant ==
  ASSUME ArrivalsInvariant, NEW c \in Exports, UnderWay(c), Exporting(c),
         NEW pair \in Range(exports[c].todo), Routed(pair), pair.point.value \in Values
  PROVE  MeantBy(pair.binding.key, Stamp(pair.point, exports[c].received), pair.point.value,
                 arrivals, results)
<1> DEFINE export == exports[c]
           at == Stamp(pair.point, export.received)
           arrival == [request |-> export.request, received |-> export.received]
<1>1. PICK metric \in Range(export.request) :
        pair.point \in Range(Points(metric)) /\ pair.binding.metric = metric.name
  BY DEF Exporting
<1>2. pair.binding \in Range(Bindings)
  BY ProgressType DEF Exporting
<1>3. pair.point \in WantedBy(pair.binding, metric)
  BY <1>1, RoutedIsWanted
<1>4. /\ arrival \in arrivals
      /\ arrival.request = export.request /\ arrival.received = export.received
  BY DEF ArrivalsInvariant
<1>5. metric \in Range(arrival.request) /\ Stamp(pair.point, arrival.received) = at
  BY <1>1, <1>4
<1> HIDE DEF export, at, arrival
<1>6. MeantBy(pair.binding.key, at, pair.point.value, arrivals, results)
  BY <1>2, <1>3, <1>4, <1>5 DEF MeantBy
<1> QED
  BY <1>6 DEF export, at

\* An accepted call that was meant keeps the others apart.
LEMMA OfferKeepsMeant ==
  ASSUME StoreInvariant, MeantInvariant, NEW a \in Adders, NEW offer, Accepts(offer),
         Offer(a, offer), arrivals \subseteq arrivals', results \subseteq results',
         MeantBy(offer.key, offer.at, offer.value, arrivals', results')
  PROVE  MeantInvariant'
<1>1. ASSUME NEW b \in Adders, adding'[b] # Idle
      PROVE  MeantBy(adding'[b].key, adding'[b].at, adding'[b].value, arrivals', results')
  <2>1. CASE b = a
    BY <2>1, OfferedFacts
  <2>2. CASE b # a
    <3>1. adding'[b] = adding[b]
      BY <2>2, OfferedFacts
    <3>2. MeantBy(adding[b].key, adding[b].at, adding[b].value, arrivals, results)
      BY <1>1, <3>1 DEF MeantInvariant
    <3>3. MeantBy(adding[b].key, adding[b].at, adding[b].value, arrivals', results')
      BY <3>2, MeantStays
    <3> QED
      BY <3>1, <3>3
  <2> QED
    BY <2>1, <2>2
<1>2. ASSUME NEW k \in Keys, NEW at \in DOMAIN accepted'[k]
      PROVE  MeantBy(k, at, accepted'[k][at], arrivals', results')
  <2>1. accepted' = accepted
    BY OfferedFacts
  <2>2. MeantBy(k, at, accepted[k][at], arrivals, results)
    BY <1>2, <2>1 DEF MeantInvariant
  <2>3. MeantBy(k, at, accepted[k][at], arrivals', results')
    BY <2>2, MeantStays
  <2> QED
    BY <2>1, <2>3
<1> QED
  BY <1>1, <1>2 DEF MeantInvariant

LEMMA StillMeant ==
  ASSUME MeantInvariant, UNCHANGED <<adding, accepted>>,
         arrivals \subseteq arrivals', results \subseteq results'
  PROVE  MeantInvariant'
<1>1. ASSUME NEW a \in Adders, adding[a] # Idle
      PROVE  MeantBy(adding[a].key, adding[a].at, adding[a].value, arrivals', results')
  BY <1>1, MeantStays DEF MeantInvariant
<1>2. ASSUME NEW k \in Keys, NEW at \in DOMAIN accepted[k]
      PROVE  MeantBy(k, at, accepted[k][at], arrivals', results')
  BY <1>2, MeantStays DEF MeantInvariant
<1> QED
  BY <1>1, <1>2 DEF MeantInvariant

\* Add records what it was called with.
LEMMA FinishAddRecords ==
  ASSUME StoreInvariant, NEW a \in Adders, FinishAdd(a)
  PROVE  /\ adding[a] \in Calls
         /\ \A k \in Keys :
              /\ \A t : t \in DOMAIN accepted'[k] <=>
                          t \in DOMAIN accepted[k] \/ (k = adding[a].key /\ t = adding[a].at)
              /\ \A t \in DOMAIN accepted'[k] :
                   \/ k = adding[a].key /\ t = adding[a].at /\ accepted'[k][t] = adding[a].value
                   \/ t \in DOMAIN accepted[k] /\ accepted'[k][t] = accepted[k][t]
         /\ adding'[a] = Idle /\ \A b \in Adders : b # a => adding'[b] = adding[b]
         /\ clock' = clock
<1> DEFINE call == adding[a]
<1>1. /\ call \in Calls /\ DOMAIN accepted = Keys /\ a \in DOMAIN adding
      /\ adding = [b \in Adders |-> adding[b]]
  BY DEF FinishAdd, StoreInvariant, TypeOK
<1>2. /\ accepted' = [accepted EXCEPT ![call.key] =
           [t \in DOMAIN @ \cup {call.at} |-> IF t = call.at THEN call.value ELSE @[t]]]
      /\ adding' = [adding EXCEPT ![a] = Idle] /\ clock' = clock
  BY DEF FinishAdd
<1>3. adding'[a] = Idle /\ \A b \in Adders : b # a => adding'[b] = adding[b]
  BY <1>1, <1>2
<1> HIDE DEF call
<1>4. ASSUME NEW k \in Keys
      PROVE  /\ \A t : t \in DOMAIN accepted'[k] <=>
                         t \in DOMAIN accepted[k] \/ (k = call.key /\ t = call.at)
             /\ \A t \in DOMAIN accepted'[k] :
                  \/ k = call.key /\ t = call.at /\ accepted'[k][t] = call.value
                  \/ t \in DOMAIN accepted[k] /\ accepted'[k][t] = accepted[k][t]
  <2>1. CASE k = call.key
    <3>1. accepted'[k] = [t \in DOMAIN accepted[k] \cup {call.at} |->
                            IF t = call.at THEN call.value ELSE accepted[k][t]]
      BY <1>1, <1>2, <2>1
    <3> QED
      BY <2>1, <3>1
  <2>2. CASE k # call.key
    <3>1. accepted'[k] = accepted[k]
      BY <1>1, <1>2, <2>2
    <3> QED
      BY <2>2, <3>1
  <2> QED
    BY <2>1, <2>2
<1> QED
  BY <1>1, <1>2, <1>3, <1>4 DEF call

\* Every step keeps the series apart.
LEMMA NextMeant ==
  /\ StoreInvariant /\ ExportsInvariant /\ PollInvariant /\ ArrivalsInvariant
  /\ MeantInvariant /\ [IntakeNext]_allVars
  => MeantInvariant'
<1> SUFFICES ASSUME StoreInvariant, ExportsInvariant, PollInvariant, ArrivalsInvariant,
                    MeantInvariant, [IntakeNext]_allVars
    PROVE  MeantInvariant'
  OBVIOUS
<1>0. arrivals \subseteq arrivals' /\ results \subseteq results'
  BY HeardStays
<1>1. ASSUME NEW c \in Exports, AddNext(c) PROVE MeantInvariant'
  <2> DEFINE pair == Head(exports[c].todo)
             next == Offered(pair, exports[c].received)
  <2>1. UnderWay(c) /\ exports[c].todo # << >> /\ c \in Adders
    BY <1>1, WhoAdds DEF AddNext
  <2>2. Exporting(c) /\ pair \in Range(exports[c].todo)
    <3>1. Exporting(c)
      BY <2>1 DEF ExportsInvariant
    <3>2. IsSeq(exports[c].todo)
      BY <3>1, ProgressType DEF Exporting
    <3> QED
      BY <2>1, <3>1, <3>2, HeadAndTail
  <2>3. (Routed(pair) /\ Accepts(next) /\ Offer(c, next)) \/ UNCHANGED vars
    BY <1>1 DEF AddNext
  <2>4. /\ next.key = pair.binding.key /\ next.at = Stamp(pair.point, exports[c].received)
        /\ next.value = pair.point.value
    BY DEF Offered
  <2>5. CASE UNCHANGED vars
    BY <1>0, <2>5, StillMeant DEF vars
  <2> HIDE DEF pair, next
  <2>6. CASE Routed(pair) /\ Accepts(next) /\ Offer(c, next)
    <3>1. next.value \in Values
      BY <2>1, <2>6, OfferedFacts
    <3>2. MeantBy(next.key, next.at, next.value, arrivals, results)
      BY <2>1, <2>2, <2>4, <2>6, <3>1, PairIsMeant
    <3>3. MeantBy(next.key, next.at, next.value, arrivals', results')
      BY <1>0, <3>2, MeantStays
    <3> QED
      BY <1>0, <2>1, <2>6, <3>3, OfferKeepsMeant
  <2> QED
    BY <2>3, <2>5, <2>6
<1>2. CASE Query
  <2>1. PICK answer \in Outcomes :
          /\ IF answer \notin {Missing, Failed} /\ Accepts(Queried(answer))
             THEN Offer(Loop, Queried(answer)) ELSE UNCHANGED vars
          /\ results' = Heard(answer)
    BY <1>2 DEF Query
  <2>2. CASE UNCHANGED vars
    BY <1>0, <2>2, StillMeant DEF vars
  <2>3. CASE ~UNCHANGED vars
    <3>1. /\ answer \notin {Missing, Failed} /\ Accepts(Queried(answer))
          /\ Offer(Loop, Queried(answer))
      BY <2>1, <2>3
    <3>3. Len(poll.answers) + 1 \in 1..Len(Queries)
      <4>1. Len(poll.answers) \in Nat /\ Len(poll.answers) <= Len(Queries)
        BY DEF PollInvariant
      <4>2. Len(poll.answers) # Len(Queries)
        BY <1>2 DEF Query, Polled
      <4> QED
        BY <4>1, <4>2, QueriesType
    <3> DEFINE offer == Queried(answer)
               i == Len(poll.answers) + 1
    <3>4. i \in DOMAIN Queries
      BY <3>3, QueriesType
    <3>5. offer.key = Queries[i]
          /\ [query |-> i, at |-> offer.at, value |-> offer.value] \in results'
      BY <2>1, <3>1 DEF Queried, Heard
    <3>6. Accepts(offer) /\ Offer(Loop, offer)
      BY <3>1
    <3> HIDE DEF offer, i
    <3>7. MeantBy(offer.key, offer.at, offer.value, arrivals', results')
      BY <3>4, <3>5 DEF MeantBy
    <3> QED
      BY <1>0, <3>6, <3>7, WhoAdds, OfferKeepsMeant
  <2> QED
    BY <2>2, <2>3
<1>3. ASSUME NEW a \in Adders, FinishAdd(a) PROVE MeantInvariant'
  <2> DEFINE call == adding[a]
  <2>1. /\ \A k \in Keys : \A t \in DOMAIN accepted'[k] :
             \/ k = call.key /\ t = call.at /\ accepted'[k][t] = call.value
             \/ t \in DOMAIN accepted[k] /\ accepted'[k][t] = accepted[k][t]
        /\ adding'[a] = Idle /\ \A b \in Adders : b # a => adding'[b] = adding[b]
    BY <1>3, FinishAddRecords
  <2>2. MeantBy(call.key, call.at, call.value, arrivals', results')
    <3>1. MeantBy(call.key, call.at, call.value, arrivals, results)
      BY <1>3 DEF FinishAdd, MeantInvariant
    <3> QED
      BY <1>0, <3>1, MeantStays
  <2> HIDE DEF call
  <2>3. ASSUME NEW k \in Keys, NEW t \in DOMAIN accepted'[k]
        PROVE  MeantBy(k, t, accepted'[k][t], arrivals', results')
    <3>1. CASE k = call.key /\ t = call.at /\ accepted'[k][t] = call.value
      BY <2>2, <3>1
    <3>2. CASE t \in DOMAIN accepted[k] /\ accepted'[k][t] = accepted[k][t]
      <4>1. MeantBy(k, t, accepted[k][t], arrivals, results)
        BY <3>2 DEF MeantInvariant
      <4> QED
        BY <1>0, <3>2, <4>1, MeantStays
    <3> QED
      BY <2>1, <3>1, <3>2
  <2>4. ASSUME NEW b \in Adders, adding'[b] # Idle
        PROVE  MeantBy(adding'[b].key, adding'[b].at, adding'[b].value, arrivals', results')
    <3>1. adding'[b] = adding[b]
      BY <2>1, <2>4
    <3>2. MeantBy(adding[b].key, adding[b].at, adding[b].value, arrivals, results)
      BY <2>4, <3>1 DEF MeantInvariant
    <3> QED
      BY <1>0, <3>1, <3>2, MeantStays
  <2> QED
    BY <2>3, <2>4 DEF MeantInvariant
<1>4. CASE UNCHANGED <<adding, accepted>>
  BY <1>0, <1>4, StillMeant
<1>5. \/ UNCHANGED <<adding, accepted>> \/ Query
      \/ \E c \in Exports : AddNext(c)
      \/ \E a \in Adders : FinishAdd(a)
  BY DEF IntakeNext, allVars, vars, Main, RegisterBinding, Start, StartFails, EndTick, Stop,
         GrpcStopped, Exit, Tick, Decide, Snapshot, Advance, Return, ListenAndServe, Signal,
         Receive, Handle, ProcessMetric, Answer
<1> QED
  BY <1>1, <1>2, <1>3, <1>4, <1>5

-----------------------------------------------------------------------------
(* What was answered is stored.                                            *)

\* The sample of key k at a time is stored or on its way there, or need not be.
Stored(c, k, at) ==
  \/ at < Expiry(clock)
  \/ at > exports[c].received
  \/ at \in DOMAIN accepted[k]
  \/ adding[c] # Idle /\ adding[c].key = k /\ adding[c].at = at

ToBeMatched(c, k, at) ==
  \E pair \in Range(exports[c].todo) :
    /\ Routed(pair) /\ pair.point.value \in Values
    /\ pair.binding.key = k /\ Stamp(pair.point, exports[c].received) = at

\* All that is wanted of the metrics taken so far is stored, or still to be matched.
ReachedInvariant ==
  \A c \in Exports : UnderWay(c) =>
    \A i \in 1..exports[c].metrics, binding \in Range(Bindings) :
      \A point \in WantedBy(binding, exports[c].request[i]) :
        LET at == Stamp(point, exports[c].received)
        IN  Stored(c, binding.key, at) \/ ToBeMatched(c, binding.key, at)

LEMMA BindingKeys == \A binding \in Range(Bindings) : binding.key \in Keys
BY IntakeAssumption DEF Range

\* What is stored stays stored.
LEMMA StoredStays ==
  ASSUME StoreInvariant, [Next]_vars, NEW c \in Exports, NEW k \in Keys, NEW at \in Int,
         exports'[c].received = exports[c].received, Stored(c, k, at)
  PROVE  Stored(c, k, at)'
<1>0. c \in Adders
  BY WhoAdds
<1>1. CASE at < Expiry(clock)
  <2>1. Expiry(clock) <= Expiry(clock') /\ Expiry(clock) \in Int /\ Expiry(clock') \in Int
    BY ClockGrows, ExpiryMonotone
  <2>2. at < Expiry(clock')
    BY <1>1, <2>1
  <2> QED
    BY <2>2 DEF Stored, Expiry
<1>2. CASE at > exports[c].received
  BY <1>2 DEF Stored
<1>3. CASE at \in DOMAIN accepted[k]
  <2>1. ASSUME NEW a \in Adders, FinishAdd(a) PROVE at \in DOMAIN accepted'[k]
    BY <1>3, <2>1, FinishAddRecords
  <2>2. ASSUME accepted' = accepted PROVE at \in DOMAIN accepted'[k]
    BY <1>3, <2>2
  <2>3. accepted' = accepted \/ \E a \in Adders : FinishAdd(a)
    BY DEF Next, BeginAdd, Offer, Snapshot, Advance, vars
  <2> QED
    BY <2>1, <2>2, <2>3 DEF Stored
<1>4. CASE adding[c] # Idle /\ adding[c].key = k /\ adding[c].at = at
  <2>1. ASSUME NEW a \in Adders, FinishAdd(a) PROVE Stored(c, k, at)'
    <3>1. CASE a = c
      <4>1. at \in DOMAIN accepted'[k]
        BY <1>4, <2>1, <3>1, FinishAddRecords
      <4> QED
        BY <4>1 DEF Stored
    <3>2. CASE a # c
      <4>1. adding'[c] = adding[c]
        BY <1>0, <2>1, <3>2, FinishAddRecords
      <4> QED
        BY <1>4, <4>1 DEF Stored
    <3> QED
      BY <3>1, <3>2
  <2>2. ASSUME NEW a \in Adders, BeginAdd(a) PROVE Stored(c, k, at)'
    <3>1. PICK call : adding[a] = Idle /\ adding' = [adding EXCEPT ![a] = call]
      BY <2>2 DEF BeginAdd, Offer
    <3>2. a # c
      BY <1>4, <3>1
    <3>3. adding'[c] = adding[c]
      BY <1>0, <3>1, <3>2 DEF StoreInvariant, TypeOK
    <3> QED
      BY <1>4, <3>3 DEF Stored
  <2>3. CASE adding' = adding
    BY <1>4, <2>3 DEF Stored
  <2>4. \/ adding' = adding
        \/ \E a \in Adders : BeginAdd(a)
        \/ \E a \in Adders : FinishAdd(a)
    BY DEF Next, Snapshot, Advance, vars
  <2> QED
    BY <2>1, <2>2, <2>3, <2>4
<1> QED
  BY <1>1, <1>2, <1>3, <1>4 DEF Stored

\* A sample that an export wants has a time.
LEMMA StampType ==
  ASSUME NEW c \in Exports, NEW request \in Requests[c], NEW metric \in Range(request),
         NEW point \in Range(Points(metric)), NEW received \in Times
  PROVE  Stamp(point, received) \in Nat \ {0}
BY RequestsAssumption, TimesType DEF Stamp

\* The next pair is stored, unless it need not be.
LEMMA NextPairIsStored ==
  ASSUME StoreInvariant, NEW c \in Exports, Exporting(c), exports[c].todo # << >>, AddNext(c),
         NEW k, NEW at, Routed(Head(exports[c].todo)),
         Head(exports[c].todo).point.value \in Values,
         Head(exports[c].todo).binding.key = k,
         Stamp(Head(exports[c].todo).point, exports[c].received) = at,
         exports'[c].received = exports[c].received
  PROVE  Stored(c, k, at)'
<1> DEFINE pair == Head(exports[c].todo)
           next == Offered(pair, exports[c].received)
<1>1. next.key = k /\ next.at = at /\ next.value \in Values /\ next = [key |-> k, at |-> at, value |-> next.value]
  BY DEF Offered
<1>2. pair \in Range(exports[c].todo) /\ pair.binding \in Range(Bindings)
  BY ProgressType, HeadAndTail DEF Exporting
<1>3. k \in Keys
  BY <1>2, BindingKeys
<1>4. /\ exports[c].received \in Times /\ exports[c].received <= clock
      /\ clock \in Times /\ Expiry(clock) \in Int /\ Times \subseteq Int
  BY ProgressType, StoreFacts DEF Exporting
<1>5. at \in Nat \ {0}
  <2>1. PICK metric \in Range(exports[c].request) : pair.point \in Range(Points(metric))
    BY <1>2 DEF Exporting
  <2>2. exports[c].request \in Requests[c]
    BY DEF Exporting
  <2> QED
    BY <1>4, <2>1, <2>2, StampType
<1>6. IF Routed(pair) /\ Accepts(next) THEN Offer(c, next) ELSE UNCHANGED vars
  BY DEF AddNext
<1>7. c \in Adders
  BY WhoAdds
<1> HIDE DEF next, pair
<1>8. CASE Accepts(next)
  <2>1. Offer(c, next)
    BY <1>6, <1>8 DEF pair
  <2>2. adding'[c] # Idle /\ adding'[c].key = k /\ adding'[c].at = at
    BY <1>1, <1>7, <1>8, <2>1, OfferedFacts
  <2> QED
    BY <2>2 DEF Stored
<1>9. CASE ~Accepts(next)
  <2>1. UNCHANGED vars
    BY <1>6, <1>9
  <2>2. clock' = clock
    BY <2>1 DEF vars
  <2>3. CASE at \notin Times
    <3>1. at > exports[c].received
      BY <1>4, <1>5, <2>3, StoreAssumption DEF Times
    <3> QED
      BY <3>1 DEF Stored
  <2>4. CASE at \in Times
    <3>1. next \in Offers
      BY <1>1, <1>3, <2>4 DEF Offers
    <3>2. ~(at <= clock) \/ ~(at >= Expiry(clock))
      BY <1>1, <1>9, <3>1 DEF Accepts
    <3>3. at > exports[c].received \/ at < Expiry(clock)
      BY <1>4, <1>5, <3>2
    <3> QED
      BY <2>2, <3>3 DEF Stored, Expiry
  <2> QED
    BY <2>3, <2>4
<1> QED
  BY <1>8, <1>9

\* A metric's turn leaves all that is wanted of it to be matched.
LEMMA MetricToBeMatched ==
  ASSUME Ordered, NEW c \in Exports, UnderWay(c), Exporting(c), ProcessMetric(c),
         NEW binding \in Range(Bindings),
         NEW point \in WantedBy(binding, exports[c].request[exports[c].metrics + 1])
  PROVE  ToBeMatched(c, binding.key, Stamp(point, exports[c].received))'
<1> DEFINE export == exports[c]
           metric == export.request[export.metrics + 1]
           todo == Pairs(Points(metric), BoundTo(metric.name))
           pair == [point |-> point, binding |-> binding]
<1>0. c \in DOMAIN exports
  BY DEF Ordered
<1>1. /\ exports'[c] = [export EXCEPT !.metrics = @ + 1, !.todo = todo]
      /\ export.metrics < Len(export.request)
  BY <1>0 DEF ProcessMetric
<1>2. /\ export = [request |-> export.request, received |-> export.received,
                   metrics |-> export.metrics, todo |-> export.todo]
      /\ export.request \in Requests[c] /\ export.metrics \in Nat
  BY ProgressType DEF Exporting
<1>3. exports'[c].todo = todo /\ exports'[c].received = export.received
  BY <1>1, <1>2
<1>4. metric \in Range(export.request)
  <2>1. IsSeq(export.request) /\ Len(export.request) \in Nat
    BY <1>2, RequestType, SeqFacts
  <2>2. export.metrics + 1 \in 1..Len(export.request)
    BY <1>1, <1>2, <2>1
  <2> QED
    BY <2>1, <2>2, SeqFacts
<1>5. /\ point \in Range(Points(metric)) /\ point.value \in Values
      /\ metric.name = binding.metric /\ Routed(pair) /\ IsSeq(Points(metric))
  BY <1>2, <1>4, WantedIsRouted, RequestType
<1>6. binding \in Range(bindings)
  <2>1. configured = Len(Bindings)
    <3>1. main # "setup"
      BY DEF Ordered, IntakeInvariant, Drained
    <3> QED
      BY <3>1 DEF Ordered, IntakeInvariant, Registered
  <2>2. PICK i \in 1..Len(Bindings) : binding = Bindings[i]
    BY BindingsType DEF Range
  <2> QED
    BY <2>1, <2>2 DEF Ordered, IntakeInvariant
<1> HIDE DEF export, metric
<1>7. pair \in Range(todo)
  <2>1. IsSeq(bindings)
    BY SeqOf DEF Ordered
  <2>2. IsSeq(BoundTo(metric.name)) /\ binding \in Range(BoundTo(metric.name))
    BY <1>5, <1>6, <2>1, BoundSpec
  <2> QED
    BY <1>5, <2>2, PairsSpec
<1>8. pair.point = point /\ pair.binding = binding
  OBVIOUS
<1> HIDE DEF todo, pair
<1> QED
  BY <1>3, <1>5, <1>7, <1>8 DEF ToBeMatched, Routed, Supported, Matches, Stamp, export

\* Every step keeps what is wanted stored or to be matched.
LEMMA NextReached ==
  /\ StoreInvariant /\ Ordered /\ ExportsInvariant /\ ReachedInvariant /\ [IntakeNext]_allVars
  => ReachedInvariant'
<1> SUFFICES ASSUME StoreInvariant, Ordered, ExportsInvariant, ReachedInvariant,
                    [IntakeNext]_allVars, NEW d \in Exports, UnderWay(d)',
                    NEW i \in 1..exports'[d].metrics, NEW binding \in Range(Bindings),
                    NEW point \in WantedBy(binding, exports'[d].request[i]),
                    NEW at, at = Stamp(point, exports'[d].received)
    PROVE  Stored(d, binding.key, at)' \/ ToBeMatched(d, binding.key, at)'
  BY DEF ReachedInvariant, WantedBy, Points, Stamp, Stored, ToBeMatched
<1>1. [Next]_vars
  BY StepOfStore
<1>2. binding.key \in Keys /\ at \in Int
  <2>1. Exporting(d)'
    BY NextExports DEF ExportsInvariant
  <2>2. /\ exports'[d].request \in Requests[d] /\ exports'[d].received \in Times
        /\ exports'[d].metrics \in Nat /\ exports'[d].metrics <= Len(exports'[d].request)
    BY <2>1 DEF Exporting, Progress
  <2>3. IsSeq(exports'[d].request) /\ Len(exports'[d].request) \in Nat
    BY <2>2, RequestType, SeqFacts
  <2>4. exports'[d].request[i] \in Range(exports'[d].request)
    BY <2>2, <2>3, SeqFacts
  <2> QED
    <3>1. point \in Range(Points(exports'[d].request[i]))
      BY <2>2, <2>4, WantedIsRouted
    <3>2. at \in Nat \ {0}
      BY <2>2, <2>4, <3>1, StampType
    <3> QED
      BY <3>2, BindingKeys
<1>3. CASE exports'[d] = exports[d]
  <2>1. Stored(d, binding.key, at) \/ ToBeMatched(d, binding.key, at)
    BY <1>3 DEF ReachedInvariant, UnderWay
  <2>2. Stored(d, binding.key, at) => Stored(d, binding.key, at)'
    BY <1>1, <1>2, <1>3, StoredStays
  <2>3. ToBeMatched(d, binding.key, at) => ToBeMatched(d, binding.key, at)'
    BY <1>3 DEF ToBeMatched, Routed, Supported, Matches, Stamp
  <2> QED
    BY <2>1, <2>2, <2>3
<1>4. CASE Receive(d)
  <2>1. exports'[d].metrics = 0
    BY <1>4 DEF Receive, Ordered
  <2> QED
    BY <2>1
<1>5. ASSUME UnderWay(d), Exporting(d), ProcessMetric(d)
      PROVE  Stored(d, binding.key, at)' \/ ToBeMatched(d, binding.key, at)'
  <2> DEFINE export == exports[d]
  <2>1. /\ export = [request |-> export.request, received |-> export.received,
                     metrics |-> export.metrics, todo |-> export.todo]
        /\ export.metrics \in Nat /\ d \in DOMAIN exports
    BY <1>5, ProgressType DEF Exporting, Ordered
  <2>2. /\ exports'[d].request = export.request /\ exports'[d].received = export.received
        /\ exports'[d].metrics = export.metrics + 1 /\ export.todo = << >>
    BY <1>5, <2>1 DEF ProcessMetric
  <2>3. CASE i = export.metrics + 1
    BY <1>5, <2>2, <2>3, MetricToBeMatched
  <2>4. CASE i # export.metrics + 1
    <3>1. i \in 1..export.metrics
      BY <2>1, <2>2, <2>4
    <3>2. Stored(d, binding.key, at) \/ ToBeMatched(d, binding.key, at)
      BY <1>5, <2>2, <3>1 DEF ReachedInvariant
    <3>3. ~ToBeMatched(d, binding.key, at)
      BY <2>2 DEF ToBeMatched, Range
    <3> QED
      BY <1>1, <1>2, <2>2, <3>2, <3>3, StoredStays
  <2> QED
    BY <2>3, <2>4
<1>6. ASSUME UnderWay(d), Exporting(d), AddNext(d)
      PROVE  Stored(d, binding.key, at)' \/ ToBeMatched(d, binding.key, at)'
  <2> DEFINE export == exports[d]
  <2>1. /\ export = [request |-> export.request, received |-> export.received,
                     metrics |-> export.metrics, todo |-> export.todo]
        /\ d \in DOMAIN exports /\ IsSeq(export.todo)
    BY <1>6, ProgressType DEF Exporting, Ordered
  <2>2. /\ exports'[d].request = export.request /\ exports'[d].received = export.received
        /\ exports'[d].metrics = export.metrics /\ exports'[d].todo = Tail(export.todo)
        /\ export.todo # << >>
    BY <1>6, <2>1 DEF AddNext
  <2>3. Stored(d, binding.key, at) \/ ToBeMatched(d, binding.key, at)
    BY <1>6, <2>2 DEF ReachedInvariant
  <2>4. CASE Stored(d, binding.key, at)
    BY <1>1, <1>2, <2>2, <2>4, StoredStays
  <2>5. CASE ToBeMatched(d, binding.key, at)
    <3>1. PICK pair \in Range(export.todo) :
            /\ Routed(pair) /\ pair.point.value \in Values
            /\ pair.binding.key = binding.key /\ Stamp(pair.point, export.received) = at
      BY <2>5 DEF ToBeMatched
    <3>2. CASE pair = Head(export.todo)
      BY <1>6, <2>2, <3>1, <3>2, NextPairIsStored
    <3>3. CASE pair \in Range(Tail(export.todo))
      BY <2>2, <3>1, <3>3 DEF ToBeMatched, Routed, Supported, Matches, Stamp
    <3> QED
      BY <2>1, <2>2, <3>2, <3>3, HeadAndTail
  <2> QED
    BY <2>3, <2>4, <2>5
<1>7. CASE Answer(d)
  BY <1>7 DEF Answer, UnderWay, Ordered
<1>8. ASSUME exports'[d] # exports[d]
      PROVE  Receive(d) \/ (UnderWay(d) /\ Exporting(d) /\ (ProcessMetric(d) \/ AddNext(d)))
             \/ Answer(d)
  <2>1. PICK c \in Exports : Receive(c) \/ Handle(c)
    BY <1>8, OnlyHandlers
  <2>2. c # d => exports'[d] = exports[d]
    BY <2>1 DEF Receive, Handle, ProcessMetric, AddNext, Answer, Ordered
  <2>3. Receive(d) \/ Handle(d)
    BY <1>8, <2>1, <2>2
  <2> QED
    BY <2>3 DEF Handle, ProcessMetric, AddNext, ExportsInvariant
<1> QED
  BY <1>3, <1>4, <1>5, <1>6, <1>7, <1>8

-----------------------------------------------------------------------------
(* The theorems.                                                           *)

\* All of it, together.
LEMMA ExportsHold ==
  IntakeSpec => [](ExportsInvariant /\ ArrivalsInvariant /\ MeantInvariant /\ ReachedInvariant)
<1>1. IntakeInit
      => ExportsInvariant /\ ArrivalsInvariant /\ MeantInvariant /\ ReachedInvariant
  <2> SUFFICES ASSUME IntakeInit
      PROVE  ExportsInvariant /\ ArrivalsInvariant /\ MeantInvariant /\ ReachedInvariant
    OBVIOUS
  <2>1. \A c \in Exports : ~UnderWay(c)
    BY DEF IntakeInit, UnderWay
  <2>2. \A a \in Adders : adding[a] = Idle
    BY DEF IntakeInit, Init
  <2>3. \A k \in Keys : DOMAIN accepted[k] = {}
    BY DEF IntakeInit, Init, NoSamples
  <2> QED
    BY <2>1, <2>2, <2>3
       DEF ExportsInvariant, ArrivalsInvariant, MeantInvariant, ReachedInvariant
<1> QED
  BY <1>1, NextExports, NextArrivals, NextMeant, NextReached, InitOrdered, NextOrdered, PollHolds,
     StoreOfIntake, PTL DEF IntakeSpec

\* Whatever exports hold and queries answer, in whatever order and however they fail,
\* every sample a key ever took is a point its selector matches, of an export that was
\* received, at the point's own time or that of its export; or a result that a query of
\* that very key returned for that time.
THEOREM SeriesApart == IntakeSpec => []SeriesStayApart
<1>1. MeantInvariant => SeriesStayApart
  BY MeantMeans DEF MeantInvariant, SeriesStayApart
<1> QED
  BY <1>1, ExportsHold, PTL

\* However exports, polls, decisions and the clock interleave, an export is answered
\* only when every point that some service is bound to is stored under each of its
\* keys, but for those that the clock excludes.
THEOREM AnsweredStored == IntakeSpec => AnsweredIsStored
<1> DEFINE Complete ==
      \A c \in Exports : UnderWay(c) /\ exports'[c] = Answered =>
        \A binding \in Range(Bindings), metric \in Range(exports[c].request) :
          \A point \in WantedBy(binding, metric) :
            LET at == Stamp(point, exports[c].received)
            IN  at <= exports[c].received /\ at >= Expiry(clock)
                => at \in DOMAIN accepted[binding.key]
<1>1. StoreInvariant /\ Ordered /\ ExportsInvariant /\ ReachedInvariant /\ [IntakeNext]_allVars
      => [Complete]_allVars
  <2> SUFFICES ASSUME StoreInvariant, Ordered, ExportsInvariant, ReachedInvariant,
                      [IntakeNext]_allVars,
                      NEW c \in Exports, UnderWay(c), exports'[c] = Answered,
                      NEW binding \in Range(Bindings),
                      NEW metric \in Range(exports[c].request),
                      NEW point \in WantedBy(binding, metric),
                      Stamp(point, exports[c].received) <= exports[c].received,
                      Stamp(point, exports[c].received) >= Expiry(clock)
      PROVE  Stamp(point, exports[c].received) \in DOMAIN accepted[binding.key]
    OBVIOUS
  <2> DEFINE export == exports[c]
             at == Stamp(point, export.received)
  <2>1. /\ Exporting(c) /\ export.request \in Requests[c] /\ export.received \in Times
        /\ export.metrics \in Nat /\ c \in DOMAIN exports
        /\ export = [request |-> export.request, received |-> export.received,
                     metrics |-> export.metrics, todo |-> export.todo]
    BY ProgressType DEF ExportsInvariant, Exporting, Ordered
  <2>2. ~Exporting(c)'
    BY ProgressType DEF Exporting
  <2>3. Answer(c)
    <3>1. exports'[c] # exports[c]
      BY DEF UnderWay
    <3>2. PICK d \in Exports : Receive(d) \/ Handle(d)
      BY <3>1, OnlyHandlers
    <3>3. d # c => exports'[c] = exports[c]
      BY <3>2 DEF Receive, Handle, ProcessMetric, AddNext, Answer, Ordered
    <3>4. clock' = clock
      BY <3>2 DEF Receive, Handle, ProcessMetric, AddNext, Answer, Offer, vars
    <3>5. Receive(c) \/ Handle(c)
      BY <3>1, <3>2, <3>3
    <3> QED
      BY <2>1, <2>2, <3>4, <3>5, HandleKeepsExport
  <2>4. adding[c] = Idle /\ export.todo = << >> /\ export.metrics = Len(export.request)
    BY <2>3 DEF Answer
  <2>5. PICK i \in 1..export.metrics : metric = export.request[i]
    BY <2>1, <2>4, RequestType, SeqFacts
  <2>6. Stored(c, binding.key, at) \/ ToBeMatched(c, binding.key, at)
    BY <2>5 DEF ReachedInvariant
  <2>7. ~ToBeMatched(c, binding.key, at)
    BY <2>4 DEF ToBeMatched, Range
  <2>8. at \in Nat \ {0}
    BY <2>1, WantedIsRouted, StampType
  <2>9. export.received \in Int /\ Expiry(clock) \in Int
    BY <2>1, StoreFacts
  <2> QED
    BY <2>4, <2>6, <2>7, <2>8, <2>9 DEF Stored
<1>2. AnsweredIsStored <=> [][Complete]_allVars
  BY DEF AnsweredIsStored
<1> QED
  BY <1>1, <1>2, ExportsHold, InitOrdered, NextOrdered, StoreOfIntake, PTL DEF IntakeSpec
=============================================================================
