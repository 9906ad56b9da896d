----------------------------- MODULE ECSAdapter -----------------------------
(***************************************************************************)
(* ECSAdapter of internal/adapter/ecs.go: GetCurrentCounts describes the    *)
(* requested services in batches, one API call after the other, while       *)
(* operators and other controllers write, create and delete services; Scale *)
(* asks for a count, converted to the 32 bits of the API.  A service has a  *)
(* desired count, and a number of running tasks that follows it: a deployment *)
(* or a scale in progress makes them differ.                                *)
(*                                                                         *)
(* The loop asks for the identifiers of its services in configuration       *)
(* order; identifiers are not checked for duplicates.                       *)
(***************************************************************************)
EXTENDS Integers, Sequences, FiniteSetsExt

CONSTANTS
  Names,         \* identifiers
  MaxInt32,      \* the largest int32
  Targets,       \* the counts Scale is called with; a schedule may ask for less than zero
  Unknown,       \* someone else has written the service since it was scaled
  Gone,          \* no service of that name exists
  Unread,
  Requests,      \* the lists of identifiers asked for
  BatchSize      \* maxServicesPerBatch

\* Desired counts, as the platform keeps them.
Counts == 0..MaxInt32

ASSUME BatchAssumption ==
  /\ BatchSize \in Nat \ {0}
  /\ Requests \subseteq Seq(Names)
  /\ MaxInt32 \in Nat
  /\ Targets \subseteq Int
  /\ Unknown \notin Int
  /\ Gone \notin Counts
  /\ Unread \notin Counts

VARIABLES
  desired,   \* desired[n]: the desired count of service n, or Gone
  running,   \* running[n]: how many tasks of it run
  asked,     \* ghost: asked[n]: the count n was last scaled to, or Unknown
  call,      \* where GetCurrentCounts is
  services,  \* its parameter
  next,      \* i, counted from 1
  result,    \* result[n]: the count read for n, or Unread
  described  \* ghost: the batches described so far, as ranges of numbers

callVars == <<call, services, next, result, described>>
platformVars == <<desired, running, asked>>
vars == <<platformVars, callVars>>

\* A mutated Int32: it saturates, one below the largest int32.
Int32Saturated(count) == Min({count, MaxInt32 - 1})

\* A Go conversion to int32: a count out of its range wraps around.
Int32(count) == ((count + MaxInt32 + 1) % (2 * (MaxInt32 + 1))) - (MaxInt32 + 1)

\* A mutated CurrentCount: the number of running tasks.
RunningCount(n) == running[n]

\* currentCount: the desired count of the description of service n.
CurrentCount(n) == desired[n]

\* The identifiers asked for.
Requested == {services[i] : i \in DOMAIN services}

\* A mutated BatchEnd: a batch takes one service too many.
BatchEndInclusive(i) == Min({i + BatchSize, Len(services)})

\* The last service of the batch that starts with number i.
BatchEnd(i) == Min({i + BatchSize - 1, Len(services)})

\* The services of the next batch that the platform knows.
Found == {n \in {services[i] : i \in next..BatchEnd(next)} : desired[n] # Gone}

\* A mutated Missing: services that were not found are ignored.
MissingIgnored == {}

\* The requested services the platform did not return.
Missing == {n \in Requested : result[n] = Unread}

-----------------------------------------------------------------------------
Init ==
  /\ desired \in [Names -> Counts \cup {Gone}]
  /\ running = [n \in Names |-> 0]
  /\ asked = [n \in Names |-> Unknown]
  /\ call = "idle"
  /\ services = << >>
  /\ next = 1
  /\ result = [n \in Names |-> Unread]
  /\ described = {}

Begin ==
  /\ call # "reading"
  /\ call' = "reading"
  /\ services' \in Requests
  /\ next' = 1
  /\ result' = [n \in Names |-> Unread]
  /\ described' = {}
  /\ UNCHANGED platformVars

\* One DescribeServices: the services of the batch that exist.  The next batch starts
\* BatchSize further on, wherever this one ended.
DescribeBatch ==
  /\ call = "reading" /\ next <= Len(services)
  /\ result' = [n \in Names |-> IF n \in Found THEN CurrentCount(n) ELSE result[n]]
  /\ described' = described \cup {<<next, BatchEnd(next)>>}
  /\ next' = next + BatchSize
  /\ UNCHANGED <<platformVars, call, services>>

\* A DescribeServices fails: so does the call, whatever was read before.
DescribeFails ==
  /\ call = "reading" /\ next <= Len(services)
  /\ call' = "failed"
  /\ UNCHANGED <<platformVars, services, next, result, described>>

\* All batches were described; an empty list needs none.
Finish ==
  /\ call = "reading" /\ next > Len(services)
  /\ call' = IF Missing = {} THEN "done" ELSE "failed"
  /\ UNCHANGED <<platformVars, services, next, result, described>>

\* Scale succeeds, which the loop calls only when it is not reading counts.  A call
\* the platform refuses (a negative count, a service that is gone) changes nothing;
\* one that takes effect although it returned an error is an Update.
Scale(n, count) ==
  /\ call # "reading"
  /\ desired[n] # Gone /\ Int32(count) >= 0
  /\ desired' = [desired EXCEPT ![n] = Int32(count)]
  /\ asked' = [asked EXCEPT ![n] = count]
  /\ UNCHANGED <<running, callVars>>

\* Anyone else sets a count at any time; services come and go.
Update ==
  /\ \E n \in Names, c \in Counts \cup {Gone} :
       /\ desired' = [desired EXCEPT ![n] = c]
       /\ asked' = [asked EXCEPT ![n] = Unknown]
  /\ UNCHANGED <<running, callVars>>

\* Tasks start and stop until as many run as are desired.
Deploy ==
  /\ \E n \in Names : /\ desired[n] # Gone
                      /\ running' = [running EXCEPT ![n] = desired[n]]
  /\ UNCHANGED <<desired, asked, callVars>>

Next ==
  \/ Begin \/ DescribeBatch \/ DescribeFails \/ Finish
  \/ \E n \in Names, count \in Targets : Scale(n, count)
  \/ Update \/ Deploy

Spec == Init /\ [][Next]_vars

-----------------------------------------------------------------------------
(* Properties.                                                             *)

\* Every variable has its type.
TypeOK ==
  /\ desired \in [Names -> Counts \cup {Gone}]
  /\ running \in [Names -> Counts]
  /\ asked \in [Names -> Targets \cup {Unknown}]
  /\ call \in {"idle", "reading", "done", "failed"}
  /\ services \in Requests \cup {<< >>}
  /\ next \in 1..(Len(services) + BatchSize)
  /\ result \in [Names -> Counts \cup {Unread}]

\* However long the list, every service of it is described exactly once, in its
\* order, and no API call asks for more than it may.
BatchesPartitionTheRequest ==
  /\ TypeOK
  /\ \A batch \in described : batch[2] - batch[1] < BatchSize
  /\ \A i \in DOMAIN services :
       Cardinality({batch \in described : batch[1] <= i /\ i <= batch[2]})
         = IF i < next THEN 1 ELSE 0

\* A call that does not fail has a count for every service it was asked for and
\* for no other: the loop would take a missing one for a service scaled to zero,
\* and wake it up without a cooldown.
NothingIsMissing ==
  call = "done" => {n \in Names : result[n] # Unread} = Requested

\* What is read of a service after it was scaled is the count it was scaled to,
\* however long its tasks take to start and whatever was scaled before, as long as
\* nobody else writes it.  Only a count beyond the 32 bits of the API is excepted:
\* for that Scale asks for another one, and reports success.
ScaledCountIsRead ==
  [][\A n \in Names :
       (DescribeBatch /\ n \in Found /\ asked[n] \in Counts) => result'[n] = asked[n]]_vars

Reader(n) ==
  INSTANCE CountReader WITH count <- desired[n], wanted <- n \in Requested,
                            held <- result[n], call <- call

\* Each identifier is read as the loop takes it to be: the count returned is one
\* the platform had during the call, also when the batches see different moments.
\* (The conjunction over n of Reader(n)!ReaderSpec, in a form TLC evaluates.)
ReadsEachIdentifier ==
  /\ \A n \in Names : Reader(n)!ReaderInit
  /\ [][\A n \in Names : [Reader(n)!ReaderNext]_(Reader(n)!readerVars)]_vars
=============================================================================
