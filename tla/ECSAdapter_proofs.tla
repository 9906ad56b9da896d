------------------------- MODULE ECSAdapter_proofs --------------------------
(***************************************************************************)
(* Theorems about module ECSAdapter, for any lists, any batch size and any  *)
(* number of services: each identifier is read the way CountReader says.    *)
(***************************************************************************)
EXTENDS ECSAdapter, FiniteSetTheorems, TLAPS

\* What holds between any two steps: the types, that a call which is done has a
\* count for exactly the services it was asked for, and that a service which was
\* scaled to a count the API can express has that count.
ReadInvariant ==
  /\ desired \in [Names -> Counts \cup {Gone}]
  /\ asked \in [Names -> Targets \cup {Unknown}]
  /\ \A n \in Names : asked[n] \in Counts => desired[n] = asked[n]
  /\ result \in [Names -> Counts \cup {Unread}]
  /\ services \in Seq(Names)
  /\ \A n \in Names : result[n] # Unread => n \in Requested
  /\ call = "done" => Missing = {}
  /\ next \in Nat /\ next > 0
  /\ \A n \in Names : call = "idle" => result[n] = Unread /\ services = << >>

\* The number of the last service of a batch.
LEMMA BatchEndSpec ==
  ASSUME NEW i \in Nat, i > 0, services \in Seq(Names), i <= Len(services)
  PROVE  BatchEnd(i) \in i..Len(services)
<1>1. i + BatchSize - 1 \in Int /\ Len(services) \in Int /\ i <= i + BatchSize - 1
  BY BatchAssumption
<1>2. BatchEnd(i) = IF i + BatchSize - 1 <= Len(services) THEN i + BatchSize - 1
                    ELSE Len(services)
  BY <1>1 DEF BatchEnd, Min
<1> QED
  BY <1>1, <1>2

\* What a batch finds was asked for.
LEMMA FoundSpec ==
  ASSUME services \in Seq(Names), next \in Nat, next > 0, next <= Len(services)
  PROVE  Found \subseteq Requested /\ Found \subseteq Names
<1>1. BatchEnd(next) \in next..Len(services)
  BY BatchEndSpec
<1>2. next..BatchEnd(next) \subseteq DOMAIN services
  BY <1>1
<1>3. \A i \in DOMAIN services : services[i] \in Names
  OBVIOUS
<1> QED
  BY <1>2, <1>3 DEF Found, Requested

\* A conversion to 32 bits gives a count or a negative number.
LEMMA Int32InRange ==
  ASSUME NEW c \in Int, Int32(c) >= 0
  PROVE  Int32(c) \in Counts
BY BatchAssumption DEF Int32, Counts

\* It keeps a count that fits.
LEMMA Int32Keeps ==
  ASSUME NEW c \in Counts
  PROVE  Int32(c) = c
BY BatchAssumption DEF Int32, Counts

\* Nothing has been asked for at the start.
LEMMA InitRead == Init => ReadInvariant
<1>1. Unknown \notin Counts
  BY BatchAssumption DEF Counts
<1> QED
  BY <1>1 DEF Init, ReadInvariant

\* Every step keeps the invariant.
LEMMA NextRead == ReadInvariant /\ [Next]_vars => ReadInvariant'
<1> SUFFICES ASSUME ReadInvariant, [Next]_vars PROVE ReadInvariant'
  OBVIOUS
<1>1. CASE Begin
  <2>1. services' \in Seq(Names)
    BY <1>1, BatchAssumption DEF Begin
  <2> QED
    BY <1>1, <2>1 DEF Begin, platformVars, ReadInvariant
<1>2. CASE DescribeBatch
  <2>1. Found \subseteq Requested /\ Found \subseteq Names
    BY <1>2, FoundSpec DEF DescribeBatch, ReadInvariant
  <2>2. \A n \in Names : result'[n] = IF n \in Found THEN desired[n] ELSE result[n]
    BY <1>2 DEF DescribeBatch, CurrentCount
  <2>3. \A n \in Found : desired[n] \in Counts
    BY <2>1 DEF Found, ReadInvariant
  <2>4. result' \in [Names -> Counts \cup {Unread}]
    BY <1>2, <2>3 DEF DescribeBatch, CurrentCount, ReadInvariant
  <2>5. Requested' = Requested
    BY <1>2 DEF DescribeBatch, Requested
  <2>6. \A n \in Names : result'[n] # Unread => n \in Requested'
    BY <2>1, <2>2, <2>5 DEF ReadInvariant
  <2>7. next' \in Nat /\ next' > 0
    BY <1>2, BatchAssumption DEF DescribeBatch, ReadInvariant
  <2> QED
    BY <1>2, <2>4, <2>6, <2>7 DEF DescribeBatch, platformVars, ReadInvariant
<1>3. CASE DescribeFails
  BY <1>3 DEF DescribeFails, platformVars, ReadInvariant, Requested
<1>4. CASE Finish
  BY <1>4 DEF Finish, platformVars, ReadInvariant, Requested, Missing
<1>5. ASSUME NEW m \in Names, NEW count \in Targets, Scale(m, count) PROVE ReadInvariant'
  <2>1. Int32(count) \in Counts
    BY <1>5, Int32InRange, BatchAssumption DEF Scale
  <2>2. count \in Counts => Int32(count) = count
    BY Int32Keeps
  <2>3. desired' = [desired EXCEPT ![m] = Int32(count)] /\ asked' = [asked EXCEPT ![m] = count]
    BY <1>5 DEF Scale
  <2>4. desired' \in [Names -> Counts \cup {Gone}] /\ asked' \in [Names -> Targets \cup {Unknown}]
    BY <2>1, <2>3 DEF ReadInvariant
  <2>5. \A n \in Names : asked'[n] \in Counts => desired'[n] = asked'[n]
    BY <2>2, <2>3 DEF ReadInvariant
  <2> QED
    BY <1>5, <2>4, <2>5 DEF Scale, callVars, ReadInvariant, Requested, Missing
<1>6. CASE Update
  <2>1. PICK m \in Names, c \in Counts \cup {Gone} :
          desired' = [desired EXCEPT ![m] = c] /\ asked' = [asked EXCEPT ![m] = Unknown]
    BY <1>6 DEF Update
  <2>2. Unknown \notin Counts
    BY BatchAssumption DEF Counts
  <2>3. desired' \in [Names -> Counts \cup {Gone}] /\ asked' \in [Names -> Targets \cup {Unknown}]
    BY <2>1 DEF ReadInvariant
  <2>4. \A n \in Names : asked'[n] \in Counts => desired'[n] = asked'[n]
    BY <2>1, <2>2 DEF ReadInvariant
  <2> QED
    BY <1>6, <2>3, <2>4 DEF Update, callVars, ReadInvariant, Requested, Missing
<1>7. CASE Deploy
  BY <1>7 DEF Deploy, callVars, ReadInvariant, Requested, Missing
<1>8. CASE UNCHANGED vars
  BY <1>8 DEF vars, platformVars, callVars, ReadInvariant, Requested, Missing
<1> QED
  BY <1>1, <1>2, <1>3, <1>4, <1>5, <1>6, <1>7, <1>8 DEF Next

\* The invariant of the calls of GetCurrentCounts.
LEMMA ReadInvariantHolds == Spec => []ReadInvariant
  BY InitRead, NextRead, PTL DEF Spec

\* A call that does not fail returns a count for exactly the services asked for.
THEOREM NothingMissing == Spec => []NothingIsMissing
<1>1. ReadInvariant => NothingIsMissing
  <2> SUFFICES ASSUME ReadInvariant, call = "done"
               PROVE  {n \in Names : result[n] # Unread} = Requested
    BY DEF NothingIsMissing
  <2>1. Requested \subseteq Names
    BY DEF Requested, ReadInvariant
  <2> QED
    BY <2>1 DEF ReadInvariant, Missing
<1> QED
  BY <1>1, ReadInvariantHolds, PTL

\* What is read of a service nobody else wrote is the count it was scaled to.
THEOREM ScaledIsRead == Spec => ScaledCountIsRead
<1>1. ReadInvariant /\ [Next]_vars =>
        \A n \in Names : (DescribeBatch /\ n \in Found /\ asked[n] \in Counts)
                         => result'[n] = asked[n]
  BY DEF ReadInvariant, DescribeBatch, CurrentCount
<1> QED
  BY <1>1, ReadInvariantHolds, PTL DEF Spec, ScaledCountIsRead

\* For each identifier a call is an atomic read at one moment, or fails.
THEOREM IdentifiersReadAtomically == Spec => ReadsEachIdentifier
<1>1. Init => \A n \in Names : Reader(n)!ReaderInit
  BY DEF Init, Reader!ReaderInit, Requested
<1>2. ReadInvariant /\ [Next]_vars =>
        \A n \in Names : [Reader(n)!ReaderNext]_(Reader(n)!readerVars)
  <2> SUFFICES ASSUME ReadInvariant, [Next]_vars, NEW n \in Names
               PROVE  [Reader(n)!ReaderNext]_(Reader(n)!readerVars)
    OBVIOUS
  <2>1. CASE Begin
    <3>1. Reader(n)!Begin
      BY <2>1 DEF Begin, platformVars, Reader!Begin
    <3> QED
      BY <3>1 DEF Reader!ReaderNext
  <2>2. CASE DescribeBatch
    <3>1. Requested' = Requested /\ UNCHANGED <<desired, call>>
      BY <2>2 DEF DescribeBatch, platformVars, Requested
    <3>2. CASE n \in Found
      <4>1. n \in Requested /\ desired[n] # Gone /\ result'[n] = desired[n]
        BY <2>2, <3>2, FoundSpec DEF DescribeBatch, CurrentCount, ReadInvariant, Found
      <4>2. Reader(n)!Read
        BY <2>2, <3>1, <4>1 DEF DescribeBatch, Reader!Read
      <4> QED
        BY <4>2 DEF Reader!ReaderNext
    <3>3. CASE n \notin Found
      BY <2>2, <3>1, <3>3 DEF DescribeBatch, Reader!readerVars
    <3> QED
      BY <3>2, <3>3
  <2>3. CASE DescribeFails
    <3>1. Reader(n)!Fail
      BY <2>3 DEF DescribeFails, platformVars, Requested, Reader!Fail
    <3> QED
      BY <3>1 DEF Reader!ReaderNext
  <2>4. CASE Finish
    <3>1. CASE Missing = {}
      <4>1. n \in Requested => result[n] # Unread
        BY <3>1 DEF Missing
      <4>2. Reader(n)!Return
        BY <2>4, <3>1, <4>1 DEF Finish, platformVars, Requested, Reader!Return
      <4> QED
        BY <4>2 DEF Reader!ReaderNext
    <3>2. CASE Missing # {}
      <4>1. Reader(n)!Fail
        BY <2>4, <3>2 DEF Finish, platformVars, Requested, Reader!Fail
      <4> QED
        BY <4>1 DEF Reader!ReaderNext
    <3> QED
      BY <3>1, <3>2
  <2>5. ASSUME NEW m \in Names, NEW count \in Targets, Scale(m, count)
        PROVE  [Reader(n)!ReaderNext]_(Reader(n)!readerVars)
    <3>1. Int32(count) \in Counts
      BY <2>5, Int32InRange, BatchAssumption DEF Scale
    <3>2. desired'[n] \in Counts \cup {Gone}
      BY <2>5, <3>1 DEF Scale, ReadInvariant
    <3>3. Reader(n)!Change
      BY <2>5, <3>2 DEF Scale, callVars, Requested, Reader!Change
    <3> QED
      BY <3>3 DEF Reader!ReaderNext
  <2>6. CASE Update
    <3>1. desired'[n] \in Counts \cup {Gone}
      BY <2>6 DEF Update, ReadInvariant
    <3>2. Reader(n)!Change
      BY <2>6, <3>1 DEF Update, callVars, Requested, Reader!Change
    <3> QED
      BY <3>2 DEF Reader!ReaderNext
  <2>7. CASE Deploy
    BY <2>7 DEF Deploy, callVars, Requested, Reader!readerVars
  <2>8. CASE UNCHANGED vars
    BY <2>8 DEF vars, platformVars, callVars, Requested, Reader!readerVars
  <2> QED
    BY <2>1, <2>2, <2>3, <2>4, <2>5, <2>6, <2>7, <2>8 DEF Next
<1> QED
  BY <1>1, <1>2, ReadInvariantHolds, PTL DEF Spec, ReadsEachIdentifier

-----------------------------------------------------------------------------
(* The batches.                                                            *)

\* The batches that hold service number i.
Holding(i) == {batch \in described : batch[1] <= i /\ i <= batch[2]}

\* The batches described so far end before the next one starts and take no more
\* than they may; each service up to there is in exactly one of them.
BatchInvariant ==
  /\ TypeOK
  /\ \A batch \in described :
       /\ batch[1] \in Nat \ {0} /\ batch[2] \in Nat
       /\ batch[2] < next /\ batch[2] - batch[1] < BatchSize
  /\ \A i \in DOMAIN services :
       i < next => \E batch \in described : Holding(i) = {batch}

\* A requested list is a sequence.
LEMMA ServicesType ==
  ASSUME TypeOK
  PROVE  services \in Seq(Names) /\ Len(services) \in Nat /\ next \in Nat \ {0}
<1>1. services \in Seq(Names)
  <2>1. << >> \in Seq(Names)
    OBVIOUS
  <2>2. services \in Requests \/ services = << >>
    BY DEF TypeOK
  <2> QED
    BY <2>1, <2>2, BatchAssumption
<1> QED
  BY <1>1 DEF TypeOK

\* Every step keeps the types.
LEMMA NextTypes == TypeOK /\ [Next]_vars => TypeOK'
<1> SUFFICES ASSUME TypeOK, [Next]_vars PROVE TypeOK'
  OBVIOUS
<1>1. CASE Begin
  BY <1>1, BatchAssumption DEF Begin, platformVars, TypeOK
<1>2. CASE DescribeBatch
  <2>1. next \in Nat /\ next > 0 /\ next <= Len(services) /\ services \in Seq(Names)
    BY <1>2, ServicesType DEF DescribeBatch
  <2>2. next' \in 1..(Len(services') + BatchSize)
    BY <1>2, <2>1, BatchAssumption DEF DescribeBatch
  <2>3. result' \in [Names -> Counts \cup {Unread}]
    BY <1>2 DEF DescribeBatch, CurrentCount, Found, TypeOK
  <2> QED
    BY <1>2, <2>2, <2>3 DEF DescribeBatch, platformVars, TypeOK
<1>3. CASE DescribeFails \/ Finish
  BY <1>3 DEF DescribeFails, Finish, platformVars, TypeOK
<1>4. ASSUME NEW n \in Names, NEW count \in Targets, Scale(n, count) PROVE TypeOK'
  <2>1. Int32(count) \in Counts
    BY <1>4, Int32InRange, BatchAssumption DEF Scale
  <2> QED
    BY <1>4, <2>1 DEF Scale, callVars, TypeOK
<1>5. CASE Update
  BY <1>5 DEF Update, callVars, TypeOK
<1>6. CASE Deploy
  BY <1>6 DEF Deploy, callVars, TypeOK
<1>7. CASE UNCHANGED vars
  BY <1>7 DEF vars, platformVars, callVars, TypeOK
<1> QED
  BY <1>1, <1>2, <1>3, <1>4, <1>5, <1>6, <1>7 DEF Next

\* One more batch takes the services from the next one to its own end, and none
\* that was described before; what it leaves is left to the batches after it.
LEMMA BatchKeeps ==
  ASSUME BatchInvariant, DescribeBatch, TypeOK'
  PROVE  BatchInvariant'
<1> DEFINE last == BatchEnd(next)
           new == <<next, last>>
<1>1. /\ next \in Nat \ {0} /\ last \in Nat /\ next <= last
      /\ last - next < BatchSize /\ last < next + BatchSize
      /\ last = next + BatchSize - 1 \/ last = Len(services)
      /\ services \in Seq(Names)
  <2>1. next \in Nat \ {0} /\ next <= Len(services) /\ services \in Seq(Names)
        /\ Len(services) \in Nat
    BY ServicesType DEF DescribeBatch, BatchInvariant
  <2>2. last \in next..Len(services)
    BY <2>1, BatchEndSpec
  <2>3. last = IF next + BatchSize - 1 <= Len(services) THEN next + BatchSize - 1
               ELSE Len(services)
    BY <2>1, BatchAssumption DEF BatchEnd, Min
  <2> QED
    BY <2>1, <2>2, <2>3, BatchAssumption
<1>2. /\ described' = described \cup {new} /\ next' = next + BatchSize
      /\ services' = services
  BY DEF DescribeBatch
<1> HIDE DEF last
<1>3. \A batch \in described' :
        /\ batch[1] \in Nat \ {0} /\ batch[2] \in Nat
        /\ batch[2] < next' /\ batch[2] - batch[1] < BatchSize
  <2>1. next' \in Int /\ next < next'
    BY <1>1, <1>2, BatchAssumption
  <2> QED
    BY <1>1, <1>2, <2>1 DEF BatchInvariant
<1>4. ASSUME NEW i \in DOMAIN services, i < next'
      PROVE  \E batch \in described' : Holding(i)' = {batch}
  <2>0. i \in Nat /\ i <= Len(services)
    BY <1>1
  <2>1. CASE i < next
    <3>1. PICK batch \in described : Holding(i) = {batch}
      BY <2>1 DEF BatchInvariant
    <3>2. Holding(i)' = Holding(i)
      BY <1>1, <1>2, <2>0, <2>1 DEF Holding
    <3> QED
      BY <1>2, <3>1, <3>2
  <2>2. CASE next <= i
    <3>1. Holding(i) = {}
      BY <1>1, <2>0, <2>2 DEF Holding, BatchInvariant
    <3>2. new[1] <= i /\ i <= new[2]
      BY <1>1, <1>2, <1>4, <2>0, <2>2, BatchAssumption
    <3>3. Holding(i)' = {new}
      BY <1>2, <3>1, <3>2 DEF Holding
    <3> QED
      BY <1>2, <3>3
  <2> QED
    BY <1>1, <2>0, <2>1, <2>2
<1> QED
  BY <1>2, <1>3, <1>4 DEF BatchInvariant

\* Every step keeps the invariant.
LEMMA NextBatch == BatchInvariant /\ [Next]_vars => BatchInvariant'
<1> SUFFICES ASSUME BatchInvariant, [Next]_vars PROVE BatchInvariant'
  OBVIOUS
<1>1. TypeOK'
  BY NextTypes DEF BatchInvariant
<1>2. CASE Begin
  <2>1. services' \in Seq(Names)
    BY <1>2, BatchAssumption DEF Begin
  <2>2. \A i \in DOMAIN services' : ~(i < 1)
    BY <2>1
  <2> QED
    BY <1>1, <1>2, <2>2 DEF Begin, BatchInvariant
<1>3. CASE DescribeBatch
  BY <1>1, <1>3, BatchKeeps
<1>4. CASE UNCHANGED <<services, next, described>>
  BY <1>1, <1>4 DEF BatchInvariant, Holding
<1> QED
  BY <1>2, <1>3, <1>4 DEF Next, DescribeFails, Finish, Scale, Update, Deploy, callVars, vars

\* However long the list and whatever the batch size, each service is described
\* exactly once and no call asks for more than it may.
THEOREM BatchesPartition == Spec => []BatchesPartitionTheRequest
<1>1. Init => BatchInvariant
  <2> SUFFICES ASSUME Init PROVE BatchInvariant
    OBVIOUS
  <2>1. TypeOK
    BY BatchAssumption DEF Init, TypeOK, Counts
  <2> QED
    BY <2>1 DEF Init, BatchInvariant
<1>2. BatchInvariant => BatchesPartitionTheRequest
  <2> SUFFICES ASSUME BatchInvariant, NEW i \in DOMAIN services
               PROVE  Cardinality(Holding(i)) = IF i < next THEN 1 ELSE 0
    BY DEF BatchesPartitionTheRequest, BatchInvariant, Holding
  <2>1. services \in Seq(Names) /\ next \in Nat \ {0} /\ i \in Nat \ {0}
    BY ServicesType DEF BatchInvariant
  <2>2. CASE i < next
    BY <2>2, FS_Singleton DEF BatchInvariant
  <2>3. CASE ~(i < next)
    <3>1. Holding(i) = {}
      BY <2>1, <2>3 DEF BatchInvariant, Holding
    <3> QED
      BY <2>3, <3>1, FS_EmptySet
  <2> QED
    BY <2>2, <2>3
<1> QED
  BY <1>1, <1>2, NextBatch, PTL DEF Spec
=============================================================================
