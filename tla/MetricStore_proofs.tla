------------------------- MODULE MetricStore_proofs -------------------------
(***************************************************************************)
(* Theorems about module MetricStore, for any number of keys and adders and *)
(* any retention and limits.  Whatever the order in which samples arrive and *)
(* goroutines interleave, every slice stays sorted and within its limits and *)
(* the store within the total; no snapshot shows a hole; and the store       *)
(* implements the history it promises (module MetricHistory).                *)
(*                                                                         *)
(* The argument: a critical section ends (DropsExist), and what it makes of  *)
(* the slices is a Section: the oldest of a series go first, and only for    *)
(* age or for want of room.  A Section never takes away the reason for which *)
(* an earlier sample is gone (ReasonsStand), so what StoreInvariant says of  *)
(* all that was ever accepted is kept by every step.                         *)
(***************************************************************************)
EXTENDS MetricStore, MaxLemmas, SequenceTheorems

-----------------------------------------------------------------------------
(* The slices.                                                             *)

Slice(samples) == samples \in Seq(Samples) /\ Ascending(samples)

\* The times of samples are numbers.
LEMMA SampleTimes == \A s \in Samples : s.at \in Int
BY StoreAssumption DEF Samples, Times

\* The search returns the number of samples before t.
LEMMA SearchSpec ==
  ASSUME NEW samples \in Seq(Samples), NEW t \in Int
  PROVE  /\ Search(samples, t) \in 0..Len(samples)
         /\ \A j \in 1..Search(samples, t) : samples[j].at < t
         /\ Search(samples, t) < Len(samples) => samples[Search(samples, t) + 1].at >= t
<1> DEFINE n == Len(samples)
           Stops == {i \in 0..n : i < n => samples[i + 1].at >= t}
<1>1. n \in Nat
  BY LenProperties
<1>2. n \in Stops /\ Stops \subseteq Nat
  BY <1>1
<1>3. PICK i \in Stops : \A k \in Stops : i <= k
  BY <1>2, LeastNatural
<1>4. i \in 0..n /\ (i < n => samples[i + 1].at >= t)
  BY <1>3
<1>5. \A j \in 1..i : samples[j].at < t
  <2> TAKE j \in 1..i
  <2>1. j - 1 \in 0..n /\ j - 1 < n /\ ~(i <= j - 1) /\ j \in 1..n
    BY <1>1, <1>4
  <2>2. j - 1 \notin Stops
    BY <1>3, <2>1
  <2>3. ~(samples[(j - 1) + 1].at >= t)
    BY <2>1, <2>2
  <2>4. samples[j] \in Samples /\ (j - 1) + 1 = j
    BY <2>1, ElementOfSeq
  <2>5. samples[j].at \in Int
    BY <2>4, SampleTimes
  <2> QED
    BY <2>3, <2>4, <2>5
<1> QED
  BY <1>4, <1>5 DEF Search

\* What is left of a slice when samples are dropped from its front is a slice.
LEMMA RestOfSlice ==
  ASSUME NEW samples, Slice(samples), NEW m \in 1..(Len(samples) + 1)
  PROVE  /\ Slice(SubSeq(samples, m, Len(samples)))
         /\ Len(SubSeq(samples, m, Len(samples))) = Len(samples) - m + 1
         /\ \A k \in 1..(Len(samples) - m + 1) :
              SubSeq(samples, m, Len(samples))[k] = samples[m + k - 1]
<1> DEFINE rest == SubSeq(samples, m, Len(samples))
<1>1. samples \in Seq(Samples) /\ Len(samples) \in Nat /\ m \in Int
  BY LenProperties DEF Slice
<1>2. \A i \in m..Len(samples) : samples[i] \in Samples
  BY <1>1, ElementOfSeq
<1>3. /\ rest \in Seq(Samples)
      /\ Len(rest) = IF m <= Len(samples) THEN Len(samples) - m + 1 ELSE 0
      /\ \A i \in 1..(Len(samples) - m + 1) : rest[i] = samples[m + i - 1]
  BY <1>1, <1>2, SubSeqProperties
<1>4. Len(rest) = Len(samples) - m + 1
  BY <1>1, <1>3
<1>5. Ascending(rest)
  <2> SUFFICES ASSUME NEW i \in DOMAIN rest, NEW j \in DOMAIN rest, i < j
               PROVE  rest[i].at < rest[j].at
    BY DEF Ascending
  <2>1. i \in 1..Len(rest) /\ j \in 1..Len(rest)
    BY <1>3, LenProperties
  <2>2. rest[i] = samples[m + i - 1] /\ rest[j] = samples[m + j - 1]
    BY <1>3, <1>4, <2>1
  <2>3. m + i - 1 \in DOMAIN samples /\ m + j - 1 \in DOMAIN samples
    BY <1>1, <1>4, <2>1, LenProperties
  <2> QED
    BY <2>1, <2>2, <2>3 DEF Slice, Ascending
<1> QED
  BY <1>3, <1>4, <1>5 DEF Slice

\* The elements of `new` are `sample` and those of `samples` at other times.
Replaces(new, samples, sample) ==
  /\ \E j \in 1..Len(new) : new[j] = sample
  /\ \A j \in 1..Len(new) :
       new[j] = sample \/ \E i \in 1..Len(samples) :
                            new[j] = samples[i] /\ samples[i].at # sample.at
  /\ \A i \in 1..Len(samples) :
       samples[i].at # sample.at => \E j \in 1..Len(new) : new[j] = samples[i]

\* Adding a sample, early or late or at a time already held, leaves a slice, of the
\* sample and of those at other times.
LEMMA InsertKeepsSlice ==
  ASSUME NEW samples, Slice(samples), NEW sample \in Samples
  PROVE  /\ Slice(Insert(samples, sample))
         /\ Replaces(Insert(samples, sample), samples, sample)
<1> DEFINE n == Len(samples)
           i == Search(samples, sample.at)
<1>1. samples \in Seq(Samples) /\ n \in Nat /\ DOMAIN samples = 1..n
  BY LenProperties DEF Slice
<1>2. sample.at \in Int /\ \A j \in 1..n : samples[j] \in Samples /\ samples[j].at \in Int
  BY <1>1, ElementOfSeq, SampleTimes
<1>3. /\ i \in 0..n
      /\ \A j \in 1..i : samples[j].at < sample.at
      /\ i < n => samples[i + 1].at >= sample.at
  BY <1>1, <1>2, SearchSpec
<1>4. \A j, k \in 1..n : j < k => samples[j].at < samples[k].at
  BY <1>1 DEF Slice, Ascending
<1> HIDE DEF i
<1>5. CASE Has(samples, i, sample.at)
  <2> DEFINE new == [samples EXCEPT ![i + 1] = sample]
  <2>1. i + 1 \in 1..n /\ samples[i + 1].at = sample.at
    BY <1>1, <1>3, <1>5 DEF Has
  <2>2. /\ new \in Seq(Samples) /\ Len(new) = n
        /\ \A j \in 1..n : new[j] = IF j = i + 1 THEN sample ELSE samples[j]
    BY <1>1, <2>1, ExceptSeq
  <2>3. \A j \in 1..n : new[j].at = samples[j].at
    BY <2>1, <2>2
  <2>4. Ascending(new)
    BY <1>4, <2>2, <2>3, LenProperties DEF Ascending
  <2>5. Insert(samples, sample) = new
    BY <1>5 DEF Insert, i
  <2>6. \A j \in 1..n : j # i + 1 => samples[j].at # sample.at
    <3> TAKE j \in 1..n
    <3>1. HAVE j # i + 1
    <3>2. i \in Nat /\ j \in Nat
      BY <1>1, <1>3
    <3>3. j < i + 1 \/ i + 1 < j
      BY <3>1, <3>2
    <3> QED
      BY <1>2, <1>4, <2>1, <3>3
  <2> HIDE DEF new
  <2>7. Replaces(new, samples, sample)
    <3>1. \A j \in 1..n : new[j] = sample \/ (new[j] = samples[j] /\ samples[j].at # sample.at)
      BY <2>2, <2>6
    <3>2. \A j \in 1..n : samples[j].at # sample.at => new[j] = samples[j]
      BY <2>1, <2>2
    <3>3. new[i + 1] = sample
      BY <2>1, <2>2
    <3> QED
      BY <2>1, <2>2, <3>1, <3>2, <3>3 DEF Replaces
  <2> QED
    BY <2>2, <2>4, <2>5, <2>7 DEF Slice
<1>6. CASE ~Has(samples, i, sample.at)
  <2> DEFINE front == SubSeq(samples, 1, i)
             back == SubSeq(samples, i + 1, n)
             new == Inserted(samples, i, sample)
  <2>1. /\ front \in Seq(Samples) /\ Len(front) = i
        /\ \A j \in 1..i : front[j] = samples[j]
    <3>1. \A j \in 1..i : samples[j] \in Samples
      BY <1>1, <1>2, <1>3
    <3>2. i \in Int
      BY <1>1, <1>3
    <3>3. /\ front \in Seq(Samples)
          /\ Len(front) = IF 1 <= i THEN i - 1 + 1 ELSE 0
          /\ \A j \in 1..(i - 1 + 1) : front[j] = samples[1 + j - 1]
      BY <3>1, <3>2, SubSeqProperties
    <3>4. i - 1 + 1 = i /\ (IF 1 <= i THEN i - 1 + 1 ELSE 0) = i
      BY <1>1, <1>3
    <3>5. \A j \in 1..i : 1 + j - 1 = j
      BY <1>1, <1>3
    <3> QED
      BY <3>3, <3>4, <3>5
  <2>2. /\ back \in Seq(Samples) /\ Len(back) = n - i
        /\ \A j \in 1..(n - i) : back[j] = samples[i + j]
    <3>1. i + 1 \in 1..(n + 1)
      BY <1>1, <1>3
    <3>2. /\ Slice(back)
          /\ Len(back) = n - (i + 1) + 1
          /\ \A j \in 1..(n - (i + 1) + 1) : back[j] = samples[(i + 1) + j - 1]
      BY <3>1, RestOfSlice
    <3>3. n - (i + 1) + 1 = n - i
      BY <1>1, <1>3
    <3>4. \A j \in 1..(n - i) : (i + 1) + j - 1 = i + j
      BY <1>1, <1>3
    <3> QED
      BY <3>2, <3>3, <3>4 DEF Slice
  <2>3. /\ <<sample>> \in Seq(Samples) /\ Len(<<sample>>) = 1 /\ <<sample>>[1] = sample
    OBVIOUS
  <2> HIDE DEF front, back
  <2>4. /\ front \o <<sample>> \in Seq(Samples) /\ Len(front \o <<sample>>) = i + 1
        /\ \A j \in 1..(i + 1) : (front \o <<sample>>)[j] = IF j <= i THEN samples[j] ELSE sample
    <3>1. /\ front \o <<sample>> \in Seq(Samples) /\ Len(front \o <<sample>>) = i + 1
          /\ \A j \in 1..(i + 1) : (front \o <<sample>>)[j]
                = IF j <= i THEN front[j] ELSE <<sample>>[j - i]
      BY <2>1, <2>3, ConcatProperties
    <3>2. \A j \in 1..(i + 1) : ~(j <= i) => j - i = 1
      BY <1>1, <1>3
    <3>3. \A j \in 1..(i + 1) : j <= i => j \in 1..i
      BY <1>1, <1>3
    <3> QED
      BY <2>1, <2>3, <3>1, <3>2, <3>3
  <2>5. /\ new \in Seq(Samples) /\ Len(new) = n + 1
        /\ \A j \in 1..(n + 1) : new[j] =
             IF j <= i THEN samples[j] ELSE IF j = i + 1 THEN sample ELSE samples[j - 1]
    <3> DEFINE most == front \o <<sample>>
    <3>1. new = most \o back
      BY DEF Inserted, front, back
    <3> HIDE DEF new, most
    <3>2. most \in Seq(Samples) /\ Len(most) = i + 1
      BY <2>4 DEF most
    <3>3. /\ new \in Seq(Samples) /\ Len(new) = n + 1
          /\ \A j \in 1..(n + 1) : new[j]
                = IF j <= i + 1 THEN most[j] ELSE back[j - (i + 1)]
      <4>1. /\ new \in Seq(Samples) /\ Len(new) = Len(most) + Len(back)
            /\ \A j \in 1..(Len(most) + Len(back)) : new[j]
                  = IF j <= Len(most) THEN most[j] ELSE back[j - Len(most)]
        BY <2>2, <3>1, <3>2, ConcatProperties
      <4>2. Len(most) + Len(back) = n + 1
        BY <1>1, <1>3, <2>2, <3>2
      <4> QED
        BY <3>2, <4>1, <4>2
    <3>4. \A j \in 1..(n + 1) : ~(j <= i + 1) =>
            j - (i + 1) \in 1..(n - i) /\ i + (j - (i + 1)) = j - 1 /\ ~(j <= i) /\ j # i + 1
      BY <1>1, <1>3
    <3>5. \A j \in 1..(n + 1) : j <= i + 1 => j \in 1..(i + 1) /\ (~(j <= i) => j = i + 1)
      BY <1>1, <1>3
    <3> QED
      BY <2>2, <2>4, <3>3, <3>4, <3>5 DEF most
  <2>6. i < n => samples[i + 1].at > sample.at
    BY <1>1, <1>2, <1>3, <1>6 DEF Has
  <2>7. \A j \in (i + 1)..n : samples[j].at > sample.at
    <3> TAKE j \in (i + 1)..n
    <3>1. i < n /\ i + 1 \in 1..n /\ j \in 1..n
      BY <1>1, <1>3
    <3>2. samples[i + 1].at <= samples[j].at
      BY <1>2, <1>4, <3>1
    <3> QED
      BY <1>2, <2>6, <3>1, <3>2
  <2>8. \A j, k \in 1..(n + 1) : j < k => new[j].at < new[k].at
    <3> SUFFICES ASSUME NEW j \in 1..(n + 1), NEW k \in 1..(n + 1), j < k
                 PROVE  new[j].at < new[k].at
      OBVIOUS
    <3> HIDE DEF new
    <3>1. CASE k <= i
      BY <1>1, <1>3, <1>4, <2>5, <3>1
    <3>2. CASE k = i + 1
      BY <1>1, <1>3, <2>5, <3>2
    <3>3. CASE k > i + 1 /\ j <= i
      <4>1. k - 1 \in 1..n /\ j \in 1..n /\ j < k - 1 /\ ~(k <= i) /\ k # i + 1
        BY <1>1, <1>3, <3>3
      <4> QED
        BY <1>4, <2>5, <3>3, <4>1
    <3>4. CASE k > i + 1 /\ j = i + 1
      <4>1. k - 1 \in (i + 1)..n /\ ~(k <= i) /\ k # i + 1 /\ ~(j <= i) /\ k - 1 \in 1..n
        BY <1>1, <1>3, <3>4
      <4>2. samples[k - 1].at > sample.at
        BY <2>7, <4>1
      <4> QED
        BY <1>2, <2>5, <3>4, <4>1, <4>2
    <3>5. CASE j > i + 1
      <4>1. k - 1 \in 1..n /\ j - 1 \in 1..n /\ j - 1 < k - 1 /\ ~(k <= i) /\ k # i + 1
            /\ ~(j <= i) /\ j # i + 1
        BY <1>1, <1>3, <3>5
      <4> QED
        BY <1>4, <2>5, <4>1
    <3> QED
      BY <1>1, <1>3, <3>1, <3>2, <3>3, <3>4, <3>5
  <2>9. Ascending(new)
    BY <2>5, <2>8, LenProperties DEF Ascending
  <2>10. Insert(samples, sample) = new
    BY <1>6 DEF Insert, i
  <2> HIDE DEF new
  <2>11. Replaces(new, samples, sample)
    <3>1. ASSUME NEW j \in 1..n
          PROVE  /\ j <= i => j \in 1..(n + 1) /\ samples[j].at # sample.at
                 /\ ~(j <= i) => /\ j + 1 \in 1..(n + 1) /\ ~(j + 1 <= i) /\ j + 1 # i + 1
                                 /\ (j + 1) - 1 = j /\ samples[j].at # sample.at
      <4>1. CASE j <= i
        <5>1. j \in 1..(n + 1) /\ j \in 1..i
          BY <1>1, <4>1
        <5> QED
          BY <1>2, <1>3, <4>1, <5>1
      <4>2. CASE ~(j <= i)
        <5>1. /\ j \in (i + 1)..n /\ j + 1 \in 1..(n + 1) /\ ~(j + 1 <= i) /\ j + 1 # i + 1
              /\ (j + 1) - 1 = j
          BY <1>1, <1>3, <4>2
        <5> QED
          BY <1>2, <2>7, <4>2, <5>1
      <4> QED
        BY <4>1, <4>2
    <3>2. \A j \in 1..n : \E l \in 1..(n + 1) : new[l] = samples[j]
      <4> TAKE j \in 1..n
      <4>1. CASE j <= i
        BY <2>5, <3>1, <4>1
      <4>2. CASE ~(j <= i)
        BY <2>5, <3>1, <4>2
      <4> QED
        BY <4>1, <4>2
    <3>3. \A j \in 1..(n + 1) :
             new[j] = sample \/ \E l \in 1..n : new[j] = samples[l] /\ samples[l].at # sample.at
      <4> TAKE j \in 1..(n + 1)
      <4>1. CASE j <= i
        <5>1. j \in 1..n
          BY <1>1, <1>3, <4>1
        <5> QED
          BY <2>5, <3>1, <4>1, <5>1
      <4>2. CASE j = i + 1
        BY <1>1, <1>3, <2>5, <4>2
      <4>3. CASE ~(j <= i) /\ j # i + 1
        <5>1. j - 1 \in 1..n
          BY <1>1, <1>3, <4>3
        <5> QED
          BY <2>5, <3>1, <4>3, <5>1
      <4> QED
        BY <4>1, <4>2, <4>3
    <3>4. i + 1 \in 1..(n + 1) /\ new[i + 1] = sample
      <4>1. i + 1 \in 1..(n + 1) /\ ~(i + 1 <= i)
        BY <1>1, <1>3
      <4> QED
        BY <2>5, <4>1
    <3> QED
      BY <2>5, <3>2, <3>3, <3>4 DEF Replaces
  <2> QED
    BY <2>5, <2>9, <2>10, <2>11 DEF Slice
<1> QED
  BY <1>5, <1>6

-----------------------------------------------------------------------------
(* Counting.                                                               *)

Entries(of) == UNION {{k} \X of[k] : k \in Keys}

\* Entries are pairs of a key and one of its elements.
LEMMA EntriesMembers ==
  ASSUME NEW of
  PROVE  /\ \A k \in Keys : \A x \in of[k] : <<k, x>> \in Entries(of)
         /\ \A p \in Entries(of) : \E k \in Keys : \E x \in of[k] : p = <<k, x>>
         /\ \A k, x : <<k, x>> \in Entries(of) => k \in Keys /\ x \in of[k]
<1>1. ASSUME NEW k \in Keys, NEW x \in of[k] PROVE <<k, x>> \in Entries(of)
  <2>1. <<k, x>> \in {k} \X of[k]
    OBVIOUS
  <2> QED
    BY <2>1 DEF Entries
<1>2. ASSUME NEW p \in Entries(of) PROVE \E k \in Keys : \E x \in of[k] : p = <<k, x>>
  <2>1. PICK k \in Keys : p \in {k} \X of[k]
    BY DEF Entries
  <2>2. PICK x \in of[k] : p = <<k, x>>
    BY <2>1
  <2> QED
    BY <2>2
<1>3. ASSUME NEW k, NEW x, <<k, x>> \in Entries(of) PROVE k \in Keys /\ x \in of[k]
  <2>1. PICK l \in Keys : \E y \in of[l] : <<k, x>> = <<l, y>>
    BY <1>2, <1>3
  <2>2. PICK y \in of[l] : <<k, x>> = <<l, y>>
    BY <2>1
  <2> QED
    BY <2>2
<1> QED
  BY <1>1, <1>2, <1>3

\* Finitely many keys have finitely many elements, and so they can be counted.
LEMMA EntriesFinite ==
  ASSUME NEW of, \A k \in Keys : IsFiniteSet(of[k])
  PROVE  IsFiniteSet(Entries(of)) /\ Count(of) = Cardinality(Entries(of)) /\ Count(of) \in Nat
<1> DEFINE Parts == {{k} \X of[k] : k \in Keys}
           f == [k \in Keys |-> {k} \X of[k]]
<1>1. IsFiniteSet(Keys)
  BY StoreAssumption
<1>2. f \in Surjection(Keys, Parts)
  BY DEF Surjection
<1> HIDE DEF f
<1>3. IsFiniteSet(Parts)
  BY <1>1, <1>2, FS_Surjection
<1>4. \A part \in Parts : IsFiniteSet(part)
  <2> SUFFICES ASSUME NEW k \in Keys PROVE IsFiniteSet({k} \X of[k])
    OBVIOUS
  <2>1. IsFiniteSet({k}) /\ IsFiniteSet(of[k])
    BY FS_Singleton
  <2> QED
    BY <2>1, FS_Product
<1> HIDE DEF Parts
<1>5. IsFiniteSet(UNION Parts)
  BY <1>3, <1>4, FS_UNION
<1>6. IsFiniteSet(Entries(of))
  BY <1>5 DEF Entries, Parts
<1> QED
  BY <1>6, FS_CardinalityType DEF Entries, Count

\* More elements are counted where there are more.
LEMMA CountMonotone ==
  ASSUME NEW of, NEW more, \A k \in Keys : IsFiniteSet(more[k]) /\ of[k] \subseteq more[k]
  PROVE  /\ Count(of) \in Nat /\ Count(more) \in Nat /\ Count(of) <= Count(more)
         /\ (\E k \in Keys : of[k] # more[k]) => Count(of) < Count(more)
<1>1. \A k \in Keys : IsFiniteSet(of[k])
  BY FS_Subset
<1>2. /\ IsFiniteSet(Entries(more)) /\ Count(more) = Cardinality(Entries(more))
      /\ Count(of) = Cardinality(Entries(of)) /\ Count(of) \in Nat /\ Count(more) \in Nat
  BY <1>1, EntriesFinite
<1>3. Entries(of) \subseteq Entries(more)
  <2> SUFFICES ASSUME NEW p \in Entries(of) PROVE p \in Entries(more)
    OBVIOUS
  <2>1. PICK k \in Keys : \E x \in of[k] : p = <<k, x>>
    BY EntriesMembers
  <2>2. PICK x \in of[k] : p = <<k, x>>
    BY <2>1
  <2>3. x \in more[k]
    OBVIOUS
  <2> QED
    BY <2>2, <2>3, EntriesMembers
<1>4. Count(of) <= Count(more)
  BY <1>2, <1>3, FS_Subset
<1>5. ASSUME NEW k \in Keys, of[k] # more[k] PROVE Count(of) < Count(more)
  <2>1. PICK x \in more[k] : x \notin of[k]
    BY <1>5
  <2>2. <<k, x>> \in Entries(more) /\ <<k, x>> \notin Entries(of)
    BY <2>1, EntriesMembers
  <2>3. Count(of) # Count(more)
    BY <1>2, <1>3, <2>2, FS_Subset
  <2> QED
    BY <1>2, <1>4, <2>3
<1> QED
  BY <1>2, <1>4, <1>5

\* The count is that of every other set of pairs that has as many elements for each key.
LEMMA CountRenamed ==
  ASSUME NEW of, NEW to, NEW name,
         \A k \in Keys : IsFiniteSet(of[k]) /\ name[k] \in Bijection(of[k], to[k])
  PROVE  Count(to) = Count(of)
<1> DEFINE f == [p \in Entries(of) |-> <<p[1], name[p[1]][p[2]]>>]
<1>1. \A k \in Keys : /\ name[k] \in [of[k] -> to[k]]
                      /\ \A x, y \in of[k] : x # y => name[k][x] # name[k][y]
                      /\ \A z \in to[k] : \E x \in of[k] : name[k][x] = z
  BY DEF Bijection, Injection, Surjection, IsInjective
<1>2. ASSUME NEW k \in Keys, NEW x \in of[k]
      PROVE  /\ f[<<k, x>>] = <<k, name[k][x]>>
             /\ <<k, x>> \in Entries(of) /\ <<k, name[k][x]>> \in Entries(to)
  <2>1. <<k, x>> \in Entries(of) /\ name[k][x] \in to[k]
    BY <1>1, EntriesMembers
  <2> QED
    BY <2>1, EntriesMembers
<1>3. f \in [Entries(of) -> Entries(to)]
  <2> SUFFICES ASSUME NEW p \in Entries(of) PROVE f[p] \in Entries(to)
    OBVIOUS
  <2>1. PICK k \in Keys : \E x \in of[k] : p = <<k, x>>
    BY EntriesMembers
  <2>2. PICK x \in of[k] : p = <<k, x>>
    BY <2>1
  <2> HIDE DEF f
  <2> QED
    BY <1>2, <2>2
<1> HIDE DEF f
<1>4. ASSUME NEW p \in Entries(of), NEW q \in Entries(of), f[p] = f[q] PROVE p = q
  <2>1. PICK k \in Keys : \E x \in of[k] : p = <<k, x>>
    BY EntriesMembers
  <2>2. PICK x \in of[k] : p = <<k, x>>
    BY <2>1
  <2>3. PICK l \in Keys : \E x1 \in of[l] : q = <<l, x1>>
    BY EntriesMembers
  <2>4. PICK y \in of[l] : q = <<l, y>>
    BY <2>3
  <2>5. <<k, name[k][x]>> = <<l, name[l][y]>>
    BY <1>2, <1>4, <2>2, <2>4
  <2>6. k = l /\ name[k][x] = name[k][y]
    BY <2>5
  <2> QED
    BY <1>1, <2>2, <2>4, <2>6
<1>5. \A z \in Entries(to) : \E p \in Entries(of) : f[p] = z
  <2> TAKE z \in Entries(to)
  <2>1. PICK k \in Keys : \E w \in to[k] : z = <<k, w>>
    BY EntriesMembers
  <2>2. PICK w \in to[k] : z = <<k, w>>
    BY <2>1
  <2>3. PICK x \in of[k] : name[k][x] = w
    BY <1>1
  <2> QED
    BY <1>2, <2>2, <2>3
<1>6. f \in Bijection(Entries(of), Entries(to))
  BY <1>3, <1>4, <1>5 DEF Bijection, Injection, Surjection, IsInjective
<1>7. ExistsBijection(Entries(of), Entries(to))
  BY <1>6 DEF ExistsBijection
<1>8. IsFiniteSet(Entries(of)) /\ Count(of) = Cardinality(Entries(of))
  BY EntriesFinite
<1>9. Count(to) = Cardinality(Entries(to))
  BY DEF Count, Entries
<1> QED
  BY <1>7, <1>8, <1>9, FS_Bijection

\* Counts add up where the elements of each key are split in two.
LEMMA CountSplit ==
  ASSUME NEW of, NEW one, NEW other,
         \A k \in Keys : /\ IsFiniteSet(of[k]) /\ of[k] = one[k] \cup other[k]
                         /\ one[k] \cap other[k] = {}
  PROVE  /\ Count(of) = Count(one) + Count(other)
         /\ Count(one) \in Nat /\ Count(other) \in Nat
<1>0. \A k \in Keys : one[k] \subseteq of[k] /\ other[k] \subseteq of[k]
  OBVIOUS
<1>1. \A k \in Keys : IsFiniteSet(one[k]) /\ IsFiniteSet(other[k])
  BY <1>0, FS_Subset
<1>2. /\ Count(of) = Cardinality(Entries(of)) /\ Count(one) = Cardinality(Entries(one))
      /\ Count(other) = Cardinality(Entries(other))
      /\ IsFiniteSet(Entries(one)) /\ IsFiniteSet(Entries(other))
      /\ Count(one) \in Nat /\ Count(other) \in Nat
  BY <1>1, EntriesFinite
<1>3. Entries(of) = Entries(one) \cup Entries(other)
  <2>1. ASSUME NEW p \in Entries(of) PROVE p \in Entries(one) \cup Entries(other)
    <3>1. PICK k \in Keys : \E x \in of[k] : p = <<k, x>>
      BY EntriesMembers
    <3>2. PICK x \in of[k] : p = <<k, x>>
      BY <3>1
    <3>3. x \in one[k] \/ x \in other[k]
      OBVIOUS
    <3> QED
      BY <3>2, <3>3, EntriesMembers
  <2>2. ASSUME NEW p \in Entries(one) \cup Entries(other) PROVE p \in Entries(of)
    <3>1. PICK k \in Keys : \E x \in one[k] \cup other[k] : p = <<k, x>>
      BY EntriesMembers
    <3>2. PICK x \in one[k] \cup other[k] : p = <<k, x>>
      BY <3>1
    <3>3. x \in of[k]
      OBVIOUS
    <3> QED
      BY <3>2, <3>3, EntriesMembers
  <2> QED
    BY <2>1, <2>2
<1>4. Entries(one) \cap Entries(other) = {}
  <2> SUFFICES ASSUME NEW p \in Entries(one), p \in Entries(other) PROVE FALSE
    OBVIOUS
  <2>1. PICK k \in Keys : \E x \in one[k] : p = <<k, x>>
    BY EntriesMembers
  <2>2. PICK x \in one[k] : p = <<k, x>>
    BY <2>1
  <2>3. x \in other[k]
    BY <2>2, EntriesMembers
  <2>4. x \in one[k] \cap other[k]
    BY <2>3
  <2> QED
    BY <2>4
<1>5. Cardinality(Entries(one) \cup Entries(other))
        = Cardinality(Entries(one)) + Cardinality(Entries(other))
          - Cardinality(Entries(one) \cap Entries(other))
  BY <1>2, FS_Union
<1>6. Cardinality(Entries(one) \cap Entries(other)) = 0
  BY <1>4, FS_EmptySet
<1> QED
  BY <1>2, <1>3, <1>5, <1>6

-----------------------------------------------------------------------------
(* What slices hold.                                                       *)

TimeOf(samples) == [i \in DOMAIN samples |-> samples[i].at]

\* A slice holds its samples, each at its own time.
LEMMA HeldOfSlice ==
  ASSUME NEW samples, Slice(samples)
  PROVE  /\ DOMAIN samples = 1..Len(samples) /\ Len(samples) \in Nat
         /\ \A t : t \in DOMAIN Held(samples) <=>
                     \E i \in 1..Len(samples) : samples[i].at = t
         /\ \A i \in 1..Len(samples) :
              /\ samples[i] \in Samples /\ samples[i].at \in DOMAIN Held(samples)
              /\ Held(samples)[samples[i].at] = samples[i].value
         /\ \A i, j \in 1..Len(samples) : i < j => samples[i].at < samples[j].at
<1>1. samples \in Seq(Samples) /\ Len(samples) \in Nat /\ DOMAIN samples = 1..Len(samples)
  BY LenProperties DEF Slice
<1>2. \A t : t \in DOMAIN Held(samples) <=> \E i \in 1..Len(samples) : samples[i].at = t
  BY <1>1 DEF Held
<1>3. \A i, j \in 1..Len(samples) : i < j => samples[i].at < samples[j].at
  BY <1>1 DEF Slice, Ascending
<1>4. \A i \in 1..Len(samples) : samples[i] \in Samples
  BY <1>1, ElementOfSeq
<1>5. ASSUME NEW i \in 1..Len(samples)
      PROVE  Held(samples)[samples[i].at] = samples[i].value
  <2> DEFINE s == CHOOSE s \in Range(samples) : s.at = samples[i].at
  <2>1. samples[i] \in Range(samples)
    BY <1>1 DEF Range
  <2>2. s \in Range(samples) /\ s.at = samples[i].at
    BY <2>1
  <2>3. PICK j \in 1..Len(samples) : s = samples[j]
    BY <1>1, <2>2 DEF Range
  <2>4. i = j
    <3>1. samples[i].at \in Int /\ samples[j].at \in Int
      BY <1>4, SampleTimes
    <3>2. ~(i < j) /\ ~(j < i)
      BY <1>3, <2>2, <2>3, <3>1
    <3> QED
      BY <1>1, <3>2
  <2>5. Held(samples)[samples[i].at] = s.value
    BY <1>1 DEF Held
  <2> QED
    BY <2>3, <2>4, <2>5
<1> QED
  BY <1>1, <1>2, <1>3, <1>4, <1>5

LEMMA HeldTypes ==
  ASSUME NEW samples, Slice(samples)
  PROVE  /\ DOMAIN Held(samples) \subseteq Times /\ DOMAIN Held(samples) \subseteq Int
         /\ Held(samples) = [t \in DOMAIN Held(samples) |-> Held(samples)[t]]
         /\ \A t \in DOMAIN Held(samples) : Held(samples)[t] \in Values
<1>1. \A i \in 1..Len(samples) : samples[i].at \in Times /\ samples[i].value \in Values
  BY HeldOfSlice DEF Samples
<1>2. Times \subseteq Int
  BY StoreAssumption DEF Times
<1>3. Held(samples) = [t \in DOMAIN Held(samples) |-> Held(samples)[t]]
  BY DEF Held
<1>4. ASSUME NEW t \in DOMAIN Held(samples)
      PROVE  t \in Times /\ Held(samples)[t] \in Values
  <2>1. PICK i \in 1..Len(samples) : samples[i].at = t
    BY HeldOfSlice
  <2> QED
    BY <1>1, <2>1, HeldOfSlice
<1> QED
  BY <1>2, <1>3, <1>4

\* There are as many times as samples.
LEMMA TimesOfSlice ==
  ASSUME NEW samples, Slice(samples)
  PROVE  /\ TimeOf(samples) \in Bijection(DOMAIN samples, DOMAIN Held(samples))
         /\ IsFiniteSet(DOMAIN samples) /\ IsFiniteSet(DOMAIN Held(samples))
         /\ Cardinality(DOMAIN Held(samples)) = Len(samples)
<1> DEFINE n == Len(samples)
           f == TimeOf(samples)
<1>1. DOMAIN samples = 1..n /\ n \in Nat
  BY HeldOfSlice
<1>2. \A i \in 1..n : f[i] = samples[i].at
  BY <1>1 DEF TimeOf
<1>3. f \in [1..n -> DOMAIN Held(samples)]
  BY <1>1, HeldOfSlice DEF TimeOf
<1> HIDE DEF f
<1>4. \A t \in DOMAIN Held(samples) : \E i \in 1..n : f[i] = t
  BY <1>2, HeldOfSlice
<1>5. ASSUME NEW i \in 1..n, NEW j \in 1..n, f[i] = f[j] PROVE i = j
  <2>1. f[i] \in Int /\ f[j] \in Int
    BY <1>3, HeldTypes
  <2>2. ~(i < j) /\ ~(j < i)
    BY <1>2, <1>5, <2>1, HeldOfSlice
  <2> HIDE DEF n
  <2> QED
    BY <1>1, <2>2
<1> HIDE DEF n
<1>6. f \in Bijection(1..n, DOMAIN Held(samples))
  BY <1>3, <1>4, <1>5 DEF Bijection, Injection, Surjection, IsInjective
<1>7. ExistsBijection(1..n, DOMAIN Held(samples))
  BY <1>6 DEF ExistsBijection
<1>8. IsFiniteSet(1..n)
  BY <1>1, FS_Interval
<1>9. Cardinality(DOMAIN Held(samples)) = n
  BY <1>1, <1>7, FS_CountingElements
<1>10. IsFiniteSet(DOMAIN Held(samples))
  BY <1>7, <1>8, FS_Bijection
<1> QED
  BY <1>1, <1>6, <1>8, <1>9, <1>10 DEF f, n

\* The total is the number of times held.
LEMMA TotalOfSlices ==
  ASSUME NEW all, \A k \in Keys : Slice(all[k])
  PROVE  /\ Total(all) = Count([k \in Keys |-> DOMAIN Held(all[k])])
         /\ Total(all) \in Nat
<1> DEFINE of == [k \in Keys |-> DOMAIN all[k]]
           to == [k \in Keys |-> DOMAIN Held(all[k])]
           name == [k \in Keys |-> TimeOf(all[k])]
<1>1. \A k \in Keys : IsFiniteSet(of[k]) /\ name[k] \in Bijection(of[k], to[k])
  BY TimesOfSlice
<1>2. Total(all) = Count(of)
  BY DEF Total
<1> HIDE DEF of, to, name
<1>3. Count(to) = Count(of) /\ Count(of) \in Nat
  BY <1>1, CountRenamed, EntriesFinite
<1> QED
  BY <1>2, <1>3 DEF to

-----------------------------------------------------------------------------
(* What the operations leave of a slice.                                   *)

\* Whatever is gone is older than all that is left.
OldestFirst(samples, rest) ==
  LET was == Held(samples)
      is == Held(rest)
  IN  /\ DOMAIN is \subseteq DOMAIN was
      /\ \A t \in DOMAIN is : is[t] = was[t]
      /\ \A gone \in DOMAIN was \ DOMAIN is, t \in DOMAIN is : gone < t

LEMMA OldestFirstTransitive ==
  ASSUME NEW one, NEW two, NEW three, OldestFirst(one, two), OldestFirst(two, three)
  PROVE  OldestFirst(one, three)
<1> DEFINE A == Held(one)
           B == Held(two)
           C == Held(three)
<1>1. /\ DOMAIN B \subseteq DOMAIN A /\ \A t \in DOMAIN B : B[t] = A[t]
      /\ \A gone \in DOMAIN A \ DOMAIN B, t \in DOMAIN B : gone < t
  BY DEF OldestFirst
<1>2. /\ DOMAIN C \subseteq DOMAIN B /\ \A t \in DOMAIN C : C[t] = B[t]
      /\ \A gone \in DOMAIN B \ DOMAIN C, t \in DOMAIN C : gone < t
  BY DEF OldestFirst
<1> HIDE DEF A, B, C
<1>3. /\ DOMAIN C \subseteq DOMAIN A /\ \A t \in DOMAIN C : C[t] = A[t]
      /\ \A gone \in DOMAIN A \ DOMAIN C, t \in DOMAIN C : gone < t
  BY <1>1, <1>2
<1> QED
  BY <1>3 DEF OldestFirst, A, B, C

\* `rest` is what follows the first m - 1 samples.
IsRest(rest, samples, m) ==
  /\ Slice(rest) /\ Len(rest) = Len(samples) - m + 1
  /\ \A k \in 1..(Len(samples) - m + 1) : rest[k] = samples[m + k - 1]

\* The samples dropped from the front of a slice are the oldest.
LEMMA RestOldestFirst ==
  ASSUME NEW samples, Slice(samples), NEW m \in 1..(Len(samples) + 1),
         NEW rest, IsRest(rest, samples, m)
  PROVE  /\ OldestFirst(samples, rest)
         /\ \A i \in 1..Len(samples) : samples[i].at \in DOMAIN Held(rest) <=> i >= m
<1> DEFINE n == Len(samples)
<1>1. /\ Slice(rest) /\ Len(rest) = n - m + 1
      /\ \A k \in 1..(n - m + 1) : rest[k] = samples[m + k - 1]
  BY DEF IsRest
<1>2. n \in Nat /\ Len(rest) \in Nat
  BY <1>1, HeldOfSlice
<1>a. /\ \A t \in DOMAIN Held(rest) : \E k \in 1..Len(rest) : rest[k].at = t
      /\ \A k \in 1..Len(rest) :
           rest[k].at \in DOMAIN Held(rest) /\ Held(rest)[rest[k].at] = rest[k].value
  <2>1. Slice(rest)
    BY <1>1
  <2> HIDE DEF n
  <2> QED
    BY ONLY <2>1, HeldOfSlice
<1>3. ASSUME NEW i \in 1..n, i >= m
      PROVE  /\ samples[i].at \in DOMAIN Held(rest)
             /\ Held(rest)[samples[i].at] = Held(samples)[samples[i].at]
  <2>1. i - m + 1 \in 1..Len(rest) /\ m + (i - m + 1) - 1 = i
    <3> HIDE DEF n
    <3> QED
      BY <1>1, <1>2, <1>3
  <2>2. rest[i - m + 1] = samples[i]
    BY <1>1, <2>1
  <2>3. Held(samples)[samples[i].at] = samples[i].value
    BY HeldOfSlice
  <2> QED
    BY <1>a, <2>1, <2>2, <2>3
<1>4. ASSUME NEW t \in DOMAIN Held(rest)
      PROVE  \E i \in 1..n : i >= m /\ samples[i].at = t
  <2>1. PICK k \in 1..Len(rest) : rest[k].at = t
    BY <1>a
  <2>2. m + k - 1 \in 1..n /\ m + k - 1 >= m /\ k \in 1..(n - m + 1)
    <3> HIDE DEF n
    <3> QED
      BY <1>1, <1>2
  <2> QED
    BY <1>1, <2>1, <2>2
<1>5. ASSUME NEW i \in 1..n, samples[i].at \in DOMAIN Held(rest) PROVE i >= m
  <2>1. PICK j \in 1..n : j >= m /\ samples[j].at = samples[i].at
    BY <1>4, <1>5
  <2>2. samples[i].at \in Int /\ samples[j].at \in Int
    BY HeldOfSlice, HeldTypes
  <2>3. ~(i < j)
    BY <2>1, <2>2, HeldOfSlice
  <2> HIDE DEF n
  <2> QED
    BY <1>2, <2>1, <2>3
<1>6. DOMAIN Held(rest) \subseteq DOMAIN Held(samples)
  BY <1>4, HeldOfSlice
<1>7. \A t \in DOMAIN Held(rest) : Held(rest)[t] = Held(samples)[t]
  <2> TAKE t \in DOMAIN Held(rest)
  <2>1. PICK i \in 1..n : i >= m /\ samples[i].at = t
    BY <1>4
  <2> QED
    BY <1>3, <2>1
<1>8. ASSUME NEW gone \in DOMAIN Held(samples) \ DOMAIN Held(rest), NEW t \in DOMAIN Held(rest)
      PROVE  gone < t
  <2>1. PICK i \in 1..n : samples[i].at = gone
    BY HeldOfSlice
  <2>2. PICK j \in 1..n : j >= m /\ samples[j].at = t
    BY <1>4
  <2>3. ~(i >= m)
    BY <1>3, <1>8, <2>1
  <2>4. i < j
    <3> HIDE DEF n
    <3> QED
      BY <1>2, <2>2, <2>3
  <2> QED
    BY <2>1, <2>2, <2>4, HeldOfSlice
<1>9. OldestFirst(samples, rest)
  BY <1>6, <1>7, <1>8 DEF OldestFirst
<1> QED
  BY <1>1, <1>3, <1>5, <1>9

\* A slice is what follows none of its samples.
LEMMA AllIsRest ==
  ASSUME NEW samples, Slice(samples)
  PROVE  IsRest(samples, samples, 1)
<1>1. Len(samples) \in Nat
  BY HeldOfSlice
<1>2. Len(samples) = Len(samples) - 1 + 1 /\ \A k : k \in Int => 1 + k - 1 = k
  BY <1>1
<1> QED
  BY <1>2 DEF IsRest

\* Pruning by age takes samples older than `oldest` from the front, but for the last
\* sample, and no sample older than `oldest` stays beside another.
LEMMA PruneIsRest ==
  ASSUME NEW samples, Slice(samples), samples # << >>, NEW oldest \in Int
  PROVE  \E m \in 1..Len(samples) :
           /\ IsRest(PruneSamples(samples, oldest), samples, m)
           /\ \A i \in 1..(m - 1) : samples[i].at < oldest
           /\ m < Len(samples) => samples[m].at >= oldest
<1> DEFINE n == Len(samples)
           first == Search(samples, oldest)
           kept == PruneSamples(samples, oldest)
<1>1. samples \in Seq(Samples) /\ n \in Nat /\ DOMAIN samples = 1..n /\ n # 0
  BY LenProperties, EmptySeq DEF Slice
<1>2. /\ first \in 0..n
      /\ \A j \in 1..first : samples[j].at < oldest
      /\ first < n => samples[first + 1].at >= oldest
  BY <1>1, SearchSpec
<1> HIDE DEF first
<1>3. CASE n <= 1
  <2>1. kept = samples
    BY <1>3 DEF PruneSamples
  <2> HIDE DEF kept
  <2>2. 1 \in 1..n /\ ~(1 < n)
    <3> HIDE DEF n
    <3> QED
      BY <1>1, <1>3
  <2>3. IsRest(kept, samples, 1)
    BY <2>1, AllIsRest
  <2>4. \A i \in 1..(1 - 1) : samples[i].at < oldest
    OBVIOUS
  <2> QED
    BY <2>2, <2>3, <2>4 DEF kept
<1>4. CASE n > 1 /\ first = n
  <2>1. kept = <<samples[n]>>
    <3>1. ~(n <= 1)
      <4> HIDE DEF n
      <4> QED
        BY <1>1, <1>4
    <3> QED
      BY <1>4, <3>1 DEF PruneSamples, first
  <2>2. samples[n] \in Samples /\ n \in 1..n
    BY <1>1, <1>4, ElementOfSeq
  <2>3. kept \in Seq(Samples) /\ Len(kept) = 1 /\ kept[1] = samples[n]
    BY <2>1, <2>2
  <2> HIDE DEF kept
  <2>4. Slice(kept)
    BY <2>3, LenProperties DEF Slice, Ascending
  <2>5. IsRest(kept, samples, n)
    <3> HIDE DEF n
    <3>1. n - n + 1 = 1 /\ n + 1 - 1 = n
      BY <1>1
    <3>2. \A k \in 1..1 : k = 1
      OBVIOUS
    <3> QED
      BY <2>3, <2>4, <3>1, <3>2 DEF IsRest, n
  <2>6. \A i \in 1..(n - 1) : samples[i].at < oldest
    <3>1. \A i \in 1..(n - 1) : i \in 1..first
      <4> HIDE DEF n
      <4> QED
        BY <1>1, <1>4
    <3> QED
      BY <1>2, <3>1
  <2>7. ~(n < n)
    BY <1>1
  <2> QED
    BY <2>2, <2>5, <2>6, <2>7 DEF kept
<1>5. CASE n > 1 /\ first # n
  <2>1. first + 1 \in 1..n /\ first < n /\ (first + 1) - 1 = first /\ ~(n <= 1)
        /\ first + 1 \in 1..(n + 1)
    <3> HIDE DEF n
    <3> QED
      BY <1>1, <1>2, <1>5
  <2>2. kept = SubSeq(samples, first + 1, n)
    BY <1>5, <2>1 DEF PruneSamples, first
  <2>3. IsRest(SubSeq(samples, first + 1, n), samples, first + 1)
    BY <2>1, RestOfSlice DEF IsRest
  <2>4. \A i \in 1..((first + 1) - 1) : samples[i].at < oldest
    BY <1>2, <2>1
  <2> HIDE DEF kept
  <2> QED
    BY <1>2, <2>1, <2>2, <2>3, <2>4 DEF kept
<1> QED
  <2> HIDE DEF n
  <2> QED
    BY <1>1, <1>3, <1>4, <1>5

\* What pruning by age does to what a slice holds.
LEMMA PruneHeld ==
  ASSUME NEW samples, Slice(samples), NEW oldest \in Int,
         NEW kept, kept = PruneSamples(samples, oldest)
  PROVE  /\ Slice(kept)
         /\ OldestFirst(samples, kept)
         /\ \A gone \in DOMAIN Held(samples) \ DOMAIN Held(kept) :
              gone < oldest /\ \E later \in DOMAIN Held(samples) : later > gone
         /\ \A t \in DOMAIN Held(kept) : t < oldest => DOMAIN Held(kept) = {t}
<1> DEFINE n == Len(samples)
<1>0. n \in Nat /\ DOMAIN Held(samples) \subseteq Int
  BY HeldOfSlice, HeldTypes
<1>1. CASE samples = << >>
  <2>1. kept = samples /\ Len(samples) = 0
    BY <1>1 DEF PruneSamples
  <2>2. DOMAIN Held(samples) = {}
    <3>1. DOMAIN samples = {}
      BY <1>1
    <3> QED
      BY <3>1 DEF Held
  <2> QED
    BY <2>1, <2>2 DEF OldestFirst
<1>2. CASE samples # << >>
  <2>1. PICK m \in 1..n :
           /\ IsRest(kept, samples, m)
           /\ \A i \in 1..(m - 1) : samples[i].at < oldest
           /\ m < n => samples[m].at >= oldest
    BY <1>2, PruneIsRest
  <2>2. m \in 1..(n + 1) /\ n \in 1..n /\ n >= m
    <3> HIDE DEF n
    <3> QED
      BY <1>0, <2>1
  <2>3. /\ OldestFirst(samples, kept)
        /\ \A i \in 1..n : samples[i].at \in DOMAIN Held(kept) <=> i >= m
    BY <2>1, <2>2, RestOldestFirst
  <2>4. ASSUME NEW gone \in DOMAIN Held(samples) \ DOMAIN Held(kept)
        PROVE  gone < oldest /\ \E later \in DOMAIN Held(samples) : later > gone
    <3>1. PICK i \in 1..n : samples[i].at = gone
      BY HeldOfSlice
    <3>2. ~(i >= m)
      BY <2>3, <2>4, <3>1
    <3>3. i \in 1..(m - 1) /\ i < n
      <4> HIDE DEF n
      <4> QED
        BY <1>0, <2>1, <3>2
    <3>4. samples[i].at < samples[n].at /\ samples[n].at \in DOMAIN Held(samples)
      BY <2>2, <3>3, HeldOfSlice
    <3>5. samples[n].at > gone
      BY <1>0, <3>1, <3>4
    <3> QED
      BY <2>1, <3>1, <3>3, <3>4, <3>5
  <2>5. ASSUME NEW t \in DOMAIN Held(kept), t < oldest
        PROVE  DOMAIN Held(kept) = {t}
    <3>0. DOMAIN Held(kept) \subseteq DOMAIN Held(samples)
      BY <2>3 DEF OldestFirst
    <3>1. PICK i \in 1..n : samples[i].at = t
      BY <3>0, HeldOfSlice
    <3>2. i >= m
      BY <2>3, <2>5, <3>1
    <3>3. ~(m < n)
      <4> SUFFICES ASSUME m < n PROVE FALSE
        OBVIOUS
      <4>1. samples[m].at >= oldest /\ samples[m].at \in Int /\ t \in Int
        BY <1>0, <2>1, <3>0, HeldOfSlice
      <4>2. samples[m].at <= t
        <5>1. CASE m = i
          BY <3>1, <4>1, <5>1
        <5>2. CASE m # i
          <6>1. m < i
            BY <2>1, <3>2, <5>2
          <6>2. samples[m].at < samples[i].at
            BY <2>1, <6>1, HeldOfSlice
          <6> QED
            BY <3>1, <4>1, <6>2
        <5> QED
          BY <5>1, <5>2
      <4> QED
        BY <2>5, <4>1, <4>2
    <3>4. \A j \in 1..n : j >= m => j = i
      <4> HIDE DEF n
      <4> QED
        BY <1>0, <2>1, <3>2, <3>3
    <3>5. ASSUME NEW u \in DOMAIN Held(kept) PROVE u = t
      <4>1. PICK j \in 1..n : samples[j].at = u
        BY <3>0, HeldOfSlice
      <4>2. j = i
        BY <2>3, <3>4, <4>1
      <4> QED
        BY <3>1, <4>1, <4>2
    <3> QED
      BY <2>5, <3>5
  <2>6. Slice(kept)
    BY <2>1 DEF IsRest
  <2> QED
    BY <2>3, <2>4, <2>5, <2>6
<1> QED
  BY <1>1, <1>2

\* What the limit of a series leaves of a slice.
LEMMA NewestHeld ==
  ASSUME NEW samples, Slice(samples), NEW limit \in Nat \ {0},
         NEW kept, kept = Newest(samples, limit)
  PROVE  /\ Slice(kept) /\ Len(kept) <= limit
         /\ OldestFirst(samples, kept)
         /\ DOMAIN Held(samples) # DOMAIN Held(kept) => Len(kept) = limit
<1> DEFINE n == Len(samples)
<1>1. n \in Nat
  BY HeldOfSlice
<1>2. CASE n <= limit
  <2>1. kept = samples
    BY <1>2 DEF Newest
  <2>2. OldestFirst(samples, samples)
    BY DEF OldestFirst
  <2> QED
    BY <1>2, <2>1, <2>2
<1>3. CASE n > limit
  <2>1. n - limit + 1 \in 1..(n + 1) /\ ~(n <= limit) /\ n - (n - limit + 1) + 1 = limit
    <3> HIDE DEF n
    <3> QED
      BY <1>1, <1>3
  <2>2. kept = SubSeq(samples, n - limit + 1, n)
    BY <2>1 DEF Newest
  <2>3. IsRest(SubSeq(samples, n - limit + 1, n), samples, n - limit + 1)
    BY <2>1, RestOfSlice DEF IsRest
  <2>4. IsRest(kept, samples, n - limit + 1)
    BY <2>2, <2>3
  <2>5. OldestFirst(samples, kept)
    BY <2>1, <2>4, RestOldestFirst
  <2>6. Slice(kept) /\ Len(kept) = limit
    BY <2>1, <2>4 DEF IsRest
  <2> QED
    BY <2>5, <2>6
<1> QED
  <2> HIDE DEF n
  <2> QED
    BY <1>1, <1>2, <1>3

\* A sample that is inserted is held, and the others are held as before.
LEMMA InsertHeld ==
  ASSUME NEW samples, Slice(samples), NEW sample \in Samples,
         NEW new, new = Insert(samples, sample)
  PROVE  /\ Slice(new)
         /\ DOMAIN Held(new) = DOMAIN Held(samples) \cup {sample.at}
         /\ Held(new)[sample.at] = sample.value
         /\ \A t \in DOMAIN Held(samples) : t # sample.at => Held(new)[t] = Held(samples)[t]
<1>1. Slice(new) /\ Replaces(new, samples, sample)
  BY InsertKeepsSlice
<1>2. /\ \A t \in DOMAIN Held(new) : \E k \in 1..Len(new) : new[k].at = t
      /\ \A k \in 1..Len(new) :
           new[k].at \in DOMAIN Held(new) /\ Held(new)[new[k].at] = new[k].value
  BY ONLY <1>1, HeldOfSlice
<1>3. PICK j \in 1..Len(new) : new[j] = sample
  BY <1>1 DEF Replaces
<1>4. sample.at \in DOMAIN Held(new) /\ Held(new)[sample.at] = sample.value
  BY <1>2, <1>3
<1>5. ASSUME NEW t \in DOMAIN Held(samples), t # sample.at
      PROVE  t \in DOMAIN Held(new) /\ Held(new)[t] = Held(samples)[t]
  <2>1. PICK i \in 1..Len(samples) : samples[i].at = t /\ Held(samples)[t] = samples[i].value
    BY HeldOfSlice
  <2>2. PICK k \in 1..Len(new) : new[k] = samples[i]
    BY <1>1, <1>5, <2>1 DEF Replaces
  <2> QED
    BY <1>2, <2>1, <2>2
<1>6. ASSUME NEW t \in DOMAIN Held(new), t # sample.at PROVE t \in DOMAIN Held(samples)
  <2>1. PICK k \in 1..Len(new) : new[k].at = t
    BY <1>2
  <2>2. PICK i \in 1..Len(samples) : new[k] = samples[i]
    BY <1>1, <1>6, <2>1 DEF Replaces
  <2> QED
    BY <2>1, <2>2, HeldOfSlice
<1> QED
  BY <1>1, <1>4, <1>5, <1>6

Remaining(all, drops) == [k \in Keys |-> Drop(all[k], drops[k])]

\* What dropping samples from the front of every slice leaves.
LEMMA DropHeld ==
  ASSUME NEW all, \A k \in Keys : Slice(all[k]),
         NEW drops, \A k \in Keys : drops[k] \in 0..Len(all[k]),
         NEW after, after = Remaining(all, drops),
         NEW k \in Keys
  PROVE  /\ Slice(after[k]) /\ Len(after[k]) = Len(all[k]) - drops[k]
         /\ OldestFirst(all[k], after[k])
         /\ \A i \in 1..Len(all[k]) : all[k][i].at \in DOMAIN Held(after[k]) <=> i > drops[k]
<1> DEFINE n == Len(all[k])
           d == drops[k]
<1>1. n \in Nat /\ Slice(all[k]) /\ d \in 0..n
  BY HeldOfSlice
<1>2. d + 1 \in 1..(n + 1) /\ n - (d + 1) + 1 = n - d /\ \A i \in 1..n : i >= d + 1 <=> i > d
  <2> HIDE DEF n, d
  <2> QED
    BY <1>1
<1>3. after[k] = SubSeq(all[k], d + 1, n)
  BY DEF Remaining, Drop
<1>4. IsRest(SubSeq(all[k], d + 1, n), all[k], d + 1)
  BY <1>1, <1>2, RestOfSlice DEF IsRest
<1>5. IsRest(after[k], all[k], d + 1)
  BY <1>3, <1>4
<1>6. OldestFirst(all[k], after[k])
      /\ \A i \in 1..n : all[k][i].at \in DOMAIN Held(after[k]) <=> i >= d + 1
  <2> HIDE DEF n, d
  <2>1. Slice(all[k]) /\ d + 1 \in 1..(Len(all[k]) + 1)
    BY <1>1, <1>2 DEF n
  <2> QED
    BY ONLY <2>1, <1>5, RestOldestFirst DEF n
<1> QED
  BY <1>2, <1>5, <1>6 DEF IsRest

\* As many samples go as are dropped.
LEMMA DropTotal ==
  ASSUME NEW all, \A k \in Keys : Slice(all[k]),
         NEW drops, \A k \in Keys : drops[k] \in 0..Len(all[k]),
         NEW after, after = Remaining(all, drops)
  PROVE  /\ Total(all) = Count([k \in Keys |-> 1..drops[k]]) + Total(after)
         /\ Count([k \in Keys |-> 1..drops[k]]) \in Nat /\ Total(after) \in Nat
<1> DEFINE of == [k \in Keys |-> DOMAIN all[k]]
           gone == [k \in Keys |-> 1..drops[k]]
           left == [k \in Keys |-> (drops[k] + 1)..Len(all[k])]
           now == [k \in Keys |-> DOMAIN after[k]]
           shift == [k \in Keys |-> [i \in DOMAIN after[k] |-> i + drops[k]]]
<1>1. ASSUME NEW k \in Keys
      PROVE  /\ DOMAIN all[k] = 1..Len(all[k]) /\ Len(all[k]) \in Nat
             /\ drops[k] \in 0..Len(all[k])
             /\ DOMAIN after[k] = 1..(Len(all[k]) - drops[k])
  <2>1. Slice(after[k]) /\ Len(after[k]) = Len(all[k]) - drops[k]
    BY DropHeld
  <2>2. DOMAIN after[k] = 1..Len(after[k])
    BY ONLY <2>1, HeldOfSlice
  <2>3. Slice(all[k])
    OBVIOUS
  <2>4. DOMAIN all[k] = 1..Len(all[k]) /\ Len(all[k]) \in Nat
    BY ONLY <2>3, HeldOfSlice
  <2> QED
    BY <2>1, <2>2, <2>4
<1>2. ASSUME NEW k \in Keys
      PROVE  /\ IsFiniteSet(of[k]) /\ of[k] = gone[k] \cup left[k]
             /\ gone[k] \cap left[k] = {}
  <2>1. IsFiniteSet(1..Len(all[k]))
    BY <1>1, FS_Interval
  <2>2. PICK n \in Nat, d \in Nat : n = Len(all[k]) /\ d = drops[k] /\ d <= n
    BY <1>1
  <2>3. 1..n = 1..d \cup (d + 1)..n /\ 1..d \cap (d + 1)..n = {}
    BY <2>2
  <2>4. of[k] = 1..n /\ gone[k] = 1..d /\ left[k] = (d + 1)..n
    BY <1>1, <2>2
  <2> QED
    BY <2>1, <2>2, <2>3, <2>4
<1>3. ASSUME NEW k \in Keys
      PROVE  IsFiniteSet(now[k]) /\ shift[k] \in Bijection(now[k], left[k])
  <2>1. PICK n \in Nat, d \in Nat : n = Len(all[k]) /\ d = drops[k] /\ d <= n
    BY <1>1
  <2>2. now[k] = 1..(n - d) /\ left[k] = (d + 1)..n /\ shift[k] = [i \in 1..(n - d) |-> i + d]
    <3>1. DOMAIN after[k] = 1..(n - d)
      BY <1>1, <2>1
    <3>2. shift[k] = [i \in DOMAIN after[k] |-> i + d]
      BY <2>1
    <3> QED
      BY <2>1, <3>1, <3>2
  <2>3. IsFiniteSet(1..(n - d))
    <3>1. n - d \in Int /\ 1 \in Int
      BY <2>1
    <3> QED
      BY ONLY <3>1, FS_Interval
  <2> DEFINE f == [i \in 1..(n - d) |-> i + d]
  <2>4. f \in [1..(n - d) -> (d + 1)..n]
    BY <2>1
  <2>5. \A i, j \in 1..(n - d) : f[i] = f[j] => i = j
    BY <2>1
  <2>6. \A l \in (d + 1)..n : l - d \in 1..(n - d) /\ f[l - d] = l
    BY <2>1
  <2> HIDE DEF f
  <2>7. f \in Bijection(1..(n - d), (d + 1)..n)
    BY <2>4, <2>5, <2>6 DEF Bijection, Injection, Surjection, IsInjective
  <2> QED
    BY <2>2, <2>3, <2>7 DEF f
<1>4. Total(all) = Count(of) /\ Total(after) = Count(now)
  BY DEF Total
<1> HIDE DEF of, gone, left, now, shift
<1>5. Count(of) = Count(gone) + Count(left) /\ Count(gone) \in Nat /\ Count(left) \in Nat
  BY <1>2, CountSplit
<1>6. Count(left) = Count(now)
  BY <1>3, CountRenamed
<1> QED
  BY <1>4, <1>5, <1>6 DEF gone

\* Dropping the globally oldest sample works as long as there is one: for every n up to
\* the total, n drops exist.
LEMMA DropsExist ==
  ASSUME NEW all, \A k \in Keys : Slice(all[k]), NEW n \in Nat, n <= Total(all)
  PROVE  Drops(all, n) # {}
<1> DEFINE T == {m \in Nat : m <= Total(all) /\ Drops(all, m) = {}}
<1>0. Total(all) \in Nat
  BY TotalOfSlices
<1>a. \A k \in Keys : Len(all[k]) \in Nat /\ DOMAIN all[k] = 1..Len(all[k])
  BY HeldOfSlice
<1>1. T = {}
  <2> SUFFICES ASSUME T # {} PROVE FALSE
    OBVIOUS
  <2>1. PICK m \in T : \A j \in T : m <= j
    <3>1. T \subseteq Nat
      OBVIOUS
    <3> HIDE DEF T
    <3> QED
      BY <3>1, LeastNatural
  <2>2. m # 0
    <3> DEFINE none == [k \in Keys |-> 0]
    <3>1. none \in [Keys -> 0..0] /\ \A k \in Keys : none[k] <= Len(all[k])
      BY <1>a
    <3>2. OldestGo(all, none)
      BY DEF OldestGo
    <3>3. Count([k \in Keys |-> 1..none[k]]) = 0
      <4> DEFINE of == [k \in Keys |-> 1..none[k]]
      <4>1. \A k \in Keys : of[k] = {}
        OBVIOUS
      <4> HIDE DEF of
      <4>2. Entries(of) = {}
        <5> SUFFICES ASSUME NEW p \in Entries(of) PROVE FALSE
          OBVIOUS
        <5>1. PICK k \in Keys : \E x \in of[k] : p = <<k, x>>
          BY EntriesMembers
        <5> QED
          BY <4>1, <5>1
      <4>3. Count(of) = 0
        BY <4>2, FS_EmptySet DEF Count, Entries
      <4> QED
        BY <4>3 DEF of
    <3> HIDE DEF none
    <3>4. none \in Drops(all, 0)
      BY <3>1, <3>2, <3>3 DEF Drops
    <3> QED
      BY <2>1, <3>4
  <2>3. m \in Nat /\ m - 1 \in Nat /\ m <= Total(all) /\ m - 1 <= Total(all) /\ ~(m <= m - 1)
    BY <1>0, <2>1, <2>2
  <2>4. Drops(all, m - 1) # {}
    BY <2>1, <2>3
  <2>5. PICK d \in Drops(all, m - 1) : TRUE
    BY <2>4
  <2>6. /\ d \in [Keys -> 0..(m - 1)] /\ \A k \in Keys : d[k] <= Len(all[k])
        /\ Count([k \in Keys |-> 1..d[k]]) = m - 1
        /\ OldestGo(all, d)
    BY <2>5 DEF Drops
  <2>7. \A k \in Keys : d[k] \in Nat /\ d[k] \in 0..Len(all[k])
    BY <1>a, <2>3, <2>6
  <2> DEFINE Left == {k \in Keys : d[k] < Len(all[k])}
             Heads == {all[k][d[k] + 1].at : k \in Left}
  <2> HIDE DEF T
  \* Some sample is left, for fewer were dropped than there are.
  <2>8. Left # {}
    <3> SUFFICES ASSUME Left = {} PROVE FALSE
      OBVIOUS
    <3>1. \A k \in Keys : d[k] = Len(all[k])
      BY <1>a, <2>7
    <3>2. [k \in Keys |-> 1..d[k]] = [k \in Keys |-> DOMAIN all[k]]
      BY <1>a, <3>1
    <3>3. Total(all) = m - 1
      BY <2>6, <3>2 DEF Total
    <3> QED
      BY <2>3, <3>3
  <2>9. \A k \in Left : d[k] + 1 \in 1..Len(all[k])
    BY <1>a, <2>7
  <2>10. \A k \in Keys : \A i \in 1..Len(all[k]) : all[k][i].at \in Nat
    <3> TAKE k \in Keys
    <3>1. Slice(all[k])
      OBVIOUS
    <3>2. \A i \in 1..Len(all[k]) : all[k][i] \in Samples
      BY ONLY <3>1, HeldOfSlice
    <3>3. Times \subseteq Nat
      BY StoreAssumption DEF Times
    <3> QED
      BY <3>2, <3>3 DEF Samples
  <2>11. Heads # {} /\ Heads \subseteq Nat
    BY <2>8, <2>9, <2>10
  <2>12. PICK oldest \in Heads : \A t \in Heads : oldest <= t
    <3> HIDE DEF Heads
    <3> QED
      BY <2>11, LeastNatural
  <2>13. PICK key \in Left : oldest = all[key][d[key] + 1].at
    BY <2>12
  \* It is not younger than anything that is left.
  <2>14. ASSUME NEW l \in Keys, NEW j \in (d[l] + 1)..Len(all[l])
         PROVE  all[key][d[key] + 1].at <= all[l][j].at
    <3>1. l \in Left /\ j \in 1..Len(all[l]) /\ d[l] + 1 \in 1..Len(all[l]) /\ d[l] + 1 <= j
      BY <1>a, <2>7, <2>14
    <3>2. oldest <= all[l][d[l] + 1].at
      BY <2>12, <3>1
    <3>3. all[l][d[l] + 1].at <= all[l][j].at
      <4>1. Slice(all[l])
        OBVIOUS
      <4>2. \A x, y \in 1..Len(all[l]) : x < y => all[l][x].at < all[l][y].at
        BY ONLY <4>1, HeldOfSlice
      <4>3. CASE d[l] + 1 = j
        BY <2>10, <3>1, <4>3
      <4>4. CASE d[l] + 1 < j
        BY <2>10, <3>1, <4>2, <4>4
      <4> QED
        BY <2>7, <3>1, <4>3, <4>4
    <3>4. oldest \in Nat
      BY <2>11, <2>12
    <3>5. all[l][d[l] + 1].at \in Nat /\ all[l][j].at \in Nat
      BY <2>10, <3>1
    <3>6. oldest <= all[l][j].at
      BY <3>2, <3>3, <3>4, <3>5
    <3> QED
      BY <2>13, <3>6
  <2> HIDE DEF Heads
  <2>15. /\ key \in Keys /\ d[key] < Len(all[key]) /\ d[key] \in Nat /\ Len(all[key]) \in Nat
    BY <1>a, <2>7, <2>13
  <2> DEFINE e == [d EXCEPT ![key] = @ + 1]
  <2>16. \A k \in Keys : e[k] = IF k = key THEN d[key] + 1 ELSE d[k]
    BY <2>6, <2>15
  <2>17. e \in [Keys -> 0..m] /\ \A k \in Keys : e[k] <= Len(all[k])
    <3>1. \A k \in Keys : e[k] \in 0..m /\ e[k] <= Len(all[k])
      <4> TAKE k \in Keys
      <4>1. d[k] \in 0..(m - 1) /\ d[k] <= Len(all[k]) /\ d[key] \in 0..(m - 1)
        BY <2>6, <2>15
      <4> QED
        BY <2>3, <2>15, <2>16, <4>1
    <3> QED
      BY <2>6, <3>1
  <2>18. Count([k \in Keys |-> 1..e[k]]) = m
    <3> DEFINE of == [k \in Keys |-> 1..d[k]]
               to == [k \in Keys |-> 1..e[k]]
               pair == <<key, d[key] + 1>>
    <3>1. \A k \in Keys : IsFiniteSet(of[k]) /\ IsFiniteSet(to[k])
      <4> TAKE k \in Keys
      <4>1. d[k] \in Int /\ e[k] \in Int /\ 1 \in Int
        BY <2>7, <2>15, <2>16
      <4>2. IsFiniteSet(1..d[k]) /\ IsFiniteSet(1..e[k])
        BY ONLY <4>1, FS_Interval
      <4> QED
        BY <4>2
    <3>2. \A k \in Keys : to[k] = IF k = key THEN of[k] \cup {d[key] + 1} ELSE of[k]
      <4> HIDE DEF e
      <4>1. 1..(d[key] + 1) = 1..d[key] \cup {d[key] + 1}
        BY <2>15
      <4> QED
        BY <2>16, <4>1
    <3>3. d[key] + 1 \notin of[key]
      BY <2>15
    <3> HIDE DEF of, to
    <3>4. Entries(to) = Entries(of) \cup {pair}
      <4>1. ASSUME NEW p \in Entries(to) PROVE p \in Entries(of) \cup {pair}
        <5>1. PICK k \in Keys : \E x \in to[k] : p = <<k, x>>
          BY EntriesMembers
        <5>2. PICK x \in to[k] : p = <<k, x>>
          BY <5>1
        <5>3. x \in of[k] \/ (k = key /\ x = d[key] + 1)
          BY <3>2
        <5> QED
          BY <5>2, <5>3, EntriesMembers
      <4>2. ASSUME NEW p \in Entries(of) PROVE p \in Entries(to)
        <5>1. PICK k \in Keys : \E x \in of[k] : p = <<k, x>>
          BY EntriesMembers
        <5>2. PICK x \in of[k] : p = <<k, x>>
          BY <5>1
        <5>3. x \in to[k]
          BY <3>2
        <5> QED
          BY <5>2, <5>3, EntriesMembers
      <4>3. pair \in Entries(to)
        <5>1. d[key] + 1 \in to[key]
          BY <2>15, <3>2
        <5> QED
          BY <2>15, <5>1, EntriesMembers
      <4> QED
        BY <4>1, <4>2, <4>3
    <3>5. pair \notin Entries(of)
      BY <3>3, EntriesMembers
    <3>6. /\ IsFiniteSet(Entries(of)) /\ Count(of) = Cardinality(Entries(of))
          /\ Count(to) = Cardinality(Entries(to))
      BY <3>1, EntriesFinite
    <3>7. Count(to) = Count(of) + 1
      <4>1. Cardinality(Entries(of) \cup {pair}) = Cardinality(Entries(of)) + 1
        <5> HIDE DEF pair
        <5> QED
          BY <3>5, <3>6, FS_AddElement
      <4> QED
        BY <3>4, <3>6, <4>1
    <3>8. Count(of) = m - 1
      BY <2>6 DEF of
    <3>9. Count(to) = m
      BY <2>3, <3>7, <3>8
    <3> QED
      BY <3>9 DEF to
  <2>19. OldestGo(all, e)
    <3> SUFFICES ASSUME NEW k \in Keys, NEW l \in Keys,
                        NEW i \in 1..e[k], NEW j \in (e[l] + 1)..Len(all[l])
                 PROVE  all[k][i].at <= all[l][j].at
      BY DEF OldestGo
    <3> HIDE DEF e
    <3>1. j \in (d[l] + 1)..Len(all[l])
      BY <1>a, <2>7, <2>15, <2>16
    <3>2. CASE i \in 1..d[k]
      BY <2>6, <3>1, <3>2 DEF OldestGo
    <3>3. CASE i \notin 1..d[k]
      <4>1. k = key /\ i = d[key] + 1
        BY <2>7, <2>15, <2>16, <3>3
      <4> QED
        BY <2>14, <3>1, <4>1
    <3> QED
      BY <3>2, <3>3
  <2> HIDE DEF e
  <2>20. e \in Drops(all, m)
    BY <2>17, <2>18, <2>19 DEF Drops
  <2> QED
    BY <2>1, <2>20 DEF T
<1> QED
  BY <1>1

Longest(before) == [k \in Keys |-> Newest(before[k], MaxPerSeries)]

\* The limits can always be enforced, and leave nothing beyond them.
LEMMA LimitsCases ==
  ASSUME NEW before, \A k \in Keys : Slice(before[k])
  PROVE  /\ EnforceSampleLimits(before) # {}
         /\ \A after \in EnforceSampleLimits(before) :
              /\ after = [k \in Keys |-> after[k]]
              /\ \/ after = Longest(before) /\ Total(after) <= MaxTotal
                 \/ /\ Total(after) = MaxTotal
                    /\ \E drops : /\ \A k \in Keys : drops[k] \in 0..Len(Longest(before)[k])
                                  /\ OldestGo(Longest(before), drops)
                                  /\ after = Remaining(Longest(before), drops)
<1> DEFINE all == Longest(before)
           excess == Total(all) - MaxTotal
<1>1. MaxPerSeries \in Nat \ {0} /\ MaxTotal \in Nat
  BY StoreAssumption
<1>2. \A k \in Keys : Slice(all[k])
  <2> TAKE k \in Keys
  <2>1. Slice(before[k])
    OBVIOUS
  <2>2. Slice(Newest(before[k], MaxPerSeries))
    BY ONLY <1>1, <2>1, NewestHeld
  <2> QED
    BY <2>2 DEF Longest
<1> HIDE DEF all
<1>3. Total(all) \in Nat /\ \A k \in Keys : Len(all[k]) \in Nat
  BY <1>2, TotalOfSlices, HeldOfSlice
<1>4. CASE excess <= 0
  <2>1. EnforceSampleLimits(before) = {all}
    BY <1>4 DEF EnforceSampleLimits, all, Longest
  <2>2. Total(all) <= MaxTotal
    BY <1>1, <1>3, <1>4
  <2>3. all = [k \in Keys |-> all[k]]
    BY DEF all, Longest
  <2> QED
    BY <2>1, <2>2, <2>3 DEF all
<1>5. CASE ~(excess <= 0)
  <2>1. EnforceSampleLimits(before) = {Remaining(all, drops) : drops \in Drops(all, excess)}
    BY <1>5 DEF EnforceSampleLimits, all, Longest, Remaining
  <2>2. excess \in Nat /\ excess <= Total(all)
    BY <1>1, <1>3, <1>5
  <2> HIDE DEF excess
  <2>3. Drops(all, excess) # {}
    BY <1>2, <2>2, DropsExist
  <2>4. ASSUME NEW after \in EnforceSampleLimits(before)
        PROVE  /\ Total(after) = MaxTotal
               /\ after = [k \in Keys |-> after[k]]
               /\ \E drops : /\ \A k \in Keys : drops[k] \in 0..Len(all[k])
                             /\ OldestGo(all, drops)
                             /\ after = Remaining(all, drops)
    <3>1. PICK drops \in Drops(all, excess) : after = Remaining(all, drops)
      BY <2>1
    <3>2. /\ drops \in [Keys -> 0..excess] /\ \A k \in Keys : drops[k] <= Len(all[k])
          /\ Count([k \in Keys |-> 1..drops[k]]) = excess
          /\ OldestGo(all, drops)
      BY <3>1 DEF Drops
    <3>3. \A k \in Keys : drops[k] \in 0..Len(all[k])
      BY <1>3, <2>2, <3>2
    <3>4. Total(all) = Count([k \in Keys |-> 1..drops[k]]) + Total(after) /\ Total(after) \in Nat
      BY <1>2, <3>1, <3>3, DropTotal
    <3>5. Total(after) = MaxTotal
      BY <1>1, <1>3, <3>2, <3>4 DEF excess
    <3>6. after = [k \in Keys |-> after[k]]
      BY <3>1 DEF Remaining
    <3> QED
      BY <3>1, <3>2, <3>3, <3>5, <3>6
  <2>5. EnforceSampleLimits(before) # {}
    BY <2>1, <2>3
  <2> QED
    BY <2>4, <2>5 DEF all
<1> QED
  BY <1>4, <1>5

\* Whatever the limits take is older than all that is left of its series; its series
\* is full afterwards, or the store is and all it holds is as young.
LEMMA LimitsHeld ==
  ASSUME NEW before, \A k \in Keys : Slice(before[k]),
         NEW after \in EnforceSampleLimits(before)
  PROVE  /\ after = [k \in Keys |-> after[k]]
         /\ Total(after) <= MaxTotal
         /\ \A k \in Keys :
              /\ Slice(after[k]) /\ Len(after[k]) <= MaxPerSeries
              /\ OldestFirst(before[k], after[k])
              /\ \A gone \in DOMAIN Held(before[k]) \ DOMAIN Held(after[k]) :
                   \/ Len(after[k]) = MaxPerSeries
                   \/ /\ Total(after) = MaxTotal
                      /\ \A l \in Keys : \A t \in DOMAIN Held(after[l]) : t >= gone
<1> DEFINE all == Longest(before)
<1>1. MaxPerSeries \in Nat \ {0} /\ MaxTotal \in Nat
  BY StoreAssumption
<1>2. ASSUME NEW k \in Keys
      PROVE  /\ Slice(all[k]) /\ Len(all[k]) <= MaxPerSeries /\ OldestFirst(before[k], all[k])
             /\ DOMAIN Held(before[k]) # DOMAIN Held(all[k]) => Len(all[k]) = MaxPerSeries
  <2>1. Slice(before[k]) /\ all[k] = Newest(before[k], MaxPerSeries)
    BY DEF Longest
  <2> HIDE DEF all
  <2> QED
    BY ONLY <1>1, <2>1, NewestHeld
<1> HIDE DEF all
<1>3. CASE after = all /\ Total(after) <= MaxTotal
  <2>1. after = [k \in Keys |-> after[k]]
    BY LimitsCases
  <2> QED
    BY <1>2, <1>3, <2>1
<1>4. ASSUME Total(after) = MaxTotal, NEW drops, \A k \in Keys : drops[k] \in 0..Len(all[k]),
             OldestGo(all, drops), after = Remaining(all, drops),
             NEW k \in Keys
      PROVE  /\ Slice(after[k]) /\ Len(after[k]) <= MaxPerSeries
             /\ OldestFirst(before[k], after[k])
             /\ \A gone \in DOMAIN Held(before[k]) \ DOMAIN Held(after[k]) :
                  \/ Len(after[k]) = MaxPerSeries
                  \/ \A l \in Keys : \A t \in DOMAIN Held(after[l]) : t >= gone
  <2>1. \A l \in Keys : Slice(all[l])
    BY <1>2
  <2>2. ASSUME NEW l \in Keys
        PROVE  /\ Slice(after[l]) /\ Len(after[l]) = Len(all[l]) - drops[l]
               /\ OldestFirst(all[l], after[l])
               /\ \A i \in 1..Len(all[l]) :
                    all[l][i].at \in DOMAIN Held(after[l]) <=> i > drops[l]
    BY <1>4, <2>1, DropHeld
  <2>3. ASSUME NEW l \in Keys
        PROVE  /\ Len(all[l]) \in Nat /\ drops[l] \in Nat /\ DOMAIN Held(all[l]) \subseteq Int
               /\ \A t \in DOMAIN Held(all[l]) : \E i \in 1..Len(all[l]) : all[l][i].at = t
               /\ \A i \in 1..Len(all[l]) : all[l][i].at \in DOMAIN Held(all[l])
    <3>1. Slice(all[l])
      BY <2>1
    <3>2. /\ Len(all[l]) \in Nat /\ DOMAIN Held(all[l]) \subseteq Int
          /\ \A t \in DOMAIN Held(all[l]) : \E i \in 1..Len(all[l]) : all[l][i].at = t
          /\ \A i \in 1..Len(all[l]) : all[l][i].at \in DOMAIN Held(all[l])
      BY ONLY <3>1, HeldOfSlice, HeldTypes
    <3> QED
      BY <1>4, <3>2
  <2>4. OldestFirst(before[k], after[k])
    BY <1>2, <2>2, OldestFirstTransitive
  <2>5. Len(after[k]) <= MaxPerSeries
    BY <1>1, <1>2, <2>2, <2>3
  \* What is dropped is as old as all that is left of any series.
  <2>6. ASSUME NEW i \in 1..drops[k], NEW l \in Keys, NEW t \in DOMAIN Held(after[l])
        PROVE  /\ all[k][i].at <= t
               /\ t \in DOMAIN Held(all[l]) /\ i \in 1..Len(all[k])
    <3>1. t \in DOMAIN Held(all[l])
      BY <2>2 DEF OldestFirst
    <3>2. PICK j \in 1..Len(all[l]) : all[l][j].at = t
      BY <2>3, <3>1
    <3>3. j > drops[l]
      BY <2>2, <3>2
    <3>4. j \in (drops[l] + 1)..Len(all[l])
      BY <2>3, <3>3
    <3>5. all[k][i].at <= all[l][j].at
      BY <1>4, <3>4 DEF OldestGo
    <3>6. i \in 1..Len(all[k])
      BY <1>4, <2>3
    <3> QED
      BY <3>1, <3>2, <3>5, <3>6
  <2>7. ASSUME NEW gone \in DOMAIN Held(before[k]) \ DOMAIN Held(after[k]),
               Len(after[k]) # MaxPerSeries,
               NEW l \in Keys, NEW t \in DOMAIN Held(after[l])
        PROVE  t >= gone
    <3>0. t \in Int /\ gone \in Int
      <4>1. t \in DOMAIN Held(all[l]) /\ DOMAIN Held(before[k]) \subseteq Int
        BY <2>2, HeldTypes DEF OldestFirst
      <4> QED
        BY <2>3, <4>1
    <3>1. CASE gone \in DOMAIN Held(all[k])
      <4>1. PICK i \in 1..Len(all[k]) : all[k][i].at = gone
        BY <2>3, <3>1
      <4>2. ~(i > drops[k])
        BY <2>2, <2>7, <4>1
      <4>3. i \in 1..drops[k]
        BY <2>3, <4>2
      <4>4. all[k][i].at <= t
        BY <2>6, <4>3
      <4> QED
        BY <3>0, <4>1, <4>4
    <3>2. CASE gone \notin DOMAIN Held(all[k])
      <4>1. Len(all[k]) = MaxPerSeries
        BY <1>2, <3>2
      <4>2. drops[k] # 0
        BY <1>1, <2>2, <2>7, <4>1
      <4>3. 1 \in 1..drops[k] /\ 1 \in 1..Len(all[k])
        BY <1>1, <2>3, <4>1, <4>2
      <4>4. all[k][1].at <= t /\ all[k][1].at \in DOMAIN Held(all[k])
        BY <2>3, <2>6, <4>3
      <4>5. gone < all[k][1].at /\ all[k][1].at \in Int
        BY <1>2, <2>3, <3>2, <4>4 DEF OldestFirst
      <4> QED
        BY <3>0, <4>4, <4>5
    <3> QED
      BY <3>1, <3>2
  <2> QED
    BY <2>2, <2>4, <2>5, <2>7
<1>5. CASE /\ Total(after) = MaxTotal
           /\ \E drops : /\ \A k \in Keys : drops[k] \in 0..Len(all[k])
                         /\ OldestGo(all, drops)
                         /\ after = Remaining(all, drops)
  <2>1. PICK drops : /\ \A k \in Keys : drops[k] \in 0..Len(all[k])
                     /\ OldestGo(all, drops)
                     /\ after = Remaining(all, drops)
    BY <1>5
  <2>2. after = [k \in Keys |-> after[k]]
    BY LimitsCases
  <2>3. Total(after) <= MaxTotal
    BY <1>1, <1>5
  <2> QED
    BY <1>4, <1>5, <2>1, <2>2, <2>3
<1> QED
  BY <1>3, <1>5, LimitsCases DEF all

-----------------------------------------------------------------------------
(* A critical section.                                                     *)

\* What pruning by age and then enforcing the limits make of `before`: what goes is the
\* oldest of its series, and goes for its age, while a later sample is there, or for
\* want of room.
Section(before, after, oldest) ==
  /\ after \in [Keys -> Seq(Samples)]
  /\ Total(after) <= MaxTotal
  /\ \A k \in Keys :
       /\ Slice(after[k]) /\ Len(after[k]) <= MaxPerSeries
       /\ OldestFirst(before[k], after[k])
       /\ \A gone \in DOMAIN Held(before[k]) \ DOMAIN Held(after[k]) :
            \/ gone < oldest /\ \E later \in DOMAIN Held(before[k]) : later > gone
            \/ Len(after[k]) = MaxPerSeries
            \/ /\ Total(after) = MaxTotal
               /\ \A l \in Keys : \A t \in DOMAIN Held(after[l]) : t >= gone
       /\ \A t \in DOMAIN Held(after[k]) : t < oldest => DOMAIN Held(after[k]) = {t}

\* Every critical section comes to an end, and that is what it does.
LEMMA CriticalSection ==
  ASSUME NEW before, \A k \in Keys : Slice(before[k]), NEW oldest \in Int
  PROVE  /\ EnforceSampleLimits(PruneAll(before, oldest)) # {}
         /\ \A after \in EnforceSampleLimits(PruneAll(before, oldest)) :
              Section(before, after, oldest)
<1> DEFINE pruned == PruneAll(before, oldest)
<1>1. ASSUME NEW k \in Keys
      PROVE  /\ Slice(pruned[k])
             /\ OldestFirst(before[k], pruned[k])
             /\ \A gone \in DOMAIN Held(before[k]) \ DOMAIN Held(pruned[k]) :
                  gone < oldest /\ \E later \in DOMAIN Held(before[k]) : later > gone
             /\ \A t \in DOMAIN Held(pruned[k]) : t < oldest => DOMAIN Held(pruned[k]) = {t}
  <2>1. Slice(before[k]) /\ pruned[k] = PruneSamples(before[k], oldest)
    BY DEF PruneAll
  <2>2. oldest \in Int
    OBVIOUS
  <2> HIDE DEF pruned
  <2> QED
    BY ONLY <2>1, <2>2, PruneHeld
<1> HIDE DEF pruned
<1>2. EnforceSampleLimits(pruned) # {}
  BY <1>1, LimitsCases
<1>3. ASSUME NEW after \in EnforceSampleLimits(pruned)
      PROVE  Section(before, after, oldest)
  <2>1. /\ after = [k \in Keys |-> after[k]]
        /\ Total(after) <= MaxTotal
        /\ \A k \in Keys :
             /\ Slice(after[k]) /\ Len(after[k]) <= MaxPerSeries
             /\ OldestFirst(pruned[k], after[k])
             /\ \A gone \in DOMAIN Held(pruned[k]) \ DOMAIN Held(after[k]) :
                  \/ Len(after[k]) = MaxPerSeries
                  \/ /\ Total(after) = MaxTotal
                     /\ \A l \in Keys : \A t \in DOMAIN Held(after[l]) : t >= gone
    BY <1>1, LimitsHeld
  <2>2. after \in [Keys -> Seq(Samples)]
    BY <2>1 DEF Slice
  <2>3. ASSUME NEW k \in Keys
        PROVE  /\ OldestFirst(before[k], after[k])
               /\ DOMAIN Held(after[k]) \subseteq DOMAIN Held(pruned[k])
    BY <1>1, <2>1, OldestFirstTransitive DEF OldestFirst
  <2>4. ASSUME NEW k \in Keys, NEW gone \in DOMAIN Held(before[k]) \ DOMAIN Held(after[k])
        PROVE  \/ gone < oldest /\ \E later \in DOMAIN Held(before[k]) : later > gone
               \/ Len(after[k]) = MaxPerSeries
               \/ /\ Total(after) = MaxTotal
                  /\ \A l \in Keys : \A t \in DOMAIN Held(after[l]) : t >= gone
    <3>1. CASE gone \in DOMAIN Held(pruned[k])
      BY <2>1, <2>4, <3>1
    <3>2. CASE gone \notin DOMAIN Held(pruned[k])
      BY <1>1, <2>4, <3>2
    <3> QED
      BY <3>1, <3>2
  <2>5. ASSUME NEW k \in Keys, NEW t \in DOMAIN Held(after[k]), t < oldest
        PROVE  DOMAIN Held(after[k]) = {t}
    <3>1. t \in DOMAIN Held(pruned[k]) /\ DOMAIN Held(pruned[k]) = {t}
      BY <1>1, <2>3, <2>5
    <3> QED
      BY <2>3, <2>5, <3>1
  <2> QED
    BY <2>1, <2>2, <2>3, <2>4, <2>5 DEF Section
<1> QED
  BY <1>2, <1>3 DEF pruned

-----------------------------------------------------------------------------
(* Reasons stand.                                                          *)

\* No critical section takes away the reason for which a sample is gone.
LEMMA ReasonsStand ==
  ASSUME NEW all, NEW before, NEW after, NEW oldest \in Int, clock \in Times,
         oldest <= Expiry(clock),
         \A k \in Keys : /\ Slice(all[k]) /\ Len(all[k]) <= MaxPerSeries
                         /\ DOMAIN Held(all[k]) \subseteq DOMAIN Held(before[k]),
         Section(before, after, oldest),
         NEW key \in Keys, NEW t \in Int, GoneForAReason(all, key, t)
  PROVE  GoneForAReason(after, key, t)
<1>1. Expiry(clock) \in Int /\ MaxPerSeries \in Nat /\ MaxTotal \in Nat
  BY StoreAssumption DEF Expiry, Times
<1>2. ASSUME NEW k \in Keys
      PROVE  /\ Slice(all[k]) /\ Len(all[k]) \in Nat
             /\ DOMAIN all[k] = 1..Len(all[k]) /\ IsFiniteSet(DOMAIN all[k])
             /\ IsFiniteSet(DOMAIN Held(all[k]))
             /\ Cardinality(DOMAIN Held(all[k])) = Len(all[k])
             /\ DOMAIN Held(all[k]) \subseteq Int
  <2>1. Slice(all[k])
    OBVIOUS
  <2> QED
    BY ONLY <2>1, HeldOfSlice, HeldTypes, TimesOfSlice
<1>3. ASSUME NEW k \in Keys
      PROVE  /\ Slice(after[k]) /\ Len(after[k]) \in Nat /\ Len(after[k]) <= MaxPerSeries
             /\ DOMAIN after[k] = 1..Len(after[k]) /\ IsFiniteSet(DOMAIN after[k])
             /\ IsFiniteSet(DOMAIN Held(after[k]))
             /\ Cardinality(DOMAIN Held(after[k])) = Len(after[k])
             /\ DOMAIN Held(after[k]) \subseteq Int
  <2>1. Slice(after[k]) /\ Len(after[k]) <= MaxPerSeries
    BY DEF Section
  <2> QED
    BY ONLY <2>1, HeldOfSlice, HeldTypes, TimesOfSlice
<1>4. ASSUME NEW k \in Keys, NEW r \in DOMAIN Held(all[k]) \ DOMAIN Held(after[k])
      PROVE  /\ \/ r < oldest
                \/ Len(after[k]) = MaxPerSeries
                \/ /\ Total(after) = MaxTotal
                   /\ \A l \in Keys : \A u \in DOMAIN Held(after[l]) : u >= r
             /\ \A u \in DOMAIN Held(after[k]) : r < u
  <2>1. r \in DOMAIN Held(before[k]) \ DOMAIN Held(after[k])
    BY <1>4
  <2> QED
    BY <2>1 DEF Section, OldestFirst
<1>5. ASSUME NEW k \in Keys, DOMAIN Held(all[k]) \subseteq DOMAIN Held(after[k])
      PROVE  /\ Len(all[k]) <= Len(after[k])
             /\ Len(all[k]) = Len(after[k]) => DOMAIN Held(all[k]) = DOMAIN Held(after[k])
  <2>1. /\ Cardinality(DOMAIN Held(all[k])) <= Cardinality(DOMAIN Held(after[k]))
        /\ Cardinality(DOMAIN Held(all[k])) = Cardinality(DOMAIN Held(after[k]))
           => DOMAIN Held(all[k]) = DOMAIN Held(after[k])
    BY <1>3, <1>5, FS_Subset
  <2> QED
    BY <1>2, <1>3, <2>1
<1>6. CASE t < Expiry(clock)
  BY <1>6 DEF GoneForAReason
\* The series of the sample is full: it stays full, or what made room says why.
<1>7. CASE Len(all[key]) = MaxPerSeries /\ \A u \in DOMAIN Held(all[key]) : u > t
  <2>1. CASE DOMAIN Held(all[key]) \subseteq DOMAIN Held(after[key])
    <3>1. Len(all[key]) = Len(after[key])
      BY <1>1, <1>3, <1>5, <1>7, <2>1
    <3>2. DOMAIN Held(all[key]) = DOMAIN Held(after[key])
      BY <1>5, <2>1, <3>1
    <3> QED
      BY <1>7, <3>1, <3>2 DEF GoneForAReason
  <2>2. ASSUME NEW r \in DOMAIN Held(all[key]), r \notin DOMAIN Held(after[key])
        PROVE  GoneForAReason(after, key, t)
    <3>1. r > t /\ r \in Int
      BY <1>2, <1>7
    <3>2. \A u \in DOMAIN Held(after[key]) : u > t
      BY <1>3, <1>4, <2>2, <3>1
    <3>3. CASE r < oldest
      <4>1. t < Expiry(clock)
        BY <1>1, <3>1, <3>3
      <4> QED
        BY <4>1 DEF GoneForAReason
    <3>4. CASE Len(after[key]) = MaxPerSeries
      BY <3>2, <3>4 DEF GoneForAReason
    <3>5. CASE /\ Total(after) = MaxTotal
               /\ \A l \in Keys : \A u \in DOMAIN Held(after[l]) : u >= r
      <4>1. ASSUME NEW l \in Keys, NEW u \in DOMAIN Held(after[l]) PROVE u >= t
        <5>1. u \in Int /\ u >= r
          BY <1>3, <3>5
        <5> QED
          BY <3>1, <5>1
      <4> QED
        BY <3>5, <4>1 DEF GoneForAReason
    <3> QED
      BY <1>4, <2>2, <3>3, <3>4, <3>5
  <2> QED
    BY <2>1, <2>2
\* The store is full: it stays full, or what made room says why.
<1>8. CASE /\ Total(all) = MaxTotal
           /\ \A l \in Keys : \A u \in DOMAIN Held(all[l]) : u >= t
  <2>1. ASSUME NEW k \in Keys, NEW r \in DOMAIN Held(all[k]), r \notin DOMAIN Held(after[k]),
               r < oldest
        PROVE  GoneForAReason(after, key, t)
    <3>0. r \in Int /\ r >= t
      BY <1>2, <1>8
    <3>1. t < Expiry(clock)
      BY <1>1, <2>1, <3>0
    <3> QED
      BY <3>1 DEF GoneForAReason
  <2>2. ASSUME NEW k \in Keys, NEW r \in DOMAIN Held(all[k]), r \notin DOMAIN Held(after[k]),
               Total(after) = MaxTotal,
               \A l \in Keys : \A u \in DOMAIN Held(after[l]) : u >= r
        PROVE  GoneForAReason(after, key, t)
    <3>1. r >= t /\ r \in Int
      BY <1>2, <1>8
    <3>2. ASSUME NEW l \in Keys, NEW u \in DOMAIN Held(after[l]) PROVE u >= t
      <4>1. u \in Int /\ u >= r
        BY <1>3, <2>2
      <4> QED
        BY <3>1, <4>1
    <3> QED
      BY <2>2, <3>2 DEF GoneForAReason
  <2>3. ASSUME \A k \in Keys : \A r \in DOMAIN Held(all[k]) :
                  r \notin DOMAIN Held(after[k]) => Len(after[k]) = MaxPerSeries
        PROVE  GoneForAReason(after, key, t)
    <3>1. ASSUME NEW k \in Keys PROVE Len(all[k]) <= Len(after[k])
      <4>1. CASE DOMAIN Held(all[k]) \subseteq DOMAIN Held(after[k])
        BY <1>5, <4>1
      <4>2. CASE ~(DOMAIN Held(all[k]) \subseteq DOMAIN Held(after[k]))
        BY <2>3, <4>2
      <4> QED
        BY <4>1, <4>2
    <3> DEFINE of == [k \in Keys |-> DOMAIN all[k]]
               more == [k \in Keys |-> DOMAIN after[k]]
    <3>2. \A k \in Keys : IsFiniteSet(more[k]) /\ of[k] \subseteq more[k]
      BY <1>2, <1>3, <3>1
    <3>3. Total(all) = Count(of) /\ Total(after) = Count(more)
      BY DEF Total
    <3> HIDE DEF of, more
    <3>4. /\ Count(of) \in Nat /\ Count(more) \in Nat /\ Count(of) <= Count(more)
          /\ (\E k \in Keys : of[k] # more[k]) => Count(of) < Count(more)
      BY <3>2, CountMonotone
    <3>5. Total(after) <= MaxTotal
      BY DEF Section
    <3>6. Total(after) = MaxTotal /\ \A k \in Keys : of[k] = more[k]
      BY <1>1, <1>8, <3>3, <3>4, <3>5
    <3>7. \A k \in Keys : Len(all[k]) = Len(after[k])
      <4> TAKE k \in Keys
      <4>1. 1..Len(all[k]) = 1..Len(after[k])
        BY <1>2, <1>3, <3>6 DEF of, more
      <4>2. Len(all[k]) \in Nat /\ Len(after[k]) \in Nat /\ Len(all[k]) <= Len(after[k])
        BY <1>2, <1>3, <3>1
      <4>3. Len(after[k]) \in 1..Len(after[k]) \/ Len(after[k]) = 0
        BY <4>2
      <4> QED
        BY <4>1, <4>2, <4>3
    <3>8. ASSUME NEW l \in Keys, NEW u \in DOMAIN Held(after[l]) PROVE u >= t
      <4>0. u \in Int
        BY <1>3
      <4>1. CASE DOMAIN Held(all[l]) \subseteq DOMAIN Held(after[l])
        <5>1. u \in DOMAIN Held(all[l])
          BY <1>5, <3>7, <4>1
        <5> QED
          BY <1>8, <5>1
      <4>2. ASSUME NEW r \in DOMAIN Held(all[l]), r \notin DOMAIN Held(after[l])
            PROVE  u >= t
        <5>1. r < u /\ r >= t /\ r \in Int
          BY <1>2, <1>4, <1>8, <4>2
        <5> QED
          BY <4>0, <5>1
      <4> QED
        BY <4>1, <4>2
    <3> QED
      BY <3>6, <3>8 DEF GoneForAReason
  <2> QED
    BY <1>4, <2>1, <2>2, <2>3
<1> QED
  BY <1>6, <1>7, <1>8 DEF GoneForAReason

-----------------------------------------------------------------------------
(* The invariant.                                                          *)

Fits(past) ==
  /\ \A k \in Keys : Cardinality(DOMAIN past[k]) <= MaxPerSeries
  /\ Count([k \in Keys |-> DOMAIN past[k]]) <= MaxTotal

\* `all` shows what became of `past`.
Shows(all, past) ==
  \A k \in Keys :
    LET held == Held(all[k])
        was == DOMAIN past[k]
    IN  /\ \A t \in DOMAIN held : t \in was /\ held[t] = past[k][t]
        /\ \A t \in was : t \in DOMAIN held \/ GoneForAReason(all, k, t)
        /\ Fits(past) /\ was # {} => Max(was) \in DOMAIN held

\* While no limit is reached nothing is gone for want of room.
LEMMA RoomLeft ==
  ASSUME NEW all, NEW past, Fits(past), NEW k \in Keys, NEW t,
         \A l \in Keys : /\ Slice(all[l]) /\ DOMAIN Held(all[l]) \subseteq DOMAIN past[l]
                         /\ IsFiniteSet(DOMAIN past[l]),
         t \in DOMAIN past[k], t \notin DOMAIN Held(all[k])
  PROVE  Len(all[k]) # MaxPerSeries /\ Total(all) # MaxTotal
<1>0. MaxPerSeries \in Nat /\ MaxTotal \in Nat
  BY StoreAssumption
<1>1. ASSUME Len(all[k]) = MaxPerSeries PROVE FALSE
  <2>1. Slice(all[k]) /\ IsFiniteSet(DOMAIN past[k])
    OBVIOUS
  <2>2. Cardinality(DOMAIN Held(all[k])) = MaxPerSeries
    BY <1>1, <2>1, TimesOfSlice
  <2>3. /\ Cardinality(DOMAIN Held(all[k])) <= Cardinality(DOMAIN past[k])
        /\ Cardinality(DOMAIN past[k]) = Cardinality(DOMAIN Held(all[k]))
           => DOMAIN past[k] = DOMAIN Held(all[k])
    BY <2>1, FS_Subset
  <2>4. Cardinality(DOMAIN past[k]) \in Nat
    BY <2>1, FS_CardinalityType
  <2>5. Cardinality(DOMAIN past[k]) <= MaxPerSeries
    BY DEF Fits
  <2>6. Cardinality(DOMAIN past[k]) = Cardinality(DOMAIN Held(all[k]))
    BY <1>0, <2>2, <2>3, <2>4, <2>5
  <2> QED
    BY <2>3, <2>6
<1>2. ASSUME Total(all) = MaxTotal PROVE FALSE
  <2> DEFINE of == [l \in Keys |-> DOMAIN Held(all[l])]
             more == [l \in Keys |-> DOMAIN past[l]]
  <2>1. \A l \in Keys : IsFiniteSet(more[l]) /\ of[l] \subseteq more[l]
    OBVIOUS
  <2>2. of[k] # more[k]
    OBVIOUS
  <2>3. Total(all) = Count(of)
    BY TotalOfSlices
  <2>4. Count(more) <= MaxTotal
    BY DEF Fits
  <2> HIDE DEF of, more
  <2>5. Count(of) \in Nat /\ Count(more) \in Nat /\ Count(of) < Count(more)
    BY <2>1, <2>2, CountMonotone
  <2> QED
    BY <1>0, <1>2, <2>3, <2>4, <2>5
<1> QED
  BY <1>1, <1>2

\* A critical section on slices that hold what `past` adds to what was accepted keeps the
\* promise for `past`.
LEMMA SectionShows ==
  ASSUME StoreInvariant, NEW before, NEW after, NEW past, NEW oldest \in Int,
         oldest <= Expiry(clock),
         \A k \in Keys :
           /\ Slice(before[k]) /\ DOMAIN past[k] \subseteq Times
           /\ DOMAIN Held(series[k]) \subseteq DOMAIN Held(before[k])
           /\ \A t \in DOMAIN Held(before[k]) :
                t \in DOMAIN past[k] /\ Held(before[k])[t] = past[k][t]
           /\ \A t \in DOMAIN past[k] :
                t \in DOMAIN Held(before[k]) \/ GoneForAReason(series, k, t)
           /\ Fits(past) /\ DOMAIN past[k] # {} => Max(DOMAIN past[k]) \in DOMAIN Held(before[k]),
         Section(before, after, oldest)
  PROVE  Shows(after, past)
<1>0. /\ clock \in Times /\ Expiry(clock) \in Int /\ Times \subseteq Int /\ IsFiniteSet(Times)
  <2>1. Times = 1..MaxTime /\ 1 \in Int /\ MaxTime \in Int
    BY StoreAssumption DEF Times
  <2>2. IsFiniteSet(Times)
    BY <2>1, FS_Interval
  <2> QED
    BY <2>1, <2>2, StoreAssumption DEF StoreInvariant, TypeOK, Expiry
<1>1. \A k \in Keys : Slice(series[k]) /\ Len(series[k]) <= MaxPerSeries
  BY DEF StoreInvariant, TypeOK, SeriesSorted, Slice, LimitsRespected
<1>2. ASSUME NEW k \in Keys
      PROVE  /\ Slice(after[k]) /\ OldestFirst(before[k], after[k])
             /\ \A gone \in DOMAIN Held(before[k]) \ DOMAIN Held(after[k]) :
                  \/ gone < oldest /\ \E later \in DOMAIN Held(before[k]) : later > gone
                  \/ Len(after[k]) = MaxPerSeries
                  \/ /\ Total(after) = MaxTotal
                     /\ \A l \in Keys : \A t \in DOMAIN Held(after[l]) : t >= gone
  BY DEF Section
<1>3. ASSUME NEW k \in Keys
      PROVE  /\ DOMAIN Held(after[k]) \subseteq DOMAIN past[k]
             /\ \A t \in DOMAIN Held(after[k]) : Held(after[k])[t] = past[k][t]
             /\ IsFiniteSet(DOMAIN past[k]) /\ DOMAIN past[k] \subseteq Int
  <2>1. /\ DOMAIN Held(after[k]) \subseteq DOMAIN Held(before[k])
        /\ \A t \in DOMAIN Held(after[k]) : Held(after[k])[t] = Held(before[k])[t]
    BY <1>2 DEF OldestFirst
  <2>2. IsFiniteSet(DOMAIN past[k])
    BY <1>0, FS_Subset
  <2> QED
    BY <1>0, <2>1, <2>2
<1>4. ASSUME NEW k \in Keys, NEW t \in DOMAIN past[k], t \notin DOMAIN Held(after[k])
      PROVE  GoneForAReason(after, k, t)
  <2>0. t \in Int
    BY <1>3
  <2>1. CASE GoneForAReason(series, k, t)
    BY <1>0, <1>1, <2>0, <2>1, ReasonsStand
  <2>2. CASE t \in DOMAIN Held(before[k])
    <3>1. t \in DOMAIN Held(before[k]) \ DOMAIN Held(after[k])
      BY <1>4, <2>2
    <3>2. \A u \in DOMAIN Held(after[k]) : u > t
      <4> TAKE u \in DOMAIN Held(after[k])
      <4>1. t < u /\ u \in Int
        BY <1>2, <1>3, <3>1 DEF OldestFirst
      <4> QED
        BY <2>0, <4>1
    <3>3. CASE t < oldest
      BY <1>0, <2>0, <3>3 DEF GoneForAReason
    <3>4. CASE Len(after[k]) = MaxPerSeries
      BY <3>2, <3>4 DEF GoneForAReason
    <3>5. CASE /\ Total(after) = MaxTotal
               /\ \A l \in Keys : \A u \in DOMAIN Held(after[l]) : u >= t
      BY <3>5 DEF GoneForAReason
    <3> QED
      BY <1>2, <3>1, <3>3, <3>4, <3>5
  <2> QED
    BY <2>1, <2>2
<1>5. ASSUME NEW k \in Keys, Fits(past), DOMAIN past[k] # {}
      PROVE  Max(DOMAIN past[k]) \in DOMAIN Held(after[k])
  <2> DEFINE last == Max(DOMAIN past[k])
  <2>1. last \in DOMAIN past[k] /\ \A t \in DOMAIN past[k] : t <= last
    BY <1>3, <1>5, MaxOfFinite
  <2>2. last \in DOMAIN Held(before[k])
    BY <1>5
  <2> HIDE DEF last
  <2> SUFFICES ASSUME last \notin DOMAIN Held(after[k]) PROVE FALSE
    BY DEF last
  <2>3. Len(after[k]) # MaxPerSeries /\ Total(after) # MaxTotal
    BY <1>2, <1>3, <1>5, <2>1, RoomLeft
  <2>4. PICK later \in DOMAIN Held(before[k]) : later > last
    BY <1>2, <2>2, <2>3
  <2>5. later \in DOMAIN past[k] /\ later \in Int /\ last \in Int /\ later <= last
    BY <1>3, <2>1
  <2> QED
    BY <2>4, <2>5
<1> QED
  BY <1>3, <1>4, <1>5 DEF Shows

\* The empty store is well formed.
LEMMA InitStore == Init => StoreInvariant
<1> SUFFICES ASSUME Init PROVE StoreInvariant
  OBVIOUS
<1>0. series = [k \in Keys |-> << >>] /\ accepted = [k \in Keys |-> NoSamples]
      /\ adding = [a \in Adders |-> Idle]
  BY DEF Init
<1>1. TypeOK
  <2>1. clock \in Times
    BY StoreAssumption DEF Init, Times
  <2>2. << >> \in Seq(Samples)
    BY EmptySeq
  <2>3. series \in [Keys -> Seq(Samples)]
    BY <1>0, <2>2
  <2>4. adding \in [Adders -> Calls \cup {Idle}]
    BY <1>0
  <2>5. DOMAIN NoSamples = {} /\ NoSamples \in [{} -> Values]
    BY DEF NoSamples
  <2> QED
    BY <1>0, <2>1, <2>3, <2>4, <2>5 DEF TypeOK
<1>2. SeriesSorted
  BY <1>0 DEF SeriesSorted, Ascending
<1>3. LimitsRespected
  <2>1. \A k \in Keys : Len(series[k]) = 0 /\ DOMAIN series[k] = {}
    BY <1>0
  <2> DEFINE of == [k \in Keys |-> DOMAIN series[k]]
  <2>2. Entries(of) = {}
    <3> SUFFICES ASSUME NEW p \in Entries(of) PROVE FALSE
      OBVIOUS
    <3>1. PICK k \in Keys : \E x \in of[k] : p = <<k, x>>
      BY EntriesMembers
    <3> QED
      BY <2>1, <3>1
  <2>3. Total(series) = 0
    BY <2>2, FS_EmptySet DEF Total, Count, Entries
  <2> QED
    BY <2>1, <2>3, StoreAssumption DEF LimitsRespected
<1>4. \A a \in Adders : adding[a] = Idle
  BY <1>0
<1>5. \A k \in Keys : DOMAIN Held(series[k]) = {} /\ DOMAIN accepted[k] = {}
  <2> TAKE k \in Keys
  <2>1. DOMAIN series[k] = {}
    BY <1>0
  <2> QED
    BY <1>0, <2>1 DEF Held, NoSamples
<1> QED
  BY <1>1, <1>2, <1>3, <1>4, <1>5 DEF StoreInvariant

\* What the invariant says of the slices and of what was accepted.
LEMMA StoreFacts ==
  ASSUME StoreInvariant
  PROVE  /\ \A k \in Keys : Slice(series[k])
         /\ Shows(series, accepted)
         /\ \A k \in Keys : DOMAIN accepted[k] \subseteq Times
         /\ clock \in Times /\ Times \subseteq Int /\ Expiry(clock) \in Int
         /\ series = [k \in Keys |-> series[k]] /\ DOMAIN accepted = Keys
<1>1. \A k \in Keys : Slice(series[k])
  BY DEF StoreInvariant, TypeOK, SeriesSorted, Slice
<1>2. Shows(series, accepted)
  BY DEF StoreInvariant, Shows, Fits, NoLimitReached
<1>3. Times \subseteq Int /\ Expiry(clock) \in Int
  BY StoreAssumption DEF StoreInvariant, TypeOK, Times, Expiry
<1> QED
  BY <1>1, <1>2, <1>3 DEF StoreInvariant, TypeOK

\* A critical section that shows what became of what is accepted then keeps the invariant.
LEMMA SectionKeepsInvariant ==
  ASSUME StoreInvariant, NEW before, NEW oldest \in Int,
         Section(before, series', oldest), Shows(series', accepted'), clock' = clock,
         adding' \in [Adders -> Calls \cup {Idle}],
         \A a \in Adders : adding'[a] # Idle => adding'[a].now <= clock',
         DOMAIN accepted' = Keys,
         \A k \in Keys : /\ DOMAIN accepted'[k] \subseteq Times
                         /\ accepted'[k] \in [DOMAIN accepted'[k] -> Values]
  PROVE  StoreInvariant'
<1>1. TypeOK'
  BY DEF StoreInvariant, TypeOK, Section
<1>2. SeriesSorted'
  BY DEF Section, Slice, SeriesSorted
<1>3. LimitsRespected'
  BY DEF Section, LimitsRespected
<1>4. \A k \in Keys :
         LET held == Held(series'[k])
             was == DOMAIN accepted'[k]
         IN  /\ \A t \in DOMAIN held : t \in was /\ held[t] = accepted'[k][t]
             /\ \A t \in was : t \in DOMAIN held \/ GoneForAReason(series, k, t)'
             /\ NoLimitReached' /\ was # {} => Max(was) \in DOMAIN held
  BY DEF Shows, Fits, NoLimitReached, GoneForAReason, Expiry
<1> QED
  BY <1>1, <1>2, <1>3, <1>4 DEF StoreInvariant

\* `after` is `before` with the value of the call at its time, when it is for this key.
Grows(before, after, here, call) ==
  /\ \A t : t \in DOMAIN after <=> t \in DOMAIN before \/ (here /\ t = call.at)
  /\ \A t \in DOMAIN after : /\ here /\ t = call.at => after[t] = call.value
                             /\ ~(here /\ t = call.at) => after[t] = before[t]

\* What Add does under the lock: its sample is inserted, which makes `longer` of the
\* slices, and recorded, and then the critical section prunes and enforces the limits,
\* with a time not after the clock.
AddSection(a, call, longer) ==
  /\ call \in Calls /\ clock' = clock /\ adding' = [adding EXCEPT ![a] = Idle]
  /\ Expiry(call.now) \in Int /\ Expiry(call.now) <= Expiry(clock)
  /\ \A k \in Keys :
       /\ Slice(longer[k])
       /\ Grows(Held(series[k]), Held(longer[k]), k = call.key, call)
  /\ Section(longer, series', Expiry(call.now))
  /\ DOMAIN accepted' = Keys
  /\ \A k \in Keys : /\ Grows(accepted[k], accepted'[k], k = call.key, call)
                     /\ accepted'[k] = [t \in DOMAIN accepted'[k] |-> accepted'[k][t]]

LEMMA FinishAddSection ==
  ASSUME StoreInvariant, NEW a \in Adders, FinishAdd(a)
  PROVE  \E call, longer : AddSection(a, call, longer)
<1> DEFINE call == adding[a]
           longer == [series EXCEPT ![call.key] =
                        Insert(@, [at |-> call.at, value |-> call.value])]
           sample == [at |-> call.at, value |-> call.value]
<1>1. /\ adding[a] # Idle /\ clock' = clock /\ adding' = [adding EXCEPT ![a] = Idle]
      /\ series' \in EnforceSampleLimits(PruneAll(longer, Expiry(call.now)))
      /\ accepted' = [accepted EXCEPT ![call.key] =
           [t \in DOMAIN @ \cup {call.at} |-> IF t = call.at THEN call.value ELSE @[t]]]
  BY DEF FinishAdd
<1>2. call \in Calls /\ call.now <= clock
  BY <1>1 DEF StoreInvariant, TypeOK
<1>3. sample \in Samples /\ call.key \in Keys /\ call.at \in Times /\ call.now \in Times
  BY <1>2 DEF Calls, Samples
<1>4. Expiry(call.now) \in Int /\ Expiry(call.now) <= Expiry(clock)
  <2>1. call.now \in Int /\ clock \in Int /\ Retention \in Int
    BY <1>3, StoreFacts, StoreAssumption
  <2> QED
    BY <1>2, <2>1 DEF Expiry
<1>5. \A k \in Keys : longer[k] = IF k = call.key THEN Insert(series[k], sample) ELSE series[k]
  BY StoreFacts
<1> HIDE DEF sample, longer, call
<1>6. ASSUME NEW k \in Keys
      PROVE  Slice(longer[k]) /\ Grows(Held(series[k]), Held(longer[k]), k = call.key, call)
  <2>0. Slice(series[k])
    BY StoreFacts
  <2>1. CASE k # call.key
    <3>1. longer[k] = series[k]
      BY <1>5, <2>1
    <3> QED
      BY <2>0, <2>1, <3>1 DEF Grows
  <2>2. CASE k = call.key
    <3>1. longer[k] = Insert(series[k], sample)
      BY <1>5, <2>2
    <3>2. /\ Slice(longer[k])
          /\ DOMAIN Held(longer[k]) = DOMAIN Held(series[k]) \cup {sample.at}
          /\ Held(longer[k])[sample.at] = sample.value
          /\ \A t \in DOMAIN Held(series[k]) :
               t # sample.at => Held(longer[k])[t] = Held(series[k])[t]
      BY ONLY <1>3, <2>0, <3>1, InsertHeld
    <3>3. sample.at = call.at /\ sample.value = call.value
      BY DEF sample
    <3> QED
      BY <2>2, <3>2, <3>3 DEF Grows
  <2> QED
    BY <2>1, <2>2
<1>7. Section(longer, series', Expiry(call.now))
  BY <1>1, <1>4, <1>6, CriticalSection
<1>8. DOMAIN accepted' = Keys
  BY <1>1, StoreFacts
<1>9. ASSUME NEW k \in Keys
      PROVE  /\ Grows(accepted[k], accepted'[k], k = call.key, call)
             /\ accepted'[k] = [t \in DOMAIN accepted'[k] |-> accepted'[k][t]]
  <2>1. DOMAIN accepted = Keys
    BY StoreFacts
  <2>2. CASE k = call.key
    <3>1. accepted'[k] = [t \in DOMAIN accepted[k] \cup {call.at} |->
                            IF t = call.at THEN call.value ELSE accepted[k][t]]
      BY <1>1, <2>1, <2>2
    <3> QED
      BY <2>2, <3>1 DEF Grows
  <2>3. CASE k # call.key
    <3>1. accepted'[k] = accepted[k]
      BY <1>1, <2>1, <2>3
    <3>2. accepted[k] = [t \in DOMAIN accepted[k] |-> accepted[k][t]]
      BY DEF StoreInvariant, TypeOK
    <3> QED
      BY <2>3, <3>1, <3>2 DEF Grows
  <2> QED
    BY <2>2, <2>3
<1>10. AddSection(a, call, longer)
  BY <1>1, <1>2, <1>4, <1>6, <1>7, <1>8, <1>9 DEF AddSection
<1> QED
  BY <1>10

\* Add leaves every sample accepted so far, its own included, held or gone for a reason.
LEMMA FinishAddKeeps ==
  ASSUME StoreInvariant, NEW a \in Adders, FinishAdd(a)
  PROVE  StoreInvariant'
<1>a. PICK call, longer : AddSection(a, call, longer)
  BY FinishAddSection
<1>b. /\ call \in Calls /\ clock' = clock /\ adding' = [adding EXCEPT ![a] = Idle]
      /\ Expiry(call.now) \in Int /\ Expiry(call.now) <= Expiry(clock)
      /\ Section(longer, series', Expiry(call.now)) /\ DOMAIN accepted' = Keys
  BY <1>a DEF AddSection
<1>c. ASSUME NEW k \in Keys
      PROVE  /\ Slice(longer[k])
             /\ \A t : t \in DOMAIN Held(longer[k]) <=>
                         t \in DOMAIN Held(series[k]) \/ (k = call.key /\ t = call.at)
             /\ \A t \in DOMAIN Held(longer[k]) :
                  /\ k = call.key /\ t = call.at => Held(longer[k])[t] = call.value
                  /\ ~(k = call.key /\ t = call.at) => Held(longer[k])[t] = Held(series[k])[t]
  <2>1. Slice(longer[k]) /\ Grows(Held(series[k]), Held(longer[k]), k = call.key, call)
    BY <1>a DEF AddSection
  <2> QED
    BY <2>1 DEF Grows
<1>d. ASSUME NEW k \in Keys
      PROVE  /\ \A t : t \in DOMAIN accepted'[k] <=>
                         t \in DOMAIN accepted[k] \/ (k = call.key /\ t = call.at)
             /\ \A t \in DOMAIN accepted'[k] :
                  /\ k = call.key /\ t = call.at => accepted'[k][t] = call.value
                  /\ ~(k = call.key /\ t = call.at) => accepted'[k][t] = accepted[k][t]
             /\ accepted'[k] = [t \in DOMAIN accepted'[k] |-> accepted'[k][t]]
  <2>1. /\ Grows(accepted[k], accepted'[k], k = call.key, call)
        /\ accepted'[k] = [t \in DOMAIN accepted'[k] |-> accepted'[k][t]]
    BY <1>a DEF AddSection
  <2> QED
    BY <2>1 DEF Grows
<1>2. /\ Times \subseteq Int /\ IsFiniteSet(Times)
      /\ \A k \in Keys : DOMAIN accepted[k] \subseteq Times
  <2>1. Times = 1..MaxTime /\ 1 \in Int /\ MaxTime \in Int
    BY StoreAssumption DEF Times
  <2> QED
    BY <2>1, StoreFacts, FS_Interval
<1>3. call.at \in Times /\ call.value \in Values /\ call.key \in Keys
  BY <1>b DEF Calls
<1>4. ASSUME NEW k \in Keys
      PROVE  /\ DOMAIN accepted'[k] \subseteq Times
             /\ DOMAIN accepted[k] \subseteq DOMAIN accepted'[k]
             /\ accepted'[k] \in [DOMAIN accepted'[k] -> Values]
             /\ IsFiniteSet(DOMAIN accepted'[k]) /\ IsFiniteSet(DOMAIN accepted[k])
  <2>1. DOMAIN accepted'[k] \subseteq Times /\ DOMAIN accepted[k] \subseteq DOMAIN accepted'[k]
    <3>1. \A t : t \in DOMAIN accepted[k] => t \in DOMAIN accepted'[k]
      BY <1>d
    <3>2. \A t : t \in DOMAIN accepted[k] => t \in Times
      BY <1>2
    <3>3. \A t : t \in DOMAIN accepted'[k] =>
                   t \in DOMAIN accepted[k] \/ (k = call.key /\ t = call.at)
      BY <1>d
    <3>4. \A t : t \in DOMAIN accepted'[k] => t \in Times
      BY ONLY <3>2, <3>3, <1>3
    <3> QED
      BY <3>1, <3>4
  <2>2. IsFiniteSet(DOMAIN accepted'[k]) /\ IsFiniteSet(DOMAIN accepted[k])
    BY <1>2, <2>1, FS_Subset
  <2>3. \A t \in DOMAIN accepted[k] : accepted[k][t] \in Values
    BY DEF StoreInvariant, TypeOK
  <2>4. ASSUME NEW t \in DOMAIN accepted'[k] PROVE accepted'[k][t] \in Values
    <3>1. CASE k = call.key /\ t = call.at
      BY <1>d, <1>3, <3>1
    <3>2. CASE ~(k = call.key /\ t = call.at)
      BY <1>d, <2>3, <3>2
    <3> QED
      BY <3>1, <3>2
  <2> QED
    BY <1>d, <2>1, <2>2, <2>4
\* Fewer samples were accepted before.
<1>5. Fits(accepted') => Fits(accepted)
  <2> SUFFICES ASSUME Fits(accepted') PROVE Fits(accepted)
    OBVIOUS
  <2> DEFINE of == [k \in Keys |-> DOMAIN accepted[k]]
             more == [k \in Keys |-> DOMAIN accepted'[k]]
  <2>1. \A k \in Keys : IsFiniteSet(more[k]) /\ of[k] \subseteq more[k]
    BY <1>4
  <2>2. Count(more) <= MaxTotal
    BY DEF Fits
  <2> HIDE DEF of, more
  <2>3. Count(of) \in Nat /\ Count(more) \in Nat /\ Count(of) <= Count(more)
    BY <2>1, CountMonotone
  <2>4. Count(of) <= MaxTotal
    BY <2>2, <2>3, StoreAssumption
  <2>5. \A k \in Keys : Cardinality(DOMAIN accepted[k]) <= MaxPerSeries
    <3> TAKE k \in Keys
    <3>1. Cardinality(DOMAIN accepted[k]) <= Cardinality(DOMAIN accepted'[k])
      BY <1>4, FS_Subset
    <3>2. Cardinality(DOMAIN accepted[k]) \in Nat /\ Cardinality(DOMAIN accepted'[k]) \in Nat
      BY <1>4, FS_CardinalityType
    <3>3. Cardinality(DOMAIN accepted'[k]) <= MaxPerSeries
      BY DEF Fits
    <3> QED
      BY <3>1, <3>2, <3>3, StoreAssumption
  <2> QED
    BY <2>4, <2>5 DEF Fits, of
<1>6. ASSUME NEW k \in Keys
      PROVE  /\ \A t \in DOMAIN Held(series[k]) :
                  t \in DOMAIN accepted[k] /\ Held(series[k])[t] = accepted[k][t]
             /\ \A t \in DOMAIN accepted[k] :
                  t \in DOMAIN Held(series[k]) \/ GoneForAReason(series, k, t)
             /\ Fits(accepted) /\ DOMAIN accepted[k] # {}
                => Max(DOMAIN accepted[k]) \in DOMAIN Held(series[k])
  BY StoreFacts DEF Shows
<1>7. ASSUME NEW k \in Keys, NEW t \in DOMAIN Held(longer[k])
      PROVE  t \in DOMAIN accepted'[k] /\ Held(longer[k])[t] = accepted'[k][t]
  <2>1. t \in DOMAIN Held(series[k]) \/ (k = call.key /\ t = call.at)
    BY <1>c
  <2>2. t \in DOMAIN accepted'[k]
    BY <1>d, <1>6, <2>1
  <2>3. CASE k = call.key /\ t = call.at
    <3>1. Held(longer[k])[t] = call.value
      BY <1>c, <2>3
    <3>2. accepted'[k][t] = call.value
      BY <1>d, <2>2, <2>3
    <3> QED
      BY <2>2, <3>1, <3>2
  <2>4. CASE ~(k = call.key /\ t = call.at)
    <3>1. Held(longer[k])[t] = Held(series[k])[t]
      BY <1>c, <2>4
    <3>2. accepted'[k][t] = accepted[k][t]
      BY <1>d, <2>2, <2>4
    <3>3. Held(series[k])[t] = accepted[k][t]
      BY <1>6, <2>1, <2>4
    <3> QED
      BY <2>2, <3>1, <3>2, <3>3
  <2> QED
    BY <2>2, <2>3, <2>4
<1>8. ASSUME NEW k \in Keys, NEW t \in DOMAIN accepted'[k]
      PROVE  t \in DOMAIN Held(longer[k]) \/ GoneForAReason(series, k, t)
  <2>1. t \in DOMAIN accepted[k] \/ (k = call.key /\ t = call.at)
    BY <1>c, <1>d
  <2>2. CASE t \in DOMAIN accepted[k]
    BY <1>c, <1>d, <1>6, <2>2
  <2>3. CASE k = call.key /\ t = call.at
    BY <1>c, <1>d, <2>3
  <2> QED
    BY <2>1, <2>2, <2>3
<1>9. ASSUME NEW k \in Keys, Fits(accepted'), DOMAIN accepted'[k] # {}
      PROVE  Max(DOMAIN accepted'[k]) \in DOMAIN Held(longer[k])
  <2> DEFINE last == Max(DOMAIN accepted'[k])
  <2>1. DOMAIN accepted'[k] \subseteq Int /\ DOMAIN accepted[k] \subseteq Int
    BY <1>2, <1>4
  <2>2. last \in DOMAIN accepted'[k] /\ \A t \in DOMAIN accepted'[k] : t <= last
    BY <1>4, <1>9, <2>1, MaxOfFinite
  <2> HIDE DEF last
  <2>3. CASE k = call.key /\ last = call.at
    BY <1>c, <1>d, <2>3 DEF last
  <2>4. CASE last \in DOMAIN accepted[k]
    <3> DEFINE latest == Max(DOMAIN accepted[k])
    <3>1. latest \in DOMAIN accepted[k] /\ \A t \in DOMAIN accepted[k] : t <= latest
      BY <1>4, <2>1, <2>4, MaxOfFinite
    <3>2. latest \in DOMAIN Held(series[k])
      BY <1>5, <1>6, <1>9, <2>4
    <3> HIDE DEF latest
    <3>3. latest = last
      <4>1. latest <= last /\ last <= latest /\ latest \in Int /\ last \in Int
        BY <1>4, <2>1, <2>2, <2>4, <3>1
      <4> QED
        BY <4>1
    <3>4. last \in DOMAIN Held(longer[k])
      BY <1>c, <1>d, <3>2, <3>3
    <3> QED
      BY <3>4 DEF last
  <2>5. last \in DOMAIN accepted[k] \/ (k = call.key /\ last = call.at)
    BY <1>c, <1>d, <2>2
  <2> QED
    BY <2>3, <2>4, <2>5
<1>10. \A k \in Keys : DOMAIN Held(series[k]) \subseteq DOMAIN Held(longer[k])
  BY <1>c
<1>11. Shows(series', accepted')
  BY <1>b, <1>c, <1>4, <1>7, <1>8, <1>9, <1>10, SectionShows
<1>12. /\ adding' \in [Adders -> Calls \cup {Idle}]
       /\ \A b \in Adders : adding'[b] # Idle => adding'[b].now <= clock'
  BY <1>b DEF StoreInvariant, TypeOK
<1> QED
  BY <1>b, <1>4, <1>11, <1>12, SectionKeepsInvariant

\* What has expired stays so.
LEMMA ExpiryMonotone ==
  ASSUME NEW t \in Int, NEW u \in Int, t <= u
  PROVE  Expiry(t) \in Int /\ Expiry(u) \in Int /\ Expiry(t) <= Expiry(u)
BY StoreAssumption DEF Expiry

\* What the others do changes neither the slices nor what was accepted.
LEMMA IdleKeepsInvariant ==
  ASSUME StoreInvariant, UNCHANGED <<series, accepted>>,
         clock' \in Times, clock <= clock',
         adding' \in [Adders -> Calls \cup {Idle}],
         \A a \in Adders : adding'[a] # Idle => adding'[a].now <= clock'
  PROVE  StoreInvariant'
<1>1. TypeOK' /\ SeriesSorted' /\ LimitsRespected'
  BY DEF StoreInvariant, TypeOK, SeriesSorted, LimitsRespected
<1>2. Expiry(clock) \in Int /\ Expiry(clock') \in Int /\ Expiry(clock) <= Expiry(clock')
  <2>1. clock \in Int /\ clock' \in Int
    BY StoreFacts
  <2> QED
    BY <2>1, ExpiryMonotone
<1>3. ASSUME NEW k \in Keys, NEW t \in DOMAIN accepted[k], GoneForAReason(series, k, t)
      PROVE  GoneForAReason(series, k, t)'
  <2>1. t \in Int
    BY StoreFacts
  <2>2. t < Expiry(clock) => t < Expiry(clock')
    BY <1>2, <2>1
  <2> QED
    BY <1>3, <2>2 DEF GoneForAReason, Expiry
<1>4. \A k \in Keys :
         LET held == Held(series'[k])
             was == DOMAIN accepted'[k]
         IN  /\ \A t \in DOMAIN held : t \in was /\ held[t] = accepted'[k][t]
             /\ \A t \in was : t \in DOMAIN held \/ GoneForAReason(series, k, t)'
             /\ NoLimitReached' /\ was # {} => Max(was) \in DOMAIN held
  BY <1>3 DEF StoreInvariant, NoLimitReached
<1> QED
  BY <1>1, <1>4 DEF StoreInvariant

\* What a snapshot returns, and leaves in the store, shows what became of every sample.
LEMMA ViewShows ==
  ASSUME StoreInvariant
  PROVE  /\ Views(clock) # {}
         /\ \A view \in Views(clock) : /\ Section(series, view, Expiry(clock))
                                       /\ Shows(view, accepted)
<1>1. Views(clock) # {} /\ \A view \in Views(clock) : Section(series, view, Expiry(clock))
  BY StoreFacts, CriticalSection DEF Views
<1>2. ASSUME NEW view \in Views(clock) PROVE Shows(view, accepted)
  <2>1. Expiry(clock) \in Int /\ Expiry(clock) <= Expiry(clock)
    BY StoreFacts
  <2>2. ASSUME NEW k \in Keys
        PROVE  /\ Slice(series[k]) /\ DOMAIN accepted[k] \subseteq Times
               /\ DOMAIN Held(series[k]) \subseteq DOMAIN Held(series[k])
               /\ \A t \in DOMAIN Held(series[k]) :
                    t \in DOMAIN accepted[k] /\ Held(series[k])[t] = accepted[k][t]
               /\ \A t \in DOMAIN accepted[k] :
                    t \in DOMAIN Held(series[k]) \/ GoneForAReason(series, k, t)
               /\ Fits(accepted) /\ DOMAIN accepted[k] # {}
                  => Max(DOMAIN accepted[k]) \in DOMAIN Held(series[k])
    BY StoreFacts DEF Shows
  <2> QED
    BY <1>1, <2>1, <2>2, SectionShows
<1> QED
  BY <1>1, <1>2

\* Every step keeps the invariant.
LEMMA NextStore == StoreInvariant /\ [Next]_vars => StoreInvariant'
<1> SUFFICES ASSUME StoreInvariant, [Next]_vars PROVE StoreInvariant'
  OBVIOUS
<1>0. /\ clock \in Times /\ clock \in Int /\ adding \in [Adders -> Calls \cup {Idle}]
      /\ \A a \in Adders : adding[a] # Idle => adding[a].now <= clock
      /\ \A a \in Adders : adding[a] # Idle => adding[a] \in Calls
  BY StoreFacts DEF StoreInvariant, TypeOK
<1>1. ASSUME NEW a \in Adders, BeginAdd(a) PROVE StoreInvariant'
  <2>1. PICK offer \in Offers : Offer(a, offer)
    BY <1>1 DEF BeginAdd
  <2> DEFINE call == [key |-> offer.key, at |-> offer.at, value |-> offer.value, now |-> clock]
  <2>2. call \in Calls /\ call.now <= clock
    BY <1>0 DEF Offers, Calls
  <2>3. adding' = [adding EXCEPT ![a] = call] /\ UNCHANGED <<clock, series, accepted>>
    BY <2>1 DEF Offer
  <2> HIDE DEF call
  <2>4. /\ adding' \in [Adders -> Calls \cup {Idle}]
        /\ \A b \in Adders : adding'[b] # Idle => adding'[b].now <= clock'
    BY <1>0, <2>2, <2>3
  <2>5. clock' \in Times /\ clock <= clock'
    BY <1>0, <2>3
  <2> QED
    BY <2>3, <2>4, <2>5, IdleKeepsInvariant
<1>2. ASSUME NEW a \in Adders, FinishAdd(a) PROVE StoreInvariant'
  BY <1>2, FinishAddKeeps
<1>3. CASE Snapshot
  <2>1. series' \in Views(clock) /\ UNCHANGED <<clock, adding, accepted>>
    BY <1>3 DEF Snapshot
  <2>2. Section(series, series', Expiry(clock)) /\ Shows(series', accepted')
    BY <2>1, ViewShows
  <2>3. /\ DOMAIN accepted' = Keys
        /\ \A k \in Keys : /\ DOMAIN accepted'[k] \subseteq Times
                           /\ accepted'[k] \in [DOMAIN accepted'[k] -> Values]
    BY <2>1 DEF StoreInvariant, TypeOK
  <2> QED
    BY <1>0, <2>1, <2>2, <2>3, StoreFacts, SectionKeepsInvariant
<1>4. CASE Advance
  <2>1. clock' = clock + 1 /\ UNCHANGED <<series, adding, accepted>> /\ clock < MaxTime
    BY <1>4 DEF Advance
  <2>2. clock' \in Times /\ clock <= clock'
    BY <1>0, <2>1, StoreAssumption DEF Times
  <2>3. \A a \in Adders : adding'[a] # Idle => adding'[a].now <= clock'
    <3> SUFFICES ASSUME NEW a \in Adders, adding'[a] # Idle PROVE adding'[a].now <= clock'
      OBVIOUS
    <3>1. adding[a] \in Calls /\ adding[a].now <= clock
      BY <1>0, <2>1
    <3>2. adding[a].now \in Int
      BY <3>1, StoreFacts DEF Calls
    <3> QED
      BY <1>0, <2>1, <3>1, <3>2
  <2> QED
    BY <1>0, <2>1, <2>2, <2>3, IdleKeepsInvariant
<1>5. CASE UNCHANGED vars
  <2>1. UNCHANGED <<clock, series, adding, accepted>>
    BY <1>5 DEF vars
  <2>2. clock' \in Times /\ clock <= clock'
    BY <1>0, <2>1
  <2> QED
    BY <1>0, <2>1, <2>2, IdleKeepsInvariant
<1> QED
  BY <1>1, <1>2, <1>3, <1>4, <1>5 DEF Next

\* However adds interleave and in whatever order samples arrive, the store is well
\* typed, sorted and within its limits, it holds what was last accepted, and whatever it
\* lost of that it lost for a reason that stands.
THEOREM StoreInvariantHolds == Spec => []StoreInvariant
  BY InitStore, NextStore, PTL DEF Spec

\* The binary searches of Add, pruneSamples and CompleteBuckets always run on a
\* strictly ascending slice.
THEOREM AlwaysSorted == Spec => []SeriesSorted
<1>1. StoreInvariant => SeriesSorted
  BY DEF StoreInvariant
<1> QED
  BY <1>1, StoreInvariantHolds, PTL

\* Whenever the lock is free no series, and not the store either, holds more samples
\* than its limit, whatever ties the map's order broke when the oldest of all went.
THEOREM WithinLimits == Spec => []LimitsRespected
<1>1. StoreInvariant => LimitsRespected
  BY DEF StoreInvariant
<1> QED
  BY <1>1, StoreInvariantHolds, PTL

-----------------------------------------------------------------------------
(* Snapshots.                                                              *)

\* A snapshot can always be taken: the loop that takes the oldest sample of all until
\* the store fits comes to an end, in some way at least.
THEOREM SnapshotsAnswer == Spec => [](Views(clock) # {})
<1>1. StoreInvariant => Views(clock) # {}
  BY ViewShows
<1> QED
  BY <1>1, StoreInvariantHolds, PTL

\* Every view of the store is within the limits and shows the history accepted so far
\* without a hole.
LEMMA ViewHasNoHoles == StoreInvariant => SnapshotHasNoHoles
<1> SUFFICES ASSUME StoreInvariant, NEW view \in Views(clock), NEW k \in Keys,
                    NEW at \in DOMAIN Held(view[k])
    PROVE  /\ at \in DOMAIN accepted[k] /\ Held(view[k])[at] = accepted[k][at]
           /\ at >= Expiry(clock) =>
                \A later \in DOMAIN accepted[k] :
                  later >= at => later \in DOMAIN Held(view[k])
  BY DEF SnapshotHasNoHoles
<1>1. Shows(view, accepted)
  BY ViewShows
<1>2. at \in DOMAIN accepted[k] /\ Held(view[k])[at] = accepted[k][at]
  BY <1>1 DEF Shows
<1>3. ASSUME at >= Expiry(clock), NEW later \in DOMAIN accepted[k], later >= at,
             later \notin DOMAIN Held(view[k])
      PROVE  FALSE
  <2>1. GoneForAReason(view, k, later)
    BY <1>1, <1>3 DEF Shows
  <2>2. at \in Int /\ later \in Int /\ Expiry(clock) \in Int
    BY <1>2, StoreFacts
  <2>3. ~(later < Expiry(clock)) /\ ~(at > later)
    BY <1>3, <2>2
  <2>4. at >= later
    BY <2>1, <2>3 DEF GoneForAReason
  <2>5. at = later
    BY <1>3, <2>2, <2>4
  <2> QED
    BY <1>3, <2>5
<1> QED
  BY <1>2, <1>3

\* Every view of a store that has reached no limit shows all of the retained interval,
\* and what is older only as the latest of its series.
LEMMA ViewIsRecentHistory == StoreInvariant => SnapshotIsRecentHistory
<1> SUFFICES ASSUME StoreInvariant, NoLimitReached, NEW view \in Views(clock), NEW k \in Keys
    PROVE  /\ {at \in DOMAIN accepted[k] : at >= Expiry(clock)} \subseteq DOMAIN Held(view[k])
           /\ \A at \in DOMAIN Held(view[k]) :
                at < Expiry(clock) => DOMAIN Held(view[k]) = {Max(DOMAIN accepted[k])}
           /\ DOMAIN accepted[k] # {} => Max(DOMAIN accepted[k]) \in DOMAIN Held(view[k])
  BY DEF SnapshotIsRecentHistory
<1>1. Section(series, view, Expiry(clock)) /\ Shows(view, accepted)
  BY ViewShows
<1>2. Fits(accepted)
  BY DEF NoLimitReached, Fits
<1>3. /\ Times \subseteq Int /\ IsFiniteSet(Times) /\ Expiry(clock) \in Int
      /\ \A l \in Keys : DOMAIN accepted[l] \subseteq Times
  <2>1. Times = 1..MaxTime /\ 1 \in Int /\ MaxTime \in Int
    BY StoreAssumption DEF Times
  <2> QED
    BY <2>1, StoreFacts, FS_Interval
<1>4. \A l \in Keys : /\ Slice(view[l]) /\ DOMAIN Held(view[l]) \subseteq DOMAIN accepted[l]
                      /\ IsFiniteSet(DOMAIN accepted[l])
  <2> TAKE l \in Keys
  <2>1. IsFiniteSet(DOMAIN accepted[l])
    BY <1>3, FS_Subset
  <2>2. DOMAIN Held(view[l]) \subseteq DOMAIN accepted[l]
    BY <1>1 DEF Shows
  <2> QED
    BY <1>1, <2>1, <2>2 DEF Section
<1>5. ASSUME NEW at \in DOMAIN accepted[k], at >= Expiry(clock)
      PROVE  at \in DOMAIN Held(view[k])
  <2> SUFFICES ASSUME at \notin DOMAIN Held(view[k]) PROVE FALSE
    OBVIOUS
  <2>1. GoneForAReason(view, k, at)
    BY <1>1 DEF Shows
  <2>2. at \in Int
    BY <1>3
  <2>3. Len(view[k]) # MaxPerSeries /\ Total(view) # MaxTotal
    BY <1>2, <1>4, RoomLeft
  <2> QED
    BY <1>3, <1>5, <2>1, <2>2, <2>3 DEF GoneForAReason
<1>6. DOMAIN accepted[k] # {} => Max(DOMAIN accepted[k]) \in DOMAIN Held(view[k])
  BY <1>1, <1>2 DEF Shows
<1>7. ASSUME NEW at \in DOMAIN Held(view[k]), at < Expiry(clock)
      PROVE  DOMAIN Held(view[k]) = {Max(DOMAIN accepted[k])}
  <2>1. DOMAIN Held(view[k]) = {at} /\ DOMAIN accepted[k] # {}
    BY <1>1, <1>4, <1>7 DEF Section
  <2>2. Max(DOMAIN accepted[k]) \in {at}
    BY <1>6, <2>1
  <2> QED
    BY <2>1, <2>2
<1> QED
  BY <1>5, <1>6, <1>7

\* However adds with times left behind, pruning and the limits interleave, no snapshot
\* shows a gap in the retained interval that was not there when the samples arrived.
THEOREM NoHoles == Spec => []SnapshotHasNoHoles
  BY ViewHasNoHoles, StoreInvariantHolds, PTL

\* While no limit was reached a decision never runs on less than the retained interval.
THEOREM RecentHistory == Spec => []SnapshotIsRecentHistory
  BY ViewIsRecentHistory, StoreInvariantHolds, PTL

-----------------------------------------------------------------------------
(* Refinement.                                                             *)

Histories(all) == [k \in Keys |-> Held(all[k])]

\* The history counts as the store does.
LEMMA SameCardinality == \A S : History!Cardinality(S) = Cardinality(S)
BY DEF History!Cardinality, Cardinality

\* The size of what slices hold is their total.
LEMMA SizeOfHistories ==
  ASSUME NEW all, \A k \in Keys : Slice(all[k])
  PROVE  History!Size(Histories(all)) = Total(all)
<1> DEFINE of == [k \in Keys |-> DOMAIN Held(all[k])]
<1>1. Total(all) = Count(of)
  BY TotalOfSlices
<1>2. \A k \in Keys : DOMAIN Histories(all)[k] = of[k]
  BY DEF Histories
<1>3. {{k} \X DOMAIN Histories(all)[k] : k \in Keys} = {{k} \X of[k] : k \in Keys}
  BY <1>2
<1> QED
  BY <1>1, <1>3, SameCardinality DEF History!Size, Count

\* A critical section forgets what is oldest, for its age or for want of room.
LEMMA SectionForgets ==
  ASSUME NEW before, NEW after, NEW oldest \in Int, clock \in Times, oldest <= Expiry(clock),
         \A k \in Keys : Slice(before[k]), Section(before, after, oldest)
  PROVE  History!ForgetsOldestFirst(Histories(before), Histories(after))
<1>1. ASSUME NEW k \in Keys
      PROVE  /\ DOMAIN Held(after[k]) \subseteq DOMAIN Held(before[k])
             /\ \A at \in DOMAIN Held(after[k]) : Held(after[k])[at] = Held(before[k])[at]
             /\ \A at \in DOMAIN Held(after[k]), later \in DOMAIN Held(before[k]) :
                  later >= at => later \in DOMAIN Held(after[k])
             /\ \A gone \in DOMAIN Held(before[k]) \ DOMAIN Held(after[k]) :
                  \/ gone < clock - Retention
                  \/ Cardinality(DOMAIN Held(after[k])) = MaxPerSeries
                  \/ History!Size(Histories(after)) = MaxTotal
  <2>1. /\ Slice(after[k]) /\ OldestFirst(before[k], after[k])
        /\ \A l \in Keys : Slice(after[l])
    BY DEF Section
  <2>2. DOMAIN Held(before[k]) \subseteq Int
    BY HeldTypes
  <2>3. Cardinality(DOMAIN Held(after[k])) = Len(after[k])
    BY <2>1, TimesOfSlice
  <2>4. History!Size(Histories(after)) = Total(after)
    BY <2>1, SizeOfHistories
  <2>5. ASSUME NEW at \in DOMAIN Held(after[k]), NEW later \in DOMAIN Held(before[k]),
               later >= at, later \notin DOMAIN Held(after[k])
        PROVE  FALSE
    <3>1. later < at /\ at \in DOMAIN Held(before[k])
      BY <2>1, <2>5 DEF OldestFirst
    <3>2. later \in Int /\ at \in Int
      BY <2>2, <3>1
    <3> QED
      BY <2>5, <3>1, <3>2
  <2>6. ASSUME NEW gone \in DOMAIN Held(before[k]) \ DOMAIN Held(after[k])
        PROVE  \/ gone < clock - Retention
               \/ Cardinality(DOMAIN Held(after[k])) = MaxPerSeries
               \/ History!Size(Histories(after)) = MaxTotal
    <3>1. gone < oldest \/ Len(after[k]) = MaxPerSeries \/ Total(after) = MaxTotal
      BY DEF Section
    <3>2. gone < oldest => gone < clock - Retention
      <4>1. gone \in Int /\ clock - Retention \in Int /\ oldest <= clock - Retention
        BY <2>2, StoreAssumption DEF Times, Expiry
      <4> QED
        BY <4>1
    <3> QED
      BY <2>3, <2>4, <3>1, <3>2
  <2>7. /\ DOMAIN Held(after[k]) \subseteq DOMAIN Held(before[k])
        /\ \A at \in DOMAIN Held(after[k]) : Held(after[k])[at] = Held(before[k])[at]
    BY <2>1 DEF OldestFirst
  <2> QED
    BY <2>5, <2>6, <2>7
<1>2. \A k \in Keys : /\ Histories(before)[k] = Held(before[k])
                      /\ Histories(after)[k] = Held(after[k])
  BY DEF Histories
<1> QED
  BY <1>1, <1>2, SameCardinality DEF History!ForgetsOldestFirst

\* Inserting a sample remembers it.
LEMMA FinishAddRemembers ==
  ASSUME StoreInvariant, NEW a \in Adders, FinishAdd(a)
  PROVE  \E k \in Keys, at \in Times, value \in Values :
           History!ForgetsOldestFirst(History!With(Histories(series), k, at, value),
                                      Histories(series'))
<1>1. PICK call, longer : AddSection(a, call, longer)
  BY FinishAddSection
<1>2. call.key \in Keys /\ call.at \in Times /\ call.value \in Values
  BY <1>1 DEF AddSection, Calls
<1>3. History!ForgetsOldestFirst(Histories(longer), Histories(series'))
  <2>1. \A k \in Keys : Slice(longer[k])
    BY <1>1 DEF AddSection
  <2>2. /\ Section(longer, series', Expiry(call.now))
        /\ Expiry(call.now) \in Int /\ Expiry(call.now) <= Expiry(clock)
    BY <1>1 DEF AddSection
  <2> QED
    BY <2>1, <2>2, StoreFacts, SectionForgets
<1>4. History!With(Histories(series), call.key, call.at, call.value) = Histories(longer)
  <2> DEFINE with == History!With(Histories(series), call.key, call.at, call.value)
  <2>1. with = [k \in Keys |-> with[k]]
    BY DEF History!With, Histories
  <2>2. ASSUME NEW k \in Keys PROVE with[k] = Held(longer[k])
    <3>1. /\ Slice(longer[k]) /\ Slice(series[k])
          /\ Grows(Held(series[k]), Held(longer[k]), k = call.key, call)
      BY <1>1, StoreFacts DEF AddSection
    <3>2. /\ Held(longer[k]) = [t \in DOMAIN Held(longer[k]) |-> Held(longer[k])[t]]
          /\ Held(series[k]) = [t \in DOMAIN Held(series[k]) |-> Held(series[k])[t]]
      BY <3>1, HeldTypes
    <3>3. CASE k = call.key
      <4>1. with[k] = [t \in DOMAIN Held(series[k]) \cup {call.at} |->
                         IF t = call.at THEN call.value ELSE Held(series[k])[t]]
        BY <3>3 DEF History!With, Histories
      <4>2. DOMAIN Held(longer[k]) = DOMAIN Held(series[k]) \cup {call.at}
        BY <3>1, <3>3 DEF Grows
      <4>3. \A t \in DOMAIN Held(longer[k]) :
               Held(longer[k])[t] = IF t = call.at THEN call.value ELSE Held(series[k])[t]
        BY <3>1, <3>3 DEF Grows
      <4> QED
        BY <3>2, <4>1, <4>2, <4>3
    <3>4. CASE k # call.key
      <4>1. with[k] = Held(series[k])
        BY <3>4 DEF History!With, Histories
      <4>2. DOMAIN Held(longer[k]) = DOMAIN Held(series[k])
        BY <3>1, <3>4 DEF Grows
      <4>3. \A t \in DOMAIN Held(longer[k]) : Held(longer[k])[t] = Held(series[k])[t]
        BY <3>1, <3>4 DEF Grows
      <4> QED
        BY <3>2, <4>1, <4>2, <4>3
    <3> QED
      BY <3>3, <3>4
  <2> HIDE DEF with
  <2>3. with = Histories(longer)
    BY <2>1, <2>2 DEF Histories
  <2> QED
    BY <2>3 DEF with
<1> QED
  BY <1>2, <1>3, <1>4

\* Every step of the store is a step of the history it promises, or none.
LEMMA StepOfHistory ==
  StoreInvariant /\ [Next]_vars => [History!HeldNext]_(History!heldVars)
<1> SUFFICES ASSUME StoreInvariant, [Next]_vars PROVE [History!HeldNext]_(History!heldVars)
  OBVIOUS
<1> USE DEF Histories
<1>1. ASSUME NEW a \in Adders, BeginAdd(a) PROVE UNCHANGED History!heldVars
  BY <1>1 DEF BeginAdd, Offer, History!heldVars
<1>2. ASSUME NEW a \in Adders, FinishAdd(a) PROVE History!HeldNext
  <2>1. clock' = clock
    BY <1>2 DEF FinishAdd
  <2> QED
    BY <1>2, <2>1, FinishAddRemembers DEF History!HeldNext, History!Remember
<1>3. CASE Snapshot
  <2>1. series' \in Views(clock) /\ clock' = clock
    BY <1>3 DEF Snapshot
  <2>2. Section(series, series', Expiry(clock))
    BY <2>1, ViewShows
  <2>3. Expiry(clock) \in Int /\ Expiry(clock) <= Expiry(clock)
    BY StoreFacts
  <2>4. History!ForgetsOldestFirst(Histories(series), Histories(series'))
    BY <2>2, <2>3, StoreFacts, SectionForgets
  <2> QED
    BY <2>1, <2>4 DEF History!HeldNext, History!Forget
<1>4. CASE Advance
  <2>1. clock' > clock /\ series' = series
    BY <1>4, StoreFacts DEF Advance
  <2> QED
    BY <2>1 DEF History!HeldNext, History!Tick
<1>5. CASE UNCHANGED vars
  BY <1>5 DEF vars, History!heldVars
<1> QED
  BY <1>1, <1>2, <1>3, <1>4, <1>5 DEF Next

\* The store implements the history it promises: whatever goroutines do, samples leave
\* oldest first, and only for their age or for want of room.
THEOREM StoreImplementsHistory == Spec => ImplementsHistory
<1>1. Init => History!HeldInit
  <2> SUFFICES ASSUME Init PROVE History!HeldInit
    OBVIOUS
  <2>1. \A k \in Keys : Held(series[k]) = History!NoSamples
    <3> TAKE k \in Keys
    <3>1. DOMAIN series[k] = {}
      BY DEF Init
    <3> QED
      BY <3>1 DEF Held, History!NoSamples
  <2> QED
    BY <2>1 DEF Init, History!HeldInit
<1> QED
  BY <1>1, StepOfHistory, StoreInvariantHolds, PTL
     DEF Spec, ImplementsHistory, History!HeldSpec
=============================================================================
