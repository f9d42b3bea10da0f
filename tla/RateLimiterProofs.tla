------------------------- MODULE RateLimiterProofs -------------------------
(***************************************************************************)
(* Memory and rate are bounded for every window, limit and capacity, any   *)
(* number of pairs and a clock that never stops.                           *)
(*                                                                         *)
(* The invariant says of each pair how the requests it had let through lie *)
(* in windows: the last ones, as many as its bucket counts, in the window  *)
(* of the bucket; the others in windows that ended before it began; and    *)
(* if its bucket was dropped, all in windows that are over.  Two requests  *)
(* max_requests apart are then in windows one after the other, and two     *)
(* requests twice that apart have a whole window between them.             *)
(***************************************************************************)
EXTENDS RateLimiter, FiniteSetTheorems, TLAPS

Entry == [at : Nat, start : Nat]

\* Each request falls into its window.
Within(a, t) ==
  \A i \in 1..Len(a) : /\ a[i].at <= t /\ a[i].start <= a[i].at
                       /\ a[i].at < a[i].start + Window

\* Of any max_requests + 1 requests the last is in a later window.
Spread(a) ==
  \A i, j \in 1..Len(a) :
    j = i + MaxRequests => a[j].start >= a[i].start + Window

\* The last count of them are in the window that ends at end.
LastIn(a, end, count) ==
  /\ count <= Len(a)
  /\ \A i \in 1..Len(a) :
       /\ i > Len(a) - count => a[i].start = end - Window
       /\ i <= Len(a) - count => a[i].start + Window <= end - Window

\* All of them are in windows that are over.
Over(a, t) == \A i \in 1..Len(a) : a[i].start + Window <= t

PairInv(p) ==
  /\ Within(admitted[p], now)
  /\ Spread(admitted[p])
  /\ buckets[p] # NoBucket =>
       /\ buckets[p].resetAt >= Window /\ buckets[p].resetAt <= now + Window
       /\ LastIn(admitted[p], buckets[p].resetAt, buckets[p].count)
  /\ buckets[p] = NoBucket => Over(admitted[p], now)

TableInv ==
  /\ IsFiniteSet(Known(buckets))
  /\ Cardinality(Known(buckets)) <= MaxBuckets

LimiterInv ==
  /\ LimiterTypeOK
  /\ TableInv
  /\ \A p \in Pairs : PairInv(p)

-----------------------------------------------------------------------------

LEMMA WindowNat == Window \in Nat /\ Window > 0
<1>1. \A m, n \in Nat \ {0} : m * n \in Nat /\ m * n > 0
  OBVIOUS
<1> QED BY <1>1, LimiterConstants DEF Window

LEMMA EntryAt ==
  ASSUME NEW a \in Seq(Entry), NEW i \in 1..Len(a)
  PROVE  a[i] \in Entry /\ a[i].at \in Nat /\ a[i].start \in Nat
<1>1. a[i] \in Entry
  OBVIOUS
<1> QED BY <1>1 DEF Entry

\* What dropping expired buckets leaves of a bucket.
LEMMA PrunedBucket ==
  ASSUME LimiterTypeOK, NEW p \in Pairs
  PROVE  /\ Pruned \in [Pairs -> Bucket \cup {NoBucket}]
         /\ Pruned[p] # NoBucket => Pruned[p] = buckets[p]
         /\ Pruned[p] = NoBucket /\ buckets[p] # NoBucket =>
              buckets[p].resetAt <= now
<1>1. buckets \in [Pairs -> Bucket \cup {NoBucket}] /\ now \in Nat
  BY DEF LimiterTypeOK
<1>2. \A b \in Bucket : b.resetAt \in Nat
  BY DEF Bucket
<1> QED BY <1>1, <1>2 DEF Pruned

LEMMA PrunedKeeps ==
  ASSUME LimiterInv, NEW p \in Pairs
  PROVE  /\ Pruned[p] = NoBucket => Over(admitted[p], now)
         /\ Pruned[p] # NoBucket =>
              /\ Pruned[p] \in Bucket
              /\ Pruned[p].resetAt >= Window
              /\ Pruned[p].resetAt <= now + Window
              /\ LastIn(admitted[p], Pruned[p].resetAt, Pruned[p].count)
<1>1. LimiterTypeOK /\ PairInv(p)
  BY DEF LimiterInv
<1>2. CASE Pruned[p] # NoBucket
  <2>1. Pruned[p] = buckets[p] /\ Pruned[p] \in Bucket
    BY <1>1, <1>2, PrunedBucket
  <2> QED BY <1>1, <1>2, <2>1 DEF PairInv
<1>3. CASE Pruned[p] = NoBucket /\ buckets[p] = NoBucket
  BY <1>1, <1>3 DEF PairInv
<1>4. CASE Pruned[p] = NoBucket /\ buckets[p] # NoBucket
  <2>1. buckets[p].resetAt <= now
    BY <1>1, <1>4, PrunedBucket
  <2>2. LastIn(admitted[p], buckets[p].resetAt, buckets[p].count)
    BY <1>1, <1>4 DEF PairInv
  <2>3. /\ buckets[p].resetAt \in Nat /\ buckets[p].count \in Nat /\ now \in Nat
        /\ admitted[p] \in Seq(Entry)
    BY <1>1, <1>4, LimiterConstants DEF LimiterTypeOK, Bucket, Entry
  <2>4. \A i \in 1..Len(admitted[p]) : admitted[p][i].start \in Nat
    BY <2>3, EntryAt
  <2>5. SUFFICES ASSUME NEW i \in 1..Len(admitted[p])
                 PROVE  admitted[p][i].start + Window <= now
    BY <1>4 DEF Over
  <2>6. /\ admitted[p][i].start = buckets[p].resetAt - Window
        \/ admitted[p][i].start + Window <= buckets[p].resetAt - Window
    <3>1. Len(admitted[p]) \in Nat
      BY <2>3
    <3> QED BY <2>2, <2>3, <3>1 DEF LastIn
  <2> QED BY <2>1, <2>3, <2>4, <2>6, WindowNat
<1> QED BY <1>2, <1>3, <1>4

\* Fewer buckets are left than there were.
LEMMA PrunedSmaller ==
  ASSUME LimiterInv
  PROVE  /\ Known(Pruned) \subseteq Known(buckets)
         /\ IsFiniteSet(Known(Pruned))
         /\ Cardinality(Known(Pruned)) <= MaxBuckets
<1>1. Known(Pruned) \subseteq Known(buckets)
  BY PrunedBucket DEF LimiterInv, Known
<1>2. /\ IsFiniteSet(Known(Pruned))
      /\ Cardinality(Known(Pruned)) <= Cardinality(Known(buckets))
  BY <1>1, FS_Subset DEF LimiterInv, TableInv
<1>3. /\ Cardinality(Known(Pruned)) \in Nat
      /\ Cardinality(Known(buckets)) \in Nat
  BY <1>2, FS_CardinalityType DEF LimiterInv, TableInv
<1> QED BY <1>1, <1>2, <1>3, LimiterConstants DEF LimiterInv, TableInv

\* One more request in the window that ends at end.
LEMMA OneMore ==
  ASSUME NEW a \in Seq(Entry), NEW t \in Nat, Within(a, t), Spread(a),
         NEW end \in Nat, NEW count \in Nat, LastIn(a, end, count),
         count < MaxRequests, end - Window <= t, t < end, Window <= end
  PROVE  LET e == [at |-> t, start |-> end - Window]
             b == Append(a, e)
         IN /\ b \in Seq(Entry)
            /\ Within(b, t) /\ Spread(b) /\ LastIn(b, end, count + 1)
<1> DEFINE e == [at |-> t, start |-> end - Window]
           b == Append(a, e)
<1>1. Window \in Nat /\ Window > 0 /\ MaxRequests \in Nat /\ MaxRequests > 0
  BY WindowNat, LimiterConstants
<1>2. e \in Entry /\ e.at = t /\ e.start = end - Window
  BY <1>1 DEF Entry
<1>3. /\ b \in Seq(Entry) /\ Len(b) = Len(a) + 1 /\ Len(a) \in Nat
      /\ b[Len(a) + 1] = e
      /\ \A i \in 1..Len(a) : b[i] = a[i] /\ a[i].start \in Nat /\ a[i].at \in Nat
  <2> HIDE DEF e
  <2>1. \A i \in 1..Len(a) : a[i].start \in Nat /\ a[i].at \in Nat
    BY EntryAt
  <2> QED BY <1>2, <2>1
<1> HIDE DEF b, e
<1>4. \A i \in 1..Len(b) : i \in 1..Len(a) \/ i = Len(a) + 1
  BY <1>3
<1>5. Within(b, t)
  <2> SUFFICES ASSUME NEW i \in 1..Len(b)
               PROVE  /\ b[i].at <= t /\ b[i].start <= b[i].at
                      /\ b[i].at < b[i].start + Window
    BY DEF Within
  <2>1. CASE i \in 1..Len(a)
    BY <1>3, <2>1 DEF Within
  <2>2. CASE i = Len(a) + 1
    BY <1>1, <1>2, <1>3, <2>2
  <2> QED BY <1>4, <2>1, <2>2
<1>6. Spread(b)
  <2> SUFFICES ASSUME NEW i \in 1..Len(b), NEW j \in 1..Len(b),
                      j = i + MaxRequests
               PROVE  b[j].start >= b[i].start + Window
    BY DEF Spread
  <2>1. i \in 1..Len(a)
    BY <1>1, <1>3
  <2>2. CASE j \in 1..Len(a)
    BY <1>3, <2>1, <2>2 DEF Spread
  <2>3. CASE j = Len(a) + 1
    <3>1. i <= Len(a) - count
      BY <1>1, <1>3, <2>3
    <3>2. a[i].start + Window <= end - Window
      BY <2>1, <3>1 DEF LastIn
    <3> QED BY <1>1, <1>2, <1>3, <2>1, <2>3, <3>2
  <2> QED BY <1>4, <2>2, <2>3
<1>7. LastIn(b, end, count + 1)
  <2>1. count + 1 <= Len(b)
    BY <1>3 DEF LastIn
  <2> SUFFICES ASSUME NEW i \in 1..Len(b)
               PROVE  /\ i > Len(b) - (count + 1) => b[i].start = end - Window
                      /\ i <= Len(b) - (count + 1) =>
                           b[i].start + Window <= end - Window
    BY <2>1 DEF LastIn
  <2>2. Len(b) - (count + 1) = Len(a) - count
    BY <1>3
  <2>3. CASE i \in 1..Len(a)
    BY <1>3, <2>2, <2>3 DEF LastIn
  <2>4. CASE i = Len(a) + 1
    BY <1>1, <1>2, <1>3, <2>2, <2>4
  <2> QED BY <1>4, <2>3, <2>4
<1> QED BY <1>3, <1>5, <1>6, <1>7 DEF b, e

-----------------------------------------------------------------------------

LEMMA LimiterStart == LimiterInit => LimiterInv
<1> SUFFICES ASSUME LimiterInit PROVE LimiterInv
  OBVIOUS
<1>1. LimiterTypeOK
  BY DEF LimiterInit, LimiterTypeOK, NotRefused
<1>2. Known(buckets) = {}
  BY DEF LimiterInit, Known
<1>3. TableInv
  BY <1>2, FS_EmptySet, LimiterConstants DEF TableInv
<1>4. \A p \in Pairs : PairInv(p)
  BY DEF LimiterInit, PairInv, Within, Spread, Over
<1> QED BY <1>1, <1>3, <1>4 DEF LimiterInv

LEMMA TickKeeps == LimiterInv /\ Tick => LimiterInv'
<1> SUFFICES ASSUME LimiterInv, Tick PROVE LimiterInv'
  OBVIOUS
<1>1. LimiterTypeOK'
  BY DEF LimiterInv, LimiterTypeOK, Tick
<1>2. TableInv'
  BY DEF LimiterInv, TableInv, Tick, Known
<1>3. ASSUME NEW p \in Pairs PROVE PairInv(p)'
  <2>1. /\ now \in Nat /\ now' = now + 1 /\ PairInv(p)
        /\ buckets' = buckets /\ admitted' = admitted
        /\ admitted[p] \in Seq(Entry)
    BY DEF LimiterInv, LimiterTypeOK, Tick, Entry
  <2>2. \A i \in 1..Len(admitted[p]) :
          admitted[p][i].at \in Nat /\ admitted[p][i].start \in Nat
    BY <2>1, EntryAt
  <2>3. Within(admitted[p], now')
    BY <2>1, <2>2 DEF PairInv, Within
  <2>4. Over(admitted[p], now) => Over(admitted[p], now')
    BY <2>1, <2>2, WindowNat DEF Over
  <2>5. buckets[p] # NoBucket =>
          buckets[p].resetAt \in Nat /\ buckets[p].resetAt <= now' + Window
    BY <2>1, WindowNat DEF LimiterInv, LimiterTypeOK, Bucket, PairInv
  <2> QED BY <2>1, <2>3, <2>4, <2>5 DEF PairInv
<1> QED BY <1>1, <1>2, <1>3 DEF LimiterInv

\* A pair whose history stays as it is and whose bucket is at most pruned.
LEMMA PairPruned ==
  ASSUME LimiterInv, NEW p \in Pairs, now' = now,
         admitted'[p] = admitted[p], buckets'[p] = Pruned[p]
  PROVE  PairInv(p)'
BY PrunedKeeps DEF LimiterInv, PairInv

LEMMA CleanupType == LimiterTypeOK => Cleanup \in Nat
BY WindowNat DEF LimiterTypeOK, Cleanup

LEMMA RefusalKeeps ==
  ASSUME LimiterInv, NEW p \in Pairs, RefuseNew(p) \/ RefuseMore(p)
  PROVE  LimiterInv'
<1>1. /\ now' = now /\ admitted' = admitted
      /\ buckets' = Pruned /\ nextCleanup' = Cleanup
  BY DEF RefuseNew, RefuseMore
<1>2. refused' \in [Pairs -> [until : Nat, end : Nat]]
  <2>1. CASE RefuseNew(p)
    BY <2>1 DEF RefuseNew, LimiterInv, LimiterTypeOK
  <2>2. CASE RefuseMore(p)
    <3>1. now \in Nat /\ Second \in Nat /\ Second > 0
      BY LimiterConstants DEF LimiterInv, LimiterTypeOK
    <3>2. Current(p).resetAt \in Nat /\ Current(p).resetAt >= now
      <4>1. Pruned[p] \in Bucket \cup {NoBucket}
        BY PrunedBucket DEF LimiterInv
      <4> QED BY <3>1, <4>1, WindowNat DEF Current, Bucket
    <3>3. RetryAfter(p) \in Nat
      BY <3>1, <3>2 DEF RetryAfter
    <3>4. RetryAfter(p) * Second \in Nat
      BY <3>1, <3>3
    <3> QED BY <2>2, <3>1, <3>2, <3>4 DEF RefuseMore, LimiterInv, LimiterTypeOK
  <2> QED BY <2>1, <2>2
<1>3. LimiterTypeOK'
  BY <1>1, <1>2, PrunedBucket, CleanupType DEF LimiterInv, LimiterTypeOK
<1>4. TableInv'
  BY <1>1, PrunedSmaller DEF TableInv, Known
<1>5. \A q \in Pairs : PairInv(q)'
  BY <1>1, PairPruned
<1> QED BY <1>3, <1>4, <1>5 DEF LimiterInv

LEMMA AdmissionKeeps ==
  ASSUME LimiterInv, NEW p \in Pairs, Admit(p)
  PROVE  LimiterInv'
<1> DEFINE c == Current(p)
           e == [at |-> now, start |-> c.resetAt - Window]
           b == [resetAt |-> c.resetAt, count |-> c.count + 1]
<1>1. /\ now \in Nat /\ now' = now
      /\ admitted \in [Pairs -> Seq(Entry)]
      /\ admitted' = [admitted EXCEPT ![p] = Append(@, e)]
      /\ buckets' = [Pruned EXCEPT ![p] = b]
      /\ nextCleanup' = Cleanup
      /\ refused' = [refused EXCEPT ![p] = NotRefused]
      /\ Pruned \in [Pairs -> Bucket \cup {NoBucket}]
  BY PrunedBucket DEF Admit, LimiterInv, LimiterTypeOK, Entry
<1>2. /\ c.resetAt \in Nat /\ c.count \in Nat /\ c.count < MaxRequests
      /\ now < c.resetAt /\ Window <= c.resetAt /\ c.resetAt <= now + Window
      /\ LastIn(admitted[p], c.resetAt, c.count)
  <2>1. c.count < MaxRequests /\ c.count \in Nat /\ c.resetAt \in Nat
    <3>1. c.count \in Nat /\ c.resetAt \in Nat
      BY <1>1, WindowNat, LimiterConstants DEF Current, Bucket
    <3>2. ~(c.count >= MaxRequests)
      BY DEF Admit, Exhausted
    <3> QED BY <3>1, <3>2, LimiterConstants
  <2>2. CASE Pruned[p] # NoBucket /\ ~(now >= Pruned[p].resetAt)
    <3>1. c = Pruned[p]
      BY <2>2 DEF Current
    <3> QED BY <1>1, <2>1, <2>2, <3>1, PrunedKeeps
  <2>3. CASE ~(Pruned[p] # NoBucket /\ ~(now >= Pruned[p].resetAt))
    <3>1. c.resetAt = now + Window /\ c.count = 0
      BY <2>3 DEF Current
    <3>2. Over(admitted[p], now)
      <4>1. CASE Pruned[p] = NoBucket
        BY <4>1, PrunedKeeps
      <4>2. CASE Pruned[p] # NoBucket /\ now >= Pruned[p].resetAt
        <5>1. /\ Pruned[p].resetAt \in Nat /\ Pruned[p].count \in Nat
              /\ LastIn(admitted[p], Pruned[p].resetAt, Pruned[p].count)
          BY <1>1, <4>2, PrunedKeeps, LimiterConstants DEF Bucket
        <5>2. admitted[p] \in Seq(Entry) /\ Len(admitted[p]) \in Nat
          BY <1>1
        <5> SUFFICES ASSUME NEW i \in 1..Len(admitted[p])
                     PROVE  admitted[p][i].start + Window <= now
          BY DEF Over
        <5>3. admitted[p][i].start \in Nat
          BY <5>2, EntryAt
        <5>4. \/ admitted[p][i].start = Pruned[p].resetAt - Window
              \/ admitted[p][i].start + Window <= Pruned[p].resetAt - Window
          BY <5>1, <5>2 DEF LastIn
        <5> QED BY <1>1, <4>2, <5>1, <5>3, <5>4, WindowNat
      <4> QED BY <2>3, <4>1, <4>2
    <3>3. LastIn(admitted[p], now + Window, 0)
      <4>1. admitted[p] \in Seq(Entry) /\ Len(admitted[p]) \in Nat
        BY <1>1
      <4>2. (now + Window) - Window = now
        BY <1>1, WindowNat
      <4> QED BY <3>2, <4>1, <4>2 DEF Over, LastIn
    <3> QED BY <1>1, <2>1, <3>1, <3>3, WindowNat
  <2> QED BY <2>2, <2>3
<1> HIDE DEF c
<1>3. /\ Append(admitted[p], e) \in Seq(Entry)
      /\ Within(Append(admitted[p], e), now)
      /\ Spread(Append(admitted[p], e))
      /\ LastIn(Append(admitted[p], e), c.resetAt, c.count + 1)
  <2>1. Within(admitted[p], now) /\ Spread(admitted[p])
    BY DEF LimiterInv, PairInv
  <2>2. admitted[p] \in Seq(Entry) /\ c.resetAt - Window <= now
    BY <1>1, <1>2, WindowNat
  <2> QED BY <1>1, <1>2, <2>1, <2>2, OneMore
<1>4. b \in Bucket
  BY <1>2, LimiterConstants DEF Bucket
<1>5. LimiterTypeOK'
  <2>1. admitted' \in [Pairs -> Seq(Entry)]
    <3> HIDE DEF e
    <3> QED BY <1>1, <1>3
  <2>2. buckets' \in [Pairs -> Bucket \cup {NoBucket}]
    <3> HIDE DEF b
    <3> QED BY <1>1, <1>4
  <2> QED BY <1>1, <2>1, <2>2, CleanupType
          DEF LimiterInv, LimiterTypeOK, Entry, NotRefused
<1>6. TableInv'
  <2>1. Known(buckets)' = Known(Pruned) \cup {p}
    <3>1. b # NoBucket
      BY <1>4, LimiterConstants DEF Bucket
    <3> HIDE DEF b
    <3> QED BY <1>1, <3>1 DEF Known
  <2>2. CASE p \in Known(Pruned)
    <3>1. Known(buckets)' = Known(Pruned)
      BY <2>1, <2>2
    <3> QED BY <3>1, PrunedSmaller DEF TableInv
  <2>3. CASE p \notin Known(Pruned)
    <3>1. ~(Cardinality(Known(Pruned)) >= MaxBuckets)
      BY <2>3 DEF Admit, Full, Known
    <3>2. Cardinality(Known(Pruned)) \in Nat
      BY PrunedSmaller, FS_CardinalityType
    <3>3. /\ IsFiniteSet(Known(Pruned) \cup {p})
          /\ Cardinality(Known(Pruned) \cup {p}) = Cardinality(Known(Pruned)) + 1
      BY <2>3, PrunedSmaller, FS_AddElement
    <3> QED BY <2>1, <3>1, <3>2, <3>3, LimiterConstants DEF TableInv
  <2> QED BY <2>2, <2>3
<1>7. ASSUME NEW q \in Pairs PROVE PairInv(q)'
  <2>1. CASE q = p
    <3>1. admitted'[p] = Append(admitted[p], e) /\ buckets'[p] = b
      BY <1>1
    <3>2. b # NoBucket
      BY <1>4, LimiterConstants DEF Bucket
    <3> QED BY <1>1, <1>2, <1>3, <2>1, <3>1, <3>2 DEF PairInv
  <2>2. CASE q # p
    <3>1. admitted'[q] = admitted[q] /\ buckets'[q] = Pruned[q]
      BY <1>1, <2>2
    <3> QED BY <1>1, <3>1, PairPruned
  <2> QED BY <2>1, <2>2
<1> QED BY <1>5, <1>6, <1>7 DEF LimiterInv

LEMMA LimiterStep == LimiterInv /\ [LimiterNext]_limiterVars => LimiterInv'
<1> SUFFICES ASSUME LimiterInv, [LimiterNext]_limiterVars
             PROVE  LimiterInv'
  OBVIOUS
<1>1. CASE Tick
  BY <1>1, TickKeeps
<1>2. ASSUME NEW p \in Pairs, Check(p) PROVE LimiterInv'
  BY <1>2, AdmissionKeeps, RefusalKeeps DEF Check
<1>3. CASE UNCHANGED limiterVars
  BY <1>3 DEF limiterVars, LimiterInv, LimiterTypeOK, TableInv, PairInv, Known
<1> QED BY <1>1, <1>2, <1>3 DEF LimiterNext

LEMMA LimiterInvariance == LimiterSpec => []LimiterInv
BY LimiterStart, LimiterStep, PTL DEF LimiterSpec

-----------------------------------------------------------------------------

\* Memory: the table never holds more pairs than max_buckets (the capacity
\* test in _check, and the cleanup that only ever shrinks the table).
THEOREM LimiterTableBounded == LimiterSpec => []TableBounded
<1>1. LimiterInv => TableBounded
  BY DEF LimiterInv, TableInv, TableBounded
<1> QED BY <1>1, LimiterInvariance, PTL

\* Rate: no stretch as long as a window sees more than twice max_requests of
\* one pair let through, whatever was dropped or refused meanwhile (_check).
THEOREM LimiterRateBounded == LimiterSpec => []NeverTwiceTheLimit
<1>1. LimiterInv => NeverTwiceTheLimit
  <2> SUFFICES ASSUME LimiterInv, NEW p \in Pairs,
                      NEW i \in DOMAIN admitted[p], NEW j \in DOMAIN admitted[p],
                      j = i + 2 * MaxRequests
               PROVE  admitted[p][j].at - admitted[p][i].at >= Window
    BY DEF NeverTwiceTheLimit
  <2> DEFINE a == admitted[p]
             k == i + MaxRequests
  <2>1. a \in Seq(Entry) /\ Within(a, now) /\ Spread(a)
    BY DEF LimiterInv, LimiterTypeOK, PairInv, Entry
  <2>2. /\ i \in 1..Len(a) /\ j \in 1..Len(a) /\ k \in 1..Len(a)
        /\ j = k + MaxRequests
    BY <2>1, LimiterConstants
  <2>3. /\ a[i].at \in Nat /\ a[i].start \in Nat
        /\ a[k].at \in Nat /\ a[k].start \in Nat
        /\ a[j].at \in Nat /\ a[j].start \in Nat
    BY <2>1, <2>2, EntryAt
  <2>4. a[k].start >= a[i].start + Window /\ a[j].start >= a[k].start + Window
    BY <2>1, <2>2 DEF Spread
  <2>5. a[i].at < a[i].start + Window /\ a[j].start <= a[j].at
    BY <2>1, <2>2 DEF Within
  <2> HIDE DEF a, k
  <2>6. a[j].at - a[i].at >= Window
    BY <2>3, <2>4, <2>5, WindowNat
  <2> QED BY <2>6 DEF a
<1> QED BY <1>1, LimiterInvariance, PTL

-----------------------------------------------------------------------------
(* What the table has to do with the last two windows *)

\* A cleanup leaves only buckets that end after it.
CleanupInv ==
  /\ nextCleanup <= now + Window
  /\ \A p \in Pairs : buckets[p] # NoBucket =>
       buckets[p].resetAt > nextCleanup - Window

\* So far only finitely many pairs were let through.
Heard == {p \in Pairs : admitted[p] # <<>>}

\* What Retry-After falls short of is less than a second.
WaitInv ==
  \A p \in Pairs : refused[p].end < refused[p].until + Second

RecencyInv == CleanupInv /\ IsFiniteSet(Heard) /\ WaitInv

\* The bucket check works with is not over, and ends after the last cleanup.
LEMMA CurrentAhead ==
  ASSUME LimiterTypeOK, CleanupInv, NEW p \in Pairs
  PROVE  /\ Current(p).resetAt \in Nat
         /\ now < Current(p).resetAt
         /\ Current(p).resetAt > Cleanup - Window
<1>1. /\ now \in Nat /\ nextCleanup \in Nat
      /\ Pruned[p] \in Bucket \cup {NoBucket}
      /\ Pruned[p] # NoBucket => Pruned[p] = buckets[p]
  BY PrunedBucket DEF LimiterTypeOK
<1>2. CASE Pruned[p] = NoBucket \/ now >= Pruned[p].resetAt
  <2>1. Current(p).resetAt = now + Window
    BY <1>2 DEF Current
  <2> QED BY <1>1, <2>1, WindowNat DEF Cleanup, CleanupInv
<1>3. CASE Pruned[p] # NoBucket /\ ~(now >= Pruned[p].resetAt)
  <2>1. /\ Current(p) = buckets[p] /\ buckets[p] # NoBucket
        /\ buckets[p].resetAt \in Nat /\ now < buckets[p].resetAt
    BY <1>1, <1>3 DEF Current, Bucket
  <2> QED BY <1>1, <2>1, WindowNat DEF Cleanup, CleanupInv
<1> QED BY <1>2, <1>3

\* A bucket that is left ends after the last cleanup.
LEMMA PrunedAhead ==
  ASSUME LimiterTypeOK, CleanupInv, NEW p \in Pairs, Pruned[p] # NoBucket
  PROVE  Pruned[p].resetAt > Cleanup - Window
<1>1. /\ now \in Nat /\ nextCleanup \in Nat
      /\ Pruned[p] = buckets[p] /\ buckets[p].resetAt \in Nat
  BY PrunedBucket DEF LimiterTypeOK, Bucket
<1>2. now >= nextCleanup => Pruned[p].resetAt > now
  BY <1>1 DEF Pruned
<1> QED BY <1>1, <1>2, WindowNat DEF Cleanup, CleanupInv

\* Retry-After falls less than a second short of the window's end.
LEMMA WaitTold ==
  ASSUME LimiterTypeOK, CleanupInv, NEW p \in Pairs
  PROVE  Current(p).resetAt < (now + RetryAfter(p) * Second) + Second
<1> DEFINE left == Current(p).resetAt - now
           whole == left \div Second
           told == RetryAfter(p)
           cut == whole * Second
<1>1. /\ left \in Nat /\ left > 0 /\ now \in Nat /\ Current(p).resetAt \in Nat
      /\ Second \in Nat /\ Second > 0
  BY CurrentAhead, LimiterConstants DEF LimiterTypeOK
<1>2. /\ whole \in Nat /\ left = whole * Second + (left % Second)
      /\ left % Second \in 0 .. Second - 1
  <2> HIDE DEF left
  <2> QED BY <1>1
<1>3. told = IF whole >= 1 THEN whole ELSE 1
  BY DEF RetryAfter
<1>4. cut \in Nat /\ left < cut + Second
  <2>1. cut \in Nat
    <3> HIDE DEF whole
    <3> QED BY <1>1, <1>2
  <2> HIDE DEF left, whole, cut
  <2>2. left = cut + (left % Second)
    BY <1>2 DEF cut
  <2> QED BY <1>1, <1>2, <2>1, <2>2
<1>5. told * Second \in Nat /\ left < told * Second + Second
  <2> HIDE DEF left, whole, told
  <2>1. CASE whole >= 1
    <3>1. told * Second = cut
      BY <1>3, <2>1
    <3> HIDE DEF cut
    <3> QED BY <1>4, <3>1
  <2>2. CASE ~(whole >= 1)
    <3>1. whole = 0 /\ told = 1
      BY <1>2, <1>3, <2>2
    <3>2. cut = 0 /\ told * Second = Second
      BY <1>1, <3>1
    <3> HIDE DEF cut
    <3> QED BY <1>1, <1>4, <3>2
  <2> QED BY <2>1, <2>2
<1> DEFINE wait == told * Second
<1>6. Current(p).resetAt = now + left
  BY <1>1
<1>7. Current(p).resetAt < (now + wait) + Second
  <2> HIDE DEF left, told, wait
  <2>1. wait \in Nat /\ left < wait + Second
    BY <1>5 DEF wait
  <2> QED BY <1>1, <1>6, <2>1
<1> QED BY <1>7

LEMMA RecencyStart == LimiterInit => RecencyInv
<1> SUFFICES ASSUME LimiterInit PROVE RecencyInv
  OBVIOUS
<1>1. CleanupInv
  BY WindowNat DEF LimiterInit, CleanupInv
<1>2. Heard = {}
  BY DEF LimiterInit, Heard
<1>3. WaitInv
  BY LimiterConstants DEF LimiterInit, WaitInv, NotRefused
<1> QED BY <1>1, <1>2, <1>3, FS_EmptySet DEF RecencyInv

LEMMA RecencyStep ==
  LimiterInv /\ RecencyInv /\ [LimiterNext]_limiterVars => RecencyInv'
<1> SUFFICES ASSUME LimiterInv, RecencyInv, [LimiterNext]_limiterVars
             PROVE  RecencyInv'
  OBVIOUS
<1>0. /\ LimiterTypeOK /\ CleanupInv /\ now \in Nat /\ nextCleanup \in Nat
      /\ Second \in Nat /\ Second > 0
  BY LimiterConstants DEF LimiterInv, LimiterTypeOK, RecencyInv
<1>1. CASE Tick
  <2>1. CleanupInv'
    BY <1>0, <1>1, WindowNat DEF Tick, CleanupInv
  <2> QED BY <1>1, <2>1 DEF Tick, RecencyInv, Heard, WaitInv
<1>2. ASSUME NEW p \in Pairs, Admit(p) PROVE RecencyInv'
  <2> DEFINE b == [resetAt |-> Current(p).resetAt, count |-> Current(p).count + 1]
             e == [at |-> now, start |-> Current(p).resetAt - Window]
  <2>1. /\ now' = now /\ nextCleanup' = Cleanup
        /\ buckets' = [Pruned EXCEPT ![p] = b]
        /\ admitted' = [admitted EXCEPT ![p] = Append(@, e)]
        /\ refused' = [refused EXCEPT ![p] = NotRefused]
    BY <1>2 DEF Admit
  <2>2. CleanupInv'
    <3>1. nextCleanup' <= now' + Window
      BY <1>0, <2>1 DEF Cleanup, CleanupInv
    <3>2. ASSUME NEW q \in Pairs, buckets'[q] # NoBucket
          PROVE  buckets'[q].resetAt > Cleanup - Window
      <4>0. Pruned \in [Pairs -> Bucket \cup {NoBucket}]
        BY <1>0, PrunedBucket
      <4>1. CASE q = p
        BY <1>0, <2>1, <4>0, <4>1, CurrentAhead
      <4>2. CASE q # p
        <5>1. buckets'[q] = Pruned[q]
          BY <2>1, <4>2, <4>0
        <5> QED BY <1>0, <3>2, <5>1, PrunedAhead
      <4> QED BY <4>1, <4>2
    <3> QED BY <2>1, <3>1, <3>2 DEF CleanupInv
  <2>3. IsFiniteSet(Heard')
    <3> HIDE DEF e
    <3>1. Heard' \subseteq Heard \cup {p}
      BY <2>1 DEF Heard, LimiterInv, LimiterTypeOK
    <3>2. IsFiniteSet(Heard \cup {p})
      BY FS_AddElement DEF RecencyInv
    <3> QED BY <3>1, <3>2, FS_Subset
  <2>4. WaitInv'
    BY <1>0, <2>1 DEF RecencyInv, WaitInv, NotRefused, LimiterTypeOK
  <2> QED BY <2>2, <2>3, <2>4 DEF RecencyInv
<1>3. ASSUME NEW p \in Pairs, RefuseNew(p) \/ RefuseMore(p) PROVE RecencyInv'
  <2>1. /\ now' = now /\ nextCleanup' = Cleanup
        /\ buckets' = Pruned /\ admitted' = admitted
    BY <1>3 DEF RefuseNew, RefuseMore
  <2>2. CleanupInv'
    <3>1. nextCleanup' <= now' + Window
      BY <1>0, <2>1 DEF Cleanup, CleanupInv
    <3> QED BY <1>0, <2>1, <3>1, PrunedAhead DEF CleanupInv
  <2>3. WaitInv'
    <3>1. CASE RefuseNew(p)
      BY <3>1 DEF RefuseNew, RecencyInv, WaitInv
    <3>2. CASE RefuseMore(p)
      <4>1. refused' = [refused EXCEPT ![p] =
              [until |-> now + RetryAfter(p) * Second, end |-> Current(p).resetAt]]
        BY <3>2 DEF RefuseMore
      <4>2. Current(p).resetAt < (now + RetryAfter(p) * Second) + Second
        BY <1>0, WaitTold
      <4>3. refused \in [Pairs -> [until : Nat, end : Nat]]
        BY <1>0 DEF LimiterTypeOK
      <4> QED BY <4>1, <4>2, <4>3 DEF RecencyInv, WaitInv
    <3> QED BY <1>3, <3>1, <3>2
  <2> QED BY <2>1, <2>2, <2>3 DEF RecencyInv, Heard
<1>4. CASE UNCHANGED limiterVars
  BY <1>4 DEF limiterVars, RecencyInv, CleanupInv, Heard, WaitInv
<1> QED BY <1>1, <1>2, <1>3, <1>4 DEF LimiterNext, Check

LEMMA RecencyInvariance == LimiterSpec => []RecencyInv
BY LimiterStart, LimiterStep, RecencyStart, RecencyStep, PTL DEF LimiterSpec

\* The limiter's tables keep their shape; a bucket's count stays within
\* max_requests (_check).
THEOREM LimiterTyped == LimiterSpec => []LimiterTypeOK
<1>1. LimiterInv => LimiterTypeOK
  BY DEF LimiterInv
<1> QED BY <1>1, LimiterInvariance, PTL

\* Room: a pair is turned away for lack of room only while as many pairs as
\* there is room for were let through in the last two windows, as a bucket
\* is kept for at most a window after its end (_next_cleanup in _check).
THEOREM LimiterFullOfRecent == LimiterSpec => []FullMeansRecent
<1>1. LimiterInv /\ RecencyInv => FullMeansRecent
  <2> SUFFICES ASSUME LimiterInv, RecencyInv, NEW p \in Pairs, Full(p)
               PROVE  MaxBuckets <= Cardinality(
                        {q \in Pairs : \E i \in DOMAIN admitted[q] :
                                         admitted[q][i].at > now - 2 * Window})
    BY DEF FullMeansRecent
  <2> DEFINE Recent == {q \in Pairs : \E i \in DOMAIN admitted[q] :
                                        admitted[q][i].at > now - 2 * Window}
  <2>1. Recent \subseteq Heard
    <3> SUFFICES ASSUME NEW q \in Pairs, NEW i \in DOMAIN admitted[q]
                 PROVE  admitted[q] # <<>>
      BY DEF Heard
    <3> QED OBVIOUS
  <2>2. Known(Pruned) \subseteq Recent
    <3> SUFFICES ASSUME NEW q \in Pairs, Pruned[q] # NoBucket
                 PROVE  \E i \in DOMAIN admitted[q] :
                          admitted[q][i].at > now - 2 * Window
      BY DEF Known
    <3> DEFINE a == admitted[q]
               b == Pruned[q]
    <3>1. /\ b \in Bucket /\ LastIn(a, b.resetAt, b.count)
          /\ a \in Seq(Entry) /\ Within(a, now)
      BY PrunedKeeps DEF LimiterInv, LimiterTypeOK, PairInv, Entry
    <3>2. /\ b.resetAt \in Nat /\ b.count \in Nat /\ b.count >= 1
          /\ now \in Nat /\ nextCleanup \in Nat /\ Len(a) \in Nat
      BY <3>1, LimiterConstants DEF Bucket, LimiterInv, LimiterTypeOK
    <3>3. b.resetAt > Cleanup - Window
      BY PrunedAhead DEF LimiterInv, RecencyInv
    <3> HIDE DEF a, b
    <3>4. Len(a) \in 1..Len(a) /\ a[Len(a)].start = b.resetAt - Window
      BY <3>1, <3>2 DEF LastIn
    <3>5. a[Len(a)].start <= a[Len(a)].at /\ a[Len(a)].at \in Nat
      BY <3>1, <3>4, EntryAt DEF Within
    <3>6. Cleanup > now
      BY <3>2, WindowNat DEF Cleanup
    <3>7. Cleanup \in Nat
      BY <3>2, WindowNat DEF Cleanup
    <3>8. a[Len(a)].at > now - 2 * Window
      BY <3>2, <3>3, <3>4, <3>5, <3>6, <3>7, WindowNat
    <3>9. DOMAIN a = 1..Len(a)
      BY <3>1
    <3> QED BY <3>4, <3>8, <3>9 DEF a
  <2>3. IsFiniteSet(Recent) /\ Cardinality(Known(Pruned)) <= Cardinality(Recent)
    <3>1. IsFiniteSet(Recent)
      BY <2>1, FS_Subset DEF RecencyInv
    <3> HIDE DEF Recent
    <3> QED BY <2>2, <3>1, FS_Subset
  <2>4. Cardinality(Known(Pruned)) >= MaxBuckets
    BY DEF Full
  <2> HIDE DEF Recent
  <2>5. Cardinality(Recent) \in Nat /\ Cardinality(Known(Pruned)) \in Nat
    BY <2>3, PrunedSmaller, FS_CardinalityType
  <2>6. MaxBuckets <= Cardinality(Recent)
    BY <2>3, <2>4, <2>5, LimiterConstants
  <2> QED BY <2>6 DEF Recent
<1> QED BY <1>1, LimiterInvariance, RecencyInvariance, PTL

\* Retry-After: whoever waits a second more than they were told to is out of
\* the window that refused them (retry_after_seconds in _check).
THEOREM LimiterWaitEnds == LimiterSpec => []WaitIsLongEnough
<1>1. LimiterInv /\ RecencyInv => WaitIsLongEnough
  <2> SUFFICES ASSUME LimiterInv, RecencyInv, NEW p \in Pairs,
                      now >= refused[p].until + Second
               PROVE  Current(p).resetAt # refused[p].end
    BY DEF WaitIsLongEnough
  <2>1. /\ now \in Nat /\ Second \in Nat
        /\ refused[p].until \in Nat /\ refused[p].end \in Nat
    BY LimiterConstants DEF LimiterInv, LimiterTypeOK
  <2>2. refused[p].end < refused[p].until + Second
    BY DEF RecencyInv, WaitInv
  <2>3. Current(p).resetAt \in Nat /\ now < Current(p).resetAt
    BY CurrentAhead DEF LimiterInv, RecencyInv
  <2> QED BY <2>1, <2>2, <2>3
<1> QED BY <1>1, LimiterInvariance, RecencyInvariance, PTL
=============================================================================
