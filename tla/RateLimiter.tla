---------------------------- MODULE RateLimiter ----------------------------
(***************************************************************************)
(* The rate limiter in front of every route of the service (service.py:    *)
(* FixedWindowRateLimiter).  A pair of a route's bucket and a client has a *)
(* counter and the time its window ends.  check holds a lock throughout,   *)
(* so it is one step; the clock is monotonic and counts in ticks, Second   *)
(* of them to a second, because Retry-After is cut to whole seconds.       *)
(***************************************************************************)
EXTENDS Integers, Sequences, FiniteSets

CONSTANTS Pairs,          \* bucket:client
          WindowSeconds, MaxRequests, MaxBuckets,
          Second,         \* ticks to a second
          NoBucket

ASSUME LimiterConstants ==
  /\ WindowSeconds \in Nat \ {0} /\ MaxRequests \in Nat \ {0}
  /\ MaxBuckets \in Nat \ {0} /\ Second \in Nat \ {0}
  /\ NoBucket \notin [resetAt : Nat, count : Nat]

VARIABLES now,            \* time.monotonic()
          buckets,        \* _buckets
          nextCleanup,    \* _next_cleanup
          admitted,       \* the requests let through: when, in what window
          refused         \* the last refusal of a pair not let through since

limiterVars == <<now, buckets, nextCleanup, admitted, refused>>

Window == WindowSeconds * Second

NotRefused == [until |-> 0, end |-> 0]

LimiterInit ==
  /\ now \in Nat
  /\ buckets = [p \in Pairs |-> NoBucket]
  /\ nextCleanup = 0
  /\ admitted = [p \in Pairs |-> <<>>]
  /\ refused = [p \in Pairs |-> NotRefused]

-----------------------------------------------------------------------------
(* check *)

Known(table) == {p \in Pairs : table[p] # NoBucket}

\* Mutant of Pruned: nothing is dropped.
PrunedNever == buckets

\* Once a window, the buckets whose time is over are dropped.
Pruned ==
  IF now >= nextCleanup
  THEN [p \in Pairs |-> IF buckets[p] # NoBucket /\ buckets[p].resetAt > now
                        THEN buckets[p] ELSE NoBucket]
  ELSE buckets

Cleanup == IF now >= nextCleanup THEN now + Window ELSE nextCleanup

\* Mutant of Full: one bucket too many.
FullLate(p) ==
  /\ Pruned[p] = NoBucket
  /\ Cardinality(Known(Pruned)) > MaxBuckets

\* A pair without a bucket, and no room for one more.
Full(p) ==
  /\ Pruned[p] = NoBucket
  /\ Cardinality(Known(Pruned)) >= MaxBuckets

\* Mutant of Current: a window is only ever ended by a cleanup.
CurrentKept(p) ==
  IF Pruned[p] = NoBucket
  THEN [resetAt |-> now + Window, count |-> 0]
  ELSE Pruned[p]

\* The bucket of a pair, a new one if it has none or its time is over.
Current(p) ==
  IF Pruned[p] = NoBucket \/ now >= Pruned[p].resetAt
  THEN [resetAt |-> now + Window, count |-> 0]
  ELSE Pruned[p]

\* Mutant of Exhausted: one request too many.
ExhaustedLate(p) == Current(p).count > MaxRequests

Exhausted(p) == Current(p).count >= MaxRequests

\* max(1, int(reset_at - now)), in seconds.
RetryAfter(p) ==
  LET whole == (Current(p).resetAt - now) \div Second
  IN IF whole >= 1 THEN whole ELSE 1

Admit(p) ==
  /\ ~Full(p) /\ ~Exhausted(p)
  /\ buckets' = [Pruned EXCEPT ![p] =
                   [resetAt |-> Current(p).resetAt,
                    count   |-> Current(p).count + 1]]
  /\ nextCleanup' = Cleanup
  /\ admitted' = [admitted EXCEPT ![p] =
       Append(@, [at |-> now, start |-> Current(p).resetAt - Window])]
  /\ refused' = [refused EXCEPT ![p] = NotRefused]
  /\ UNCHANGED now

\* 429: no room; the cleanup stays done.
RefuseNew(p) ==
  /\ Full(p)
  /\ buckets' = Pruned /\ nextCleanup' = Cleanup
  /\ UNCHANGED <<now, admitted, refused>>

\* 429: the window of the pair is used up.
RefuseMore(p) ==
  /\ ~Full(p) /\ Exhausted(p)
  /\ buckets' = Pruned /\ nextCleanup' = Cleanup
  /\ refused' = [refused EXCEPT ![p] =
       [until |-> now + RetryAfter(p) * Second, end |-> Current(p).resetAt]]
  /\ UNCHANGED <<now, admitted>>

Check(p) == Admit(p) \/ RefuseNew(p) \/ RefuseMore(p)

Tick ==
  /\ now' = now + 1
  /\ UNCHANGED <<buckets, nextCleanup, admitted, refused>>

LimiterNext == Tick \/ \E p \in Pairs : Check(p)

LimiterSpec == LimiterInit /\ [][LimiterNext]_limiterVars

-----------------------------------------------------------------------------
(* Properties *)

Bucket == [resetAt : Nat, count : 1..MaxRequests]

LimiterTypeOK ==
  /\ now \in Nat /\ nextCleanup \in Nat
  /\ buckets \in [Pairs -> Bucket \cup {NoBucket}]
  /\ admitted \in [Pairs -> Seq([at : Nat, start : Nat])]
  /\ refused \in [Pairs -> [until : Nat, end : Nat]]

\* The table holds no more pairs than max_buckets, whatever comes, so the
\* service's memory is bounded (the capacity test in _check).
TableBounded == Cardinality(Known(buckets)) <= MaxBuckets

\* No stretch as long as a window sees more than twice max_requests of one
\* pair let through, across the end of a window, a cleanup and a bucket that
\* was dropped and made again (_check).
NeverTwiceTheLimit ==
  \A p \in Pairs : \A i, j \in DOMAIN admitted[p] :
    j = i + 2 * MaxRequests =>
      admitted[p][j].at - admitted[p][i].at >= Window

\* A new pair finds no room only if max_buckets other pairs were let through
\* in the last two windows: a cleanup a window keeps expired buckets from
\* taking up the table any longer (_next_cleanup in _check).
FullMeansRecent ==
  \A p \in Pairs : Full(p) =>
    MaxBuckets <= Cardinality(
      {q \in Pairs : \E i \in DOMAIN admitted[q] :
                       admitted[q][i].at > now - 2 * Window})

\* A pair that was told to wait and waits one second more than that is no
\* longer in the window that refused it.  Without the extra second it can be:
\* Retry-After is cut to whole seconds (retry_after_seconds in _check).
WaitIsLongEnough ==
  \A p \in Pairs :
    refused[p] # NotRefused /\ now >= refused[p].until + Second =>
      Current(p).resetAt # refused[p].end
=============================================================================
