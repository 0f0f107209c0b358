------------------------- MODULE RateLimiterProofs --------------------------
(***************************************************************************)
(* Proofs about the rate limiter, for any policy, any number of identities *)
(* and requests, and any readings of the clock.                            *)
(***************************************************************************)
EXTENDS RateLimiter, FiniteSetTheorems, TLAPS

-----------------------------------------------------------------------------
(* Arithmetic: whole intervals, and what they refill.                      *)

\* A division rounds down.
LEMMA DivFacts ==
    ASSUME NEW a \in Nat, NEW d \in Nat \ {0}
    PROVE  a \div d \in Nat /\ d * (a \div d) <= a /\ a < d * (a \div d) + d
  OBVIOUS

\* Products of naturals are naturals.
LEMMA ProductType ==
    ASSUME NEW a \in Nat, NEW b \in Nat PROVE a * b \in Nat /\ a * b = b * a
  OBVIOUS

\* More factors, more product.
LEMMA ProductMonotone ==
    ASSUME NEW a \in Nat, NEW b \in Nat, NEW d \in Nat, a <= b
    PROVE  d * a <= d * b
<1>1. PICK c \in Nat : b = a + c
  <2>1. b - a \in Nat /\ b = a + (b - a)
    OBVIOUS
  <2> QED
    BY <2>1
<1>2. d * b = d * a + d * c /\ d * c \in Nat /\ d * a \in Nat
  BY <1>1
<1> QED
  BY <1>2

\* A number of intervals that covers a span covers as many whole intervals.
LEMMA QuotientBound ==
    ASSUME NEW a \in Nat, NEW d \in Nat \ {0}, NEW m \in Nat, d * m <= a
    PROVE  m <= a \div d
<1> DEFINE n == a \div d
<1>1. n \in Nat /\ a < d * n + d
  BY DivFacts
<1> HIDE DEF n
<1> SUFFICES ASSUME n + 1 <= m PROVE FALSE
  BY <1>1
<1>2. d * (n + 1) <= d * m
  BY <1>1, ProductMonotone
<1>3. d * (n + 1) = d * n + d /\ d * n \in Nat /\ d * m \in Nat
  BY <1>1
<1> QED
  BY <1>1, <1>2, <1>3

\* Rounded up, a quotient covers the dividend.
LEMMA QuotientCovers ==
    ASSUME NEW a \in Nat, NEW d \in Nat \ {0}
    PROVE  (a + d - 1) \div d \in Nat /\ a <= d * ((a + d - 1) \div d)
<1> DEFINE n == (a + d - 1) \div d
<1>1. a + d - 1 \in Nat
  OBVIOUS
<1>2. n \in Nat /\ a + d - 1 < d * n + d
  BY <1>1, DivFacts
<1>3. d * n \in Nat
  BY <1>2
<1> HIDE DEF n
<1>4. n \in Nat /\ a <= d * n
  BY <1>2, <1>3
<1> QED
  BY <1>4 DEF n

-----------------------------------------------------------------------------
(* Types.                                                                  *)

\* the types, but for the number of buckets
Typed ==
    /\ buckets \in [Identities -> {None} \cup Buckets]
    /\ last \in Times /\ since \in Times /\ since <= last
    /\ spent \in [Identities -> Nat]
    /\ chargedAt \in [Identities -> [Requests -> {None} \cup Times]]

\* the clock of a bucket: it refills up to its last use, which is in the past,
\* and remembers nothing longer than the retention after that
BucketClock(b) ==
    /\ b.refilledAt <= b.activeAt /\ b.activeAt <= last
    /\ \A q \in Requests : b.decisions[q] # None => b.decisions[q].expires <= b.activeAt + Retention

BucketClocks == \A i \in Identities : buckets[i] # None => BucketClock(buckets[i])

\* A refilled bucket is a bucket, refilled by whole intervals.
LEMMA RefillType ==
    ASSUME NEW b \in Buckets, NEW at \in Times, b.refilledAt <= at
    PROVE  LET n == (at - b.refilledAt) \div Interval IN
           /\ n \in Nat
           /\ refill(b, at) \in Buckets
           /\ refill(b, at).tokens = Atmost(Capacity, b.tokens + n * RefillTokens)
           /\ refill(b, at).refilledAt = b.refilledAt + n * Interval
           /\ refill(b, at).refilledAt <= at /\ at < refill(b, at).refilledAt + Interval
           /\ refill(b, at).activeAt = b.activeAt
           /\ refill(b, at).decisions = b.decisions
<1> DEFINE n == (at - b.refilledAt) \div Interval
<1> USE LimiterAssumption
<1>1. /\ at \in Nat /\ at <= MaxClock /\ b.refilledAt \in Nat /\ at - b.refilledAt \in Nat
      /\ b.tokens \in 0..Capacity
  BY DEF Buckets, Times
<1>2. n \in Nat /\ Interval * n <= at - b.refilledAt /\ at - b.refilledAt < Interval * n + Interval
  BY <1>1, DivFacts
<1>3. n * RefillTokens \in Nat /\ n * Interval \in Nat /\ n * Interval = Interval * n
  BY <1>2
<1>4. refill(b, at) = [b EXCEPT !.tokens = Atmost(Capacity, b.tokens + n * RefillTokens),
                                !.refilledAt = b.refilledAt + n * Interval]
  BY DEF refill
<1> DEFINE t == Atmost(Capacity, b.tokens + n * RefillTokens)
           f == b.refilledAt + n * Interval
<1>5. t \in 0..Capacity
  BY <1>1, <1>3 DEF Atmost
<1>6. f \in Times /\ f <= at /\ at < f + Interval
  BY <1>1, <1>2, <1>3 DEF Times
<1> HIDE DEF t, f, n
<1>7. refill(b, at) = [b EXCEPT !.tokens = t, !.refilledAt = f]
  BY <1>4 DEF t, f
<1>8. /\ refill(b, at) \in Buckets /\ refill(b, at).tokens = t /\ refill(b, at).refilledAt = f
      /\ refill(b, at).activeAt = b.activeAt /\ refill(b, at).decisions = b.decisions
  BY <1>5, <1>6, <1>7 DEF Buckets
<1> QED
  BY <1>2, <1>6, <1>8 DEF t, f, n

\* A pruned bucket is a bucket that only forgot what has expired.
LEMMA PruneType ==
    ASSUME NEW b \in Buckets, NEW at \in Times
    PROVE  /\ pruneDecisions(b, at) \in Buckets
           /\ pruneDecisions(b, at).tokens = b.tokens
           /\ pruneDecisions(b, at).refilledAt = b.refilledAt
           /\ pruneDecisions(b, at).activeAt = b.activeAt
           /\ \A q \in Requests : pruneDecisions(b, at).decisions[q] =
                 IF b.decisions[q] # None /\ b.decisions[q].expires <= at THEN None ELSE b.decisions[q]
<1> DEFINE d == [q \in Requests |->
                   IF b.decisions[q] # None /\ b.decisions[q].expires <= at THEN None ELSE b.decisions[q]]
<1>1. pruneDecisions(b, at) = [b EXCEPT !.decisions = d]
  BY DEF pruneDecisions
<1>2. d \in [Requests -> {None} \cup Memory]
  BY DEF Buckets
<1>3. \A q \in Requests : d[q] =
         IF b.decisions[q] # None /\ b.decisions[q].expires <= at THEN None ELSE b.decisions[q]
  OBVIOUS
<1> HIDE DEF d
<1>4. /\ [b EXCEPT !.decisions = d] \in Buckets
      /\ [b EXCEPT !.decisions = d].tokens = b.tokens
      /\ [b EXCEPT !.decisions = d].refilledAt = b.refilledAt
      /\ [b EXCEPT !.decisions = d].activeAt = b.activeAt
      /\ [b EXCEPT !.decisions = d].decisions = d
  BY <1>2 DEF Buckets
<1> QED
  BY <1>1, <1>3, <1>4

\* A new bucket is full.
LEMMA NewBucketType ==
    ASSUME NEW at \in Times
    PROVE  /\ NewBucket(at) \in Buckets
           /\ NewBucket(at).tokens = Capacity
           /\ NewBucket(at).refilledAt = at /\ NewBucket(at).activeAt = at
           /\ \A q \in Requests : NewBucket(at).decisions[q] = None
  BY LimiterAssumption DEF NewBucket, Buckets

\* A bucket that decided was refilled, pays what it allows and remembers it.
LEMMA DecidedType ==
    ASSUME NEW b \in Buckets, NEW at \in Times, b.refilledAt <= at,
           NEW q \in Requests, NEW weight \in Weights
    PROVE  /\ Decision(refill(b, at), weight, at) \in DecisionTypes
           /\ Decided(b, q, weight, at) \in Buckets
           /\ Decided(b, q, weight, at).tokens =
                 IF Decision(refill(b, at), weight, at) = "ALLOW"
                 THEN refill(b, at).tokens - weight ELSE refill(b, at).tokens
           /\ Decided(b, q, weight, at).refilledAt = refill(b, at).refilledAt
           /\ Decided(b, q, weight, at).activeAt = IF at > b.activeAt THEN at ELSE b.activeAt
           /\ Decided(b, q, weight, at).decisions[q] =
                 [type |-> Decision(refill(b, at), weight, at), expires |-> at + Retention]
           /\ \A p \in Requests : p # q => Decided(b, q, weight, at).decisions[p] = b.decisions[p]
           /\ Decision(refill(b, at), weight, at) = "ALLOW" => weight <= refill(b, at).tokens
<1> DEFINE full == refill(b, at)
           type == Decision(full, weight, at)
           t == IF type = "ALLOW" THEN full.tokens - weight ELSE full.tokens
           a == IF at > full.activeAt THEN at ELSE full.activeAt
           m == [type |-> type, expires |-> at + Retention]
<1> USE LimiterAssumption
<1>1. full \in Buckets /\ full.activeAt = b.activeAt /\ full.decisions = b.decisions
  BY RefillType
<1>2. type \in DecisionTypes /\ (type = "ALLOW" => weight <= full.tokens)
  BY DEF Decision, DecisionTypes
<1>3. t \in 0..Capacity
  <2>1. full.tokens \in 0..Capacity /\ weight \in Nat
    BY <1>1 DEF Buckets
  <2> QED
    BY <1>2, <2>1
<1>4. a \in Times /\ m \in Memory
  BY <1>1, <1>2 DEF Buckets, Memory, Times
<1>5. Decided(b, q, weight, at) = [full EXCEPT !.tokens = t, !.activeAt = a, !.decisions[q] = m]
  BY DEF Decided
<1>6. a = IF at > b.activeAt THEN at ELSE b.activeAt
  BY <1>1
<1> HIDE DEF full, type, t, a, m
<1> DEFINE after == Decided(b, q, weight, at)
<1>7. after.decisions = [full.decisions EXCEPT ![q] = m] /\ after.tokens = t
      /\ after.refilledAt = full.refilledAt /\ after.activeAt = a
  BY <1>1, <1>5 DEF Buckets
<1>8. [full.decisions EXCEPT ![q] = m] \in [Requests -> {None} \cup Memory]
  BY <1>1, <1>4 DEF Buckets
<1>9. after \in Buckets
  BY <1>1, <1>3, <1>4, <1>5, <1>8 DEF Buckets
<1>10. after.decisions[q] = m /\ \A p \in Requests : p # q => after.decisions[p] = b.decisions[p]
  <2>1. full.decisions \in [Requests -> {None} \cup Memory]
    BY <1>1 DEF Buckets
  <2> QED
    BY <1>1, <1>7, <2>1
<1> QED
  BY <1>2, <1>6, <1>7, <1>9, <1>10 DEF full, type, t, m

\* What a bucket that decided has left.
LEMMA DecidedTokens ==
    ASSUME NEW b \in Buckets, NEW at \in Times, b.refilledAt <= at,
           NEW q \in Requests, NEW weight \in Weights
    PROVE  /\ Decided(b, q, weight, at) \in Buckets
           /\ Decided(b, q, weight, at).tokens =
                 IF Decision(refill(b, at), weight, at) = "ALLOW"
                 THEN refill(b, at).tokens - weight ELSE refill(b, at).tokens
           /\ Decided(b, q, weight, at).refilledAt = refill(b, at).refilledAt
  BY DecidedType

-----------------------------------------------------------------------------
(* What a call does to one bucket: it is left alone, pruned, reclaimed, or *)
(* it decides.                                                             *)

Pruned(i, at) == pruneDecisions(buckets[i], at)

\* the bucket that decides
Base(i, at) == IF buckets[i] = None THEN NewBucket(at) ELSE Pruned(i, at)

\* the bucket pays nothing
BucketKept(i, at) ==
    /\ spent'[i] = spent[i] /\ chargedAt'[i] = chargedAt[i]
    /\ \/ buckets'[i] = buckets[i]
       \/ buckets[i] # None /\ buckets'[i] = Pruned(i, at)
       \/ buckets[i] # None /\ isIdle(Pruned(i, at), at) /\ buckets'[i] = None

\* the bucket decides on a request it does not remember
BucketDecides(i, q, weight, at) ==
    LET type == Decision(refill(Base(i, at), at), weight, at) IN
    /\ buckets[i] # None => buckets[i].decisions[q] = None
    /\ buckets'[i] = Decided(Base(i, at), q, weight, at)
    /\ answer'.id = q
    /\ IF type = "ALLOW"
       THEN spent'[i] = spent[i] + weight /\ chargedAt'[i] = [chargedAt[i] EXCEPT ![q] = at]
       ELSE spent'[i] = spent[i] /\ chargedAt'[i] = chargedAt[i]

BucketStep(i, at) ==
    \/ BucketKept(i, at)
    \/ \E q \in Requests, weight \in Weights : BucketDecides(i, q, weight, at)

\* safeNow does not go back, and stays within the clock's bound.
LEMMA ClockStep ==
    ASSUME Typed, NEW observed \in last - 1 .. MaxClock
    PROVE  safeNow(observed) \in Times /\ last <= safeNow(observed)
  BY LimiterAssumption DEF Typed, Times, safeNow

\* The registry a caller finds its bucket in: no bucket but idle ones is gone.
LEMMA SearchedBuckets ==
    ASSUME Typed, NEW i \in Identities, NEW at \in Times
    PROVE  /\ Searched(i, at) \in [Identities -> {None} \cup Buckets]
           /\ \A j \in Identities :
                 \/ Searched(i, at)[j] = buckets[j]
                 \/ buckets[j] # None /\ Searched(i, at)[j] = Pruned(j, at)
                 \/ buckets[j] # None /\ isIdle(Pruned(j, at), at) /\ Searched(i, at)[j] = None
           /\ Searched(i, at)[i] = buckets[i]
<1>0. buckets \in [Identities -> {None} \cup Buckets]
  BY DEF Typed
<1>1. CASE ~(buckets[i] = None /\ Cardinality(Registered) >= MaxBuckets)
  <2>1. Searched(i, at) = buckets
    BY <1>1 DEF Searched
  <2> QED
    BY <1>0, <2>1
<1>2. CASE buckets[i] = None /\ Cardinality(Registered) >= MaxBuckets
  <2>1. Searched(i, at) = evictIdleBuckets(at)
    BY <1>2 DEF Searched
  <2>2. \A j \in Identities : buckets[j] # None => Pruned(j, at) \in Buckets
    BY <1>0, PruneType DEF Pruned
  <2>3. evictIdleBuckets(at) = [j \in Identities |->
           IF buckets[j] = None THEN None
           ELSE IF isIdle(Pruned(j, at), at) THEN None ELSE Pruned(j, at)]
    BY DEF evictIdleBuckets, Pruned
  <2> QED
    BY <1>2, <2>1, <2>2, <2>3
<1> QED
  BY <1>1, <1>2

\* The bucket that decides is not ahead of the clock.
LEMMA BaseClock ==
    ASSUME Typed, BucketClocks, NEW i \in Identities, NEW at \in Times, last <= at
    PROVE  /\ Base(i, at) \in Buckets
           /\ Base(i, at).refilledAt <= Base(i, at).activeAt /\ Base(i, at).activeAt <= at
           /\ \A q \in Requests : Base(i, at).decisions[q] # None =>
                 Base(i, at).decisions[q].expires <= Base(i, at).activeAt + Retention
<1>1. CASE buckets[i] = None
  <2>1. Base(i, at) = NewBucket(at)
    BY <1>1 DEF Base
  <2> QED
    BY <2>1, NewBucketType DEF Times
<1>2. CASE buckets[i] # None
  <2>1. Base(i, at) = pruneDecisions(buckets[i], at) /\ buckets[i] \in Buckets
    BY <1>2 DEF Base, Pruned, Typed
  <2>2. /\ buckets[i].refilledAt <= buckets[i].activeAt /\ buckets[i].activeAt <= last
        /\ buckets[i].activeAt \in Nat /\ last \in Nat /\ at \in Nat
    BY <1>2, <2>1 DEF BucketClocks, BucketClock, Buckets, Typed, Times
  <2>3. \A q \in Requests : buckets[i].decisions[q] # None =>
           buckets[i].decisions[q].expires <= buckets[i].activeAt + Retention
    BY <1>2 DEF BucketClocks, BucketClock
  <2> QED
    BY <2>1, <2>2, <2>3, PruneType
<1> QED
  BY <1>1, <1>2

\* Every call does one of these to every bucket.
LEMMA BucketSteps ==
    ASSUME Typed, BucketClocks, NEW i \in Identities, NEW q \in Requests, NEW weight \in Weights,
           NEW observed \in last - 1 .. MaxClock, evaluate(i, q, weight, observed),
           NEW j \in Identities
    PROVE  /\ last' \in Times /\ last <= last' /\ since' = since
           /\ BucketStep(j, last')
           /\ buckets' \in [Identities -> {None} \cup Buckets]
<1>0. last' = safeNow(observed) /\ last' \in Times /\ last <= last' /\ since' = since
  BY ClockStep DEF evaluate
<1>T. /\ buckets \in [Identities -> {None} \cup Buckets] /\ spent \in [Identities -> Nat]
      /\ chargedAt \in [Identities -> [Requests -> {None} \cup Times]]
  BY DEF Typed
<1>1. CASE Crowded(i, q, last')
  <2>1. buckets' = Searched(i, last') /\ UNCHANGED <<spent, chargedAt>>
    BY <1>1 DEF Crowded, Free
  <2> QED
    BY <1>0, <2>1, SearchedBuckets DEF BucketStep, BucketKept
<1>2. CASE Replay(i, q)
  BY <1>0, <1>2, <1>T DEF Replay, Free, BucketStep, BucketKept
<1>3. CASE Untracked(i, q, last')
  <2>1. /\ buckets[i] # None /\ buckets' = [buckets EXCEPT ![i] = Pruned(i, last')]
        /\ UNCHANGED <<spent, chargedAt>>
    BY <1>3 DEF Untracked, Free, Pruned
  <2>2. Pruned(i, last') \in Buckets
    BY <1>0, <1>T, <2>1, PruneType DEF Pruned
  <2> QED
    BY <1>0, <1>T, <2>1, <2>2 DEF BucketStep, BucketKept
<1>4. CASE Decide(i, q, weight, last')
  <2> DEFINE found == Searched(i, last')
             after == Decided(Base(i, last'), q, weight, last')
             type == Decision(refill(Base(i, last'), last'), weight, last')
  <2>1. found \in [Identities -> {None} \cup Buckets] /\ found[i] = buckets[i]
    BY <1>0, SearchedBuckets
  <2>2. Base(i, last') \in Buckets /\ Base(i, last') = IF found[i] = None THEN NewBucket(last')
                                                      ELSE pruneDecisions(found[i], last')
    BY <1>0, <1>T, <2>1, PruneType, NewBucketType DEF Base, Pruned
  <2>3. after \in Buckets /\ after.decisions[q].type = type
    <3>1. Base(i, last').refilledAt <= last'
      BY <1>0, <2>2, BaseClock DEF Buckets, Times
    <3>2. after \in Buckets /\ after.decisions[q] = [type |-> type, expires |-> last' + Retention]
      BY <1>0, <2>2, <3>1, DecidedType
    <3> QED
      BY <3>2
  <2>4. /\ buckets[i] # None => buckets[i].decisions[q] = None
        /\ buckets' = [found EXCEPT ![i] = after]
        /\ answer'.id = q
        /\ IF type = "ALLOW"
           THEN /\ spent' = [spent EXCEPT ![i] = spent[i] + weight]
                /\ chargedAt' = [chargedAt EXCEPT ![i][q] = last']
           ELSE UNCHANGED <<spent, chargedAt>>
    BY <1>4, <2>2, <2>3 DEF Decide, Answers, Free
  <2> HIDE DEF found, after
  <2>5. CASE j = i
    <3>1. buckets'[i] = after
      BY <2>1, <2>4
    <3>2. BucketDecides(i, q, weight, last')
      <4>1. CASE type = "ALLOW"
        <5>1. spent'[i] = spent[i] + weight /\ chargedAt'[i] = [chargedAt[i] EXCEPT ![q] = last']
          BY <1>T, <2>4, <4>1
        <5> QED
          BY <2>4, <3>1, <4>1, <5>1 DEF BucketDecides, after
      <4>2. CASE type # "ALLOW"
        BY <2>4, <3>1, <4>2 DEF BucketDecides, after
      <4> QED
        BY <4>1, <4>2
    <3> QED
      BY <1>0, <2>1, <2>3, <2>4, <2>5, <3>2 DEF BucketStep
  <2>6. CASE j # i
    <3>1. buckets'[j] = found[j] /\ spent'[j] = spent[j] /\ chargedAt'[j] = chargedAt[j]
      BY <1>T, <2>1, <2>4, <2>6
    <3>2. BucketKept(j, last')
      BY <1>0, <3>1, SearchedBuckets DEF BucketKept, found
    <3> QED
      BY <1>0, <2>1, <2>3, <2>4, <3>2 DEF BucketStep
  <2> QED
    BY <2>5, <2>6
<1> QED
  BY <1>0, <1>1, <1>2, <1>3, <1>4 DEF evaluate

\* A decision sets the bucket's refill time to that of the refill.
LEMMA DecidedClock ==
    ASSUME NEW b \in Buckets, NEW at \in Times, b.refilledAt <= at,
           NEW q \in Requests, NEW weight \in Weights
    PROVE  Decided(b, q, weight, at).refilledAt = refill(b, at).refilledAt
  BY DecidedType

\* The clocks of the buckets stay behind the limiter's.
LEMMA ClocksStep ==
    ASSUME Typed, BucketClocks, NEW i \in Identities, NEW at \in Times, last <= at, last' = at,
           BucketStep(i, at), buckets'[i] # None
    PROVE  BucketClock(buckets[i])'
<1> USE LimiterAssumption
<1>0. last \in Nat /\ at \in Nat /\ buckets \in [Identities -> {None} \cup Buckets]
  BY DEF Typed, Times
<1>B. /\ Base(i, at) \in Buckets
      /\ Base(i, at).refilledAt \in Nat /\ Base(i, at).activeAt \in Nat
      /\ Base(i, at).refilledAt <= Base(i, at).activeAt /\ Base(i, at).activeAt <= at
      /\ \A q \in Requests : Base(i, at).decisions[q] # None =>
             /\ Base(i, at).decisions[q].expires \in Nat
             /\ Base(i, at).decisions[q].expires <= Base(i, at).activeAt + Retention
  BY BaseClock DEF Buckets, Times, Memory
<1>1. CASE buckets'[i] = buckets[i]
  <2>1. BucketClock(buckets[i]) /\ buckets[i] \in Buckets
    BY <1>0, <1>1 DEF BucketClocks
  <2> QED
    BY <1>0, <1>1, <2>1 DEF BucketClock, Buckets, Times
<1>2. CASE buckets[i] # None /\ buckets'[i] = Pruned(i, at)
  BY <1>2, <1>B DEF Base, BucketClock
<1>3. ASSUME NEW q \in Requests, NEW weight \in Weights, BucketDecides(i, q, weight, at)
      PROVE  BucketClock(buckets[i])'
  <2> DEFINE b == Base(i, at)
             after == Decided(b, q, weight, at)
  <2>1. buckets'[i] = after
    BY <1>3 DEF BucketDecides
  <2>2. b.refilledAt <= at
    BY <1>0, <1>B
  <2>3. refill(b, at).refilledAt <= at /\ after.refilledAt = refill(b, at).refilledAt
    <3>1. b \in Buckets
      BY <1>B
    <3> HIDE DEF b, after
    <3>2. refill(b, at).refilledAt <= at
      BY <2>2, <3>1, RefillType
    <3>3. Decided(b, q, weight, at).refilledAt = refill(b, at).refilledAt
      BY <2>2, <3>1, DecidedClock
    <3> QED
      BY <3>2, <3>3 DEF after
  <2>4. /\ after.activeAt = at
        /\ after.decisions[q].expires = at + Retention
        /\ \A p \in Requests : p # q => after.decisions[p] = b.decisions[p]
    <3>1. /\ after.activeAt = IF at > b.activeAt THEN at ELSE b.activeAt
          /\ after.decisions[q] =
                [type |-> Decision(refill(b, at), weight, at), expires |-> at + Retention]
          /\ \A p \in Requests : p # q => after.decisions[p] = b.decisions[p]
      BY <1>B, <2>2, DecidedType
    <3> QED
      BY <1>0, <1>B, <3>1
  <2>5. \A p \in Requests : after.decisions[p] # None => after.decisions[p].expires <= at + Retention
    BY <1>0, <1>B, <2>4
  <2> HIDE DEF after, b
  <2> QED
    BY <1>0, <2>1, <2>3, <2>4, <2>5 DEF BucketClock
<1> QED
  BY <1>1, <1>2, <1>3 DEF BucketStep, BucketKept

-----------------------------------------------------------------------------
(* Spending.  What an identity spent and what is left in its bucket stay   *)
(* within a full bucket and one refill for each interval between the start *)
(* of the window and the last refill.                                      *)

Allowed(s, t, f) ==
    /\ \A k \in Nat : f - since <= Interval * k => s + t <= Capacity + RefillTokens * k
    /\ s > 0 => since < f + Interval

\* a bucket that was reclaimed was full
SpendInv(i) ==
    IF buckets[i] = None
    THEN \A k \in Nat : last - since <= Interval * k => spent[i] <= RefillTokens * k
    ELSE Allowed(spent[i], buckets[i].tokens, buckets[i].refilledAt)

\* A refill adds no more than the intervals it stands for.
LEMMA RefillAllowed ==
    ASSUME NEW b \in Buckets, NEW at \in Times, b.refilledAt <= at,
           since \in Times, since <= at, NEW s \in Nat,
           Allowed(s, b.tokens, b.refilledAt)
    PROVE  /\ Allowed(s, refill(b, at).tokens, refill(b, at).refilledAt)
           /\ since < refill(b, at).refilledAt + Interval
<1> DEFINE n == (at - b.refilledAt) \div Interval
           f == b.refilledAt
           t == b.tokens
           g == refill(b, at).refilledAt
           u == refill(b, at).tokens
<1> USE LimiterAssumption
<1>1. /\ n \in Nat /\ u = Atmost(Capacity, t + n * RefillTokens)
      /\ g = f + n * Interval /\ g <= at /\ at < g + Interval
  BY RefillType
<1>2. f \in Nat /\ t \in 0..Capacity /\ since \in Nat /\ at \in Nat
  BY DEF Buckets, Times
<1>3. n * Interval \in Nat /\ n * RefillTokens \in Nat /\ n * Interval = Interval * n
      /\ n * RefillTokens = RefillTokens * n
  BY <1>1
<1>A. /\ \A k \in Nat : f - since <= Interval * k => s + t <= Capacity + RefillTokens * k
      /\ s > 0 => since < f + Interval
  BY DEF Allowed
<1> HIDE DEF n, f, t, g, u
<1>4. u \in Nat /\ u <= Capacity /\ u <= t + n * RefillTokens /\ g \in Nat
  BY <1>1, <1>2, <1>3 DEF Atmost
<1>5. ASSUME NEW k \in Nat, g - since <= Interval * k PROVE s + u <= Capacity + RefillTokens * k
  <2>0. Interval * k \in Nat /\ RefillTokens * k \in Nat
    BY ProductType
  <2>1. CASE s = 0
    BY <1>4, <2>0, <2>1
  <2>2. CASE s > 0
    <3>1. n <= k
      <4> SUFFICES ASSUME k + 1 <= n PROVE FALSE
        BY <1>1
      <4>1. Interval * (k + 1) <= Interval * n
        BY <1>1, ProductMonotone
      <4>2. Interval * (k + 1) = Interval * k + Interval
        OBVIOUS
      <4> QED
        BY <1>1, <1>2, <1>3, <1>5, <1>A, <2>0, <2>2, <4>1, <4>2
    <3>2. k - n \in Nat /\ Interval * (k - n) = Interval * k - Interval * n
          /\ RefillTokens * (k - n) = RefillTokens * k - RefillTokens * n
      BY <1>1, <3>1
    <3>3. f - since <= Interval * (k - n)
      BY <1>1, <1>2, <1>3, <1>5, <2>0, <3>2
    <3>4. s + t <= Capacity + RefillTokens * (k - n)
      BY <1>A, <3>2, <3>3
    <3> QED
      BY <1>2, <1>3, <1>4, <2>0, <3>2, <3>4
  <2> QED
    BY <2>1, <2>2
<1>6. since < g + Interval
  BY <1>1, <1>2, <1>4
<1>7. Allowed(s, u, g)
  BY <1>5, <1>6 DEF Allowed
<1> QED
  BY <1>6, <1>7 DEF u, g

\* The bucket that decides is within its allowance, new or known.
LEMMA BaseAllowed ==
    ASSUME Typed, BucketClocks, NEW i \in Identities, SpendInv(i), NEW at \in Times, last <= at
    PROVE  Allowed(spent[i], Base(i, at).tokens, Base(i, at).refilledAt)
<1> USE LimiterAssumption
<1>0. last \in Nat /\ at \in Nat /\ since \in Nat /\ since <= last /\ spent[i] \in Nat
  BY DEF Typed, Times
<1>1. CASE buckets[i] = None
  <2>1. Base(i, at).tokens = Capacity /\ Base(i, at).refilledAt = at
    BY <1>1, NewBucketType DEF Base
  <2>2. ASSUME NEW k \in Nat, at - since <= Interval * k
        PROVE  spent[i] + Capacity <= Capacity + RefillTokens * k
    <3>1. Interval * k \in Nat /\ RefillTokens * k \in Nat
      BY ProductType
    <3>2. spent[i] <= RefillTokens * k
      BY <1>0, <1>1, <2>2, <3>1 DEF SpendInv
    <3> QED
      BY <1>0, <3>1, <3>2
  <2>3. since < at + Interval
    BY <1>0
  <2> QED
    BY <2>1, <2>2, <2>3 DEF Allowed
<1>2. CASE buckets[i] # None
  <2>1. Base(i, at).tokens = buckets[i].tokens /\ Base(i, at).refilledAt = buckets[i].refilledAt
    BY <1>2, PruneType DEF Base, Pruned, Typed
  <2> QED
    BY <1>2, <2>1 DEF SpendInv
<1> QED
  BY <1>1, <1>2

\* No call takes an identity out of its allowance: paying moves tokens from the
\* bucket to what is spent, and only full buckets are reclaimed.
LEMMA SpendStep ==
    ASSUME Typed, BucketClocks, NEW i \in Identities, SpendInv(i),
           NEW at \in Times, last <= at, last' = at, since' = since, BucketStep(i, at),
           buckets' \in [Identities -> {None} \cup Buckets]
    PROVE  SpendInv(i)' /\ spent'[i] \in Nat
<1> USE LimiterAssumption
<1>0. /\ last \in Nat /\ at \in Nat /\ since \in Nat /\ since \in Times /\ since <= last /\ since <= at
      /\ spent[i] \in Nat /\ buckets \in [Identities -> {None} \cup Buckets]
  BY DEF Typed, Times
<1> DEFINE b == Base(i, at)
<1>B. /\ b \in Buckets /\ b.refilledAt \in Nat /\ b.refilledAt <= at
      /\ Allowed(spent[i], b.tokens, b.refilledAt)
  BY <1>0, BaseClock, BaseAllowed DEF Buckets, Times
<1>R. /\ Allowed(spent[i], refill(b, at).tokens, refill(b, at).refilledAt)
      /\ since < refill(b, at).refilledAt + Interval
  BY <1>0, <1>B, RefillAllowed
<1>1. CASE spent'[i] = spent[i] /\ buckets'[i] = buckets[i]
  <2>1. CASE buckets[i] = None
    <3>1. ASSUME NEW k \in Nat, at - since <= Interval * k PROVE spent[i] <= RefillTokens * k
      <4>1. Interval * k \in Nat
        BY ProductType
      <4>2. last - since <= Interval * k
        BY <1>0, <3>1, <4>1
      <4> QED
        BY <2>1, <4>2 DEF SpendInv
    <3> QED
      BY <1>0, <1>1, <2>1, <3>1 DEF SpendInv
  <2>2. CASE buckets[i] # None
    BY <1>0, <1>1, <2>2 DEF SpendInv, Allowed
  <2> QED
    BY <2>1, <2>2
<1>2. CASE spent'[i] = spent[i] /\ buckets[i] # None /\ buckets'[i] = Pruned(i, at)
  <2>1. b = Pruned(i, at) /\ b # None
    BY <1>2, <1>B DEF Base
  <2> QED
    BY <1>0, <1>2, <1>B, <2>1 DEF SpendInv, Allowed
<1>3. CASE spent'[i] = spent[i] /\ buckets[i] # None /\ isIdle(Pruned(i, at), at) /\ buckets'[i] = None
  <2>1. b = Pruned(i, at) /\ refill(b, at).tokens >= Capacity
    BY <1>3 DEF Base, isIdle
  <2>2. refill(b, at) \in Buckets /\ refill(b, at).refilledAt <= at
    BY <1>B, RefillType
  <2>3. refill(b, at).tokens = Capacity /\ refill(b, at).refilledAt \in Nat
    BY <2>1, <2>2 DEF Buckets, Times
  <2>4. ASSUME NEW k \in Nat, at - since <= Interval * k PROVE spent[i] <= RefillTokens * k
    <3>1. Interval * k \in Nat /\ RefillTokens * k \in Nat
      BY ProductType
    <3>2. refill(b, at).refilledAt - since <= Interval * k
      BY <1>0, <2>2, <2>3, <2>4, <3>1
    <3>3. spent[i] + Capacity <= Capacity + RefillTokens * k
      BY <1>R, <2>3, <3>2 DEF Allowed
    <3> QED
      BY <1>0, <3>1, <3>3
  <2> QED
    BY <1>0, <1>3, <2>4 DEF SpendInv
<1>4. ASSUME NEW q \in Requests, NEW weight \in Weights, BucketDecides(i, q, weight, at)
      PROVE  SpendInv(i)' /\ spent'[i] \in Nat
  <2> DEFINE full == refill(b, at)
             type == Decision(full, weight, at)
             after == Decided(b, q, weight, at)
  <2>1. /\ buckets'[i] = after
        /\ spent'[i] = IF type = "ALLOW" THEN spent[i] + weight ELSE spent[i]
    BY <1>4 DEF BucketDecides
  <2>2. /\ after \in Buckets /\ after.refilledAt = full.refilledAt
        /\ after.tokens = IF type = "ALLOW" THEN full.tokens - weight ELSE full.tokens
    <3>1. b \in Buckets /\ b.refilledAt <= at
      BY <1>B
    <3> HIDE DEF b, full, type, after
    <3>2. /\ Decided(b, q, weight, at) \in Buckets
          /\ Decided(b, q, weight, at).tokens =
                IF Decision(refill(b, at), weight, at) = "ALLOW"
                THEN refill(b, at).tokens - weight ELSE refill(b, at).tokens
          /\ Decided(b, q, weight, at).refilledAt = refill(b, at).refilledAt
      BY <3>1, DecidedTokens
    <3> QED
      BY <3>2 DEF after, full, type
  <2>3. full.tokens \in Nat /\ weight \in Nat /\ after # None
    BY <1>B, <2>2, RefillType DEF Buckets
  <2>4. spent'[i] \in Nat /\ spent'[i] + after.tokens = spent[i] + full.tokens
    BY <1>0, <2>1, <2>2, <2>3
  <2> HIDE DEF after, full, type
  <2>5. /\ \A k \in Nat : full.refilledAt - since <= Interval * k =>
              spent[i] + full.tokens <= Capacity + RefillTokens * k
        /\ since < full.refilledAt + Interval
    BY <1>R DEF Allowed, full
  <2>6. Allowed(spent'[i], after.tokens, after.refilledAt)
    BY <2>2, <2>4, <2>5 DEF Allowed
  <2> QED
    BY <1>0, <2>1, <2>3, <2>4, <2>6 DEF SpendInv, Allowed
<1> QED
  BY <1>0, <1>1, <1>2, <1>3, <1>4 DEF BucketStep, BucketKept

-----------------------------------------------------------------------------
(* Memory.  A charge is remembered by the bucket until its retention is    *)
(* over, also by a bucket that was reclaimed: that one had forgotten       *)
(* everything first.                                                       *)

Keeps(b, q, t) == b # None /\ b.decisions[q] # None /\ t + Retention <= b.decisions[q].expires

MemoryInv(i) ==
    \A q \in Requests : chargedAt[i][q] # None =>
        /\ chargedAt[i][q] <= last
        /\ last - chargedAt[i][q] >= Retention \/ Keeps(buckets[i], q, chargedAt[i][q])

\* Pruning forgets no charge within its retention.
LEMMA PruneKeeps ==
    ASSUME NEW b \in Buckets, NEW at \in Times, NEW q \in Requests, NEW t \in Times, Keeps(b, q, t)
    PROVE  at - t >= Retention \/ Keeps(pruneDecisions(b, at), q, t)
<1>1. b.decisions[q] \in Memory
  BY DEF Keeps, Buckets
<1>2. b.decisions[q].expires \in Nat /\ at \in Nat /\ t \in Nat /\ Retention \in Nat
  BY <1>1, LimiterAssumption DEF Memory, Times
<1>3. CASE b.decisions[q].expires <= at
  BY <1>2, <1>3 DEF Keeps
<1>4. CASE ~(b.decisions[q].expires <= at)
  <2>1. pruneDecisions(b, at) \in Buckets /\ pruneDecisions(b, at).decisions[q] = b.decisions[q]
    BY <1>4, PruneType
  <2>2. pruneDecisions(b, at) # None
    BY <2>1, LimiterAssumption
  <2> QED
    BY <2>1, <2>2 DEF Keeps
<1> QED
  BY <1>3, <1>4

\* A call keeps the memory of every charge.
LEMMA MemoryStep ==
    ASSUME Typed, BucketClocks, NEW i \in Identities, MemoryInv(i),
           NEW at \in Times, last <= at, last' = at, BucketStep(i, at)
    PROVE  MemoryInv(i)' /\ chargedAt'[i] \in [Requests -> {None} \cup Times]
<1> USE LimiterAssumption
<1>0. /\ last \in Nat /\ at \in Nat /\ buckets \in [Identities -> {None} \cup Buckets]
      /\ chargedAt[i] \in [Requests -> {None} \cup Times] /\ Retention \in Nat
  BY DEF Typed, Times
<1>1. ASSUME NEW p \in Requests, chargedAt[i][p] # None
      PROVE  /\ chargedAt[i][p] \in Times /\ chargedAt[i][p] \in Nat /\ chargedAt[i][p] <= at
             /\ \/ at - chargedAt[i][p] >= Retention
                \/ buckets[i] # None /\ Keeps(Pruned(i, at), p, chargedAt[i][p])
  <2>1. chargedAt[i][p] \in Times /\ chargedAt[i][p] \in Nat
    BY <1>0, <1>1 DEF Times
  <2>2. /\ chargedAt[i][p] <= last
        /\ last - chargedAt[i][p] >= Retention \/ Keeps(buckets[i], p, chargedAt[i][p])
    BY <1>1 DEF MemoryInv
  <2>3. CASE last - chargedAt[i][p] >= Retention
    BY <1>0, <2>1, <2>2, <2>3
  <2>4. CASE Keeps(buckets[i], p, chargedAt[i][p])
    <3>1. buckets[i] # None /\ buckets[i] \in Buckets
      BY <1>0, <2>4 DEF Keeps
    <3> QED
      BY <1>0, <2>1, <2>2, <2>4, <3>1, PruneKeeps DEF Pruned
  <2> QED
    BY <2>2, <2>3, <2>4
<1>2. CASE chargedAt'[i] = chargedAt[i] /\ buckets'[i] = buckets[i]
  <2>1. ASSUME NEW p \in Requests, chargedAt[i][p] # None
        PROVE  at - chargedAt[i][p] >= Retention \/ Keeps(buckets[i], p, chargedAt[i][p])
    <3>1. last - chargedAt[i][p] >= Retention \/ Keeps(buckets[i], p, chargedAt[i][p])
      BY <2>1 DEF MemoryInv
    <3> QED
      BY <1>0, <1>1, <2>1, <3>1
  <2> QED
    BY <1>0, <1>1, <1>2, <2>1 DEF MemoryInv, Keeps
<1>3. CASE chargedAt'[i] = chargedAt[i] /\ buckets[i] # None /\ buckets'[i] = Pruned(i, at)
  BY <1>0, <1>1, <1>3 DEF MemoryInv, Keeps
<1>4. CASE chargedAt'[i] = chargedAt[i] /\ buckets[i] # None /\ isIdle(Pruned(i, at), at)
  <2>1. \A p \in Requests : Pruned(i, at).decisions[p] = None
    BY <1>4 DEF isIdle, Remembered
  <2> QED
    BY <1>0, <1>1, <1>4, <2>1 DEF MemoryInv, Keeps
<1>5. ASSUME NEW q \in Requests, NEW weight \in Weights, BucketDecides(i, q, weight, at)
      PROVE  MemoryInv(i)' /\ chargedAt'[i] \in [Requests -> {None} \cup Times]
  <2> DEFINE b == Base(i, at)
             after == Decided(b, q, weight, at)
  <2>1. /\ buckets'[i] = after
        /\ \/ chargedAt'[i] = [chargedAt[i] EXCEPT ![q] = at]
           \/ chargedAt'[i] = chargedAt[i]
    BY <1>5 DEF BucketDecides
  <2>2. b \in Buckets /\ b.refilledAt <= at
    BY <1>0, BaseClock DEF Buckets, Times
  <2>3. /\ after \in Buckets
        /\ after.decisions[q] =
              [type |-> Decision(refill(b, at), weight, at), expires |-> at + Retention]
        /\ \A p \in Requests : p # q => after.decisions[p] = b.decisions[p]
    BY <2>2, DecidedType
  <2>4. after # None /\ after.decisions[q] # None /\ after.decisions[q].expires = at + Retention
    <3>1. Decision(refill(b, at), weight, at) \in DecisionTypes
      BY DEF Decision, DecisionTypes
    <3>2. [type |-> Decision(refill(b, at), weight, at), expires |-> at + Retention] \in Memory
      BY <1>0, <3>1 DEF Memory
    <3> QED
      BY <2>3, <3>2
  <2>5. ASSUME NEW p \in Requests, p # q, chargedAt[i][p] # None
        PROVE  at - chargedAt[i][p] >= Retention \/ Keeps(after, p, chargedAt[i][p])
    <3>1. CASE buckets[i] # None /\ Keeps(Pruned(i, at), p, chargedAt[i][p])
      BY <2>3, <2>4, <2>5, <3>1 DEF Keeps, Base
    <3> QED
      BY <1>1, <2>5, <3>1
  <2> HIDE DEF after, b
  <2>6. \A p \in Requests : chargedAt'[i][p] # None =>
           \/ p # q /\ chargedAt'[i][p] = chargedAt[i][p]
           \/ p = q /\ chargedAt'[i][p] \in Nat /\ chargedAt'[i][p] <= at
    BY <1>0, <1>1, <2>1
  <2>7. ASSUME NEW p \in Requests, chargedAt'[i][p] # None
        PROVE  /\ chargedAt'[i][p] <= at
               /\ at - chargedAt'[i][p] >= Retention \/ Keeps(after, p, chargedAt'[i][p])
    <3>1. CASE p = q
      BY <1>0, <2>4, <2>6, <2>7, <3>1 DEF Keeps
    <3>2. CASE p # q
      BY <1>1, <2>5, <2>6, <2>7, <3>2
    <3> QED
      BY <3>1, <3>2
  <2>8. chargedAt'[i] \in [Requests -> {None} \cup Times]
    BY <1>0, <2>1
  <2> QED
    BY <2>1, <2>7, <2>8 DEF MemoryInv, Keeps
<1> QED
  BY <1>0, <1>2, <1>3, <1>4, <1>5 DEF BucketStep, BucketKept

-----------------------------------------------------------------------------
(* Recovery.                                                               *)

\* A bucket that was left alone long enough is full and remembers nothing.
LEMMA RecoveredBucket ==
    ASSUME last \in Times, NEW b \in Buckets, BucketClock(b), NEW at \in Times, last <= at, Recovered(b, at)
    PROVE  /\ Remembered(pruneDecisions(b, at)) = {}
           /\ refill(pruneDecisions(b, at), at).tokens = Capacity
           /\ isIdle(pruneDecisions(b, at), at)
<1> DEFINE c == pruneDecisions(b, at)
           n == (at - b.refilledAt) \div Interval
           m == (Capacity + RefillTokens - 1) \div RefillTokens
<1> USE LimiterAssumption
<1>1. /\ b.refilledAt \in Nat /\ b.activeAt \in Nat /\ last \in Nat /\ at \in Nat /\ b.tokens \in 0..Capacity
      /\ b.refilledAt <= b.activeAt /\ b.activeAt <= last
  BY DEF Buckets, Times, BucketClock
<1>2. /\ c \in Buckets /\ c.tokens = b.tokens /\ c.refilledAt = b.refilledAt /\ c.activeAt = b.activeAt
      /\ \A q \in Requests : c.decisions[q] =
            IF b.decisions[q] # None /\ b.decisions[q].expires <= at THEN None ELSE b.decisions[q]
  BY PruneType
<1>3. at - b.activeAt >= Retention /\ at - b.activeAt >= Interval * m
  BY DEF Recovered
<1>4. Remembered(c) = {}
  <2>1. ASSUME NEW q \in Requests, b.decisions[q] # None PROVE b.decisions[q].expires <= at
    <3>1. b.decisions[q] \in Memory /\ b.decisions[q].expires <= b.activeAt + Retention
      BY <2>1 DEF Buckets, BucketClock
    <3> QED
      BY <1>1, <1>3, <3>1 DEF Memory
  <2> QED
    BY <1>2, <2>1 DEF Remembered
<1>5. m \in Nat /\ Capacity <= RefillTokens * m
  BY QuotientCovers
<1>6. Interval * m \in Nat /\ RefillTokens * m \in Nat
  BY <1>5, ProductType
<1>7. at - b.refilledAt \in Nat /\ Interval * m <= at - b.refilledAt
  <2> HIDE DEF m
  <2> QED
    BY <1>1, <1>3, <1>6
<1>8. n \in Nat /\ m <= n
  BY <1>5, <1>7, DivFacts, QuotientBound
<1>9. refill(c, at).tokens = Atmost(Capacity, b.tokens + n * RefillTokens)
  BY <1>1, <1>2, RefillType
<1>10. refill(c, at).tokens = Capacity
  <2> HIDE DEF m, n, c
  <2>1. RefillTokens * m <= RefillTokens * n
    BY <1>5, <1>8, ProductMonotone
  <2>2. RefillTokens * n = n * RefillTokens /\ n * RefillTokens \in Nat
    BY <1>8, ProductType
  <2>3. Capacity <= n * RefillTokens
    BY <1>5, <1>6, <2>1, <2>2
  <2>4. \A x \in Nat : Capacity <= x => Atmost(Capacity, b.tokens + x) = Capacity
    BY <1>1 DEF Atmost
  <2> QED
    BY <1>9, <2>2, <2>3, <2>4
<1> QED
  BY <1>1, <1>2, <1>4, <1>10 DEF isIdle

-----------------------------------------------------------------------------
(* The registry is bounded: it holds finitely many buckets, and another    *)
(* one is made only where there is room.                                   *)

Bounded == IsFiniteSet(Registered) /\ Cardinality(Registered) <= MaxBuckets

\* Fewer buckets are within the bound.
LEMMA FewerBuckets ==
    ASSUME Bounded, NEW S \in SUBSET Registered
    PROVE  IsFiniteSet(S) /\ Cardinality(S) \in Nat /\ Cardinality(S) <= MaxBuckets
<1>1. IsFiniteSet(S) /\ Cardinality(S) <= Cardinality(Registered)
  BY FS_Subset DEF Bounded
<1>2. Cardinality(S) \in Nat /\ Cardinality(Registered) \in Nat
  BY <1>1, FS_CardinalityType DEF Bounded
<1> QED
  BY <1>1, <1>2, LimiterAssumption DEF Bounded

\* No call makes more buckets than the registry may hold.
LEMMA BoundedStep ==
    ASSUME Typed, BucketClocks, Bounded, NEW i \in Identities, NEW q \in Requests, NEW weight \in Weights,
           NEW observed \in last - 1 .. MaxClock, evaluate(i, q, weight, observed)
    PROVE  Bounded'
<1>0. last' = safeNow(observed) /\ last' \in Times /\ last <= last'
  BY ClockStep DEF evaluate
<1>T. buckets \in [Identities -> {None} \cup Buckets]
  BY DEF Typed
<1>F. ASSUME Registered' \in SUBSET Registered PROVE Bounded'
  BY <1>F, FewerBuckets DEF Bounded
<1> DEFINE found == Searched(i, last')
           S == {j \in Identities : found[j] # None}
<1>S. S \in SUBSET Registered /\ found \in [Identities -> {None} \cup Buckets]
  BY <1>0, SearchedBuckets DEF Registered
<1>1. CASE Crowded(i, q, last')
  <2>1. Registered' = S
    BY <1>1 DEF Crowded, Registered
  <2> QED
    BY <1>F, <1>S, <2>1
<1>2. CASE Replay(i, q)
  BY <1>F, <1>2 DEF Replay, Registered
<1>3. CASE Untracked(i, q, last')
  <2>1. buckets' = [buckets EXCEPT ![i] = Pruned(i, last')] /\ buckets[i] # None
    BY <1>3 DEF Untracked, Pruned
  <2> QED
    BY <1>F, <1>T, <2>1 DEF Registered
<1>4. CASE Decide(i, q, weight, last')
  <2>1. PICK after : buckets' = [found EXCEPT ![i] = after]
    BY <1>4 DEF Decide
  <2>2. found[i] = None => Cardinality(S) < MaxBuckets
    BY <1>4 DEF Decide
  <2> HIDE DEF found
  <2>3. IsFiniteSet(S) /\ Cardinality(S) \in Nat /\ Cardinality(S) <= MaxBuckets
    BY <1>S, FewerBuckets
  <2>4. Registered' \in SUBSET (S \cup {i})
    BY <1>S, <2>1 DEF Registered
  <2>5. IsFiniteSet(S \cup {i}) /\ Cardinality(S \cup {i}) = IF i \in S THEN Cardinality(S) ELSE Cardinality(S) + 1
    BY <2>3, FS_AddElement
  <2>6. Cardinality(S \cup {i}) \in Nat /\ Cardinality(S \cup {i}) <= MaxBuckets
    BY <2>2, <2>3, <2>5, LimiterAssumption
  <2>7. IsFiniteSet(Registered') /\ Cardinality(Registered') <= Cardinality(S \cup {i})
    BY <2>4, <2>5, FS_Subset
  <2>8. Cardinality(Registered') \in Nat
    BY <2>7, FS_CardinalityType
  <2> QED
    BY <2>6, <2>7, <2>8, LimiterAssumption DEF Bounded
<1> QED
  BY <1>0, <1>1, <1>2, <1>3, <1>4 DEF evaluate

-----------------------------------------------------------------------------
(* The inductive invariant.                                                *)

Inv ==
    /\ Typed /\ BucketClocks /\ Bounded
    /\ \A i \in Identities : SpendInv(i) /\ MemoryInv(i)

\* The start of a new window: nothing is spent, and no bucket holds more than
\* its capacity.
LEMMA MeasureStep ==
    ASSUME Inv, Measure PROVE Inv'
<1> USE LimiterAssumption
<1>0. /\ since' = last /\ last' = last /\ buckets' = buckets /\ chargedAt' = chargedAt
      /\ spent' = [i \in Identities |-> 0]
  BY DEF Measure
<1>1. Typed' /\ BucketClocks' /\ Bounded' /\ last \in Nat
  BY <1>0 DEF Inv, Typed, BucketClocks, BucketClock, Bounded, Registered, Times
<1>2. ASSUME NEW i \in Identities PROVE SpendInv(i)'
  <2>1. \A k \in Nat : 0 <= RefillTokens * k
    BY ProductType
  <2>2. CASE buckets[i] = None
    BY <1>0, <2>1, <2>2 DEF SpendInv
  <2>3. CASE buckets[i] # None
    <3>1. buckets[i].tokens \in 0..Capacity
      BY <2>3 DEF Inv, Typed, Buckets
    <3>2. \A k \in Nat : 0 + buckets[i].tokens <= Capacity + RefillTokens * k
      BY <3>1, ProductType
    <3> QED
      BY <1>0, <2>3, <3>2 DEF SpendInv, Allowed
  <2> QED
    BY <2>2, <2>3
<1>3. ASSUME NEW i \in Identities PROVE MemoryInv(i)'
  BY <1>0 DEF Inv, MemoryInv, Keeps
<1> QED
  BY <1>1, <1>2, <1>3 DEF Inv

\* A call keeps the invariant.
LEMMA EvaluateStep ==
    ASSUME Inv, NEW i \in Identities, NEW q \in Requests, NEW weight \in Weights,
           NEW observed \in last - 1 .. MaxClock, evaluate(i, q, weight, observed)
    PROVE  Inv'
<1> USE LimiterAssumption
<1>0. Typed /\ BucketClocks /\ Bounded
  BY DEF Inv
<1>1. /\ last' \in Times /\ last <= last' /\ since' = since
      /\ \A j \in Identities : BucketStep(j, last')
      /\ buckets' \in [Identities -> {None} \cup Buckets]
  BY <1>0, BucketSteps
<1>2. ASSUME NEW j \in Identities PROVE SpendInv(j)' /\ spent'[j] \in Nat
  BY <1>0, <1>1, SpendStep DEF Inv
<1>3. ASSUME NEW j \in Identities PROVE MemoryInv(j)' /\ chargedAt'[j] \in [Requests -> {None} \cup Times]
  BY <1>0, <1>1, MemoryStep DEF Inv
<1>4. BucketClocks'
  BY <1>0, <1>1, ClocksStep DEF BucketClocks
<1>5. Bounded'
  BY <1>0, BoundedStep
<1>6. spent' \in [Identities -> Nat] /\ chargedAt' \in [Identities -> [Requests -> {None} \cup Times]]
  <2>1. /\ spent \in [Identities -> Nat]
        /\ chargedAt \in [Identities -> [Requests -> {None} \cup Times]]
    BY <1>0 DEF Typed
  <2>2. /\ UNCHANGED spent \/ spent' = [spent EXCEPT ![i] = spent[i] + weight]
        /\ UNCHANGED chargedAt \/ chargedAt' = [chargedAt EXCEPT ![i][q] = last']
    BY DEF evaluate, Crowded, Replay, Untracked, Decide, Free
  <2>3. /\ spent' = [j \in Identities |-> spent'[j]]
        /\ chargedAt' = [j \in Identities |-> chargedAt'[j]]
    BY <2>1, <2>2
  <2> QED
    BY <1>2, <1>3, <2>3
<1>7. Typed'
  BY <1>0, <1>1, <1>6 DEF Typed, Times
<1> QED
  BY <1>2, <1>3, <1>4, <1>5, <1>7 DEF Inv

\* The invariant is inductive.
LEMMA InvStep == Inv /\ [Next]_vars => Inv'
<1> SUFFICES ASSUME Inv, [Next]_vars PROVE Inv'
  OBVIOUS
<1>1. CASE UNCHANGED vars
  BY <1>1 DEF vars, Inv, Typed, BucketClocks, BucketClock, Bounded, Registered, SpendInv, Allowed, MemoryInv, Keeps
<1> QED
  BY <1>1, MeasureStep, EvaluateStep DEF Next

\* No bucket, nothing spent.
LEMMA InvInit == Init => Inv
<1> SUFFICES ASSUME Init PROVE Inv
  OBVIOUS
<1> USE LimiterAssumption
<1>1. Typed /\ BucketClocks
  BY DEF Init, Typed, BucketClocks, Times
<1>2. Registered = {}
  BY DEF Init, Registered
<1>3. Bounded
  BY <1>2, FS_EmptySet DEF Bounded
<1>4. \A k \in Nat : 0 <= RefillTokens * k
  BY ProductType
<1>5. \A i \in Identities : SpendInv(i) /\ MemoryInv(i)
  BY <1>4 DEF Init, SpendInv, MemoryInv
<1> QED
  BY <1>1, <1>3, <1>5 DEF Inv

\* The invariant holds throughout.
LEMMA Invariance == Spec => []Inv
  BY InvInit, InvStep, PTL DEF Spec

-----------------------------------------------------------------------------
(* What it carries.                                                        *)

\* In no window of time is an identity charged more than a full bucket and what is
\* refilled meanwhile, whatever buckets are reclaimed and clocks go back.
THEOREM SpendLimited == Spec => []SpendBounded
<1>1. Inv => SpendBounded
  <2> SUFFICES ASSUME Inv, NEW i \in Identities
               PROVE  spent[i] <= Capacity + RefillTokens * Refills(last - since)
    BY DEF SpendBounded
  <2> USE LimiterAssumption
  <2> DEFINE k == Refills(last - since)
  <2>1. /\ last \in Nat /\ since \in Nat /\ last - since \in Nat /\ spent[i] \in Nat
        /\ buckets \in [Identities -> {None} \cup Buckets]
    BY DEF Inv, Typed, Times
  <2>2. k \in Nat /\ last - since <= Interval * k
    BY <2>1, QuotientCovers DEF Refills
  <2> HIDE DEF k
  <2>3. RefillTokens * k \in Nat /\ Interval * k \in Nat
    BY <2>2, ProductType
  <2>4. CASE buckets[i] = None
    <3>1. spent[i] <= RefillTokens * k
      BY <2>2, <2>4 DEF Inv, SpendInv
    <3> QED
      BY <2>1, <2>3, <3>1 DEF k
  <2>5. CASE buckets[i] # None
    <3>1. /\ buckets[i].refilledAt \in Nat /\ buckets[i].activeAt \in Nat /\ buckets[i].tokens \in Nat
          /\ buckets[i].refilledAt <= buckets[i].activeAt /\ buckets[i].activeAt <= last
      BY <2>1, <2>5 DEF Inv, BucketClocks, BucketClock, Buckets, Times
    <3>2. buckets[i].refilledAt - since <= Interval * k
      BY <2>1, <2>2, <2>3, <3>1
    <3>3. spent[i] + buckets[i].tokens <= Capacity + RefillTokens * k
      BY <2>2, <2>5, <3>2 DEF Inv, SpendInv, Allowed
    <3> QED
      BY <2>1, <2>3, <3>1, <3>3 DEF k
  <2> QED
    BY <2>4, <2>5
<1> QED
  BY <1>1, Invariance, PTL

\* A request id is not charged again within its retention.
THEOREM ChargesAreRemembered == Spec => ChargedOnce
<1> DEFINE Once == \A i \in Identities :
                     spent'[i] > spent[i] /\ chargedAt[i][answer'.id] # None =>
                        last' - chargedAt[i][answer'.id] >= Retention
<1>1. Inv /\ [Next]_vars => [Once]_vars
  <2> SUFFICES ASSUME Inv, Next, NEW j \in Identities, spent'[j] > spent[j], chargedAt[j][answer'.id] # None
               PROVE  last' - chargedAt[j][answer'.id] >= Retention
    OBVIOUS
  <2> USE LimiterAssumption
  <2>0. Typed /\ BucketClocks /\ MemoryInv(j) /\ spent[j] \in Nat /\ last \in Nat
    BY DEF Inv, Typed, Times
  <2>1. ~Measure
    BY <2>0 DEF Measure
  <2>2. PICK i \in Identities, q \in Requests, weight \in Weights, observed \in last - 1 .. MaxClock :
           evaluate(i, q, weight, observed)
    BY <2>1 DEF Next
  <2>3. last' \in Times /\ last <= last' /\ BucketStep(j, last')
    BY <2>0, <2>2, BucketSteps
  <2>4. ~BucketKept(j, last')
    BY <2>0 DEF BucketKept
  <2>5. PICK p \in Requests, w \in Weights : BucketDecides(j, p, w, last')
    BY <2>3, <2>4 DEF BucketStep
  <2>6. answer'.id = p /\ (buckets[j] # None => buckets[j].decisions[p] = None)
    BY <2>5 DEF BucketDecides
  <2>7. last - chargedAt[j][p] >= Retention /\ chargedAt[j][p] <= last
    BY <2>0, <2>6 DEF MemoryInv, Keeps
  <2>8. chargedAt[j][p] \in Nat /\ last' \in Nat
    BY <2>0, <2>3, <2>6 DEF Typed, Times
  <2> QED
    BY <2>0, <2>3, <2>6, <2>7, <2>8
<1> QED
  BY <1>1, Invariance, PTL DEF Spec, ChargedOnce

\* A limit does not outlive its cause: a bucket that was left alone long enough
\* serves the next new request, and a new identity is turned away only while
\* some bucket is in use.
THEOREM LimitsEnd == Spec => LimitRecovers
<1> DEFINE Fair == Called /\ answer'.type \in {"DELAY", "BLOCK"} /\ ~answer'.replayed =>
                     IF buckets[answer'.who] # None
                     THEN ~Recovered(buckets[answer'.who], last')
                     ELSE \E i \in Registered : ~Recovered(buckets[i], last')
<1>1. Inv /\ [Next]_vars => [Fair]_vars
  <2> SUFFICES ASSUME Inv, Next, Called, answer'.type \in {"DELAY", "BLOCK"}, ~answer'.replayed
               PROVE  IF buckets[answer'.who] # None
                      THEN ~Recovered(buckets[answer'.who], last')
                      ELSE \E i \in Registered : ~Recovered(buckets[i], last')
    OBVIOUS
  <2> USE LimiterAssumption
  <2>0. /\ Typed /\ BucketClocks /\ last \in Times
        /\ buckets \in [Identities -> {None} \cup Buckets]
    BY DEF Inv, Typed
  <2>1. ~Measure
    BY DEF Measure, Called
  <2>2. PICK i \in Identities, q \in Requests, weight \in Weights, observed \in last - 1 .. MaxClock :
           evaluate(i, q, weight, observed)
    BY <2>1 DEF Next
  <2>3. last' = safeNow(observed) /\ last' \in Times /\ last <= last' /\ last' \in Nat
    BY <2>0, <2>2, ClockStep DEF evaluate, Times
  <2>4. ASSUME NEW j \in Identities, buckets[j] # None, Recovered(buckets[j], last')
        PROVE  /\ Remembered(Pruned(j, last')) = {} /\ isIdle(Pruned(j, last'), last')
               /\ refill(Pruned(j, last'), last').tokens = Capacity
    <3>1. buckets[j] \in Buckets /\ BucketClock(buckets[j])
      BY <2>0, <2>4 DEF BucketClocks
    <3> QED
      BY <2>0, <2>3, <2>4, <3>1, RecoveredBucket DEF Pruned
  <2>5. CASE Crowded(i, q, last')
    <3>1. /\ answer'.who = i /\ buckets[i] = None /\ buckets' = Searched(i, last')
          /\ Cardinality({j \in Identities : buckets'[j] # None}) >= MaxBuckets
      BY <2>5 DEF Crowded, Answers
    <3> SUFFICES ASSUME \A j \in Registered : Recovered(buckets[j], last') PROVE FALSE
      BY <3>1
    <3>2. CASE Cardinality(Registered) >= MaxBuckets
      <4>1. buckets' = evictIdleBuckets(last')
        BY <3>1, <3>2 DEF Searched
      <4>2. \A j \in Identities : buckets'[j] = None
        BY <2>4, <4>1 DEF evictIdleBuckets, Pruned, Registered
      <4>3. {j \in Identities : buckets'[j] # None} = {}
        BY <4>2
      <4>4. Cardinality({}) = 0
        BY FS_EmptySet
      <4>5. Cardinality({j \in Identities : buckets'[j] # None}) = 0
        BY <4>3, <4>4, Zenon
      <4>6. ~(0 >= MaxBuckets)
        OBVIOUS
      <4> QED
        BY <3>1, <4>5, <4>6
    <3>3. CASE ~(Cardinality(Registered) >= MaxBuckets)
      BY <3>1, <3>3 DEF Searched, Registered
    <3> QED
      BY <3>2, <3>3
  <2>6. CASE Replay(i, q)
    BY <2>6 DEF Replay, Answers
  <2>7. CASE Untracked(i, q, last')
    <3>1. answer'.who = i /\ buckets[i] # None /\ Cardinality(Remembered(Pruned(i, last'))) >= Tracked
      BY <2>7 DEF Untracked, Answers, Pruned
    <3>2. Cardinality({}) = 0
      BY FS_EmptySet
    <3>3. ~(0 >= Tracked)
      OBVIOUS
    <3>4. ASSUME Recovered(buckets[i], last') PROVE FALSE
      <4>1. Remembered(Pruned(i, last')) = {}
        BY <2>4, <3>1, <3>4
      <4>2. Cardinality(Remembered(Pruned(i, last'))) = 0
        BY <3>2, <4>1, Zenon
      <4> QED
        BY <3>1, <3>3, <4>2
    <3> QED
      BY <3>1, <3>4
  <2>8. CASE Decide(i, q, weight, last')
    <3> DEFINE b == Base(i, last')
               type == Decision(refill(b, last'), weight, last')
    <3>1. Searched(i, last')[i] = buckets[i]
      BY <2>0, <2>3, SearchedBuckets
    <3>2. answer'.who = i /\ answer'.type = Decided(b, q, weight, last').decisions[q].type
      BY <2>8, <3>1 DEF Decide, Answers, Base, Pruned
    <3>3. b \in Buckets /\ b.refilledAt \in Nat /\ b.refilledAt <= last'
      BY <2>0, <2>3, BaseClock DEF Buckets, Times
    <3>4. answer'.type = type
      <4>1. Decided(b, q, weight, last').decisions[q] = [type |-> type, expires |-> last' + Retention]
        BY <2>3, <3>3, DecidedType
      <4> HIDE DEF b, type
      <4> QED
        BY <3>2, <4>1
    <3>5. ASSUME refill(b, last').tokens = Capacity PROVE FALSE
      <4>1. type \notin {"DELAY", "BLOCK"}
        BY <3>5 DEF Decision
      <4> HIDE DEF type
      <4> QED
        BY <3>4, <4>1
    <3>6. CASE buckets[i] # None
      <4>1. b = Pruned(i, last')
        BY <3>6 DEF Base
      <4> QED
        BY <2>4, <3>2, <3>5, <3>6, <4>1
    <3>7. CASE buckets[i] = None
      <4>1. b = NewBucket(last') /\ b.tokens = Capacity /\ b.refilledAt = last'
        BY <2>3, <3>7, NewBucketType DEF Base
      <4> HIDE DEF b
      <4>2. refill(b, last').tokens = Atmost(Capacity, b.tokens + ((last' - b.refilledAt) \div Interval) * RefillTokens)
        BY <2>3, <3>3, RefillType
      <4>3. (last' - b.refilledAt) \div Interval = 0
        BY <2>3, <4>1
      <4>4. refill(b, last').tokens = Capacity
        BY <4>1, <4>2, <4>3 DEF Atmost
      <4> QED
        BY <3>5, <4>4
    <3> QED
      BY <3>6, <3>7
  <2> QED
    BY <2>2, <2>3, <2>5, <2>6, <2>7, <2>8 DEF evaluate
<1> QED
  BY <1>1, Invariance, PTL DEF Spec, LimitRecovers

\* Type correctness of the limiter.  Its conjunct on the buckets is the registry's
\* bound: however many identities call, at most MaxBuckets have a bucket.
THEOREM TypeCorrect == Spec => []TypeOK
<1> DEFINE AnswerType == answer \in {NoAnswer} \cup
              [who : Identities, id : Requests, type : DecisionTypes, replayed : BOOLEAN]
<1>1. Init => AnswerType
  BY DEF Init
<1>2. Inv /\ AnswerType /\ [Next]_vars => AnswerType'
  <2> SUFFICES ASSUME Inv, AnswerType, [Next]_vars PROVE AnswerType'
    OBVIOUS
  <2>0. /\ Typed /\ BucketClocks /\ buckets \in [Identities -> {None} \cup Buckets]
    BY DEF Inv, Typed
  <2>1. CASE UNCHANGED vars
    BY <2>1 DEF vars
  <2>2. CASE Measure
    BY <2>2 DEF Measure
  <2>3. ASSUME NEW i \in Identities, NEW q \in Requests, NEW weight \in Weights,
               NEW observed \in last - 1 .. MaxClock, evaluate(i, q, weight, observed)
        PROVE  AnswerType'
    <3>0. last' = safeNow(observed) /\ last' \in Times /\ last <= last' /\ last' \in Nat
      BY <2>0, <2>3, ClockStep, LimiterAssumption DEF evaluate, Times
    <3>A. ASSUME NEW t \in DecisionTypes, NEW r \in BOOLEAN, Answers(i, q, t, r) PROVE AnswerType'
      BY <3>A DEF Answers
    <3>1. CASE Crowded(i, q, last') \/ Untracked(i, q, last')
      <4>1. Answers(i, q, "BLOCK", FALSE)
        BY <3>1 DEF Crowded, Untracked
      <4> QED
        BY <3>A, <4>1 DEF DecisionTypes
    <3>2. CASE Replay(i, q)
      <4>1. buckets[i].decisions[q].type \in DecisionTypes
        BY <2>0, <3>2 DEF Replay, Buckets, Memory
      <4> QED
        BY <3>A, <3>2, <4>1 DEF Replay
    <3>3. CASE Decide(i, q, weight, last')
      <4> DEFINE b == Base(i, last')
      <4>1. Searched(i, last')[i] = buckets[i]
        BY <2>0, <3>0, SearchedBuckets
      <4>2. Answers(i, q, Decided(b, q, weight, last').decisions[q].type, FALSE)
        BY <3>3, <4>1 DEF Decide, Base, Pruned
      <4>3. b \in Buckets /\ b.refilledAt <= last'
        BY <2>0, <3>0, BaseClock DEF Buckets, Times
      <4> HIDE DEF b
      <4>4. Decided(b, q, weight, last').decisions[q] =
               [type |-> Decision(refill(b, last'), weight, last'), expires |-> last' + Retention]
        BY <3>0, <4>3, DecidedType
      <4>5. Decision(refill(b, last'), weight, last') \in DecisionTypes
        BY DEF Decision, DecisionTypes
      <4>6. Decided(b, q, weight, last').decisions[q].type \in DecisionTypes
        BY <4>4, <4>5
      <4>7. FALSE \in BOOLEAN
        OBVIOUS
      <4> QED
        BY <3>A, <4>2, <4>6, <4>7, Zenon
    <3> QED
      BY <2>3, <3>0, <3>1, <3>2, <3>3 DEF evaluate
  <2> QED
    BY <2>1, <2>2, <2>3 DEF Next
<1>3. Inv /\ AnswerType => TypeOK
  BY DEF Inv, Typed, Bounded, Registered, TypeOK
<1> QED
  BY <1>1, <1>2, <1>3, Invariance, PTL DEF Spec
=============================================================================
