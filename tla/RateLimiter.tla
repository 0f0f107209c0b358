---------------------------- MODULE RateLimiter -----------------------------
(***************************************************************************)
(* The cloud server's rate limiter: a bounded registry of token buckets,   *)
(* each with a memory of its decisions.                                    *)
(*                                                                         *)
(*   src/apps/cloud/src/httpRateLimiter.ts        BoundedHttpRateLimiter   *)
(*   src/apps/execution/src/rate-limit-manager.ts                          *)
(*                                            DeterministicRateLimitManager *)
(*                                                                         *)
(* A call of evaluate runs to completion and is one step.  It reads the    *)
(* clock through safeNow, which never goes back whatever the wall clock    *)
(* does; the readings of one call are taken as one.                        *)
(***************************************************************************)
EXTENDS Integers, FiniteSets

CONSTANTS
    Identities,     \* bucket keys: a path with a principal or an address
    Requests,       \* request ids: the callers' correlation ids
    Weights,        \* 1, or 4 for a POST or PUT
    None,           \* nothing
    Capacity,       \* policy.capacity
    RefillTokens,   \* policy.refillTokens
    Interval,       \* policy.refillIntervalMs
    QueueDelay,     \* policy.maximumQueueDelayMs
    Tracked,        \* policy.maximumTrackedRequests
    Retention,      \* policy.decisionRetentionMs
    MaxBuckets,     \* maxBuckets
    MaxClock        \* bound on the clock

Times == 0..MaxClock

\* TOO_HEAVY is a BLOCK for a weight above the bucket's capacity
DecisionTypes == {"ALLOW", "DELAY", "BLOCK", "TOO_HEAVY"}

\* a decision that is remembered, and a bucket
Memory == [type : DecisionTypes, expires : Nat]
Buckets ==
    [tokens : 0..Capacity, refilledAt : Times, activeAt : Times,
     decisions : [Requests -> {None} \cup Memory]]

ASSUME LimiterAssumption ==
    /\ None \notin Times \cup Memory \cup Buckets
    /\ Weights \subseteq Nat \ {0}
    /\ Capacity \in Nat \ {0} /\ RefillTokens \in Nat \ {0} /\ Interval \in Nat \ {0}
    /\ QueueDelay \in Nat
    /\ Tracked \in Nat \ {0} /\ Retention \in Nat \ {0} /\ MaxBuckets \in Nat \ {0}
    /\ MaxClock \in Nat

VARIABLES
    buckets,        \* the registry: the bucket of each identity, or None
    last,           \* the last reading of safeNow
    answer,         \* the last call and what it returned
    \* history, for a window of time that starts at since
    since,
    spent,          \* tokens each identity was charged in the window
    chargedAt       \* when each request id of an identity was last charged

vars == <<buckets, last, answer, since, spent, chargedAt>>

NoAnswer == [who |-> None, id |-> None, type |-> "BLOCK", replayed |-> FALSE]

TypeOK ==
    /\ buckets \in [Identities -> {None} \cup Buckets]
    /\ Cardinality({i \in Identities : buckets[i] # None}) <= MaxBuckets
    /\ last \in Times /\ since \in Times
    /\ answer \in {NoAnswer} \cup
          [who : Identities, id : Requests, type : DecisionTypes, replayed : BOOLEAN]
    /\ spent \in [Identities -> Nat]
    /\ chargedAt \in [Identities -> [Requests -> {None} \cup Times]]

Init ==
    /\ buckets = [i \in Identities |-> None]
    /\ last = 0
    /\ answer = NoAnswer
    /\ since = 0
    /\ spent = [i \in Identities |-> 0]
    /\ chargedAt = [i \in Identities |-> [q \in Requests |-> None]]

\* the clock as the limiter sees it, for a wall clock that was just observed
safeNow(observed) == IF observed > last THEN observed ELSE last

-----------------------------------------------------------------------------
(* One bucket.                                                             *)

\* the constructor
NewBucket(at) ==
    [tokens |-> Capacity, refilledAt |-> at, activeAt |-> at,
     decisions |-> [q \in Requests |-> None]]

Atmost(x, y) == IF x < y THEN x ELSE y

\* Mutant: the interval that was refilled is refilled again
MRefill(b, at) ==
    [b EXCEPT !.tokens = Atmost(Capacity, @ + ((at - b.refilledAt) \div Interval) * RefillTokens)]

\* whole intervals only: what is left of the last one counts towards the next
refill(b, at) ==
    LET intervals == (at - b.refilledAt) \div Interval IN
    [b EXCEPT !.tokens = Atmost(Capacity, @ + intervals * RefillTokens),
              !.refilledAt = @ + intervals * Interval]

\* Mutant: remembered decisions are never dropped
MPruneDecisions(b, at) == b

\* decisions whose retention is over are forgotten
pruneDecisions(b, at) ==
    [b EXCEPT !.decisions = [q \in Requests |->
        IF @[q] # None /\ @[q].expires <= at THEN None ELSE @[q]]]

Remembered(b) == {q \in Requests : b.decisions[q] # None}

\* Mutant: a full bucket is reclaimed with the decisions it still remembers
MRememberedIdle(b, at) == refill(b, at).tokens >= Capacity

\* a bucket (already pruned) that has refilled and remembers nothing
isIdle(b, at) ==
    /\ Remembered(b) = {}
    /\ at >= b.activeAt
    /\ refill(b, at).tokens >= Capacity

\* how long a bucket that cannot pay has to wait from now
Delay(b, weight, at) ==
    LET deficit == weight - b.tokens
        intervalsNeeded == (deficit + RefillTokens - 1) \div RefillTokens
    IN b.refilledAt + intervalsNeeded * Interval - at

\* the decision of a refilled bucket
Decision(b, weight, at) ==
    IF weight > Capacity THEN "TOO_HEAVY"
    ELSE IF weight <= b.tokens THEN "ALLOW"
    ELSE IF Delay(b, weight, at) <= QueueDelay THEN "DELAY"
    ELSE "BLOCK"

\* the bucket after a decision was taken, charged and remembered
Decided(b, q, weight, at) ==
    LET full == refill(b, at)
        type == Decision(full, weight, at)
    IN [full EXCEPT !.tokens = IF type = "ALLOW" THEN @ - weight ELSE @,
                    !.activeAt = IF at > @ THEN at ELSE @,
                    !.decisions[q] = [type |-> type, expires |-> at + Retention]]

-----------------------------------------------------------------------------
(* The registry.                                                           *)

Registered == {i \in Identities : buckets[i] # None}

\* evictIdleBuckets prunes every bucket it looks at and drops the idle ones
evictIdleBuckets(at) ==
    [i \in Identities |->
        IF buckets[i] = None THEN None
        ELSE LET b == pruneDecisions(buckets[i], at) IN
             IF isIdle(b, at) THEN None ELSE b]

\* the registry in which a caller finds its bucket, or no room for one
Searched(i, at) ==
    IF buckets[i] = None /\ Cardinality(Registered) >= MaxBuckets
    THEN evictIdleBuckets(at) ELSE buckets

Answers(i, q, type, replayed) ==
    answer' = [who |-> i, id |-> q, type |-> type, replayed |-> replayed]

\* nothing is charged
Free == UNCHANGED <<spent, chargedAt>>

\* every slot is taken by a bucket that is not idle
Crowded(i, q, at) ==
    /\ buckets[i] = None
    /\ buckets' = Searched(i, at)
    /\ Cardinality({j \in Identities : buckets'[j] # None}) >= MaxBuckets
    /\ Answers(i, q, "BLOCK", FALSE)
    /\ Free

\* a remembered decision is returned before anything else is looked at
Replay(i, q) ==
    /\ buckets[i] # None
    /\ buckets[i].decisions[q] # None
    /\ Answers(i, q, buckets[i].decisions[q].type, TRUE)
    /\ UNCHANGED buckets
    /\ Free

\* the bucket remembers too many decisions for another one
Untracked(i, q, at) ==
    LET b == pruneDecisions(buckets[i], at) IN
    /\ buckets[i] # None
    /\ buckets[i].decisions[q] = None
    /\ Cardinality(Remembered(b)) >= Tracked
    /\ buckets' = [buckets EXCEPT ![i] = b]
    /\ Answers(i, q, "BLOCK", FALSE)
    /\ Free

\* a new or known bucket decides
Decide(i, q, weight, at) ==
    LET found == Searched(i, at)
        b == IF found[i] = None THEN NewBucket(at) ELSE pruneDecisions(found[i], at)
        after == Decided(b, q, weight, at)
        type == after.decisions[q].type
    IN
    /\ found[i] = None => Cardinality({j \in Identities : found[j] # None}) < MaxBuckets
    /\ buckets[i] # None => buckets[i].decisions[q] = None
    /\ Cardinality(Remembered(b)) < Tracked
    /\ buckets' = [found EXCEPT ![i] = after]
    /\ Answers(i, q, type, FALSE)
    /\ IF type = "ALLOW"
       THEN /\ spent' = [spent EXCEPT ![i] = @ + weight]
            /\ chargedAt' = [chargedAt EXCEPT ![i][q] = at]
       ELSE Free

\* BoundedHttpRateLimiter.evaluate
evaluate(i, q, weight, observed) ==
    LET at == safeNow(observed) IN
    /\ last' = at
    /\ \/ Crowded(i, q, at)
       \/ Replay(i, q)
       \/ Untracked(i, q, at)
       \/ Decide(i, q, weight, at)
    /\ UNCHANGED since

\* history: another window of time is measured from now on
Measure ==
    /\ since' = last
    /\ spent' = [i \in Identities |-> 0]
    /\ UNCHANGED <<buckets, last, answer, chargedAt>>

\* the wall clock goes on or back (to safeNow, back is as good as by one)
Next ==
    \/ \E i \in Identities, q \in Requests, weight \in Weights, observed \in last - 1 .. MaxClock :
          evaluate(i, q, weight, observed)
    \/ Measure

Spec == Init /\ [][Next]_vars

-----------------------------------------------------------------------------
(* Properties.                                                             *)

\* refills in a window of this length, at most
Refills(length) == (length + Interval - 1) \div Interval

\* In no window of time is an identity charged more than a full bucket and what
\* is refilled meanwhile: a bucket that was reclaimed and made anew, late refills
\* and a wall clock that goes back do not widen the limit ("Only idle buckets are
\* evicted, so a caller that is currently being throttled cannot reset its own
\* limit").
SpendBounded ==
    \A i \in Identities : spent[i] <= Capacity + RefillTokens * Refills(last - since)

\* A request id is not charged again within its retention, also when its bucket
\* was reclaimed in between: a retried request costs its tokens once.
ChargedOnce ==
    [][\A i \in Identities :
         spent'[i] > spent[i] /\ chargedAt[i][answer'.id] # None =>
             last' - chargedAt[i][answer'.id] >= Retention]_vars

\* a call was made, at another time or with another answer than the last
Called == answer' # answer \/ last' # last

\* the time after which a bucket nobody uses is full and remembers nothing
Recovered(b, at) ==
    /\ at - b.activeAt >= Retention
    /\ at - b.activeAt >= Interval * ((Capacity + RefillTokens - 1) \div RefillTokens)

\* A limit does not outlive its cause ("tracking capacity recovers with time
\* instead of blocking the bucket permanently"): a bucket that was left alone long
\* enough serves the next new request, and a new identity is turned away only
\* while some bucket is in use.
LimitRecovers ==
    [][Called /\ answer'.type \in {"DELAY", "BLOCK"} /\ ~answer'.replayed =>
             IF buckets[answer'.who] # None
             THEN ~Recovered(buckets[answer'.who], last')
             ELSE \E i \in Registered : ~Recovered(buckets[i], last')]_vars

\* "How long a memoized decision stays replayable": a decision that is returned
\* from memory is within its retention.
ReplayExpires ==
    [][Called /\ answer'.replayed =>
         buckets[answer'.who].decisions[answer'.id].expires > last']_vars
=============================================================================
