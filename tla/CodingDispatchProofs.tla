------------------------ MODULE CodingDispatchProofs ------------------------
(***************************************************************************)
(* Proofs about the autopilot's coding dispatch, for any number of keys,   *)
(* ticks and requests, any limits and any bounds.                          *)
(***************************************************************************)
EXTENDS CodingDispatch, FiniteSetTheorems, TLAPS

\* Every step of the specification is one of these.
LEMMA StepCases ==
    ASSUME [Next]_vars
    PROVE  \/ \E t \in Ticks :
                \/ \E k \in Keys : Begin(t, k)
                \/ Look(t) \/ admitActiveWip(t) \/ acquire(t) \/ Send(t) \/ TickDies(t)
           \/ \E r \in Runners :
                \/ markDispatched(r) \/ complete(r) \/ completeActiveWip(r)
                \/ stopForRateLimit(r) \/ recordProviderCapacityWait(r)
                \/ release(r) \/ RunnerDies(r)
                \/ \E k \in Keys : Serve(r, k)
           \/ \E k \in Keys : LeaseExpires(k) \/ RetryDue(k) \/ ClaimAges(k) \/ releaseActiveWip(k)
           \/ WaitEnds
           \/ UNCHANGED vars
  BY DEF Next, TickStep, RunnerStep

-----------------------------------------------------------------------------
(* Types.  A caller of the coordinator works on a key, and the claims are  *)
(* finite however many keys there are: each step adds at most one.         *)

Claims == {k \in Keys : wip[k] # "none"}

OnKeys ==
    /\ \A t \in Ticks : tick[t].pc # "idle" => tick[t].key \in Keys
    /\ \A r \in Runners : runner[r].pc # "idle" => runner[r].key \in Keys

\* the types, but for wait, and the claims
Rest ==
    /\ exec \in [Keys -> {None} \cup Records]
    /\ wip \in [Keys -> {"none", "young", "old"}]
    /\ completions \subseteq Keys
    /\ tick \in [Ticks -> [pc : {"idle", "look", "admit", "acquire", "send"},
                           key : {None} \cup Keys]]
    /\ runner \in [Runners -> [pc : {"idle", "run", "complete", "wip", "wait"},
                               key : {None} \cup Keys, leased : BOOLEAN]]
    /\ requests \subseteq Keys
    /\ replays \in 0..MaxReplays
    /\ stops \in 0..MaxStops
    /\ grants \in [Keys -> Nat]
    /\ accepted \in [Keys -> Nat]
    /\ OnKeys

Slots == IsFiniteSet(Claims) /\ Cardinality(Claims) <= MaxConcurrent

TypeInv == TypeOK /\ IsFiniteSet(Claims) /\ OnKeys

\* A claim set that does not grow stays within the slots.
LEMMA FewerClaims ==
    ASSUME TypeInv, NEW S \in SUBSET Claims
    PROVE  IsFiniteSet(S) /\ Cardinality(S) <= MaxConcurrent
<1>1. IsFiniteSet(Claims) /\ Cardinality(Claims) <= MaxConcurrent
  BY DEF TypeInv, TypeOK, Claims
<1>2. IsFiniteSet(S) /\ Cardinality(S) <= Cardinality(Claims)
  BY <1>1, FS_Subset
<1>3. Cardinality(S) \in Nat /\ Cardinality(Claims) \in Nat
  BY <1>1, <1>2, FS_CardinalityType
<1> QED
  BY <1>1, <1>2, <1>3, DispatchAssumption

\* What acquire writes is a record: it counts no attempt beyond the limit.
LEMMA AcquiredCount ==
    ASSUME TypeInv, NEW k \in Keys, ~AcquireRefused(k)
    PROVE  /\ exec[k] # None => Count(k) \in 1..MaxAttempts
           /\ exec[k] # None /\ exec[k].state # Waiting => Count(k) + 1 \in 1..MaxAttempts
<1>1. exec[k] # None => exec[k].count \in 0..MaxAttempts
  BY DEF TypeInv, TypeOK, Records
<1>2. exec[k] # None => Count(k) \in 1..MaxAttempts
  BY <1>1, DispatchAssumption DEF Count
<1>3. exec[k] # None /\ exec[k].state # Waiting => ~(Count(k) >= MaxAttempts)
  BY DEF AcquireRefused
<1> QED
  BY <1>2, <1>3, DispatchAssumption

\* The changes the handlers make to a record leave a record.
LEMMA RecordChanges ==
    ASSUME NEW e \in Records
    PROVE  /\ [e EXCEPT !.state = "HANDED_OFF"] \in Records
           /\ [e EXCEPT !.state = "DISPATCHED"] \in Records
           /\ [e EXCEPT !.state = "COMPLETED", !.live = FALSE] \in Records
           /\ [e EXCEPT !.state = Waiting, !.retry = TRUE] \in Records
           /\ [e EXCEPT !.state = "RELEASED", !.live = FALSE] \in Records
           /\ [e EXCEPT !.live = FALSE] \in Records
           /\ [e EXCEPT !.retry = FALSE] \in Records
  BY DEF Records, Active, Settled

\* A new record of some count is a record.
LEMMA LeasedRecord ==
    ASSUME NEW n \in 0..MaxAttempts
    PROVE  [state |-> "LEASED", live |-> TRUE, retry |-> FALSE, count |-> n] \in Records
  BY DEF Records, Active

\* Every variable keeps its type, and every caller at work keeps a key.
LEMMA TypeStep == TypeInv /\ [Next]_vars => TypeInv'
<1> SUFFICES ASSUME TypeInv, [Next]_vars PROVE TypeInv'
  OBVIOUS
<1> USE DispatchAssumption
<1>0. TypeInv <=> Slots /\ wait \in BOOLEAN /\ Rest
  BY DEF TypeInv, TypeOK, Claims, Slots, Rest
<1>S. ASSUME wip' = wip PROVE Slots'
  BY <1>0, <1>S DEF Claims, Slots
<1>D. ASSUME NEW S \in SUBSET Claims, Claims' = S PROVE Slots'
  <2>1. IsFiniteSet(S) /\ Cardinality(S) <= MaxConcurrent
    BY FewerClaims
  <2> QED
    BY <1>D, <2>1 DEF Slots
<1>R. Rest
  BY <1>0
<1>E. \A k \in Keys : exec[k] # None => exec[k] \in Records
  BY <1>R DEF Rest
<1>1. ASSUME NEW t \in Ticks, NEW k \in Keys, Begin(t, k) PROVE Slots' /\ Rest'
  BY <1>1, <1>S, <1>R DEF Rest, Begin, storage, history, OnKeys
<1>2. ASSUME NEW t \in Ticks, Look(t) PROVE Slots' /\ Rest'
  BY <1>2, <1>S, <1>R DEF Rest, Look, TickEnds, TickTo, Resting, storage, history, OnKeys
<1>3. ASSUME NEW t \in Ticks, admitActiveWip(t) PROVE Slots' /\ Rest'
  <2> DEFINE k == tick[t].key
             claims == Claims \ Expired
             admitted == k \notin claims /\ Cardinality(claims) < MaxConcurrent
  <2>1. /\ tick[t].pc = "admit" /\ k \in Keys
        /\ wip' = [c \in Keys |-> IF c = k /\ admitted THEN "young"
                                  ELSE IF c \in claims THEN wip[c] ELSE "none"]
        /\ IF admitted THEN TickTo(t, "acquire") ELSE TickEnds(t)
        /\ UNCHANGED <<exec, completions, wait, runner, requests, history>>
    BY <1>3, <1>R DEF Rest, admitActiveWip, Claims, OnKeys
  <2>2. IsFiniteSet(claims) /\ Cardinality(claims) <= MaxConcurrent
    BY FewerClaims
  <2>3. CASE admitted
    <3>1. Claims' = claims \cup {k}
      BY <2>1, <2>3 DEF Claims
    <3>2. IsFiniteSet(claims \cup {k}) /\ Cardinality(claims \cup {k}) = Cardinality(claims) + 1
      BY <2>2, <2>3, FS_AddElement
    <3>3. Cardinality(claims) \in Nat /\ Cardinality(claims) < MaxConcurrent
      BY <2>2, <2>3, FS_CardinalityType
    <3>4. Slots'
      BY <3>1, <3>2, <3>3 DEF Slots
    <3>5. /\ tick' = [tick EXCEPT ![t].pc = "acquire"]
          /\ wip' \in [Keys -> {"none", "young", "old"}]
      BY <2>1, <2>3, <1>R DEF Rest, TickTo
    <3> QED
      BY <2>1, <3>4, <3>5, <1>R DEF Rest, history, OnKeys
  <2>4. CASE ~admitted
    <3>1. Claims' = claims
      BY <2>1, <2>4 DEF Claims
    <3>2. /\ tick' = [tick EXCEPT ![t] = Resting]
          /\ wip' \in [Keys -> {"none", "young", "old"}]
      BY <2>1, <2>4, <1>R DEF Rest, TickEnds
    <3> QED
      BY <2>1, <3>1, <3>2, <1>D, <1>R DEF Rest, Resting, history, OnKeys
  <2> QED
    BY <2>3, <2>4
<1>4. ASSUME NEW t \in Ticks, acquire(t) PROVE Slots' /\ Rest'
  <2> DEFINE k == tick[t].key
  <2>1. k \in Keys /\ tick[t].pc = "acquire"
    BY <1>4, <1>R DEF Rest, acquire, OnKeys
  <2>2. UNCHANGED <<wip, completions, wait, runner, requests, replays, stops, accepted>>
    BY <1>4 DEF acquire
  <2>3. CASE AcquireRefused(k)
    <3>1. TickEnds(t) /\ UNCHANGED <<exec, grants>>
      BY <1>4, <2>3 DEF acquire
    <3> QED
      BY <2>2, <3>1, <1>S, <1>R DEF Rest, TickEnds, Resting, OnKeys
  <2>4. CASE ~AcquireRefused(k)
    <3> DEFINE n == IF exec[k] = None THEN 1
                    ELSE IF HasState(k, {Waiting}) THEN Count(k) ELSE Count(k) + 1
    <3>1. n \in 0..MaxAttempts
      BY <2>1, <2>4, AcquiredCount DEF HasState
    <3>2. exec' = [exec EXCEPT ![k] =
                [state |-> "LEASED", live |-> TRUE, retry |-> FALSE, count |-> n]]
      BY <1>4, <2>4 DEF acquire
    <3> HIDE DEF n
    <3>3. exec' \in [Keys -> {None} \cup Records]
      BY <3>1, <3>2, LeasedRecord, <1>R DEF Rest
    <3>4. grants' \in [Keys -> Nat] /\ tick' = [tick EXCEPT ![t].pc = "send"]
      BY <1>4, <2>1, <2>4, <1>R DEF Rest, acquire, TickTo
    <3> QED
      BY <2>1, <2>2, <3>3, <3>4, <1>S, <1>R DEF Rest, OnKeys
  <2> QED
    BY <2>3, <2>4
<1>5. ASSUME NEW t \in Ticks, Send(t) PROVE Slots' /\ Rest'
  BY <1>5, <1>S, <1>R DEF Rest, Send, TickEnds, Resting, storage, history, OnKeys
<1>6. ASSUME NEW t \in Ticks, TickDies(t) PROVE Slots' /\ Rest'
  BY <1>6, <1>S, <1>R DEF Rest, TickDies, TickEnds, Resting, storage, history, OnKeys
<1>7. ASSUME NEW r \in Runners, markDispatched(r) PROVE Slots' /\ Rest'
  <2> DEFINE k == runner[r].key
  <2>1. k \in Keys /\ runner[r].pc = "run"
    BY <1>7, <1>R DEF Rest, markDispatched, OnKeys
  <2>2. UNCHANGED <<wip, completions, tick, requests, replays, stops, grants>>
    BY <1>7 DEF markDispatched
  <2>3. CASE HasState(k, Active)
    <3>1. /\ exec' = [exec EXCEPT ![k] = [exec[k] EXCEPT !.state = "DISPATCHED"]]
          /\ accepted' = [accepted EXCEPT ![k] = accepted[k] + 1]
          /\ runner' = [runner EXCEPT ![r].pc = "complete"]
      BY <1>7, <2>3 DEF markDispatched, RunnerTo
    <3>2. exec' \in [Keys -> {None} \cup Records]
      BY <2>1, <2>3, <3>1, <1>R, <1>E, RecordChanges DEF Rest, HasState
    <3> QED
      BY <2>1, <2>2, <3>1, <3>2, <1>S, <1>R DEF Rest, OnKeys
  <2>4. CASE ~HasState(k, Active)
    <3>1. RunnerEnds(r) /\ UNCHANGED <<exec, accepted>>
      BY <1>7, <2>4 DEF markDispatched
    <3> QED
      BY <2>2, <3>1, <1>S, <1>R DEF Rest, RunnerEnds, Free, OnKeys
  <2> QED
    BY <2>3, <2>4
<1>8. ASSUME NEW r \in Runners, complete(r) PROVE Slots' /\ Rest'
  <2>1. runner[r].key \in Keys
    BY <1>8, <1>R DEF Rest, complete, OnKeys
  <2>2. exec' \in [Keys -> {None} \cup Records]
    BY <1>8, <2>1, <1>R, <1>E, RecordChanges DEF Rest, complete, HasState
  <2> QED
    BY <1>8, <2>1, <2>2, <1>S, <1>R DEF Rest, complete, RunnerTo, history, OnKeys
<1>9. ASSUME NEW r \in Runners, completeActiveWip(r) PROVE Slots' /\ Rest'
  <2>1. runner[r].key \in Keys
    BY <1>9, <1>R DEF Rest, completeActiveWip, OnKeys
  <2>2. Claims' \in SUBSET Claims
    BY <1>9, <2>1, <1>R DEF Rest, completeActiveWip, Claims
  <2>3. Slots'
    BY <1>D, <2>2
  <2> QED
    BY <1>9, <2>1, <2>3, <1>R DEF Rest, completeActiveWip, RunnerEnds, Free, history, OnKeys
<1>10. ASSUME NEW r \in Runners, stopForRateLimit(r) PROVE Slots' /\ Rest'
  <2> DEFINE k == runner[r].key
  <2>1. k \in Keys /\ runner[r].pc = "run"
    BY <1>10, <1>R DEF Rest, stopForRateLimit, OnKeys
  <2>2. UNCHANGED <<wip, completions, tick, requests, replays, grants, accepted>>
    BY <1>10 DEF stopForRateLimit
  <2>3. stops' \in 0..MaxStops
    BY <1>10, <1>R DEF Rest, stopForRateLimit
  <2>4. CASE HasState(k, Active)
    <3>1. /\ exec' = [exec EXCEPT ![k] = [exec[k] EXCEPT !.state = Waiting, !.retry = TRUE]]
          /\ runner' = [runner EXCEPT ![r].pc = "wait"]
      BY <1>10, <2>4 DEF stopForRateLimit, RunnerTo
    <3>2. exec' \in [Keys -> {None} \cup Records]
      BY <2>1, <2>4, <3>1, <1>R, <1>E, RecordChanges DEF Rest, HasState
    <3> QED
      BY <2>1, <2>2, <2>3, <3>1, <3>2, <1>S, <1>R DEF Rest, OnKeys
  <2>5. CASE ~HasState(k, Active)
    <3>1. RunnerEnds(r) /\ UNCHANGED exec
      BY <1>10, <2>5 DEF stopForRateLimit
    <3> QED
      BY <2>2, <2>3, <3>1, <1>S, <1>R DEF Rest, RunnerEnds, Free, OnKeys
  <2> QED
    BY <2>4, <2>5
<1>11. ASSUME NEW r \in Runners, recordProviderCapacityWait(r) PROVE Slots' /\ Rest'
  BY <1>11, <1>S, <1>R DEF Rest, recordProviderCapacityWait, RunnerEnds, Free, history, OnKeys
<1>12. ASSUME NEW r \in Runners, release(r) PROVE Slots' /\ Rest'
  <2>1. runner[r].key \in Keys
    BY <1>12, <1>R DEF Rest, release, OnKeys
  <2>2. exec' \in [Keys -> {None} \cup Records]
    BY <1>12, <2>1, <1>R, <1>E, RecordChanges DEF Rest, release, HasState
  <2> QED
    BY <1>12, <2>2, <1>S, <1>R DEF Rest, release, RunnerEnds, Free, history, OnKeys
<1>13. ASSUME NEW r \in Runners, RunnerDies(r) PROVE Slots' /\ Rest'
  BY <1>13, <1>S, <1>R DEF Rest, RunnerDies, RunnerEnds, Free, storage, history, OnKeys
<1>14. ASSUME NEW r \in Runners, NEW k \in Keys, Serve(r, k) PROVE Slots' /\ Rest'
  <2>1. UNCHANGED <<wip, completions, tick, stops, grants, accepted>>
    BY <1>14 DEF Serve
  <2>2. requests' \subseteq Keys /\ replays' \in 0..MaxReplays
    BY <1>14, <1>R DEF Rest, Serve
  <2>3. CASE HandoffRefused(k)
    <3>1. UNCHANGED <<exec, runner>>
      BY <1>14, <2>3 DEF Serve, handoffOrAcquire
    <3> QED
      BY <2>1, <2>2, <3>1, <1>S, <1>R DEF Rest, OnKeys
  <2>4. CASE ~HandoffRefused(k)
    <3>1. /\ exec' = [exec EXCEPT ![k] =
                        IF HasState(k, {"LEASED"}) /\ exec[k].live
                        THEN [exec[k] EXCEPT !.state = "HANDED_OFF"]
                        ELSE Taken(k)]
          /\ runner' = [runner EXCEPT ![r] = [pc |-> "run", key |-> k, leased |-> TRUE]]
      BY <1>14, <2>4 DEF Serve, handoffOrAcquire
    <3>2. Taken(k) \in Records
      <4>1. exec[k] # None => exec[k].count \in 0..MaxAttempts
        BY <1>E DEF Records
      <4> QED
        BY <4>1, LeasedRecord DEF Taken
    <3>3. exec' \in [Keys -> {None} \cup Records]
      BY <3>1, <3>2, <1>R, <1>E, RecordChanges DEF Rest, HasState
    <3> QED
      BY <2>1, <2>2, <3>1, <3>3, <1>S, <1>R DEF Rest, OnKeys
  <2> QED
    BY <2>3, <2>4
<1>15. ASSUME NEW k \in Keys, LeaseExpires(k) PROVE Slots' /\ Rest'
  <2>1. exec' \in [Keys -> {None} \cup Records]
    BY <1>15, <1>R, <1>E, RecordChanges DEF Rest, LeaseExpires, HasState
  <2>2. \A r \in Runners : runner'[r].pc = runner[r].pc /\ runner'[r].key = runner[r].key
    BY <1>15, <1>R DEF Rest, LeaseExpires
  <2>3. runner' \in [Runners -> [pc : {"idle", "run", "complete", "wip", "wait"},
                                 key : {None} \cup Keys, leased : BOOLEAN]]
    <3> DEFINE RT == [pc : {"idle", "run", "complete", "wip", "wait"},
                      key : {None} \cup Keys, leased : BOOLEAN]
    <3>1. \A e \in RT : [e EXCEPT !.leased = FALSE] \in RT
      OBVIOUS
    <3>2. runner \in [Runners -> RT]
      BY <1>R DEF Rest
    <3> HIDE DEF RT
    <3>3. runner' \in [Runners -> RT]
      BY <1>15, <3>1, <3>2 DEF LeaseExpires
    <3> QED
      BY <3>3 DEF RT
  <2> QED
    BY <1>15, <2>1, <2>2, <2>3, <1>S, <1>R DEF Rest, LeaseExpires, history, OnKeys
<1>16. ASSUME NEW k \in Keys, RetryDue(k) PROVE Slots' /\ Rest'
  <2>1. exec' \in [Keys -> {None} \cup Records]
    BY <1>16, <1>R, <1>E, RecordChanges DEF Rest, RetryDue, HasState
  <2> QED
    BY <1>16, <2>1, <1>S, <1>R DEF Rest, RetryDue, history, OnKeys
<1>17. ASSUME NEW k \in Keys, ClaimAges(k) PROVE Slots' /\ Rest'
  <2>1. Claims' \in SUBSET Claims
    BY <1>17, <1>R DEF Rest, ClaimAges, Claims
  <2>2. Slots'
    BY <1>D, <2>1
  <2> QED
    BY <1>17, <2>2, <1>R DEF Rest, ClaimAges, history, OnKeys
<1>18. ASSUME NEW k \in Keys, releaseActiveWip(k) PROVE Slots' /\ Rest'
  <2>1. Claims' \in SUBSET Claims
    BY <1>18, <1>R DEF Rest, releaseActiveWip, Claims
  <2>2. Slots'
    BY <1>D, <2>1
  <2> QED
    BY <1>18, <2>2, <1>R DEF Rest, releaseActiveWip, history, OnKeys
<1>19. ASSUME WaitEnds PROVE Slots' /\ Rest'
  <2>1. UNCHANGED <<exec, wip, completions, tick, runner, requests, replays, stops, grants, accepted>>
    BY <1>19 DEF WaitEnds, history
  <2> QED
    BY <2>1, <1>S, <1>R DEF Rest, OnKeys
<1>20. ASSUME UNCHANGED vars PROVE Slots' /\ Rest'
  <2>1. UNCHANGED <<exec, wip, completions, tick, runner, requests, replays, stops, grants, accepted>>
    BY <1>20 DEF vars, storage, history
  <2> QED
    BY <2>1, <1>S, <1>R DEF Rest, OnKeys
<1>21. wait' \in BOOLEAN
  <2>1. wait' \in {wait, TRUE, FALSE}
    BY StepCases DEF Begin, Look, admitActiveWip, acquire, Send, TickDies, markDispatched, complete,
         completeActiveWip, stopForRateLimit, recordProviderCapacityWait, release, RunnerDies, Serve,
         LeaseExpires, RetryDue, ClaimAges, releaseActiveWip, WaitEnds, vars, storage
  <2> QED
    BY <2>1, <1>0
<1>22. Slots' /\ Rest'
  BY StepCases, <1>1, <1>2, <1>3, <1>4, <1>5, <1>6, <1>7, <1>8, <1>9, <1>10, <1>11, <1>12, <1>13, <1>14, <1>15, <1>16, <1>17, <1>18, <1>19, <1>20
<1> QED
  BY <1>21, <1>22 DEF Slots, Rest, TypeInv, TypeOK, Claims

\* Initially there is no claim and nobody works on a key.
LEMMA TypeInit == Init => TypeInv
<1> SUFFICES ASSUME Init PROVE TypeInv
  OBVIOUS
<1>1. Claims = {}
  BY DEF Init, Claims
<1>2. IsFiniteSet(Claims) /\ Cardinality(Claims) = 0
  BY <1>1, FS_EmptySet
<1>3. OnKeys
  BY DEF Init, OnKeys, Resting, Free
<1>4. wait \in BOOLEAN
  BY DEF Init
<1>5. Rest
  BY <1>3, DispatchAssumption DEF Init, Rest, Resting, Free
<1> QED
  BY <1>2, <1>3, <1>4, <1>5, DispatchAssumption DEF TypeInv, TypeOK, Rest, Claims

\* Type correctness of the coordinator and its callers.  Its conjunct on the
\* claims is the limit on concurrent work: admitActiveWip never fills more slots
\* than the policy has.
THEOREM TypeCorrect == Spec => []TypeOK
<1>1. TypeInv => TypeOK
  BY DEF TypeInv
<1> QED
  BY <1>1, TypeInit, TypeStep, PTL DEF Spec

-----------------------------------------------------------------------------
(* What a step may do to one key: every action is one of five changes of   *)
(* its record.  The safety properties are read off these.                  *)

\* nothing happens to the key
KeyKept(k) ==
    exec'[k] = exec[k] /\ grants'[k] = grants[k] /\ accepted'[k] = accepted[k]

\* a tick is granted the key, as a new attempt unless it resumes a stopped one
KeyGranted(k) ==
    /\ ~AcquireRefused(k)
    /\ exec'[k] # None /\ exec'[k].state = "LEASED"
    /\ exec'[k].count = IF exec[k] = None THEN 1
                        ELSE IF HasState(k, {Waiting}) THEN Count(k) ELSE Count(k) + 1
    /\ grants'[k] = IF HasState(k, {Waiting}) THEN grants[k] ELSE grants[k] + 1
    /\ accepted'[k] = accepted[k]

\* a consumer takes a key that no tick was granted
KeyTaken(k) ==
    /\ exec[k] = None
    /\ exec'[k] # None /\ exec'[k].count = 0
    /\ grants'[k] = grants[k] /\ accepted'[k] = accepted[k]

\* the record of the key moves on: not out of a settled state, and not out of a
\* stop before its retry time
KeyMoved(k) ==
    /\ exec[k] # None
    /\ exec'[k] # None /\ exec'[k].count = exec[k].count
    /\ HasState(k, Settled) => exec'[k].state \in Settled
    /\ HasState(k, {Waiting}) /\ exec[k].retry => exec'[k] = [exec[k] EXCEPT !.retry = FALSE]
    /\ grants'[k] = grants[k] /\ accepted'[k] = accepted[k]

\* a run of the key is recorded as dispatched
KeyDispatched(k) ==
    /\ HasState(k, Active)
    /\ exec'[k] # None /\ exec'[k].state = "DISPATCHED" /\ exec'[k].count = exec[k].count
    /\ grants'[k] = grants[k] /\ accepted'[k] = accepted[k] + 1

KeyStep(k) ==
    KeyKept(k) \/ KeyGranted(k) \/ KeyTaken(k) \/ KeyMoved(k) \/ KeyDispatched(k)

\* A change of the record alone, to another record of the same count, that
\* starts in a state it may start in, is such a move.
LEMMA MoveOf ==
    ASSUME TypeInv, NEW j \in Keys, NEW k \in Keys, NEW e \in Records,
           exec' = [exec EXCEPT ![j] = e],
           UNCHANGED <<grants, accepted>>,
           exec[j] # None, e.count = exec[j].count,
           HasState(j, Settled) => e.state \in Settled,
           HasState(j, {Waiting}) /\ exec[j].retry => e = [exec[j] EXCEPT !.retry = FALSE]
    PROVE  KeyStep(k)
<1>1. exec' [j] = e /\ e # None
  BY DispatchAssumption DEF TypeInv, TypeOK
<1>2. CASE k = j
  BY <1>1, <1>2 DEF KeyStep, KeyMoved
<1>3. CASE k # j
  BY <1>3 DEF KeyStep, KeyKept, TypeInv, TypeOK
<1> QED
  BY <1>2, <1>3

\* Every step of the system changes a key in one of the five ways.
LEMMA KeySteps ==
    ASSUME TypeInv, [Next]_vars, NEW k \in Keys
    PROVE  KeyStep(k)
<1> USE DispatchAssumption
<1>R. /\ exec \in [Keys -> {None} \cup Records]
      /\ grants \in [Keys -> Nat] /\ accepted \in [Keys -> Nat] /\ OnKeys
  BY DEF TypeInv, TypeOK
<1>E. \A j \in Keys : exec[j] # None => exec[j] \in Records
  BY <1>R
<1>K. ASSUME exec' = exec, UNCHANGED <<grants, accepted>> PROVE KeyStep(k)
  BY <1>K DEF KeyStep, KeyKept
<1>1. ASSUME NEW t \in Ticks, acquire(t) PROVE KeyStep(k)
  <2> DEFINE j == tick[t].key
             n == IF exec[j] = None THEN 1
                  ELSE IF HasState(j, {Waiting}) THEN Count(j) ELSE Count(j) + 1
             e == [state |-> "LEASED", live |-> TRUE, retry |-> FALSE, count |-> n]
  <2>1. j \in Keys /\ accepted' = accepted
    BY <1>1, <1>R DEF acquire, OnKeys
  <2>2. CASE AcquireRefused(j)
    BY <1>1, <1>K, <2>1, <2>2 DEF acquire
  <2>3. CASE ~AcquireRefused(j)
    <3>1. /\ exec' = [exec EXCEPT ![j] = e]
          /\ grants' = IF HasState(j, {Waiting}) THEN grants
                       ELSE [grants EXCEPT ![j] = grants[j] + 1]
      BY <1>1, <2>3 DEF acquire
    <3>2. n \in 0..MaxAttempts
      BY <2>1, <2>3, AcquiredCount DEF HasState
    <3>3. e \in Records /\ e.count = n /\ e.state = "LEASED"
      BY <3>2, LeasedRecord
    <3>4. CASE k = j
      <4>1. exec'[k] # None /\ exec'[k].state = "LEASED" /\ exec'[k].count = n
        BY <2>1, <3>1, <3>3, <3>4, <1>R
      <4>2. grants'[k] = IF HasState(k, {Waiting}) THEN grants[k] ELSE grants[k] + 1
        BY <2>1, <3>1, <3>4, <1>R
      <4> QED
        BY <2>1, <2>3, <3>4, <4>1, <4>2 DEF KeyStep, KeyGranted
    <3>5. CASE k # j
      <4> HIDE DEF e
      <4> QED
        BY <2>1, <3>1, <3>5, <1>R DEF KeyStep, KeyKept
    <3> QED
      BY <3>4, <3>5
  <2> QED
    BY <2>2, <2>3
<1>2. ASSUME NEW r \in Runners, markDispatched(r) PROVE KeyStep(k)
  <2> DEFINE j == runner[r].key
  <2>1. j \in Keys /\ grants' = grants
    BY <1>2, <1>R DEF markDispatched, OnKeys
  <2>2. CASE HasState(j, Active)
    <3>1. /\ exec' = [exec EXCEPT ![j] = [exec[j] EXCEPT !.state = "DISPATCHED"]]
          /\ accepted' = [accepted EXCEPT ![j] = accepted[j] + 1]
      BY <1>2, <2>2 DEF markDispatched
    <3>2. /\ exec[j] \in Records
          /\ [exec[j] EXCEPT !.state = "DISPATCHED"] \in Records
      BY <2>1, <2>2, <1>E, RecordChanges DEF HasState
    <3>3. /\ [exec[j] EXCEPT !.state = "DISPATCHED"].state = "DISPATCHED"
          /\ [exec[j] EXCEPT !.state = "DISPATCHED"].count = exec[j].count
      BY <3>2 DEF Records
    <3>4. CASE k = j
      BY <2>1, <2>2, <3>1, <3>2, <3>3, <3>4, <1>R DEF KeyStep, KeyDispatched
    <3>5. CASE k # j
      BY <2>1, <3>1, <3>5, <1>R DEF KeyStep, KeyKept
    <3> QED
      BY <3>4, <3>5
  <2>3. CASE ~HasState(j, Active)
    BY <1>2, <1>K, <2>1, <2>3 DEF markDispatched
  <2> QED
    BY <2>2, <2>3
<1>3. ASSUME NEW r \in Runners, complete(r) PROVE KeyStep(k)
  <2> DEFINE j == runner[r].key
             e == [exec[j] EXCEPT !.state = "COMPLETED", !.live = FALSE]
  <2>1. j \in Keys /\ UNCHANGED <<grants, accepted>>
    BY <1>3, <1>R DEF complete, OnKeys, history
  <2>2. CASE HasState(j, {"DISPATCHED"})
    <3>1. exec' = [exec EXCEPT ![j] = e] /\ exec[j] # None /\ exec[j] \in Records /\ e \in Records
      BY <1>3, <2>1, <2>2, <1>E, RecordChanges DEF complete, HasState
    <3>2. e.count = exec[j].count /\ e.state \in Settled
      BY <3>1 DEF Records, Settled
    <3>3. ~HasState(j, {Waiting})
      BY <2>2 DEF HasState, Waiting
    <3> QED
      BY <2>1, <3>1, <3>2, <3>3, MoveOf
  <2>3. CASE ~HasState(j, {"DISPATCHED"})
    BY <1>3, <1>K, <2>1, <2>3 DEF complete
  <2> QED
    BY <2>2, <2>3
<1>4. ASSUME NEW r \in Runners, stopForRateLimit(r) PROVE KeyStep(k)
  <2> DEFINE j == runner[r].key
             e == [exec[j] EXCEPT !.state = Waiting, !.retry = TRUE]
  <2>1. j \in Keys /\ UNCHANGED <<grants, accepted>>
    BY <1>4, <1>R DEF stopForRateLimit, OnKeys
  <2>2. CASE HasState(j, Active)
    <3>1. exec' = [exec EXCEPT ![j] = e] /\ exec[j] # None /\ exec[j] \in Records /\ e \in Records
      BY <1>4, <2>1, <2>2, <1>E, RecordChanges DEF stopForRateLimit, HasState
    <3>2. e.count = exec[j].count
      BY <3>1 DEF Records
    <3>3. ~HasState(j, {Waiting}) /\ ~HasState(j, Settled)
      BY <2>2 DEF HasState, Waiting, Active, Settled
    <3> QED
      BY <2>1, <3>1, <3>2, <3>3, MoveOf
  <2>3. CASE ~HasState(j, Active)
    BY <1>4, <1>K, <2>1, <2>3 DEF stopForRateLimit
  <2> QED
    BY <2>2, <2>3
<1>5. ASSUME NEW r \in Runners, release(r) PROVE KeyStep(k)
  <2> DEFINE j == runner[r].key
             e == [exec[j] EXCEPT !.state = "RELEASED", !.live = FALSE]
  <2>1. j \in Keys /\ UNCHANGED <<grants, accepted>>
    BY <1>5, <1>R DEF release, OnKeys, history
  <2>2. CASE HasState(j, Active)
    <3>1. exec' = [exec EXCEPT ![j] = e] /\ exec[j] # None /\ exec[j] \in Records /\ e \in Records
      BY <1>5, <2>1, <2>2, <1>E, RecordChanges DEF release, HasState
    <3>2. e.count = exec[j].count
      BY <3>1 DEF Records
    <3>3. ~HasState(j, {Waiting}) /\ ~HasState(j, Settled)
      BY <2>2 DEF HasState, Waiting, Active, Settled
    <3> QED
      BY <2>1, <3>1, <3>2, <3>3, MoveOf
  <2>3. CASE ~HasState(j, Active)
    BY <1>5, <1>K, <2>1, <2>3 DEF release
  <2> QED
    BY <2>2, <2>3
<1>6. ASSUME NEW r \in Runners, NEW j \in Keys, Serve(r, j) PROVE KeyStep(k)
  <2>1. UNCHANGED <<grants, accepted>>
    BY <1>6 DEF Serve
  <2>2. CASE HandoffRefused(j)
    BY <1>6, <1>K, <2>1, <2>2 DEF Serve, handoffOrAcquire
  <2>3. CASE ~HandoffRefused(j) /\ HasState(j, {"LEASED"}) /\ exec[j].live
    <3> DEFINE e == [exec[j] EXCEPT !.state = "HANDED_OFF"]
    <3>1. exec' = [exec EXCEPT ![j] = e] /\ exec[j] # None /\ exec[j] \in Records /\ e \in Records
      BY <1>6, <2>3, <1>E, RecordChanges DEF Serve, handoffOrAcquire, HasState
    <3>2. e.count = exec[j].count
      BY <3>1 DEF Records
    <3>3. ~HasState(j, {Waiting}) /\ ~HasState(j, Settled)
      BY <2>3 DEF HasState, Waiting, Settled
    <3> QED
      BY <2>1, <3>1, <3>2, <3>3, MoveOf
  <2>4. CASE ~HandoffRefused(j) /\ ~(HasState(j, {"LEASED"}) /\ exec[j].live)
    <3>1. exec' = [exec EXCEPT ![j] = Taken(j)]
      BY <1>6, <2>4 DEF Serve, handoffOrAcquire
    <3>2. /\ Taken(j) \in Records
          /\ Taken(j).count = IF exec[j] = None THEN 0 ELSE exec[j].count
      <4>1. exec[j] # None => exec[j].count \in 0..MaxAttempts
        BY <1>E DEF Records
      <4> QED
        BY <4>1, LeasedRecord DEF Taken
    <3>3. CASE exec[j] # None
      <4>1. ~HasState(j, Settled) /\ ~(HasState(j, {Waiting}) /\ exec[j].retry)
        BY <2>4, <3>3 DEF HandoffRefused, HasState
      <4> QED
        BY <2>1, <3>1, <3>2, <3>3, <4>1, MoveOf
    <3>4. CASE exec[j] = None /\ k = j
      BY <2>1, <3>1, <3>2, <3>4, <1>R DEF KeyStep, KeyTaken
    <3>5. CASE k # j
      BY <2>1, <3>1, <3>5, <1>R DEF KeyStep, KeyKept
    <3> QED
      BY <3>3, <3>4, <3>5
  <2> QED
    BY <2>2, <2>3, <2>4
<1>7. ASSUME NEW j \in Keys, LeaseExpires(j) PROVE KeyStep(k)
  <2> DEFINE e == [exec[j] EXCEPT !.live = FALSE]
  <2>1. UNCHANGED <<grants, accepted>> /\ HasState(j, Active)
    BY <1>7 DEF LeaseExpires, history
  <2>2. exec' = [exec EXCEPT ![j] = e] /\ exec[j] # None /\ exec[j] \in Records /\ e \in Records
    BY <1>7, <1>E, RecordChanges DEF LeaseExpires, HasState
  <2>3. e.count = exec[j].count
    BY <2>2 DEF Records
  <2>4. ~HasState(j, {Waiting}) /\ ~HasState(j, Settled)
    BY <2>1 DEF HasState, Waiting, Active, Settled
  <2> QED
    BY <2>1, <2>2, <2>3, <2>4, MoveOf
<1>8. ASSUME NEW j \in Keys, RetryDue(j) PROVE KeyStep(k)
  <2> DEFINE e == [exec[j] EXCEPT !.retry = FALSE]
  <2>1. UNCHANGED <<grants, accepted>> /\ HasState(j, {Waiting})
    BY <1>8 DEF RetryDue, history
  <2>2. exec' = [exec EXCEPT ![j] = e] /\ exec[j] # None /\ exec[j] \in Records /\ e \in Records
    BY <1>8, <1>E, RecordChanges DEF RetryDue, HasState
  <2>3. e.count = exec[j].count
    BY <2>2 DEF Records
  <2>4. ~HasState(j, Settled)
    BY <2>1 DEF HasState, Waiting, Settled
  <2> QED
    BY <2>1, <2>2, <2>3, <2>4, MoveOf
<1>9. ASSUME \/ \E t \in Ticks : \/ \E j \in Keys : Begin(t, j)
                                \/ Look(t) \/ admitActiveWip(t) \/ Send(t) \/ TickDies(t)
             \/ \E r \in Runners : completeActiveWip(r) \/ recordProviderCapacityWait(r) \/ RunnerDies(r)
             \/ \E j \in Keys : ClaimAges(j) \/ releaseActiveWip(j)
             \/ WaitEnds
             \/ UNCHANGED vars
      PROVE  KeyStep(k)
  <2>1. UNCHANGED <<exec, grants, accepted>>
    BY <1>9 DEF Begin, Look, admitActiveWip, Send, TickDies, completeActiveWip, recordProviderCapacityWait,
         RunnerDies, ClaimAges, releaseActiveWip, WaitEnds, vars, storage, history
  <2> QED
    BY <1>K, <2>1
<1> QED
  BY StepCases, <1>1, <1>2, <1>3, <1>4, <1>5, <1>6, <1>7, <1>8, <1>9

-----------------------------------------------------------------------------
(* Dispatched once, within the attempts                                    *)

\* A key with an accepted run is settled: no handler leaves a settled record.
AcceptedSettled ==
    \A k \in Keys : accepted[k] <= 1 /\ (accepted[k] # 0 => HasState(k, Settled))

\* The acquisition count covers the attempts that ticks were granted.
GrantsCounted ==
    \A k \in Keys : grants[k] <= IF exec[k] = None THEN 0 ELSE exec[k].count

\* Neither is undone by a step.
LEMMA SafetyStep ==
    TypeInv /\ AcceptedSettled /\ GrantsCounted /\ [Next]_vars => AcceptedSettled' /\ GrantsCounted'
<1> SUFFICES ASSUME TypeInv, AcceptedSettled, GrantsCounted, [Next]_vars, NEW k \in Keys
             PROVE  /\ accepted'[k] <= 1
                    /\ accepted'[k] # 0 => exec'[k] # None /\ exec'[k].state \in Settled
                    /\ grants'[k] <= IF exec'[k] = None THEN 0 ELSE exec'[k].count
  BY DEF AcceptedSettled, GrantsCounted, HasState
<1>1. KeyStep(k)
  BY KeySteps
<1>2. /\ accepted[k] \in Nat /\ accepted[k] <= 1 /\ (accepted[k] # 0 => HasState(k, Settled))
      /\ grants[k] \in Nat /\ grants[k] <= IF exec[k] = None THEN 0 ELSE exec[k].count
      /\ exec[k] # None => exec[k].count \in Nat
  BY DispatchAssumption DEF AcceptedSettled, GrantsCounted, TypeInv, TypeOK, Records
<1>3. CASE KeyKept(k)
  BY <1>2, <1>3 DEF KeyKept, HasState
<1>4. CASE KeyGranted(k)
  <2>1. ~HasState(k, Settled)
    BY <1>4 DEF KeyGranted, AcquireRefused, HasState
  <2>2. exec[k] # None => Count(k) \in Nat /\ Count(k) >= exec[k].count
    BY <1>2 DEF Count
  <2> QED
    BY <1>2, <1>4, <2>1, <2>2 DEF KeyGranted, HasState
<1>5. CASE KeyTaken(k)
  BY <1>2, <1>5 DEF KeyTaken, HasState
<1>6. CASE KeyMoved(k)
  BY <1>2, <1>6 DEF KeyMoved, HasState
<1>7. CASE KeyDispatched(k)
  <2>1. ~HasState(k, Settled)
    BY <1>7 DEF KeyDispatched, HasState, Active, Settled
  <2> QED
    BY <1>2, <1>7, <2>1 DEF KeyDispatched, HasState, Settled
<1> QED
  BY <1>1, <1>3, <1>4, <1>5, <1>6, <1>7 DEF KeyStep

\* Both hold at the start.
LEMMA SafetyInit == Init => AcceptedSettled /\ GrantsCounted
  BY DEF Init, AcceptedSettled, GrantsCounted

\* The invariant that carries both theorems.
LEMMA SafetyInv == Spec => [](TypeInv /\ AcceptedSettled /\ GrantsCounted)
  BY TypeInit, TypeStep, SafetyInit, SafetyStep, PTL DEF Spec

\* However many requests of one key run at the same time, at most one is recorded
\* as dispatched.
THEOREM DispatchedOnce == Spec => []AcceptedOnce
<1>1. AcceptedSettled => AcceptedOnce
  BY DEF AcceptedSettled, AcceptedOnce
<1> QED
  BY <1>1, SafetyInv, PTL

\* The ticks start at most MAX_SCHEDULED_CODING_ATTEMPTS attempts at a key.
THEOREM AttemptsLimited == Spec => []AttemptsBounded
<1>1. TypeInv /\ GrantsCounted => AttemptsBounded
  <2> SUFFICES ASSUME TypeInv, GrantsCounted, NEW k \in Keys PROVE grants[k] <= MaxAttempts
    BY DEF AttemptsBounded
  <2>1. /\ grants[k] \in Nat /\ grants[k] <= IF exec[k] = None THEN 0 ELSE exec[k].count
        /\ exec[k] # None => exec[k].count \in 0..MaxAttempts
    BY DEF GrantsCounted, TypeInv, TypeOK, Records
  <2> QED
    BY <2>1, DispatchAssumption
<1> QED
  BY <1>1, SafetyInv, PTL

\* A key that was stopped for its rate limit stays stopped until its retry time.
THEOREM StopIsKept == Spec => StopHolds
<1> DEFINE Held == \A k \in Keys : HasState(k, {Waiting}) /\ exec[k].retry =>
                      exec'[k] \in {exec[k], [exec[k] EXCEPT !.retry = FALSE]}
<1>1. TypeInv /\ [Next]_vars => [Held]_vars
  <2> SUFFICES ASSUME TypeInv, [Next]_vars, NEW k \in Keys, HasState(k, {Waiting}), exec[k].retry
               PROVE  exec'[k] \in {exec[k], [exec[k] EXCEPT !.retry = FALSE]}
    OBVIOUS
  <2>1. KeyStep(k)
    BY KeySteps
  <2>2. ~KeyGranted(k)
    BY DEF KeyGranted, AcquireRefused, HasState
  <2>3. ~KeyTaken(k) /\ ~KeyDispatched(k)
    BY DEF KeyTaken, KeyDispatched, HasState, Waiting, Active
  <2> QED
    BY <2>1, <2>2, <2>3 DEF KeyStep, KeyKept, KeyMoved
<1> QED
  BY <1>1, TypeInit, TypeStep, PTL DEF Spec, StopHolds
=============================================================================
