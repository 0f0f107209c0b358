--------------------------- MODULE CodingDispatch ---------------------------
(***************************************************************************)
(* The autopilot's coding dispatch: scheduled ticks that start work, the   *)
(* durable coordinator that must keep it from being started twice, and the *)
(* endpoint that does it.                                                  *)
(*                                                                         *)
(*   src/apps/autopilot/src/scheduledEvolutionCoding.ts  a tick            *)
(*   src/apps/autopilot/src/executionCoordinator.ts      the records       *)
(*   src/apps/autopilot/src/index.ts       handleCodingExecute, the runner *)
(*                                                                         *)
(* A handler of the coordinator is one step; what calls it may stop, or be *)
(* overtaken, between two calls.  Most handlers that write run in          *)
(* mutateExecutionAtomically: a storage.transaction, or a queue of calls   *)
(* where the storage has none.  markDispatched, release and the readers    *)
(* use neither.  The first two await a get and then a put, and are one     *)
(* step only because the coordinator is a Durable Object: its input gate   *)
(* delivers no other request while an operation of its storage is pending, *)
(* and they await nothing else between the two.  The execution             *)
(* id is a function of the dedupe key in this flow, so a key stands for    *)
(* both.  Clocks are abstracted to what the handlers compare: a lease, a   *)
(* retry time or a claim's age has passed or not, and may pass at any      *)
(* step.  A tick reads the clock once: where the clock would let it go on  *)
(* and its own reading does not, it ends, as a tick that is cut short.     *)
(***************************************************************************)
EXTENDS Integers, FiniteSets

CONSTANTS
    Keys,           \* dedupe keys: one issue of the backlog at one main
    Ticks,          \* scheduled ticks that may overlap
    Runners,        \* requests the coding endpoint may serve at a time
    None,           \* no record
    MaxAttempts,    \* MAX_SCHEDULED_CODING_ATTEMPTS
    MaxConcurrent,  \* schedulePolicy.maxConcurrent of the active-WIP slots
    MaxReplays,     \* bound on requests that are sent again
    MaxStops        \* bound on rate-limit stops

Active == {"LEASED", "HANDED_OFF"}
Settled == {"DISPATCHED", "COMPLETED"}
Waiting == "WAITING_RATE_LIMIT"

\* what "execution" records of a key
Records ==
    [state : Active \cup Settled \cup {Waiting, "RELEASED"},
     live : BOOLEAN,              \* leaseExpiresAt lies in the future
     retry : BOOLEAN,             \* stop.nextRetryAt lies in the future
     count : 0..MaxAttempts]      \* acquisitionCount, 0 if absent

ASSUME DispatchAssumption ==
    /\ None \notin Keys \cup Records
    /\ MaxAttempts \in Nat \ {0}
    /\ MaxConcurrent \in Nat \ {0}
    /\ MaxReplays \in Nat
    /\ MaxStops \in Nat

VARIABLES
    \* the coordinator's storage
    exec,           \* "execution" of each key, or None
    wip,            \* the claim of each key: none, young or old
    completions,    \* keys with completion evidence
    wait,           \* the provider-capacity-wait lies in the future
    \* its callers
    tick,           \* position of each tick
    runner,         \* position of each request in handleCodingExecute
    requests,       \* keys with a request under way to the endpoint
    \* bounds and history
    replays, stops,
    grants,         \* new attempts that ticks were granted, by key
    accepted        \* runs recorded as dispatched, by key

storage == <<exec, wip, completions, wait>>
history == <<replays, stops, grants, accepted>>
vars == <<storage, tick, runner, requests, history>>

\* a tick at rest, and a runner at rest
Resting == [pc |-> "idle", key |-> None]
Free == [pc |-> "idle", key |-> None, leased |-> FALSE]

TypeOK ==
    /\ exec \in [Keys -> {None} \cup Records]
    /\ wip \in [Keys -> {"none", "young", "old"}]
    /\ Cardinality({k \in Keys : wip[k] # "none"}) <= MaxConcurrent
    /\ completions \subseteq Keys
    /\ wait \in BOOLEAN
    /\ tick \in [Ticks -> [pc : {"idle", "look", "admit", "acquire", "send"},
                           key : {None} \cup Keys]]
    /\ runner \in [Runners -> [pc : {"idle", "run", "complete", "wip", "wait"},
                               key : {None} \cup Keys, leased : BOOLEAN]]
    /\ requests \subseteq Keys
    /\ replays \in 0..MaxReplays
    /\ stops \in 0..MaxStops
    /\ grants \in [Keys -> Nat]
    /\ accepted \in [Keys -> Nat]

Init ==
    /\ exec = [k \in Keys |-> None]
    /\ wip = [k \in Keys |-> "none"]
    /\ completions = {}
    /\ wait = FALSE
    /\ tick = [t \in Ticks |-> Resting]
    /\ runner = [r \in Runners |-> Free]
    /\ requests = {}
    /\ replays = 0 /\ stops = 0
    /\ grants = [k \in Keys |-> 0]
    /\ accepted = [k \in Keys |-> 0]

HasState(k, S) == exec[k] # None /\ exec[k].state \in S

-----------------------------------------------------------------------------
(* A tick: runScheduledEvolutionCoding.                                    *)

TickTo(t, pc) == tick' = [tick EXCEPT ![t].pc = pc]
TickEnds(t) == tick' = [tick EXCEPT ![t] = Resting]

\* the tick selects an issue and reads the provider's wait
Begin(t, k) ==
    /\ tick[t].pc = "idle"
    /\ ~wait
    /\ tick' = [tick EXCEPT ![t] = [pc |-> "look", key |-> k]]
    /\ UNCHANGED <<storage, runner, requests, history>>

\* it reads the record, and abstains while the key waits or is being worked on
Look(t) ==
    LET k == tick[t].key
        waiting == HasState(k, {Waiting}) /\ exec[k].retry
        working == HasState(k, Active) /\ exec[k].live
    IN
    /\ tick[t].pc = "look"
    /\ IF waiting \/ working THEN TickEnds(t) ELSE TickTo(t, "admit")
    /\ UNCHANGED <<storage, runner, requests, history>>

\* Mutant: claims do not age
MExpired == {}

\* claims older than ACTIVE_WIP_CLAIM_MAX_AGE_MS
Expired == {k \in Keys : wip[k] = "old"}

\* admitActiveWip: old claims go, whether the new one is admitted or not
admitActiveWip(t) ==
    LET k == tick[t].key
        claims == {c \in Keys : wip[c] # "none"} \ Expired
        admitted == k \notin claims /\ Cardinality(claims) < MaxConcurrent
    IN
    /\ tick[t].pc = "admit"
    /\ wip' = [c \in Keys |-> IF c = k /\ admitted THEN "young"
                              ELSE IF c \in claims THEN wip[c] ELSE "none"]
    /\ IF admitted THEN TickTo(t, "acquire") ELSE TickEnds(t)
    /\ UNCHANGED <<exec, completions, wait, runner, requests, history>>

\* acquisitionCount ?? 1
Count(k) == IF exec[k].count = 0 THEN 1 ELSE exec[k].count

\* the refusals of acquire.  A handed-off record is none of them.
AcquireRefused(k) ==
    /\ exec[k] # None
    /\ \/ exec[k].state \in Settled
       \/ exec[k].state = Waiting /\ exec[k].retry
       \/ exec[k].state = "LEASED" /\ exec[k].live
       \/ exec[k].state # Waiting /\ Count(k) >= MaxAttempts

\* acquire; a rate-limit resume is not a new attempt
acquire(t) ==
    LET k == tick[t].key
        resume == HasState(k, {Waiting})
    IN
    /\ tick[t].pc = "acquire"
    /\ IF AcquireRefused(k)
       THEN TickEnds(t) /\ UNCHANGED <<exec, grants>>
       ELSE /\ exec' = [exec EXCEPT ![k] =
                 [state |-> "LEASED", live |-> TRUE, retry |-> FALSE,
                  count |-> IF exec[k] = None THEN 1
                            ELSE IF resume THEN Count(k) ELSE Count(k) + 1]]
            /\ grants' = IF resume THEN grants ELSE [grants EXCEPT ![k] = @ + 1]
            /\ TickTo(t, "send")
    /\ UNCHANGED <<wip, completions, wait, runner, requests, replays, stops, accepted>>

\* executeGithubDispatch: the consumer hears of it, or does not
Send(t) ==
    /\ tick[t].pc = "send"
    /\ \/ requests' = requests \cup {tick[t].key}
       \/ UNCHANGED requests
    /\ TickEnds(t)
    /\ UNCHANGED <<storage, runner, history>>

\* a tick is cut short; before its claim, and in sending, that leaves no more trace
\* than a tick that abstains or a dispatch that is lost
TickDies(t) ==
    /\ tick[t].pc = "acquire"
    /\ TickEnds(t)
    /\ UNCHANGED <<storage, runner, requests, history>>

-----------------------------------------------------------------------------
(* A request: handleCodingExecute.                                         *)

RunnerTo(r, pc) == runner' = [runner EXCEPT ![r].pc = pc]
RunnerEnds(r) == runner' = [runner EXCEPT ![r] = Free]

HandoffRefused(k) ==
    /\ exec[k] # None
    /\ \/ exec[k].state \in Settled
       \/ exec[k].state = Waiting /\ exec[k].retry
       \/ exec[k].state = "HANDED_OFF" /\ exec[k].live

\* Mutant: a lease taken by the consumer starts a new count
MTaken(k) == [state |-> "LEASED", live |-> TRUE, retry |-> FALSE, count |-> 0]

\* the record of a consumer that finds no lease to take over
Taken(k) ==
    [state |-> "LEASED", live |-> TRUE, retry |-> FALSE,
     count |-> IF exec[k] = None THEN 0 ELSE exec[k].count]

\* handoffOrAcquire: a live lease of the tick is handed off, else one is taken
handoffOrAcquire(r, k) ==
    /\ runner[r].pc = "idle"
    /\ IF HandoffRefused(k)
       THEN UNCHANGED <<exec, runner>>
       ELSE /\ exec' = [exec EXCEPT ![k] =
                 IF HasState(k, {"LEASED"}) /\ exec[k].live
                 THEN [exec[k] EXCEPT !.state = "HANDED_OFF"]
                 ELSE Taken(k)]
            /\ runner' = [runner EXCEPT ![r] = [pc |-> "run", key |-> k, leased |-> TRUE]]

\* a request is served for the first time, or again because its answer was lost
Serve(r, k) ==
    /\ k \in requests
    /\ handoffOrAcquire(r, k)
    /\ \/ requests' = requests \ {k} /\ UNCHANGED replays
       \/ replays < MaxReplays /\ replays' = replays + 1 /\ UNCHANGED requests
    /\ UNCHANGED <<wip, completions, wait, tick, stops, grants, accepted>>

\* executeCodingRunner ends in one of three ways: a change is published and marked
\* (markDispatched), the provider is out of capacity (stopForRateLimit), or there
\* is nothing to show (release).

\* markDispatched, whose refusal ends the request in an error.  Its get and its put
\* are in no transaction and in no queue: one step by the input gate.
markDispatched(r) ==
    LET k == runner[r].key IN
    /\ runner[r].pc = "run"
    /\ IF HasState(k, Active)
       THEN /\ exec' = [exec EXCEPT ![k] = [@ EXCEPT !.state = "DISPATCHED"]]
            /\ accepted' = [accepted EXCEPT ![k] = @ + 1]
            /\ RunnerTo(r, "complete")
       ELSE RunnerEnds(r) /\ UNCHANGED <<exec, accepted>>
    /\ UNCHANGED <<wip, completions, wait, tick, requests, replays, stops, grants>>

\* complete, after the evidence of the run was recorded
complete(r) ==
    LET k == runner[r].key IN
    /\ runner[r].pc = "complete"
    /\ exec' = IF HasState(k, {"DISPATCHED"})
               THEN [exec EXCEPT ![k] = [@ EXCEPT !.state = "COMPLETED", !.live = FALSE]]
               ELSE exec
    /\ RunnerTo(r, "wip")
    /\ UNCHANGED <<wip, completions, wait, tick, requests, history>>

\* completeActiveWip.  Start times are not kept: a claim younger than the run,
\* which is left alone, is one of the refusals.
completeActiveWip(r) ==
    LET k == runner[r].key IN
    /\ runner[r].pc = "wip"
    /\ \/ /\ wip[k] # "none" /\ k \notin completions
          /\ wip' = [wip EXCEPT ![k] = "none"]
          /\ completions' = completions \cup {k}
       \/ UNCHANGED <<wip, completions>>
    /\ RunnerEnds(r)
    /\ UNCHANGED <<exec, wait, tick, requests, history>>

\* Mutant: a stop overrides whatever the record says
MStopForRateLimit(r) ==
    LET k == runner[r].key IN
    /\ runner[r].pc = "run"
    /\ stops < MaxStops
    /\ stops' = stops + 1
    /\ exec' = [exec EXCEPT ![k] = [@ EXCEPT !.state = Waiting, !.retry = TRUE]]
    /\ RunnerTo(r, "wait")
    /\ UNCHANGED <<wip, completions, wait, tick, requests, replays, grants, accepted>>

stopForRateLimit(r) ==
    LET k == runner[r].key IN
    /\ runner[r].pc = "run"
    /\ stops < MaxStops
    /\ stops' = stops + 1
    /\ IF HasState(k, Active)
       THEN /\ exec' = [exec EXCEPT ![k] = [@ EXCEPT !.state = Waiting, !.retry = TRUE]]
            /\ RunnerTo(r, "wait")
       ELSE RunnerEnds(r) /\ UNCHANGED exec
    /\ UNCHANGED <<wip, completions, wait, tick, requests, replays, grants, accepted>>

\* recordProviderCapacityWait
recordProviderCapacityWait(r) ==
    /\ runner[r].pc = "wait"
    /\ wait' = TRUE
    /\ RunnerEnds(r)
    /\ UNCHANGED <<exec, wip, completions, tick, requests, history>>

\* Mutant: the run that failed gives back the record, whoever it belongs to now
MRelease(r) ==
    /\ runner[r].pc = "run"
    /\ exec' = [exec EXCEPT ![runner[r].key] = [@ EXCEPT !.state = "RELEASED", !.live = FALSE]]
    /\ RunnerEnds(r)
    /\ UNCHANGED <<wip, completions, wait, tick, requests, history>>

\* releaseCodingExecutionLease, whose errors are only logged, and release: like
\* markDispatched, a plain get and put that the input gate makes one step
release(r) ==
    LET k == runner[r].key IN
    /\ runner[r].pc = "run"
    /\ exec' = IF HasState(k, Active)
               THEN [exec EXCEPT ![k] = [@ EXCEPT !.state = "RELEASED", !.live = FALSE]]
               ELSE exec
    /\ RunnerEnds(r)
    /\ UNCHANGED <<wip, completions, wait, tick, requests, history>>

\* the request is cut short, or a call to the coordinator throws
RunnerDies(r) ==
    /\ runner[r].pc # "idle"
    /\ RunnerEnds(r)
    /\ UNCHANGED <<storage, tick, requests, history>>

\* releaseActiveWip, called by the consumer's job at its end
releaseActiveWip(k) ==
    /\ wip[k] # "none"
    /\ HasState(k, Active \cup Settled \cup {Waiting, "RELEASED"})
    /\ wip' = [wip EXCEPT ![k] = "none"]
    /\ UNCHANGED <<exec, completions, wait, tick, runner, requests, history>>

-----------------------------------------------------------------------------
(* Time.                                                                   *)

LeaseExpires(k) ==
    /\ HasState(k, Active) /\ exec[k].live
    /\ exec' = [exec EXCEPT ![k] = [@ EXCEPT !.live = FALSE]]
    /\ runner' = [r \in Runners |-> IF runner[r].key = k
                                    THEN [runner[r] EXCEPT !.leased = FALSE] ELSE runner[r]]
    /\ UNCHANGED <<wip, completions, wait, tick, requests, history>>

RetryDue(k) ==
    /\ HasState(k, {Waiting}) /\ exec[k].retry
    /\ exec' = [exec EXCEPT ![k] = [@ EXCEPT !.retry = FALSE]]
    /\ UNCHANGED <<wip, completions, wait, tick, runner, requests, history>>

ClaimAges(k) ==
    /\ wip[k] = "young"
    /\ wip' = [wip EXCEPT ![k] = "old"]
    /\ UNCHANGED <<exec, completions, wait, tick, runner, requests, history>>

WaitEnds ==
    /\ wait
    /\ wait' = FALSE
    /\ UNCHANGED <<exec, wip, completions, tick, runner, requests, history>>

TickStep(t) ==
    (\E k \in Keys : Begin(t, k)) \/ Look(t) \/ admitActiveWip(t) \/ acquire(t) \/ Send(t)

RunnerStep(r) ==
    \/ markDispatched(r) \/ complete(r) \/ completeActiveWip(r)
    \/ stopForRateLimit(r) \/ recordProviderCapacityWait(r) \/ release(r) \/ RunnerDies(r)

Next ==
    \/ \E t \in Ticks : TickStep(t) \/ TickDies(t)
    \/ \E r \in Runners : RunnerStep(r) \/ (\E k \in Keys : Serve(r, k))
    \/ \E k \in Keys : LeaseExpires(k) \/ RetryDue(k) \/ ClaimAges(k) \/ releaseActiveWip(k)
    \/ WaitEnds

Spec == Init /\ [][Next]_vars

\* time passes, and ticks come again and again
FairSpec ==
    /\ Spec
    /\ WF_vars(WaitEnds)
    /\ \A k \in Keys : WF_vars(LeaseExpires(k)) /\ WF_vars(RetryDue(k))
    /\ \A t \in Ticks : WF_vars(TickStep(t))

-----------------------------------------------------------------------------
(* Properties.                                                             *)

\* However many requests of one key run at the same time, at most one is
\* recorded as dispatched: the loser's mark, release or stop never reopens a
\* key that was settled.
AcceptedOnce == \A k \in Keys : accepted[k] <= 1

\* The ticks start at most MAX_SCHEDULED_CODING_ATTEMPTS attempts at a key,
\* through handoffs, leases taken by consumers, releases and resumes.
AttemptsBounded == \A k \in Keys : grants[k] <= MaxAttempts

\* A key that was stopped for its rate limit stays stopped until its retry
\* time, whatever other requests for it are still running.
StopHolds ==
    [][\A k \in Keys : HasState(k, {Waiting}) /\ exec[k].retry =>
          exec'[k] \in {exec[k], [exec[k] EXCEPT !.retry = FALSE]}]_vars

\* A claim that outlived its work does not keep its slot: once it is old the
\* slot is free again.
OldClaimFreed == \A k \in Keys : wip[k] = "old" ~> wip[k] # "old"

\* "a replayed consumer cannot run the same coding request twice": no two
\* requests of one key run under its lease.
ReplaySuppressed ==
    \A r, q \in Runners :
        /\ runner[r].pc = "run" /\ runner[q].pc = "run"
        /\ runner[r].leased /\ runner[q].leased
        /\ runner[r].key = runner[q].key
        => r = q
=============================================================================
