---------------------------- MODULE OrderGateway ----------------------------
(***************************************************************************)
(* Order admission, submission and reconciliation of unknown submissions.  *)
(*                                                                         *)
(*   src/apps/execution/src/order-admission.ts       admitOrder            *)
(*   src/apps/execution/src/execution-gateway.ts     executeAdmittedOrder, *)
(*                                          reconcileUnknownSubmission     *)
(*   src/apps/execution/src/order-reconciliation.ts                        *)
(*                                          reconcileUnknownSubmissions    *)
(*   src/apps/execution/src/order-restriction.ts     restriction, release  *)
(*   src/packages/storage/src/order-execution.ts, order-idempotency.ts     *)
(*                                                                         *)
(* Processes share one SQLite database (the idempotency records, the       *)
(* execution records, the operational restrictions) and one order          *)
(* provider.  Every database statement, every provider call and every      *)
(* crash is a step of its own.  A call that is refused, and a statement    *)
(* that throws, change nothing but the process's own position.             *)
(***************************************************************************)
EXTENDS Integers, Sequences, FiniteSets

CONSTANTS
    Processes,      \* processes that open the database and submit orders
    Reconcilers,    \* those that also run the reconciliation worker
    Intents,        \* intent ids (numbers: the order of ids breaks ties)
    Keys,           \* idempotency keys, sent to the provider as clientOrderId
    Requests,       \* the orders clients send: [intent, key]
    None,           \* no record
    CriticalAfter,  \* policy.criticalAfterMs
    PerRun,         \* policy.maximumRecordsPerRun
    MaxClock,       \* bound on the clock
    MaxCrashes      \* bound on the number of crashes

Terminal == {"ACCEPTED", "REJECTED"}
Statuses == {"SUBMITTING", "SUBMISSION_UNKNOWN"} \cup Terminal
Found == {"NOT_FOUND", "LOOKUP_FAILED"} \cup Terminal

\* a row of order_execution_records
Records ==
    [key : Keys, status : Statuses, created : 0..MaxClock, updated : 0..MaxClock]

ASSUME GatewayAssumption ==
    /\ Reconcilers \subseteq Processes
    /\ Intents \subseteq Nat
    /\ \A r \in Requests : r.intent \in Intents /\ r.key \in Keys
    /\ None \notin Keys /\ None \notin Intents /\ None \notin Requests
    /\ None \notin Records /\ None \notin Found
    /\ CriticalAfter \in Nat
    /\ PerRun \in Nat \ {0}
    /\ MaxClock \in Nat
    /\ MaxCrashes \in Nat

VARIABLES
    \* the database
    idem,           \* order_idempotency_records: the requests that got their key
    exec,           \* order_execution_records by intent, or None
    restriction,    \* source intents of the ACTIVE restriction, {} if none
    \* the provider
    provider,       \* what the provider decided, by client order id
    \* the processes and their surroundings
    proc,           \* position and local variables of each process
    clock,
    crashes,
    \* history
    sent            \* how often each request was handed to the provider

db == <<idem, exec, restriction>>
vars == <<idem, exec, restriction, provider, proc, clock, crashes, sent>>

Phases == {"idle", "reserve", "record", "submit", "wait", "lookup", "apply", "finish", "down"}

Idle(cursor) ==
    [pc |-> "idle", req |-> None, at |-> 0, todo |-> <<>>, critical |-> {},
     found |-> None, cursor |-> cursor]

Locals ==
    [pc : Phases, req : {None} \cup Requests, at : 0..MaxClock,
     todo : Seq(Intents), critical : SUBSET Intents,
     found : {None} \cup Found, cursor : {None} \cup Intents]

TypeOK ==
    /\ idem \subseteq Requests
    /\ exec \in [Intents -> {None} \cup Records]
    /\ restriction \in SUBSET Intents
    /\ provider \in [Keys -> {None} \cup Terminal]
    /\ proc \in [Processes -> Locals]
    /\ clock \in 0..MaxClock
    /\ crashes \in 0..MaxCrashes
    /\ sent \in [Requests -> Nat]

Init ==
    /\ idem = {}
    /\ exec = [i \in Intents |-> None]
    /\ restriction = {}
    /\ provider = [k \in Keys |-> None]
    /\ proc = [p \in Processes |-> Idle(None)]
    /\ clock = 0
    /\ crashes = 0
    /\ sent = [r \in Requests |-> 0]

At(p, phase) == proc[p].pc = phase
Goto(p, phase) == proc' = [proc EXCEPT ![p].pc = phase]
Leave(p, cursor) == proc' = [proc EXCEPT ![p] = Idle(cursor)]

-----------------------------------------------------------------------------
(* The execution repository.                                               *)

HasStatus(i, S) == exec[i] # None /\ exec[i].status \in S

\* Mutant: only the way back to SUBMITTING is refused
MisAllowedTransition(from, to) == from = to \/ to # "SUBMITTING"

\* isAllowedTransition
isAllowedTransition(from, to) ==
    \/ from = to
    \/ from = "SUBMITTING" /\ to \in Terminal \cup {"SUBMISSION_UNKNOWN"}
    \/ from = "SUBMISSION_UNKNOWN" /\ to \in Terminal

\* save of an existing record does not throw: the transition is allowed and the
\* update time does not regress
CanSave(i, status, at) ==
    /\ exec[i] # None
    /\ isAllowedTransition(exec[i].status, status)
    /\ at >= exec[i].updated

Saved(i, status, at) == [exec EXCEPT ![i].status = status, ![i].updated = at]

\* the INSERT of a new record meets no UNIQUE intent_id or idempotency_key
CanInsert(r) ==
    /\ exec[r.intent] = None
    /\ \A i \in Intents : exec[i] # None => exec[i].key # r.key

-----------------------------------------------------------------------------
(* executeAdmittedOrder.                                                   *)

\* admitOrder up to the idempotency save: no record of the intent or the key
\* (with one, the answer is DUPLICATE or BLOCK, as the payload hash agrees or
\* not), and no active restriction.  Authorization scope and pre-trade risk are inputs
\* of the call: they may refuse any order, which changes nothing.
Admits(r) ==
    /\ exec[r.intent] = None
    /\ \A rec \in idem : rec.key # r.key /\ rec.intent # r.intent
    /\ restriction = {}

Admit(p, r) ==
    /\ At(p, "idle")
    /\ Admits(r)
    /\ proc' = [proc EXCEPT ![p].pc = "reserve", ![p].req = r, ![p].at = clock]
    /\ UNCHANGED <<db, provider, clock, crashes, sent>>

\* the INSERT of an idempotency record meets no PRIMARY KEY or UNIQUE intent
CanReserve(r) == \A rec \in idem : rec.key # r.key /\ rec.intent # r.intent

\* idempotencyStore.save: another process may have been first, then it throws
Reserve(p) ==
    LET r == proc[p].req IN
    /\ At(p, "reserve")
    /\ IF CanReserve(r)
       THEN /\ idem' = idem \cup {r}
            /\ Goto(p, "record")
       ELSE /\ Leave(p, proc[p].cursor)
            /\ UNCHANGED idem
    /\ UNCHANGED <<exec, restriction, provider, clock, crashes, sent>>

\* Mutant: the order goes out before anything is written
MRecord(p) ==
    /\ At(p, "record")
    /\ Goto(p, "submit")
    /\ UNCHANGED <<db, provider, clock, crashes, sent>>

\* the SUBMITTING record is written before the provider hears of the order
Record(p) ==
    LET r == proc[p].req
        t == proc[p].at
    IN
    /\ At(p, "record")
    /\ IF CanInsert(r)
       THEN /\ exec' = [exec EXCEPT ![r.intent] =
                 [key |-> r.key, status |-> "SUBMITTING", created |-> t, updated |-> t]]
            /\ Goto(p, "submit")
       ELSE /\ Leave(p, proc[p].cursor)
            /\ UNCHANGED exec
    /\ UNCHANGED <<idem, restriction, provider, clock, crashes, sent>>

\* provider.submit leaves the process
Submit(p) ==
    LET r == proc[p].req IN
    /\ At(p, "submit")
    /\ sent' = [sent EXCEPT ![r] = @ + 1]
    /\ Goto(p, "wait")
    /\ UNCHANGED <<db, provider, clock, crashes>>

\* External: the provider decides an order at any time after it was sent, or
\* never (the request was lost), and at most once per client order id
ProviderDecides(k) ==
    /\ \E r \in Requests : r.key = k /\ sent[r] > 0
    /\ provider[k] = None
    /\ \E outcome \in Terminal : provider' = [provider EXCEPT ![k] = outcome]
    /\ UNCHANGED <<db, proc, clock, crashes, sent>>

\* The outcome of the submission is saved: the provider's answer, or
\* SUBMISSION_UNKNOWN when submit throws.  When the save itself throws (another
\* process moved the record on), the catch block's save of SUBMISSION_UNKNOWN
\* throws for the same reason and the call ends in an exception.
SaveOutcome(p, status) ==
    LET r == proc[p].req
        t == proc[p].at
    IN
    /\ At(p, "wait")
    /\ exec' = IF CanSave(r.intent, status, t) THEN Saved(r.intent, status, t)
               ELSE IF CanSave(r.intent, "SUBMISSION_UNKNOWN", t)
                    THEN Saved(r.intent, "SUBMISSION_UNKNOWN", t)
                    ELSE exec
    /\ Leave(p, proc[p].cursor)
    /\ UNCHANGED <<idem, restriction, provider, clock, crashes, sent>>

Answered(p) ==
    /\ At(p, "wait")
    /\ provider[proc[p].req.key] # None
    /\ SaveOutcome(p, provider[proc[p].req.key])

\* Mutant: an exception of the provider is retried at once
MRetrySubmit(p) ==
    /\ At(p, "wait")
    /\ Goto(p, "submit")
    /\ UNCHANGED <<db, provider, clock, crashes, sent>>

SubmitThrows(p) == SaveOutcome(p, "SUBMISSION_UNKNOWN")

-----------------------------------------------------------------------------
(* reconcileUnknownSubmissions.                                            *)

Unknown == {i \in Intents : HasStatus(i, {"SUBMISSION_UNKNOWN"})}

\* ORDER BY created_at_ms ASC, execution_id ASC
Older(a, b) ==
    \/ exec[a].created < exec[b].created
    \/ exec[a].created = exec[b].created /\ a < b

\* listByStatus: each record in the place that the older ones leave it
Unknowns ==
    [n \in 1..Cardinality(Unknown) |->
        CHOOSE i \in Unknown : Cardinality({j \in Unknown : Older(j, i)}) = n - 1]

\* Mutant: every run starts from the oldest record
MRotated(cursor) == Unknowns

\* the scan starts behind the last record of the previous run, if that is still
\* unknown, and wraps around
Rotated(cursor) ==
    LET all == Unknowns
        at == {n \in DOMAIN all : all[n] = cursor}
        n == IF at = {} THEN 0 ELSE CHOOSE m \in at : TRUE
    IN SubSeq(all, n + 1, Len(all)) \o SubSeq(all, 1, n)

Selected(cursor) ==
    LET all == Rotated(cursor)
    IN SubSeq(all, 1, IF Len(all) < PerRun THEN Len(all) ELSE PerRun)

\* a run over nothing changes nothing
StartRun(p) ==
    /\ p \in Reconcilers
    /\ At(p, "idle")
    /\ Unknown # {}
    /\ proc' = [proc EXCEPT ![p].pc = "lookup", ![p].at = clock,
                            ![p].todo = Selected(proc[p].cursor)]
    /\ UNCHANGED <<db, provider, clock, crashes, sent>>

\* reconcileUnknownSubmission reads the record again, and throws out of the
\* whole run when it is no longer unknown; then it asks the provider
Lookup(p) ==
    LET i == Head(proc[p].todo) IN
    /\ At(p, "lookup")
    /\ IF HasStatus(i, {"SUBMISSION_UNKNOWN"})
       THEN \E answer \in {"LOOKUP_FAILED",
                           IF provider[exec[i].key] = None THEN "NOT_FOUND"
                                                           ELSE provider[exec[i].key]} :
              proc' = [proc EXCEPT ![p].pc = "apply", ![p].found = answer]
       ELSE Leave(p, proc[p].cursor)
    /\ UNCHANGED <<db, provider, clock, crashes, sent>>

\* ageMs >= criticalAfterMs, on the run's own clock reading
IsCritical(i, at) == at - exec[i].created >= CriticalAfter

\* what a lookup makes of an unknown record
StatusFor(found) == IF found \in Terminal THEN found ELSE "SUBMISSION_UNKNOWN"

\* the save after the lookup: FOUND settles the record, anything else only
\* refreshes it.  A save that throws ends the run without a restriction.
Apply(p) ==
    LET me == proc[p]
        i == Head(me.todo)
        resolved == me.found \in Terminal
        status == StatusFor(me.found)
    IN
    /\ At(p, "apply")
    /\ IF CanSave(i, status, me.at)
       THEN /\ exec' = Saved(i, status, me.at)
            /\ proc' = [proc EXCEPT ![p] =
                 [me EXCEPT !.found = None,
                            !.pc = IF Len(me.todo) = 1 THEN "finish" ELSE "lookup",
                            !.todo = IF Len(me.todo) = 1 THEN me.todo ELSE Tail(me.todo),
                            !.critical = IF ~resolved /\ IsCritical(i, me.at)
                                         THEN me.critical \cup {i} ELSE me.critical]]
       ELSE /\ Leave(p, me.cursor)
            /\ UNCHANGED exec
    /\ UNCHANGED <<idem, restriction, provider, clock, crashes, sent>>

\* the end of the run: the first critical run puts the account under a
\* restriction (unique ACTIVE restriction per account), and nextCursor is the
\* last record scanned
FinishRun(p) ==
    LET me == proc[p] IN
    /\ At(p, "finish")
    /\ restriction' = IF restriction = {} THEN me.critical ELSE restriction
    /\ Leave(p, Head(me.todo))
    /\ UNCHANGED <<idem, exec, provider, clock, crashes, sent>>

\* releaseOrderOperationalRestriction: two humans, and every source execution
\* resolved
Release ==
    /\ restriction # {}
    /\ \A i \in restriction : HasStatus(i, Terminal)
    /\ restriction' = {}
    /\ UNCHANGED <<idem, exec, provider, proc, clock, crashes, sent>>

-----------------------------------------------------------------------------
(* Crashes, restarts and time.                                             *)

Crash(p) ==
    /\ ~ At(p, "down")
    /\ crashes < MaxCrashes
    /\ crashes' = crashes + 1
    /\ proc' = [proc EXCEPT ![p] = [Idle(None) EXCEPT !.pc = "down"]]
    /\ UNCHANGED <<db, provider, clock, sent>>

\* a restart runs recoverUncertainSubmissions: every SUBMITTING record becomes
\* SUBMISSION_UNKNOWN, those of a process still waiting for its answer too
Restart(p) ==
    /\ At(p, "down")
    /\ exec' = [i \in Intents |->
                  IF HasStatus(i, {"SUBMITTING"})
                  THEN [exec[i] EXCEPT !.status = "SUBMISSION_UNKNOWN", !.updated = clock]
                  ELSE exec[i]]
    /\ Leave(p, None)
    /\ UNCHANGED <<idem, restriction, provider, clock, crashes, sent>>

Tick ==
    /\ clock < MaxClock
    /\ clock' = clock + 1
    /\ UNCHANGED <<db, provider, proc, crashes, sent>>

\* what a running process does by itself
Progress(p) ==
    \/ Reserve(p)
    \/ Record(p)
    \/ Submit(p)
    \/ Answered(p)
    \/ SubmitThrows(p)
    \/ StartRun(p)
    \/ Lookup(p)
    \/ Apply(p)
    \/ FinishRun(p)
    \/ Restart(p)

Next ==
    \/ \E p \in Processes, r \in Requests : Admit(p, r)
    \/ \E p \in Processes : Progress(p) \/ Crash(p)
    \/ \E k \in Keys : ProviderDecides(k)
    \/ Release
    \/ Tick

Spec == Init /\ [][Next]_vars

\* a process that is up finishes its call, a reconciliation run is started again
\* and again, and a process that died is restarted
FairSpec == Spec /\ \A p \in Processes : WF_vars(Progress(p))

-----------------------------------------------------------------------------
(* Properties.                                                             *)

\* No intent and no idempotency key is handed to the provider twice, whatever
\* two processes, replays under another key and restarts after a crash do
\* ("no duplicate submission for the same idempotency key").
SubmittedOnce ==
    /\ \A r \in Requests : sent[r] <= 1
    /\ \A r, q \in Requests : r # q /\ (r.intent = q.intent \/ r.key = q.key) =>
          sent[r] = 0 \/ sent[q] = 0

\* What the provider holds is on record: an order it accepted or rejected has an
\* execution record that says the same or is still open (SUBMITTING or unknown),
\* even when the process died at any point around the submission.
ProviderOrdersOnRecord ==
    \A k \in Keys : provider[k] # None =>
        \E i \in Intents :
            /\ exec[i] # None
            /\ exec[i].key = k
            /\ exec[i].status \in {"SUBMITTING", "SUBMISSION_UNKNOWN", provider[k]}

\* A settled record never contradicts the provider, whichever of the submitting
\* process, a recovery and a reconciliation run settled it.
SettledAgrees ==
    \A i \in Intents : HasStatus(i, Terminal) => exec[i].status = provider[exec[i].key]

\* An order is sent once, decided once and settled once, as it was decided; what is
\* settled is never open again, whoever still holds an answer or a lookup of it.
Settled == [i \in Intents |-> IF HasStatus(i, Terminal) THEN exec[i].status ELSE None]

Life == INSTANCE OrderLife WITH
            decided <- provider, settled <- Settled, Decisions <- Terminal

ImplementsOrderLife == Life!Spec

\* Every unknown submission is looked up again or settled, although a run scans
\* at most PerRun records: the cursor keeps the oldest from starving the others.
UnknownIsScanned ==
    \A i \in Intents :
        HasStatus(i, {"SUBMISSION_UNKNOWN"}) ~>
            \/ ~ HasStatus(i, {"SUBMISSION_UNKNOWN"})
            \/ \E p \in Processes : At(p, "lookup") /\ Head(proc[p].todo) = i

\* A submission that a run found CRITICAL and left unknown: the run's save is what
\* moved the record's update time this far
KnownCritical(i) ==
    /\ HasStatus(i, {"SUBMISSION_UNKNOWN"})
    /\ exec[i].updated - exec[i].created >= CriticalAfter

\* No new execution starts while a submission that a run found critical is still
\* unknown ("new exposure is blocked while a critical unknown submission
\* requires manual review").
ExposureBlocked ==
    [][\A i \in Intents : exec[i] = None /\ exec'[i] # None =>
         ~ \E j \in Intents : KnownCritical(j)]_vars
=============================================================================
