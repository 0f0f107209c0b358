------------------------- MODULE OrderGatewayProofs -------------------------
(***************************************************************************)
(* Proofs about order admission, submission and reconciliation, for any    *)
(* number of processes, orders and crashes, and any clock.                 *)
(***************************************************************************)
EXTENDS OrderGateway, FiniteSetTheorems, TLAPS

\* Every step of the specification is one of these.
LEMMA StepCases ==
    ASSUME [Next]_vars
    PROVE  \/ \E p \in Processes : \E r \in Requests : Admit(p, r)
           \/ \E p \in Processes :
                \/ Reserve(p) \/ Record(p) \/ Submit(p) \/ Answered(p) \/ SubmitThrows(p)
                \/ StartRun(p) \/ Lookup(p) \/ Apply(p) \/ FinishRun(p) \/ Restart(p) \/ Crash(p)
           \/ \E k \in Keys : ProviderDecides(k)
           \/ Release \/ Tick \/ UNCHANGED vars
  BY DEF Next, Progress

-----------------------------------------------------------------------------
(* The inductive invariant.  Its types leave out a run's list of work and  *)
(* what is made of it: the safety theorems do without, WorkInv adds them.  *)

Submitting == {"reserve", "record", "submit", "wait"}
InFlight == {"record", "submit", "wait"}
Fields == {"pc", "req", "at", "todo", "critical", "found", "cursor"}

\* the execution record of a request is there
Recorded(r) == exec[r.intent] # None /\ exec[r.intent].key = r.key

DbTypes ==
    /\ idem \subseteq Requests
    /\ exec \in [Intents -> {None} \cup Records]
    /\ provider \in [Keys -> {None} \cup Terminal]
    /\ clock \in 0..MaxClock
    /\ sent \in [Requests -> Nat]

\* PRIMARY KEY and UNIQUE intent of the idempotency records
UniqueOrders == \A r, q \in idem : r.key = q.key \/ r.intent = q.intent => r = q

\* an execution record belongs to a request that got its idempotency record
Reserved ==
    \A i \in Intents : exec[i] # None => \E r \in idem : r.intent = i /\ r.key = exec[i].key

\* what was sent was sent once, and is on record
SentRecorded ==
    \A r \in Requests : sent[r] <= 1 /\ (sent[r] # 0 => r \in idem /\ Recorded(r))

\* the provider decided only what it was sent
ProviderHeard ==
    \A k \in Keys : provider[k] # None => \E r \in Requests : r.key = k /\ sent[r] # 0

DbInv == DbTypes /\ UniqueOrders /\ Reserved /\ SentRecorded /\ ProviderHeard /\ SettledAgrees

LocalTypes(p) ==
    /\ DOMAIN proc[p] = Fields
    /\ proc[p].pc \in Phases
    /\ proc[p].at \in 0..MaxClock
    /\ proc[p].pc \in Submitting => proc[p].req \in Requests

\* where the order a process is submitting stands
OrderInHand(p) ==
    /\ proc[p].pc \in InFlight => proc[p].req \in idem
    /\ proc[p].pc = "record" => sent[proc[p].req] = 0 /\ exec[proc[p].req.intent] = None
    /\ proc[p].pc = "submit" => sent[proc[p].req] = 0 /\ Recorded(proc[p].req)
    /\ proc[p].pc = "wait" => Recorded(proc[p].req)

\* what a lookup found is still what the provider says when it is saved
FoundAgrees(p) ==
    LET i == Head(proc[p].todo) IN
    proc[p].pc = "apply" /\ proc[p].found \in Terminal /\ i \in Intents =>
        exec[i] # None /\ proc[p].found = provider[exec[i].key]

ProcInv(p) == LocalTypes(p) /\ OrderInHand(p) /\ FoundAgrees(p)

\* no two processes are submitting one request
Exclusive ==
    \A p, q \in Processes :
        proc[p].pc \in InFlight /\ proc[q].pc \in InFlight /\ proc[p].req = proc[q].req => p = q

Inv ==
    /\ DbInv
    /\ DOMAIN proc = Processes
    /\ \A p \in Processes : ProcInv(p)
    /\ Exclusive

-----------------------------------------------------------------------------
(* What a step leaves as it was.                                           *)

\* nothing is deleted from the database, no record changes its key and the
\* provider does not change its mind
Grows ==
    /\ idem \subseteq idem'
    /\ \A i \in Intents : exec[i] # None => exec'[i] # None /\ exec'[i].key = exec[i].key
    /\ \A k \in Keys : provider[k] # None => provider'[k] = provider[k]

\* A process that does not move keeps its invariant, as long as nobody records
\* or sends the order it is about to.
LEMMA OtherProcess ==
    ASSUME Inv, Grows, NEW q \in Processes, proc'[q] = proc[q],
           proc[q].pc \in {"record", "submit"} => sent'[proc[q].req] = sent[proc[q].req],
           proc[q].pc = "record" => exec'[proc[q].req.intent] = None
    PROVE  ProcInv(q)'
<1>0. ProcInv(q) /\ exec \in [Intents -> {None} \cup Records] /\ provider \in [Keys -> {None} \cup Terminal]
  BY DEF Inv, DbInv, DbTypes
<1>1. LocalTypes(q)'
  BY <1>0 DEF ProcInv, LocalTypes
<1>2. proc[q].pc \in InFlight => proc[q].req.intent \in Intents
  BY <1>0, GatewayAssumption DEF ProcInv, LocalTypes, InFlight, Submitting
<1>3. OrderInHand(q)'
  BY <1>0, <1>2 DEF ProcInv, OrderInHand, Recorded, Grows, InFlight
<1>4. FoundAgrees(q)'
  <2> DEFINE i == Head(proc[q].todo)
  <2> SUFFICES ASSUME proc[q].pc = "apply", proc[q].found \in Terminal, i \in Intents
               PROVE  exec'[i] # None /\ proc[q].found = provider'[exec'[i].key]
    BY DEF FoundAgrees
  <2>1. exec[i] # None /\ proc[q].found = provider[exec[i].key]
    BY <1>0 DEF ProcInv, FoundAgrees
  <2>2. exec'[i] # None /\ exec'[i].key = exec[i].key
    BY <2>1 DEF Grows
  <2>3. exec[i].key \in Keys /\ provider[exec[i].key] # None
    BY <1>0, <2>1, GatewayAssumption DEF Records, Found
  <2> QED
    BY <2>1, <2>2, <2>3 DEF Grows
<1> QED
  BY <1>1, <1>3, <1>4 DEF ProcInv

\* A step of one process that neither enters a submission nor changes the
\* database keeps the invariant, if the process itself does.
LEMMA ProcessMoves ==
    ASSUME Inv, NEW p \in Processes,
           DOMAIN proc' = Processes, \A q \in Processes \ {p} : proc'[q] = proc[q],
           proc'[p].pc \notin InFlight,
           LocalTypes(p)', FoundAgrees(p)',
           DbInv', Grows, sent' = sent,
           \A i \in Intents : exec[i] = None => exec'[i] = None
    PROVE  Inv'
<1>1. ProcInv(p)'
  BY DEF ProcInv, OrderInHand, InFlight
<1>2. ASSUME NEW q \in Processes, q # p PROVE ProcInv(q)'
  <2>1. proc[q].pc = "record" => proc[q].req.intent \in Intents /\ exec[proc[q].req.intent] = None
    BY GatewayAssumption DEF Inv, ProcInv, LocalTypes, OrderInHand, Submitting
  <2>2. proc[q].pc = "record" => exec'[proc[q].req.intent] = None
    BY <2>1
  <2> QED
    BY <1>2, <2>2, OtherProcess
<1>3. Exclusive'
  BY DEF Inv, Exclusive
<1> QED
  BY <1>1, <1>2, <1>3 DEF Inv

\* The database, as it was, keeps its invariant.
LEMMA DbKept ==
    ASSUME Inv, UNCHANGED <<idem, exec, provider, sent>>, clock' \in 0..MaxClock
    PROVE  DbInv' /\ Grows
<1>1. DbInv'
  BY DEF Inv, DbInv, DbTypes, UniqueOrders, Reserved, SentRecorded, Recorded, ProviderHeard, SettledAgrees, HasStatus
<1>2. Grows
  BY DEF Grows
<1> QED
  BY <1>1, <1>2

\* A save of an existing record keeps the database's invariant, if what it
\* settles the record to is what the provider decided.
LEMMA DbSaved ==
    ASSUME Inv, UNCHANGED <<idem, provider, sent, clock>>,
           NEW i, NEW status \in Statuses, NEW at \in 0..MaxClock,
           CanSave(i, status, at), exec' = Saved(i, status, at),
           status \in Terminal /\ i \in Intents => status = provider[exec[i].key]
    PROVE  /\ DbInv' /\ Grows
           /\ \A j \in Intents : exec[j] = None => exec'[j] = None
<1>0. exec \in [Intents -> {None} \cup Records] /\ exec[i] # None
  BY DEF Inv, DbInv, DbTypes, CanSave
<1>1. CASE i \notin Intents
  <2>1. exec' = exec
    BY <1>0, <1>1 DEF Saved
  <2> QED
    BY <2>1, DbKept DEF Inv, DbInv, DbTypes
<1>2. CASE i \in Intents
  <2> DEFINE e == [exec[i] EXCEPT !.status = status, !.updated = at]
  <2>1. exec[i] \in Records
    BY <1>0, <1>2
  <2>2. e \in Records /\ e.key = exec[i].key /\ e.status = status
    BY <2>1 DEF Records
  <2>3. exec' = [exec EXCEPT ![i] = e]
    BY <1>0, <1>2, <2>1 DEF Saved, Records
  <2> HIDE DEF e
  <2>4. e # None
    BY <2>2, GatewayAssumption
  <2>5. exec' \in [Intents -> {None} \cup Records]
    BY <1>0, <1>2, <2>2, <2>3
  <2>6. \A j \in Intents : /\ (exec'[j] = None <=> exec[j] = None)
                           /\ exec[j] # None => exec'[j].key = exec[j].key
    BY <1>0, <1>2, <2>2, <2>3, <2>4
  <2>7. Grows
    BY <2>6 DEF Grows
  <2>8. SettledAgrees'
    <3> SUFFICES ASSUME NEW j \in Intents, exec'[j] # None, exec'[j].status \in Terminal
                 PROVE  exec'[j].status = provider[exec'[j].key]
      BY DEF SettledAgrees, HasStatus
    <3>1. CASE j = i
      BY <1>0, <1>2, <2>2, <2>3, <3>1
    <3>2. CASE j # i
      BY <1>0, <1>2, <2>3, <3>2 DEF Inv, DbInv, SettledAgrees, HasStatus
    <3> QED
      BY <3>1, <3>2
  <2>9. Reserved' /\ SentRecorded'
    <3>1. Reserved'
      BY <2>6 DEF Inv, DbInv, Reserved
    <3>2. \A r \in Requests : Recorded(r) => Recorded(r)'
      BY <2>6, GatewayAssumption DEF Recorded
    <3>3. SentRecorded'
      BY <3>2 DEF Inv, DbInv, SentRecorded
    <3> QED
      BY <3>1, <3>3
  <2>10. DbTypes' /\ UniqueOrders' /\ ProviderHeard'
    BY <2>5 DEF Inv, DbInv, DbTypes, UniqueOrders, ProviderHeard
  <2> QED
    BY <2>6, <2>7, <2>8, <2>9, <2>10 DEF DbInv
<1> QED
  BY <1>1, <1>2

\* A process that leaves its call or its run is at rest.
LEMMA Left ==
    ASSUME Inv, NEW p \in Processes, NEW c, Leave(p, c)
    PROVE  /\ DOMAIN proc' = Processes /\ \A q \in Processes \ {p} : proc'[q] = proc[q]
           /\ proc'[p].pc = "idle" /\ LocalTypes(p)' /\ FoundAgrees(p)'
<1>1. DOMAIN proc' = Processes /\ proc'[p] = Idle(c) /\ \A q \in Processes \ {p} : proc'[q] = proc[q]
  BY DEF Inv, Leave
<1> QED
  BY <1>1, GatewayAssumption DEF Idle, LocalTypes, FoundAgrees, Fields, Phases, Submitting

-----------------------------------------------------------------------------
(* The steps of a submission.                                              *)

\* An admitted order is held in memory only.
LEMMA AdmitStep ==
    ASSUME Inv, NEW p \in Processes, NEW r \in Requests, Admit(p, r) PROVE Inv'
<1>1. DbInv' /\ Grows /\ clock \in 0..MaxClock
  BY DbKept DEF Admit, db, Inv, DbInv, DbTypes
<1>2. DOMAIN proc' = Processes /\ \A q \in Processes \ {p} : proc'[q] = proc[q]
  BY DEF Admit, Inv
<1>3. LocalTypes(p) /\ proc'[p] = [proc[p] EXCEPT !.pc = "reserve", !.req = r, !.at = clock]
  BY DEF Admit, Inv, ProcInv
<1>4. LocalTypes(p)' /\ proc'[p].pc = "reserve"
  BY <1>1, <1>3 DEF LocalTypes, Fields, Phases
<1> QED
  BY <1>1, <1>2, <1>4, ProcessMoves DEF FoundAgrees, InFlight, Admit, db

\* The idempotency record makes the order this process's own: no record of its
\* key or intent was there, so it was never recorded or sent.
LEMMA ReserveStep ==
    ASSUME Inv, NEW p \in Processes, Reserve(p) PROVE Inv'
<1> DEFINE r == proc[p].req
<1>0. /\ r \in Requests /\ r.intent \in Intents /\ r.key \in Keys
      /\ UNCHANGED <<exec, provider, clock, sent>>
  BY GatewayAssumption DEF Reserve, At, Inv, ProcInv, LocalTypes, Submitting
<1>1. CASE CanReserve(r)
  <2>1. idem' = idem \cup {r} /\ proc' = [proc EXCEPT ![p].pc = "record"]
    BY <1>1 DEF Reserve, Goto
  <2>2. DOMAIN proc' = Processes /\ \A q \in Processes \ {p} : proc'[q] = proc[q]
    BY <2>1 DEF Inv
  <2>3. LocalTypes(p) /\ proc'[p] = [proc[p] EXCEPT !.pc = "record"]
    BY <2>1 DEF Inv, ProcInv
  <2>4. LocalTypes(p)' /\ proc'[p].pc = "record" /\ proc'[p].req = r
    BY <1>0, <2>3 DEF LocalTypes, Fields, Phases
  <2>5. r \notin idem /\ exec[r.intent] = None
    BY <1>0, <1>1 DEF CanReserve, Inv, DbInv, Reserved
  <2>6. sent[r] = 0
    BY <1>0, <2>5 DEF Inv, DbInv, SentRecorded
  <2>7. Grows
    BY <1>0, <2>1 DEF Grows
  <2>8. DbInv'
    <3>1. DbTypes'
      BY <1>0, <2>1 DEF Inv, DbInv, DbTypes
    <3>2. UniqueOrders'
      BY <1>1, <2>1 DEF CanReserve, Inv, DbInv, UniqueOrders
    <3>3. Reserved'
      BY <1>0, <2>1 DEF Inv, DbInv, Reserved
    <3>4. SentRecorded'
      BY <1>0, <2>1 DEF Inv, DbInv, SentRecorded, Recorded
    <3>5. ProviderHeard' /\ SettledAgrees'
      BY <1>0 DEF Inv, DbInv, ProviderHeard, SettledAgrees, HasStatus
    <3> QED
      BY <3>1, <3>2, <3>3, <3>4, <3>5 DEF DbInv
  <2>9. ProcInv(p)'
    BY <1>0, <2>1, <2>4, <2>5, <2>6 DEF ProcInv, OrderInHand, FoundAgrees, InFlight
  <2>10. ASSUME NEW q \in Processes, q # p PROVE ProcInv(q)'
    BY <1>0, <2>2, <2>7, <2>10, OtherProcess DEF Inv, ProcInv, OrderInHand
  <2>11. \A q \in Processes \ {p} : proc[q].pc \in InFlight => proc[q].req # r
    BY <2>5 DEF Inv, ProcInv, OrderInHand
  <2>12. Exclusive'
    BY <2>2, <2>4, <2>11 DEF Inv, Exclusive
  <2> QED
    BY <2>2, <2>8, <2>9, <2>10, <2>12 DEF Inv
<1>2. CASE ~CanReserve(r)
  <2>1. Leave(p, proc[p].cursor) /\ idem' = idem
    BY <1>2 DEF Reserve
  <2>2. DbInv' /\ Grows
    BY <1>0, <2>1, DbKept DEF Inv, DbInv, DbTypes
  <2> QED
    BY <1>0, <2>1, <2>2, Left, ProcessMoves DEF InFlight
<1> QED
  BY <1>1, <1>2

\* The execution record is the first of its intent, and carries the key.
LEMMA RecordStep ==
    ASSUME Inv, NEW p \in Processes, Record(p) PROVE Inv'
<1> DEFINE r == proc[p].req
           t == proc[p].at
           e == [key |-> r.key, status |-> "SUBMITTING", created |-> t, updated |-> t]
<1>0. /\ r \in Requests /\ r.intent \in Intents /\ r.key \in Keys /\ r \in idem /\ t \in 0..MaxClock
      /\ sent[r] = 0 /\ exec[r.intent] = None
      /\ UNCHANGED <<idem, provider, clock, sent>>
      /\ proc[p].pc = "record"
  BY GatewayAssumption DEF Record, At, Inv, ProcInv, LocalTypes, OrderInHand, Submitting, InFlight
<1>1. CASE CanInsert(r)
  <2>1. exec' = [exec EXCEPT ![r.intent] = e] /\ proc' = [proc EXCEPT ![p].pc = "submit"]
    BY <1>1 DEF Record, Goto
  <2>2. DOMAIN proc' = Processes /\ \A q \in Processes \ {p} : proc'[q] = proc[q]
    BY <2>1 DEF Inv
  <2>3. LocalTypes(p) /\ proc'[p] = [proc[p] EXCEPT !.pc = "submit"]
    BY <2>1 DEF Inv, ProcInv
  <2>4. LocalTypes(p)' /\ proc'[p].pc = "submit" /\ proc'[p].req = r
    BY <1>0, <2>3 DEF LocalTypes, Fields, Phases
  <2>5. e \in Records /\ e.key = r.key /\ e.status = "SUBMITTING" /\ exec \in [Intents -> {None} \cup Records]
    BY <1>0 DEF Records, Statuses, Inv, DbInv, DbTypes
  <2> HIDE DEF e
  <2>6. e # None
    BY <2>5, GatewayAssumption
  <2>7. exec'[r.intent] = e /\ \A i \in Intents : i # r.intent => exec'[i] = exec[i]
    BY <1>0, <2>1, <2>5
  <2>8. Grows
    BY <1>0, <2>7 DEF Grows
  <2>9. DbInv'
    <3>1. DbTypes'
      BY <1>0, <2>1, <2>5 DEF Inv, DbInv, DbTypes
    <3>2. UniqueOrders' /\ ProviderHeard'
      BY <1>0 DEF Inv, DbInv, UniqueOrders, ProviderHeard
    <3>3. Reserved'
      BY <1>0, <2>5, <2>7 DEF Inv, DbInv, Reserved
    <3>4. SentRecorded'
      <4>1. \A q \in Requests : Recorded(q) => Recorded(q)'
        BY <1>0, <2>7, GatewayAssumption DEF Recorded
      <4> QED
        BY <1>0, <4>1 DEF Inv, DbInv, SentRecorded
    <3>5. SettledAgrees'
      BY <1>0, <2>5, <2>7 DEF Inv, DbInv, SettledAgrees, HasStatus, Terminal
    <3> QED
      BY <3>1, <3>2, <3>3, <3>4, <3>5 DEF DbInv
  <2>10. ProcInv(p)'
    BY <1>0, <2>4, <2>5, <2>6, <2>7 DEF ProcInv, OrderInHand, FoundAgrees, Recorded
  <2>11. ASSUME NEW q \in Processes, q # p PROVE ProcInv(q)'
    <3>1. proc[q].pc = "record" => /\ proc[q].req \in idem /\ proc[q].req # r
                                   /\ proc[q].req.intent \in Intents /\ exec[proc[q].req.intent] = None
      BY <1>0, <2>11, GatewayAssumption DEF Inv, ProcInv, OrderInHand, LocalTypes, Exclusive, InFlight, Submitting
    <3>2. proc[q].pc = "record" => proc[q].req.intent # r.intent
      BY <1>0, <3>1 DEF Inv, DbInv, UniqueOrders
    <3>3. proc[q].pc = "record" => exec'[proc[q].req.intent] = None
      BY <2>7, <3>1, <3>2
    <3> QED
      BY <1>0, <2>2, <2>8, <2>11, <3>3, OtherProcess
  <2>12. Exclusive'
    BY <1>0, <2>2, <2>4 DEF Inv, Exclusive, InFlight
  <2> QED
    BY <2>2, <2>9, <2>10, <2>11, <2>12 DEF Inv
<1>2. CASE ~CanInsert(r)
  <2>1. Leave(p, proc[p].cursor) /\ exec' = exec
    BY <1>2 DEF Record
  <2>2. DbInv' /\ Grows
    BY <1>0, <2>1, DbKept DEF Inv, DbInv, DbTypes
  <2> QED
    BY <1>0, <2>1, <2>2, Left, ProcessMoves DEF InFlight
<1> QED
  BY <1>1, <1>2

\* The order is sent for the first time, and is on record.
LEMMA SubmitStep ==
    ASSUME Inv, NEW p \in Processes, Submit(p) PROVE Inv'
<1> DEFINE r == proc[p].req
<1>0. /\ r \in Requests /\ r \in idem /\ sent[r] = 0 /\ Recorded(r)
      /\ UNCHANGED <<idem, exec, provider, clock>>
      /\ proc[p].pc = "submit"
  BY DEF Submit, At, db, Inv, ProcInv, LocalTypes, OrderInHand, Submitting, InFlight
<1>1. sent' = [sent EXCEPT ![r] = sent[r] + 1] /\ proc' = [proc EXCEPT ![p].pc = "wait"]
  BY DEF Submit, Goto
<1>2. DOMAIN proc' = Processes /\ \A q \in Processes \ {p} : proc'[q] = proc[q]
  BY <1>1 DEF Inv
<1>3. LocalTypes(p) /\ proc'[p] = [proc[p] EXCEPT !.pc = "wait"]
  BY <1>1 DEF Inv, ProcInv
<1>4. LocalTypes(p)' /\ proc'[p].pc = "wait" /\ proc'[p].req = r
  BY <1>0, <1>3 DEF LocalTypes, Fields, Phases
<1>5. sent' \in [Requests -> Nat] /\ sent'[r] = 1 /\ \A q \in Requests : q # r => sent'[q] = sent[q]
  BY <1>0, <1>1 DEF Inv, DbInv, DbTypes
<1>6. Grows
  BY <1>0 DEF Grows
<1>7. DbInv'
  <2>1. DbTypes' /\ UniqueOrders' /\ Reserved' /\ SettledAgrees'
    BY <1>0, <1>5 DEF Inv, DbInv, DbTypes, UniqueOrders, Reserved, SettledAgrees, HasStatus
  <2>2. SentRecorded'
    BY <1>0, <1>5 DEF Inv, DbInv, SentRecorded, Recorded
  <2>3. ProviderHeard'
    BY <1>0, <1>5 DEF Inv, DbInv, ProviderHeard
  <2> QED
    BY <2>1, <2>2, <2>3 DEF DbInv
<1>8. ProcInv(p)'
  BY <1>0, <1>4 DEF ProcInv, OrderInHand, FoundAgrees, Recorded
<1>9. ASSUME NEW q \in Processes, q # p PROVE ProcInv(q)'
  <2>1. proc[q].pc \in InFlight => proc[q].req # r /\ proc[q].req \in Requests
    BY <1>0, <1>9 DEF Inv, ProcInv, LocalTypes, Exclusive, InFlight, Submitting
  <2>2. proc[q].pc = "record" => exec'[proc[q].req.intent] = None
    BY <1>0 DEF Inv, ProcInv, OrderInHand
  <2> QED
    BY <1>2, <1>5, <1>6, <1>9, <2>1, <2>2, OtherProcess DEF InFlight
<1>10. Exclusive'
  BY <1>0, <1>2, <1>4 DEF Inv, Exclusive, InFlight
<1> QED
  BY <1>2, <1>7, <1>8, <1>9, <1>10 DEF Inv

\* The outcome that is saved is the provider's answer, or that there is none.
LEMMA OutcomeStep ==
    ASSUME Inv, NEW p \in Processes, NEW status \in Statuses, SaveOutcome(p, status),
           status \in Terminal => status = provider[proc[p].req.key]
    PROVE  Inv'
<1> DEFINE r == proc[p].req
           t == proc[p].at
<1>0. /\ r \in Requests /\ r.intent \in Intents /\ Recorded(r) /\ t \in 0..MaxClock
      /\ UNCHANGED <<idem, provider, clock, sent>>
      /\ Leave(p, proc[p].cursor)
  BY GatewayAssumption DEF SaveOutcome, At, Inv, ProcInv, LocalTypes, OrderInHand, Submitting
<1>1. DbInv' /\ Grows /\ \A j \in Intents : exec[j] = None => exec'[j] = None
  <2>1. CASE CanSave(r.intent, status, t)
    <3>1. exec' = Saved(r.intent, status, t)
      BY <2>1 DEF SaveOutcome
    <3> QED
      BY <1>0, <2>1, <3>1, DbSaved DEF Recorded
  <2>2. CASE ~CanSave(r.intent, status, t) /\ CanSave(r.intent, "SUBMISSION_UNKNOWN", t)
    <3>1. exec' = Saved(r.intent, "SUBMISSION_UNKNOWN", t)
      BY <2>2 DEF SaveOutcome
    <3> QED
      BY <1>0, <2>2, <3>1, DbSaved DEF Statuses, Terminal
  <2>3. CASE ~CanSave(r.intent, status, t) /\ ~CanSave(r.intent, "SUBMISSION_UNKNOWN", t)
    <3>1. exec' = exec
      BY <2>3 DEF SaveOutcome
    <3> QED
      BY <1>0, <3>1, DbKept DEF Inv, DbInv, DbTypes
  <2> QED
    BY <2>1, <2>2, <2>3
<1> QED
  BY <1>0, <1>1, Left, ProcessMoves DEF InFlight

\* The provider's answer, and its exception.
LEMMA AnswerStep ==
    ASSUME Inv, NEW p \in Processes, Answered(p) \/ SubmitThrows(p) PROVE Inv'
<1>1. CASE Answered(p)
  <2>1. provider[proc[p].req.key] \in Statuses
    BY <1>1, GatewayAssumption
       DEF Answered, At, Inv, DbInv, DbTypes, ProcInv, LocalTypes, Submitting, Statuses
  <2> QED
    BY <1>1, <2>1, OutcomeStep DEF Answered
<1>2. CASE SubmitThrows(p)
  BY <1>2, OutcomeStep DEF SubmitThrows, Statuses, Terminal
<1> QED
  BY <1>1, <1>2

-----------------------------------------------------------------------------
(* The steps of a reconciliation run.                                      *)

\* A run and its end change nothing the invariant is about.
LEMMA RunEndsStep ==
    ASSUME Inv, NEW p \in Processes, StartRun(p) \/ FinishRun(p) PROVE Inv'
<1>0. UNCHANGED <<idem, exec, provider, clock, sent>>
  BY DEF StartRun, FinishRun, db
<1>1. DbInv' /\ Grows
  BY <1>0, DbKept DEF Inv, DbInv, DbTypes
<1>2. CASE StartRun(p)
  <2>1. DOMAIN proc' = Processes /\ \A q \in Processes \ {p} : proc'[q] = proc[q]
    BY <1>2 DEF StartRun, Inv
  <2>2. /\ LocalTypes(p) /\ clock \in 0..MaxClock
        /\ proc'[p] = [proc[p] EXCEPT !.pc = "lookup", !.at = clock, !.todo = Selected(proc[p].cursor)]
    BY <1>2 DEF StartRun, Inv, ProcInv, DbInv, DbTypes
  <2>3. LocalTypes(p)' /\ proc'[p].pc = "lookup"
    BY <2>2 DEF LocalTypes, Fields, Phases, Submitting
  <2> QED
    BY <1>0, <1>1, <2>1, <2>3, ProcessMoves DEF FoundAgrees, InFlight
<1>3. CASE FinishRun(p)
  BY <1>0, <1>1, <1>3, Left, ProcessMoves DEF FinishRun, InFlight
<1> QED
  BY <1>2, <1>3

\* A lookup finds what the provider says of the record's key.
LEMMA LookupStep ==
    ASSUME Inv, NEW p \in Processes, Lookup(p) PROVE Inv'
<1> DEFINE i == Head(proc[p].todo)
<1>0. UNCHANGED <<idem, exec, provider, clock, sent>>
  BY DEF Lookup, db
<1>1. DbInv' /\ Grows
  BY <1>0, DbKept DEF Inv, DbInv, DbTypes
<1>2. CASE HasStatus(i, {"SUBMISSION_UNKNOWN"})
  <2>1. PICK answer \in {"LOOKUP_FAILED", IF provider[exec[i].key] = None THEN "NOT_FOUND"
                                                                         ELSE provider[exec[i].key]} :
           proc' = [proc EXCEPT ![p].pc = "apply", ![p].found = answer]
    BY <1>2 DEF Lookup
  <2>2. DOMAIN proc' = Processes /\ \A q \in Processes \ {p} : proc'[q] = proc[q]
    BY <2>1 DEF Inv
  <2>3. LocalTypes(p) /\ proc'[p] = [proc[p] EXCEPT !.pc = "apply", !.found = answer]
    BY <2>1 DEF Inv, ProcInv
  <2>4. /\ LocalTypes(p)' /\ proc'[p].pc = "apply"
        /\ proc'[p].found = answer /\ proc'[p].todo = proc[p].todo
    BY <2>3 DEF LocalTypes, Fields, Phases, Submitting
  <2>5. FoundAgrees(p)'
    BY <1>0, <1>2, <2>1, <2>4 DEF FoundAgrees, HasStatus, Terminal
  <2> QED
    BY <1>0, <1>1, <2>2, <2>4, <2>5, ProcessMoves DEF InFlight
<1>3. CASE ~HasStatus(i, {"SUBMISSION_UNKNOWN"})
  BY <1>0, <1>1, <1>3, Left, ProcessMoves DEF Lookup, InFlight
<1> QED
  BY <1>2, <1>3

\* What the lookup found is saved, as late as that may be.
LEMMA ApplyStep ==
    ASSUME Inv, NEW p \in Processes, Apply(p) PROVE Inv'
<1> DEFINE me == proc[p]
           i == Head(me.todo)
           status == StatusFor(me.found)
<1>0. UNCHANGED <<idem, provider, clock, sent>> /\ LocalTypes(p) /\ FoundAgrees(p) /\ me.pc = "apply"
  BY DEF Apply, At, Inv, ProcInv
<1>1. CASE CanSave(i, status, me.at)
  <2>1. /\ exec' = Saved(i, status, me.at)
        /\ proc' = [proc EXCEPT ![p] =
             [me EXCEPT !.found = None,
                        !.pc = IF Len(me.todo) = 1 THEN "finish" ELSE "lookup",
                        !.todo = IF Len(me.todo) = 1 THEN me.todo ELSE Tail(me.todo),
                        !.critical = IF ~(me.found \in Terminal) /\ IsCritical(i, me.at)
                                     THEN me.critical \cup {i} ELSE me.critical]]
    BY <1>1 DEF Apply
  <2>2. status \in Statuses /\ (status \in Terminal /\ i \in Intents => status = provider[exec[i].key])
    BY <1>0 DEF StatusFor, Statuses, Terminal, FoundAgrees
  <2>3. DbInv' /\ Grows /\ \A j \in Intents : exec[j] = None => exec'[j] = None
    BY <1>0, <1>1, <2>1, <2>2, DbSaved DEF LocalTypes
  <2>4. DOMAIN proc' = Processes /\ \A q \in Processes \ {p} : proc'[q] = proc[q]
    BY <2>1 DEF Inv
  <2>5. /\ DOMAIN proc'[p] = Fields /\ proc'[p].at = me.at
        /\ proc'[p].pc \in {"finish", "lookup"}
    <3> DEFINE a == IF Len(me.todo) = 1 THEN "finish" ELSE "lookup"
               b == IF Len(me.todo) = 1 THEN me.todo ELSE Tail(me.todo)
               c == IF ~(me.found \in Terminal) /\ IsCritical(i, me.at)
                    THEN me.critical \cup {i} ELSE me.critical
    <3>1. proc'[p] = [me EXCEPT !.found = None, !.pc = a, !.todo = b, !.critical = c]
      BY <2>1 DEF Inv
    <3>2. a \in {"finish", "lookup"}
      OBVIOUS
    <3> HIDE DEF a, b, c
    <3> QED
      BY <1>0, <3>1, <3>2 DEF LocalTypes, Fields
  <2>6. LocalTypes(p)' /\ FoundAgrees(p)' /\ proc'[p].pc \notin InFlight
    BY <1>0, <2>5 DEF LocalTypes, FoundAgrees, Phases, Submitting, InFlight
  <2> QED
    BY <1>0, <2>3, <2>4, <2>6, ProcessMoves
<1>2. CASE ~CanSave(i, status, me.at)
  <2>1. Leave(p, me.cursor) /\ exec' = exec
    BY <1>2 DEF Apply
  <2>2. DbInv' /\ Grows
    BY <1>0, <2>1, DbKept DEF Inv, DbInv, DbTypes
  <2> QED
    BY <1>0, <2>1, <2>2, Left, ProcessMoves DEF InFlight
<1> QED
  BY <1>1, <1>2

-----------------------------------------------------------------------------
(* Crashes, restarts, the provider and time.                               *)

\* A process dies wherever it is.
LEMMA CrashStep ==
    ASSUME Inv, NEW p \in Processes, Crash(p) PROVE Inv'
<1>0. UNCHANGED <<idem, exec, provider, clock, sent>>
  BY DEF Crash, db
<1>1. DbInv' /\ Grows
  BY <1>0, DbKept DEF Inv, DbInv, DbTypes
<1>2. /\ DOMAIN proc' = Processes /\ \A q \in Processes \ {p} : proc'[q] = proc[q]
      /\ proc'[p] = [Idle(None) EXCEPT !.pc = "down"]
  BY DEF Crash, Inv
<1>3. LocalTypes(p)' /\ FoundAgrees(p)' /\ proc'[p].pc = "down"
  BY <1>2, GatewayAssumption DEF Idle, LocalTypes, FoundAgrees, Fields, Phases, Submitting
<1> QED
  BY <1>0, <1>1, <1>2, <1>3, ProcessMoves DEF InFlight

\* A restart makes SUBMITTING records unknown, and touches no others.
LEMMA RestartStep ==
    ASSUME Inv, NEW p \in Processes, Restart(p) PROVE Inv'
<1>0. /\ UNCHANGED <<idem, provider, clock, sent>> /\ Leave(p, None)
      /\ clock \in 0..MaxClock /\ exec \in [Intents -> {None} \cup Records]
  BY DEF Restart, Inv, DbInv, DbTypes
<1>1. ASSUME NEW i \in Intents
      PROVE  \/ exec'[i] = exec[i]
             \/ /\ exec[i] # None /\ exec'[i] \in Records
                /\ exec'[i].key = exec[i].key /\ exec'[i].status = "SUBMISSION_UNKNOWN"
  <2>1. CASE HasStatus(i, {"SUBMITTING"})
    <3>1. exec[i] \in Records /\ exec[i] # None
      BY <1>0, <2>1 DEF HasStatus
    <3>2. exec'[i] = [exec[i] EXCEPT !.status = "SUBMISSION_UNKNOWN", !.updated = clock]
      BY <2>1 DEF Restart
    <3> QED
      BY <1>0, <3>1, <3>2 DEF Records, Statuses
  <2>2. CASE ~HasStatus(i, {"SUBMITTING"})
    BY <2>2 DEF Restart
  <2> QED
    BY <2>1, <2>2
<1>2. \A i \in Intents : /\ (exec'[i] = None <=> exec[i] = None)
                         /\ exec[i] # None => exec'[i].key = exec[i].key
  BY <1>1, GatewayAssumption
<1>3. exec' \in [Intents -> {None} \cup Records]
  <2>1. exec' = [i \in Intents |-> exec'[i]]
    BY DEF Restart
  <2>2. \A i \in Intents : exec'[i] \in {None} \cup Records
    BY <1>0, <1>1
  <2> QED
    BY <2>1, <2>2
<1>4. Grows
  BY <1>0, <1>2 DEF Grows
<1>5. DbInv'
  <2>1. DbTypes' /\ UniqueOrders' /\ ProviderHeard'
    BY <1>0, <1>3 DEF Inv, DbInv, DbTypes, UniqueOrders, ProviderHeard
  <2>2. Reserved'
    BY <1>0, <1>2 DEF Inv, DbInv, Reserved
  <2>3. SentRecorded'
    <3>1. \A r \in Requests : Recorded(r) => Recorded(r)'
      BY <1>2, GatewayAssumption DEF Recorded
    <3> QED
      BY <1>0, <3>1 DEF Inv, DbInv, SentRecorded
  <2>4. SettledAgrees'
    BY <1>0, <1>1 DEF Inv, DbInv, SettledAgrees, HasStatus, Terminal
  <2> QED
    BY <2>1, <2>2, <2>3, <2>4 DEF DbInv
<1> QED
  BY <1>0, <1>2, <1>4, <1>5, Left, ProcessMoves DEF InFlight

\* The provider decides what it was sent, once.
LEMMA ProviderStep ==
    ASSUME Inv, NEW k \in Keys, ProviderDecides(k) PROVE Inv'
<1>0. UNCHANGED <<idem, exec, proc, clock, sent>> /\ provider[k] = None
  BY DEF ProviderDecides, db
<1>1. PICK outcome \in Terminal : provider' = [provider EXCEPT ![k] = outcome]
  BY DEF ProviderDecides
<1>2. provider' \in [Keys -> {None} \cup Terminal] /\ \A j \in Keys : j # k => provider'[j] = provider[j]
  BY <1>1 DEF Inv, DbInv, DbTypes
<1>3. Grows
  BY <1>0, <1>2 DEF Grows
<1>4. DbInv'
  <2>1. DbTypes' /\ UniqueOrders' /\ Reserved' /\ SentRecorded'
    BY <1>0, <1>2 DEF Inv, DbInv, DbTypes, UniqueOrders, Reserved, SentRecorded, Recorded
  <2>2. ProviderHeard'
    <3>1. \E r \in Requests : r.key = k /\ sent[r] # 0
      BY DEF ProviderDecides, Inv, DbInv, DbTypes
    <3> QED
      BY <1>0, <1>2, <3>1 DEF Inv, DbInv, ProviderHeard
  <2>3. SettledAgrees'
    <3> SUFFICES ASSUME NEW i \in Intents, HasStatus(i, Terminal)
                 PROVE  exec[i].status = provider'[exec[i].key]
      BY <1>0 DEF SettledAgrees, HasStatus
    <3>1. exec[i].status \in Terminal /\ exec[i].status = provider[exec[i].key] /\ exec[i].key \in Keys
      BY DEF HasStatus, Inv, DbInv, DbTypes, SettledAgrees, Records
    <3>2. exec[i].key # k
      BY <1>0, <3>1, GatewayAssumption DEF Found
    <3> QED
      BY <1>2, <3>1, <3>2
  <2> QED
    BY <2>1, <2>2, <2>3 DEF DbInv
<1>5. ASSUME NEW q \in Processes PROVE ProcInv(q)'
  BY <1>0, <1>3, OtherProcess DEF Inv, ProcInv, OrderInHand
<1> QED
  BY <1>0, <1>4, <1>5 DEF Inv, Exclusive

\* Where no process moves and the database stays, the invariant stays.
LEMMA QuietStep ==
    ASSUME Inv, UNCHANGED <<idem, exec, provider, sent, proc>>, clock' \in 0..MaxClock PROVE Inv'
<1>1. DbInv' /\ Grows
  BY DbKept
<1>2. ASSUME NEW q \in Processes PROVE ProcInv(q)'
  BY <1>1, OtherProcess DEF Inv, ProcInv, OrderInHand
<1> QED
  BY <1>1, <1>2 DEF Inv, Exclusive

\* The invariant is inductive.
LEMMA InvStep == Inv /\ [Next]_vars => Inv'
<1> SUFFICES ASSUME Inv, [Next]_vars PROVE Inv'
  OBVIOUS
<1>0. clock \in 0..MaxClock /\ MaxClock \in Nat
  BY GatewayAssumption DEF Inv, DbInv, DbTypes
<1>1. CASE Release
  BY <1>0, <1>1, QuietStep DEF Release
<1>2. CASE Tick
  <2>1. clock' \in 0..MaxClock
    BY <1>0, <1>2 DEF Tick
  <2> QED
    BY <1>2, <2>1, QuietStep DEF Tick, db
<1>3. CASE UNCHANGED vars
  BY <1>0, <1>3, QuietStep DEF vars
<1> QED
  BY StepCases, <1>1, <1>2, <1>3, AdmitStep, ReserveStep, RecordStep, SubmitStep, AnswerStep, RunEndsStep,
     LookupStep, ApplyStep, CrashStep, RestartStep, ProviderStep

\* An empty database, idle processes and a provider that heard nothing.
LEMMA InvInit == Init => Inv
<1> SUFFICES ASSUME Init PROVE Inv
  OBVIOUS
<1>1. DbInv
  BY GatewayAssumption DEF Init, DbInv, DbTypes, UniqueOrders, Reserved, SentRecorded, Recorded, ProviderHeard,
     SettledAgrees, HasStatus
<1>2. DOMAIN proc = Processes /\ \A p \in Processes : proc[p] = Idle(None)
  BY DEF Init
<1>3. \A p \in Processes : ProcInv(p) /\ proc[p].pc = "idle"
  BY <1>2, GatewayAssumption
     DEF Idle, ProcInv, LocalTypes, OrderInHand, FoundAgrees, Fields, Phases, Submitting, InFlight
<1> QED
  BY <1>1, <1>2, <1>3 DEF Inv, Exclusive, InFlight

\* The invariant holds throughout.
LEMMA Invariance == Spec => []Inv
  BY InvInit, InvStep, PTL DEF Spec

-----------------------------------------------------------------------------
(* The list of work.  No sort is computed: a record's place is the number  *)
(* of older ones, and finitely many records with different places fill the *)
(* places from the first to the last.                                      *)

\* the records are finitely many: one for each step that inserted one
Finite == IsFiniteSet({i \in Intents : exec[i] # None})

\* the records a run looks at, each once, the older ones first
InOrder(s) ==
    /\ s \in [1..Cardinality(Unknown) -> Unknown]
    /\ \A i \in Unknown : \E n \in 1..Cardinality(Unknown) : s[n] = i
    /\ \A m, n \in 1..Cardinality(Unknown) : m < n => Older(s[m], s[n])

\* Of two unknown records one is older.
LEMMA OlderOrders ==
    ASSUME DbTypes
    PROVE  /\ \A i \in Unknown : ~ Older(i, i)
           /\ \A i, j \in Unknown : i # j => Older(i, j) \/ Older(j, i)
           /\ \A i, j, k \in Unknown : Older(i, j) /\ Older(j, k) => Older(i, k)
<1>1. \A i \in Unknown : i \in Nat /\ exec[i].created \in Nat
  <2> SUFFICES ASSUME NEW i \in Unknown PROVE i \in Nat /\ exec[i].created \in Nat
    OBVIOUS
  <2>1. i \in Intents /\ exec[i] \in Records
    BY DEF Unknown, HasStatus, DbTypes
  <2> QED
    BY <2>1, GatewayAssumption DEF Records
<1> QED
  BY <1>1 DEF Older

\* The unknown records are listed once each, the older ones first.
LEMMA UnknownsInOrder == ASSUME DbTypes, Finite PROVE InOrder(Unknowns)
<1> DEFINE U == Unknown
           N == Cardinality(U)
           before(i) == {j \in U : Older(j, i)}
           rank == [i \in U |-> Cardinality(before(i)) + 1]
<1>1. /\ \A i \in U : ~ Older(i, i)
      /\ \A i, j \in U : i # j => Older(i, j) \/ Older(j, i)
      /\ \A i, j, k \in U : Older(i, j) /\ Older(j, k) => Older(i, k)
  BY OlderOrders
<1>2. IsFiniteSet(U) /\ N \in Nat
  <2>1. U \in SUBSET {i \in Intents : exec[i] # None}
    BY DEF Unknown, HasStatus
  <2> QED
    BY <2>1, FS_Subset, FS_CardinalityType DEF Finite
<1>3. Unknowns = [n \in 1..N |-> CHOOSE i \in U : Cardinality(before(i)) = n - 1]
  BY DEF Unknowns
<1> HIDE DEF U
<1>4. ASSUME NEW i \in U
      PROVE  IsFiniteSet(before(i)) /\ Cardinality(before(i)) \in Nat /\ Cardinality(before(i)) < N
  <2>1. before(i) \in SUBSET U /\ i \notin before(i)
    BY <1>1
  <2> HIDE DEF before
  <2>2. IsFiniteSet(before(i)) /\ Cardinality(before(i)) <= N /\ Cardinality(before(i)) # N
    BY <1>2, <2>1, FS_Subset
  <2> QED
    BY <1>2, <2>2, FS_CardinalityType
<1>5. ASSUME NEW i \in U, NEW j \in U, Older(i, j) PROVE Cardinality(before(i)) < Cardinality(before(j))
  <2>1. before(i) \in SUBSET before(j) /\ i \in before(j) /\ i \notin before(i)
    BY <1>1, <1>5
  <2>2. IsFiniteSet(before(j)) /\ Cardinality(before(i)) \in Nat /\ Cardinality(before(j)) \in Nat
    BY <1>4
  <2> HIDE DEF before
  <2>3. Cardinality(before(i)) <= Cardinality(before(j)) /\ Cardinality(before(i)) # Cardinality(before(j))
    BY <2>1, <2>2, FS_Subset
  <2> QED
    BY <2>2, <2>3
<1>6. \A i \in U : rank[i] = Cardinality(before(i)) + 1
  OBVIOUS
<1> HIDE DEF before
<1>7. rank \in [U -> 1..N]
  BY <1>2, <1>4
<1> HIDE DEF rank, N
<1>8. \A i, j \in U : Older(i, j) => rank[i] < rank[j]
  BY <1>4, <1>5, <1>6
<1>9. \A i, j \in U : rank[i] = rank[j] => i = j
  BY <1>1, <1>7, <1>8
<1>10. \A n \in 1..N : \E i \in U : rank[i] = n
  <2>1. rank \in Injection(U, 1..N)
    BY <1>7, <1>9 DEF Injection, IsInjective
  <2>2. IsFiniteSet(1..N) /\ Cardinality(1..N) = N
    BY <1>2, FS_Interval
  <2>3. rank \in Surjection(U, 1..N)
    BY <2>1, <2>2, FS_Injection DEF N
  <2> QED
    BY <2>3 DEF Surjection
<1>11. ASSUME NEW n \in 1..N PROVE Unknowns[n] \in U /\ rank[Unknowns[n]] = n
  <2>1. Unknowns[n] = CHOOSE i \in U : Cardinality(before(i)) = n - 1
    BY <1>3
  <2>2. \E i \in U : Cardinality(before(i)) = n - 1
    <3>1. PICK i \in U : rank[i] = n
      BY <1>10
    <3>2. Cardinality(before(i)) \in Nat /\ Cardinality(before(i)) + 1 = n
      BY <1>4, <1>6, <3>1
    <3>3. Cardinality(before(i)) = n - 1
      BY <3>2
    <3> QED
      BY <3>3
  <2>3. Unknowns[n] \in U /\ Cardinality(before(Unknowns[n])) = n - 1
    BY <2>1, <2>2
  <2> QED
    BY <1>2, <1>6, <2>3
<1>12. Unknowns \in [1..N -> U]
  BY <1>3, <1>11
<1>13. ASSUME NEW i \in U PROVE \E n \in 1..N : Unknowns[n] = i
  <2>1. rank[i] \in 1..N
    BY <1>7
  <2> QED
    BY <1>9, <1>11, <2>1
<1>14. ASSUME NEW m \in 1..N, NEW n \in 1..N, m < n PROVE Older(Unknowns[m], Unknowns[n])
  <2>1. Unknowns[m] \in U /\ Unknowns[n] \in U /\ rank[Unknowns[m]] = m /\ rank[Unknowns[n]] = n
    BY <1>11
  <2>2. Unknowns[m] # Unknowns[n] /\ ~ (rank[Unknowns[n]] < rank[Unknowns[m]])
    BY <1>2, <1>14, <2>1
  <2> QED
    BY <1>1, <1>8, <2>1, <2>2
<1> QED
  BY <1>12, <1>13, <1>14 DEF InOrder, U, N

\* The scan behind a cursor takes every unknown record once, the cursor's last.
LEMMA RotatedWhole ==
    ASSUME DbTypes, Finite, NEW c
    PROVE  /\ Rotated(c) \in Seq(Unknown) /\ Len(Rotated(c)) = Cardinality(Unknown)
           /\ \A i \in Unknown : \E n \in 1..Len(Rotated(c)) : Rotated(c)[n] = i
           /\ c \in Unknown => Rotated(c)[Len(Rotated(c))] = c
<1> DEFINE U == Unknown
           N == Cardinality(U)
           all == Unknowns
           at == {n \in DOMAIN all : all[n] = c}
           k == IF at = {} THEN 0 ELSE CHOOSE m \in at : TRUE
           s == SubSeq(all, k + 1, N)
           t == SubSeq(all, 1, k)
<1>1. /\ all \in [1..N -> U]
      /\ \A i \in U : \E n \in 1..N : all[n] = i
  BY UnknownsInOrder DEF InOrder
<1>2. N \in Nat
  <2>1. U \in SUBSET {i \in Intents : exec[i] # None}
    BY DEF Unknown, HasStatus
  <2> QED
    BY <2>1, FS_Subset, FS_CardinalityType DEF Finite
<1> HIDE DEF U, N, all
<1>3. all \in Seq(U) /\ Len(all) = N /\ DOMAIN all = 1..N
  BY <1>1, <1>2
<1>4. k \in 0..N
  BY <1>2, <1>3
<1>5. Rotated(c) = s \o t
  BY <1>3 DEF Rotated, all
<1>k. c \in U => k # 0 /\ all[k] = c
  <2> SUFFICES ASSUME c \in U PROVE k # 0 /\ all[k] = c
    OBVIOUS
  <2>1. PICK n \in 1..N : all[n] = c
    BY <1>1
  <2>2. at # {}
    BY <1>3, <2>1
  <2>3. k \in at
    BY <2>2
  <2> QED
    BY <1>2, <1>3, <2>3
<1> HIDE DEF k
<1>6. /\ s \in Seq(U) /\ Len(s) = N - k
      /\ \A n \in 1..(N - k) : s[n] = all[n + k]
  BY <1>2, <1>3, <1>4
<1>7. /\ t \in Seq(U) /\ Len(t) = k
      /\ \A n \in 1..k : t[n] = all[n]
  BY <1>2, <1>3, <1>4
<1> HIDE DEF s, t
<1> DEFINE r == s \o t
<1>8. /\ r \in Seq(U) /\ Len(r) = N
      /\ \A n \in 1..(N - k) : r[n] = s[n]
      /\ \A n \in 1..k : r[n + (N - k)] = t[n]
  BY <1>2, <1>4, <1>6, <1>7
<1> HIDE DEF r
<1>9. ASSUME NEW i \in U PROVE \E n \in 1..N : r[n] = i
  <2>1. PICK m \in 1..N : all[m] = i
    BY <1>1
  <2>2. CASE m <= k
    <3>1. m \in 1..k /\ m + (N - k) \in 1..N
      BY <1>2, <1>4, <2>1, <2>2
    <3> QED
      BY <1>7, <1>8, <2>1, <3>1
  <2>3. CASE m > k
    <3>1. m - k \in 1..(N - k) /\ m - k \in 1..N /\ (m - k) + k = m
      BY <1>2, <1>4, <2>1, <2>3
    <3> QED
      BY <1>6, <1>8, <2>1, <3>1
  <2> QED
    BY <1>2, <1>4, <2>2, <2>3
<1>10. c \in U => r[N] = c
  <2> SUFFICES ASSUME c \in U PROVE r[N] = c
    OBVIOUS
  <2>1. k \in 1..k /\ k + (N - k) = N /\ all[k] = c
    BY <1>2, <1>4, <1>k
  <2> QED
    BY <1>7, <1>8, <2>1
<1> QED
  BY <1>5, <1>8, <1>9, <1>10 DEF r, U, N

\* A run that finds something has something to do.
LEMMA SelectedWork ==
    ASSUME DbTypes, Finite, NEW c, Unknown # {}
    PROVE  Selected(c) \in Seq(Intents) /\ Selected(c) # << >>
<1> DEFINE all == Rotated(c)
           m == IF Len(all) < PerRun THEN Len(all) ELSE PerRun
<1>1. all \in Seq(Unknown) /\ Unknown \subseteq Intents
  BY RotatedWhole DEF Unknown
<1>2. all \in Seq(Intents) /\ Len(all) \in Nat
  BY <1>1
<1>3. Len(all) # 0
  BY <1>2, RotatedWhole
<1>4. Selected(c) = SubSeq(all, 1, m)
  BY DEF Selected
<1> HIDE DEF all
<1>5. m \in 1..Len(all)
  BY <1>2, <1>3, GatewayAssumption
<1> HIDE DEF m
<1>6. SubSeq(all, 1, m) \in Seq(Intents) /\ Len(SubSeq(all, 1, m)) = m
  BY <1>2, <1>5
<1> QED
  BY <1>4, <1>5, <1>6

-----------------------------------------------------------------------------
(* The types of a run's list of work and of what is made of it.            *)

\* a process that scans has a record to scan
HasWork(l) == l.pc \in {"lookup", "apply", "finish"} => l.todo # << >>

WorkInv ==
    /\ Finite
    /\ restriction \in SUBSET Intents
    /\ crashes \in 0..MaxCrashes
    /\ proc \in [Processes -> Locals]
    /\ \A p \in Processes : HasWork(proc[p])

\* The records stay finitely many where none is inserted.
LEMMA FiniteKept ==
    ASSUME Finite, \A i \in Intents : exec[i] = None => exec'[i] = None
    PROVE  Finite'
<1>1. {i \in Intents : exec'[i] # None} \in SUBSET {i \in Intents : exec[i] # None}
  OBVIOUS
<1> QED
  BY <1>1, FS_Subset DEF Finite

\* A save of an existing record inserts none.
LEMMA SaveInserts ==
    ASSUME DbTypes, NEW i, NEW status, NEW at, CanSave(i, status, at)
    PROVE  \A j \in Intents : exec[j] = None => Saved(i, status, at)[j] = None
<1>1. exec \in [Intents -> {None} \cup Records] /\ exec[i] # None
  BY DEF DbTypes, CanSave
<1>2. ASSUME NEW j \in Intents, exec[j] = None PROVE Saved(i, status, at)[j] = None
  <2>1. j # i
    BY <1>1, <1>2
  <2> QED
    BY <1>1, <1>2, <2>1 DEF Saved
<1> QED
  BY <1>2

\* A step of one process to well-formed local variables.
LEMMA WorkMoves ==
    ASSUME WorkInv, NEW p \in Processes, NEW l \in Locals, HasWork(l), proc' = [proc EXCEPT ![p] = l],
           Finite', restriction' \in SUBSET Intents, crashes' \in 0..MaxCrashes
    PROVE  WorkInv'
<1>1. proc \in [Processes -> Locals] /\ \A q \in Processes : HasWork(proc[q])
  BY DEF WorkInv
<1>2. proc' \in [Processes -> Locals]
  BY <1>1
<1>3. \A q \in Processes : HasWork(proc'[q])
  BY <1>1
<1> QED
  BY <1>2, <1>3 DEF WorkInv

\* A process at rest.
LEMMA IdleLocals ==
    ASSUME NEW c \in {None} \cup Intents
    PROVE  Idle(c) \in Locals /\ HasWork(Idle(c)) /\ [Idle(c) EXCEPT !.pc = "down"] \in Locals
           /\ HasWork([Idle(c) EXCEPT !.pc = "down"])
<1> DEFINE e == << >>
<1>1. e \in Seq(Intents) /\ 0 \in 0..MaxClock /\ {} \in SUBSET Intents
  BY GatewayAssumption
<1>2. Idle(c) = [pc |-> "idle", req |-> None, at |-> 0, todo |-> e, critical |-> {}, found |-> None, cursor |-> c]
  BY DEF Idle
<1> HIDE DEF e
<1>3. Idle(c) \in Locals /\ Idle(c).pc = "idle"
  BY <1>1, <1>2 DEF Locals, Phases
<1>4. [Idle(c) EXCEPT !.pc = "down"] \in Locals /\ [Idle(c) EXCEPT !.pc = "down"].pc = "down"
  BY <1>3 DEF Locals, Phases
<1> QED
  BY <1>3, <1>4 DEF HasWork

\* What the premises of a step say of its process.
LEMMA MyLocals ==
    ASSUME Inv, WorkInv, NEW p \in Processes
    PROVE  /\ DbTypes /\ Finite /\ clock \in 0..MaxClock /\ restriction \in SUBSET Intents
           /\ crashes \in 0..MaxCrashes
           /\ proc[p] \in Locals /\ HasWork(proc[p]) /\ proc[p].cursor \in {None} \cup Intents
           /\ \A e : (\A i \in Intents : exec[i] = None => e[i] = None) /\ exec' = e => Finite'
<1>1. proc[p] \in Locals
  BY DEF WorkInv
<1>2. proc[p].cursor \in {None} \cup Intents
  BY <1>1 DEF Locals
<1> QED
  BY <1>1, <1>2, FiniteKept DEF Inv, DbInv, DbTypes, WorkInv

\* The steps of a submission.
LEMMA SubmissionWork ==
    ASSUME Inv, WorkInv, NEW p \in Processes,
           \/ \E r \in Requests : Admit(p, r)
           \/ Reserve(p) \/ Record(p) \/ Submit(p) \/ Answered(p) \/ SubmitThrows(p)
    PROVE  WorkInv'
<1> DEFINE me == proc[p]
<1>0. /\ DbTypes /\ Finite /\ clock \in 0..MaxClock /\ restriction \in SUBSET Intents
      /\ crashes \in 0..MaxCrashes
      /\ me \in Locals /\ HasWork(me) /\ me.cursor \in {None} \cup Intents
      /\ \A e : (\A i \in Intents : exec[i] = None => e[i] = None) /\ exec' = e => Finite'
  BY MyLocals
<1>1. restriction' = restriction /\ crashes' = crashes
  BY DEF Admit, Reserve, Record, Submit, Answered, SubmitThrows, SaveOutcome, db
<1>2. ASSUME NEW r \in Requests, Admit(p, r) PROVE WorkInv'
  <2> DEFINE l == [me EXCEPT !.pc = "reserve", !.req = r, !.at = clock]
  <2>1. l \in Locals /\ HasWork(l)
    BY <1>0 DEF Locals, Phases, HasWork
  <2>2. proc' = [proc EXCEPT ![p] = l] /\ Finite'
    BY <1>0, <1>2 DEF Admit, db
  <2> HIDE DEF l
  <2> QED
    BY <1>0, <1>1, <2>1, <2>2, WorkMoves
<1>3. ASSUME NEW phase \in {"record", "submit", "wait"}, Goto(p, phase), Finite' PROVE WorkInv'
  <2> DEFINE l == [me EXCEPT !.pc = phase]
  <2>1. l \in Locals /\ HasWork(l)
    BY <1>0 DEF Locals, Phases, HasWork
  <2>2. proc' = [proc EXCEPT ![p] = l]
    BY <1>3 DEF Goto
  <2> HIDE DEF l
  <2> QED
    BY <1>0, <1>1, <1>3, <2>1, <2>2, WorkMoves
<1>4. ASSUME Leave(p, me.cursor), Finite' PROVE WorkInv'
  BY <1>0, <1>1, <1>4, IdleLocals, WorkMoves DEF Leave
<1>5. CASE Reserve(p)
  <2>1. Finite'
    BY <1>0, <1>5 DEF Reserve
  <2> QED
    BY <1>3, <1>4, <1>5, <2>1 DEF Reserve
<1>6. CASE Record(p)
  <2>1. Finite'
    <3> DEFINE r == me.req
    <3>1. CASE exec' = exec
      BY <1>0, <3>1
    <3>2. ASSUME NEW e, exec' = [exec EXCEPT ![r.intent] = e] PROVE Finite'
      <4>1. {i \in Intents : exec'[i] # None} \in SUBSET ({i \in Intents : exec[i] # None} \cup {r.intent})
        BY <1>0, <3>2 DEF DbTypes
      <4>2. IsFiniteSet({i \in Intents : exec[i] # None} \cup {r.intent})
        BY <1>0, FS_AddElement DEF Finite
      <4> QED
        BY <4>1, <4>2, FS_Subset DEF Finite
    <3> QED
      BY <1>6, <3>1, <3>2 DEF Record
  <2> QED
    BY <1>3, <1>4, <1>6, <2>1 DEF Record
<1>7. CASE Submit(p)
  BY <1>0, <1>3, <1>7 DEF Submit, db
<1>8. ASSUME NEW status, SaveOutcome(p, status) PROVE WorkInv'
  <2>1. \A i \in Intents : exec[i] = None => exec'[i] = None
    BY <1>0, <1>8, SaveInserts DEF SaveOutcome
  <2>2. Finite'
    BY <1>0, <2>1
  <2> QED
    BY <1>4, <1>8, <2>2 DEF SaveOutcome
<1> QED
  BY <1>2, <1>5, <1>6, <1>7, <1>8 DEF Answered, SubmitThrows

\* The steps of a reconciliation run.
LEMMA RunWork ==
    ASSUME Inv, WorkInv, NEW p \in Processes,
           StartRun(p) \/ Lookup(p) \/ Apply(p) \/ FinishRun(p)
    PROVE  WorkInv'
<1> DEFINE me == proc[p]
           i == Head(me.todo)
<1>0. /\ DbTypes /\ Finite /\ clock \in 0..MaxClock /\ restriction \in SUBSET Intents
      /\ crashes \in 0..MaxCrashes
      /\ me \in Locals /\ HasWork(me) /\ me.cursor \in {None} \cup Intents
      /\ \A e : (\A j \in Intents : exec[j] = None => e[j] = None) /\ exec' = e => Finite'
  BY MyLocals
<1>1. crashes' = crashes
  BY DEF StartRun, Lookup, Apply, FinishRun
<1>2. me.pc \in {"lookup", "apply", "finish"} => i \in Intents
  BY <1>0 DEF HasWork, Locals
<1>3. ASSUME Leave(p, me.cursor), Finite', restriction' = restriction PROVE WorkInv'
  BY <1>0, <1>1, <1>3, IdleLocals, WorkMoves DEF Leave
<1>4. CASE StartRun(p)
  <2> DEFINE s == Selected(me.cursor)
             l == [me EXCEPT !.pc = "lookup", !.at = clock, !.todo = s]
  <2>1. s \in Seq(Intents) /\ s # << >>
    BY <1>0, <1>4, SelectedWork DEF StartRun
  <2>2. proc' = [proc EXCEPT ![p] = l] /\ Finite' /\ restriction' = restriction
    BY <1>0, <1>4 DEF StartRun, db
  <2> HIDE DEF s
  <2>3. l \in Locals /\ HasWork(l)
    BY <1>0, <2>1 DEF Locals, Phases, HasWork
  <2> HIDE DEF l
  <2> QED
    BY <1>0, <1>1, <2>2, <2>3, WorkMoves
<1>5. CASE Lookup(p)
  <2>1. Finite' /\ restriction' = restriction /\ me.pc = "lookup" /\ i \in Intents
    BY <1>0, <1>2, <1>5 DEF Lookup, At, db
  <2>2. CASE HasStatus(i, {"SUBMISSION_UNKNOWN"})
    <3> DEFINE said == IF provider[exec[i].key] = None THEN "NOT_FOUND" ELSE provider[exec[i].key]
    <3>1. PICK answer \in {"LOOKUP_FAILED", said} :
             proc' = [proc EXCEPT ![p].pc = "apply", ![p].found = answer]
      BY <1>5, <2>2 DEF Lookup
    <3>2. said \in Found
      <4>1. exec[i] \in Records /\ provider \in [Keys -> {None} \cup Terminal]
        BY <1>0, <2>1, <2>2 DEF HasStatus, DbTypes
      <4>2. provider[exec[i].key] \in {None} \cup Terminal
        BY <4>1 DEF Records
      <4> QED
        BY <4>2 DEF Found
    <3> HIDE DEF said
    <3> DEFINE l == [me EXCEPT !.pc = "apply", !.found = answer]
    <3>3. l \in Locals /\ HasWork(l)
      <4>1. answer \in Found
        BY <3>2 DEF Found
      <4> QED
        BY <1>0, <2>1, <4>1 DEF Locals, Phases, HasWork
    <3>4. proc' = [proc EXCEPT ![p] = l]
      BY <3>1
    <3> HIDE DEF l
    <3> QED
      BY <1>0, <1>1, <2>1, <3>3, <3>4, WorkMoves
  <2>3. CASE ~HasStatus(i, {"SUBMISSION_UNKNOWN"})
    BY <1>3, <1>5, <2>1, <2>3 DEF Lookup
  <2> QED
    BY <2>2, <2>3
<1>6. CASE Apply(p)
  <2>1. restriction' = restriction /\ me.pc = "apply" /\ i \in Intents /\ me.todo \in Seq(Intents) /\ me.todo # << >>
    BY <1>0, <1>2, <1>6 DEF Apply, At, HasWork, Locals
  <2>2. CASE CanSave(i, StatusFor(me.found), me.at)
    <3> DEFINE a == IF Len(me.todo) = 1 THEN "finish" ELSE "lookup"
               b == IF Len(me.todo) = 1 THEN me.todo ELSE Tail(me.todo)
               c == IF ~(me.found \in Terminal) /\ IsCritical(i, me.at) THEN me.critical \cup {i} ELSE me.critical
               l == [me EXCEPT !.found = None, !.pc = a, !.todo = b, !.critical = c]
    <3>1. exec' = Saved(i, StatusFor(me.found), me.at) /\ proc' = [proc EXCEPT ![p] = l]
      BY <1>6, <2>2 DEF Apply
    <3>2. Finite'
      BY <1>0, <2>2, <3>1, SaveInserts
    <3>3. a \in {"finish", "lookup"}
      OBVIOUS
    <3>4. b \in Seq(Intents) /\ b # << >>
      <4> DEFINE s == me.todo
      <4>1. s \in Seq(Intents) /\ Len(s) \in Nat /\ Len(s) # 0
        BY <2>1
      <4> HIDE DEF s
      <4>2. CASE Len(s) = 1
        BY <2>1, <4>2 DEF s
      <4>3. CASE Len(s) # 1
        <5>1. Tail(s) \in Seq(Intents) /\ Len(Tail(s)) = Len(s) - 1 /\ Len(Tail(s)) # 0
          BY <4>1, <4>3
        <5> DEFINE t == Tail(s)
                   e == << >>
        <5>2. Len(e) = 0
          OBVIOUS
        <5> HIDE DEF t, e
        <5>3. t # e
          BY <5>1, <5>2 DEF t
        <5> QED
          BY <4>3, <5>1, <5>3 DEF s, t, e
      <4> QED
        BY <4>2, <4>3
    <3>5. c \in SUBSET Intents
      BY <1>0, <2>1 DEF Locals
    <3> HIDE DEF a, b, c
    <3>6. l \in Locals /\ HasWork(l)
      BY <1>0, <3>3, <3>4, <3>5 DEF Locals, Phases, HasWork
    <3> HIDE DEF l
    <3> QED
      BY <1>0, <1>1, <2>1, <3>1, <3>2, <3>6, WorkMoves
  <2>3. CASE ~CanSave(i, StatusFor(me.found), me.at)
    <3>1. Leave(p, me.cursor) /\ exec' = exec
      BY <1>6, <2>3 DEF Apply
    <3> QED
      BY <1>0, <1>3, <2>1, <3>1
  <2> QED
    BY <2>2, <2>3
<1>7. CASE FinishRun(p)
  <2>1. Leave(p, i) /\ i \in Intents /\ Finite'
    BY <1>0, <1>2, <1>7 DEF FinishRun, At
  <2>2. restriction' \in SUBSET Intents
    BY <1>0, <1>7 DEF FinishRun, Locals
  <2> QED
    BY <1>0, <1>1, <2>1, <2>2, IdleLocals, WorkMoves DEF Leave
<1> QED
  BY <1>4, <1>5, <1>6, <1>7

\* Every step keeps the types.
LEMMA WorkStep == Inv /\ WorkInv /\ [Next]_vars => WorkInv'
<1> SUFFICES ASSUME Inv, WorkInv, [Next]_vars PROVE WorkInv'
  OBVIOUS
<1>0. MaxCrashes \in Nat
  BY GatewayAssumption
<1>1. ASSUME NEW p \in Processes, Crash(p) PROVE WorkInv'
  <2>1. Finite' /\ restriction' \in SUBSET Intents /\ crashes' \in 0..MaxCrashes
    BY <1>0, <1>1, MyLocals DEF Crash, db
  <2> QED
    BY <1>1, <2>1, IdleLocals, WorkMoves DEF Crash
<1>2. ASSUME NEW p \in Processes, Restart(p) PROVE WorkInv'
  <2>1. \A i \in Intents : exec[i] = None => exec'[i] = None
    BY <1>2 DEF Restart, HasStatus
  <2>2. Finite' /\ restriction' \in SUBSET Intents /\ crashes' \in 0..MaxCrashes
    BY <1>2, <2>1, MyLocals DEF Restart
  <2> QED
    BY <1>2, <2>2, IdleLocals, WorkMoves DEF Restart, Leave
<1>3. ASSUME UNCHANGED <<exec, proc, crashes>>, restriction' \in {restriction, {}} PROVE WorkInv'
  BY <1>3 DEF WorkInv, Finite
<1>4. ASSUME NEW k \in Keys, ProviderDecides(k) PROVE WorkInv'
  BY <1>3, <1>4 DEF ProviderDecides, db
<1>5. CASE Release
  BY <1>3, <1>5 DEF Release
<1>6. CASE Tick
  BY <1>3, <1>6 DEF Tick, db
<1>7. CASE UNCHANGED vars
  BY <1>3, <1>7 DEF vars, db
<1> QED
  BY StepCases, SubmissionWork, RunWork, <1>1, <1>2, <1>4, <1>5, <1>6, <1>7

\* The types hold throughout.
LEMMA WorkInvariance == Spec => [](Inv /\ WorkInv)
<1>1. Init => WorkInv
  <2> SUFFICES ASSUME Init PROVE WorkInv
    OBVIOUS
  <2>1. {i \in Intents : exec[i] # None} = {}
    BY DEF Init
  <2>2. Finite
    BY <2>1, FS_EmptySet DEF Finite
  <2>3. proc \in [Processes -> Locals] /\ \A p \in Processes : HasWork(proc[p])
    BY IdleLocals DEF Init
  <2> QED
    BY <2>2, <2>3, GatewayAssumption DEF Init, WorkInv
<1> QED
  BY <1>1, WorkStep, Invariance, PTL DEF Spec

-----------------------------------------------------------------------------
(* What it carries.                                                        *)

\* No intent and no idempotency key is handed to the provider twice.
THEOREM NoDuplicateSubmission == Spec => []SubmittedOnce
<1>1. Inv => SubmittedOnce
  <2> SUFFICES ASSUME Inv PROVE SubmittedOnce
    OBVIOUS
  <2>1. ASSUME NEW r \in Requests, NEW q \in Requests, r # q, r.intent = q.intent \/ r.key = q.key
        PROVE  sent[r] = 0 \/ sent[q] = 0
    BY <2>1 DEF Inv, DbInv, SentRecorded, UniqueOrders
  <2> QED
    BY <2>1 DEF Inv, DbInv, SentRecorded, SubmittedOnce
<1> QED
  BY <1>1, Invariance, PTL

\* A settled record never contradicts the provider.
THEOREM SettledIsDecided == Spec => []SettledAgrees
<1>1. Inv => SettledAgrees
  BY DEF Inv, DbInv
<1> QED
  BY <1>1, Invariance, PTL

\* Every order the provider decided is on record, open or with its decision.
THEOREM NoOrphanOrder == Spec => []ProviderOrdersOnRecord
<1>1. Inv => ProviderOrdersOnRecord
  <2> SUFFICES ASSUME Inv, NEW k \in Keys, provider[k] # None
               PROVE  \E i \in Intents :
                        /\ exec[i] # None /\ exec[i].key = k
                        /\ exec[i].status \in {"SUBMITTING", "SUBMISSION_UNKNOWN", provider[k]}
    BY DEF ProviderOrdersOnRecord
  <2>1. PICK r \in Requests : r.key = k /\ sent[r] # 0
    BY DEF Inv, DbInv, ProviderHeard
  <2>2. r.intent \in Intents /\ exec[r.intent] # None /\ exec[r.intent].key = k
    BY <2>1, GatewayAssumption DEF Inv, DbInv, SentRecorded, Recorded
  <2>3. exec[r.intent].status \in Statuses
    BY <2>2 DEF Inv, DbInv, DbTypes, Records
  <2>4. exec[r.intent].status \in Terminal => exec[r.intent].status = provider[k]
    BY <2>2 DEF Inv, DbInv, SettledAgrees, HasStatus
  <2> QED
    BY <2>2, <2>3, <2>4 DEF Statuses
<1> QED
  BY <1>1, Invariance, PTL

\* Every variable keeps its type, a run's list of work and its cursor too.
THEOREM TypeCorrect == Spec => []TypeOK
<1>1. Inv /\ WorkInv => TypeOK
  BY DEF Inv, DbInv, DbTypes, WorkInv, TypeOK
<1> QED
  BY <1>1, WorkInvariance, PTL

\* the scan behind any cursor has every unknown submission once, and ends with the cursor's own
ScanIsWhole ==
    \A c \in {None} \cup Intents :
        /\ Len(Rotated(c)) = Cardinality(Unknown)
        /\ \A i \in Unknown : \E n \in 1..Len(Rotated(c)) : Rotated(c)[n] = i
        /\ c \in Unknown => Rotated(c)[Len(Rotated(c))] = c

\* The limit on the records of a run delays a lookup, it never skips a record: behind whatever
\* cursor a run starts, each unknown submission has its place in the order of the lookups, and the
\* record the previous run ended with comes after all others (listByStatus and the rotation of
\* reconcileUnknownSubmissions).
THEOREM ScanMissesNothing == Spec => []ScanIsWhole
<1>1. Inv /\ WorkInv => ScanIsWhole
  BY RotatedWhole DEF ScanIsWhole, Inv, DbInv, WorkInv
<1> QED
  BY <1>1, WorkInvariance, PTL

-----------------------------------------------------------------------------
(* The gateway implements the life of an order.                            *)

\* A save of an existing record settles it as the provider decided, or changes nothing settled.
LEMMA SaveSettles ==
    ASSUME Inv, UNCHANGED <<provider, sent>>,
           NEW i, NEW status \in Statuses, NEW at \in 0..MaxClock,
           CanSave(i, status, at), exec' = Saved(i, status, at),
           status \in Terminal /\ i \in Intents => status = provider[exec[i].key]
    PROVE  Settled' = Settled \/ (i \in Intents /\ Life!Settle(i))
<1>0. exec \in [Intents -> {None} \cup Records] /\ exec[i] # None
  BY DEF Inv, DbInv, DbTypes, CanSave
<1>1. CASE i \notin Intents
  <2>1. exec' = exec
    BY <1>0, <1>1 DEF Saved
  <2> QED
    BY <2>1 DEF Settled, HasStatus
<1>2. CASE i \in Intents
  <2> DEFINE e == [exec[i] EXCEPT !.status = status, !.updated = at]
  <2>1. exec[i] \in Records /\ exec' = [exec EXCEPT ![i] = e]
    BY <1>0, <1>2 DEF Saved, Records
  <2>2. e.status = status /\ e # None
    <3>1. e \in Records /\ e.status = status
      BY <2>1 DEF Records
    <3> QED
      BY <3>1, GatewayAssumption
  <2> HIDE DEF e
  <2>3. exec'[i] = e /\ \A j \in Intents : j # i => exec'[j] = exec[j]
    BY <1>0, <1>2, <2>1
  <2>4. \A j \in Intents : j # i => (HasStatus(j, Terminal)' <=> HasStatus(j, Terminal))
    BY <2>3 DEF HasStatus
  <2>5. HasStatus(i, Terminal)' <=> status \in Terminal
    BY <2>2, <2>3 DEF HasStatus
  <2>6. CASE HasStatus(i, Terminal) \/ status \notin Terminal
    <3>1. HasStatus(i, Terminal) => status = exec[i].status
      BY DEF HasStatus, CanSave, isAllowedTransition, Terminal
    <3>2. \A j \in Intents : (IF HasStatus(j, Terminal)' THEN exec'[j].status ELSE None)
                             = IF HasStatus(j, Terminal) THEN exec[j].status ELSE None
      BY <1>0, <2>2, <2>3, <2>4, <2>5, <2>6, <3>1 DEF HasStatus
    <3> QED
      BY <3>2 DEF Settled
  <2>7. CASE ~HasStatus(i, Terminal) /\ status \in Terminal
    <3>1. PICK r \in idem : r.intent = i /\ r.key = exec[i].key
      BY <1>0, <1>2 DEF Inv, DbInv, Reserved
    <3>2. r \in Requests /\ r.key \in Keys /\ provider[r.key] = status
      BY <1>2, <2>7, <3>1, GatewayAssumption DEF Inv, DbInv, DbTypes
    <3>3. provider[r.key] # None
      BY <2>7, <3>2, GatewayAssumption DEF Found
    <3>4. PICK q \in Requests : q.key = r.key /\ sent[q] # 0
      BY <3>2, <3>3 DEF Inv, DbInv, ProviderHeard
    <3>5. q = r /\ sent[r] = 1
      BY <3>1, <3>2, <3>4 DEF Inv, DbInv, DbTypes, SentRecorded, UniqueOrders
    <3>6. Settled[i] = None
      BY <1>2, <2>7 DEF Settled
    <3>7. Settled' = [Settled EXCEPT ![i] = provider[r.key]]
      <4>1. \A j \in Intents : (IF HasStatus(j, Terminal)' THEN exec'[j].status ELSE None)
                               = IF j = i THEN status ELSE Settled[j]
        BY <2>2, <2>3, <2>4, <2>5, <2>7 DEF Settled
      <4>2. Settled' = [j \in Intents |-> IF j = i THEN status ELSE Settled[j]]
        BY <4>1 DEF Settled
      <4> QED
        BY <3>2, <4>2 DEF Settled
    <3> QED
      BY <1>2, <3>1, <3>2, <3>3, <3>5, <3>6, <3>7 DEF Life!Settle
  <2> QED
    BY <2>6, <2>7
<1> QED
  BY <1>1, <1>2

\* Every step of the gateway is a step of an order's life, or none.
LEMMA LifeStep == Inv /\ [Next]_vars => [Life!Next]_(Life!vars)
<1> SUFFICES ASSUME Inv, [Next]_vars PROVE [Life!Next]_(Life!vars)
  OBVIOUS
<1> DEFINE Stutter == UNCHANGED <<sent, provider>> /\ Settled' = Settled
<1>1. Stutter => [Life!Next]_(Life!vars)
  BY DEF Life!vars
<1>2. UNCHANGED <<exec, sent, provider>> => Stutter
  BY DEF Settled, HasStatus
<1>3. ASSUME NEW i \in Intents, Life!Settle(i) PROVE [Life!Next]_(Life!vars)
  BY <1>3 DEF Life!Next
<1>4. ASSUME NEW p \in Processes, Submit(p) PROVE [Life!Next]_(Life!vars)
  <2> DEFINE r == proc[p].req
  <2>1. r \in idem /\ r \in Requests /\ sent[r] = 0 /\ UNCHANGED <<exec, provider>>
    BY <1>4 DEF Submit, At, db, Inv, ProcInv, OrderInHand, LocalTypes, InFlight, Submitting
  <2>2. sent' = [sent EXCEPT ![r] = 1]
    BY <1>4, <2>1 DEF Submit, Inv, DbInv, DbTypes
  <2>3. ASSUME NEW q \in Requests, q.intent = r.intent \/ q.key = r.key PROVE sent[q] = 0
    BY <2>1, <2>3 DEF Inv, DbInv, SentRecorded, UniqueOrders
  <2>4. Settled' = Settled
    BY <2>1 DEF Settled, HasStatus
  <2> QED
    BY <2>1, <2>2, <2>3, <2>4 DEF Life!Send, Life!Next
<1>5. ASSUME NEW k \in Keys, ProviderDecides(k) PROVE [Life!Next]_(Life!vars)
  <2>1. PICK r \in Requests : r.key = k /\ sent[r] > 0
    BY <1>5 DEF ProviderDecides
  <2>2. sent[r] = 1
    BY <2>1 DEF Inv, DbInv, DbTypes, SentRecorded
  <2>3. Settled' = Settled
    BY <1>5 DEF ProviderDecides, db, Settled, HasStatus
  <2> QED
    BY <1>5, <2>1, <2>2, <2>3 DEF ProviderDecides, Life!Decide, Life!Next
<1>6. ASSUME NEW p \in Processes, Record(p) PROVE Stutter
  <2> DEFINE r == proc[p].req
             e == [key |-> r.key, status |-> "SUBMITTING", created |-> proc[p].at, updated |-> proc[p].at]
  <2>1. UNCHANGED <<sent, provider>> /\ exec \in [Intents -> {None} \cup Records] /\ r.intent \in Intents
    BY <1>6, GatewayAssumption DEF Record, At, Inv, DbInv, DbTypes, ProcInv, LocalTypes, Submitting
  <2>2. CASE exec' = exec
    BY <1>2, <2>1, <2>2
  <2>3. CASE exec' = [exec EXCEPT ![r.intent] = e] /\ exec[r.intent] = None
    <3>1. e.status \notin Terminal
      BY DEF Terminal
    <3> HIDE DEF e
    <3>2. \A i \in Intents : (IF HasStatus(i, Terminal)' THEN exec'[i].status ELSE None)
                             = IF HasStatus(i, Terminal) THEN exec[i].status ELSE None
      BY <2>1, <2>3, <3>1 DEF HasStatus
    <3> QED
      BY <2>1, <3>2 DEF Settled
  <2> QED
    BY <1>6, <2>2, <2>3 DEF Record, CanInsert
<1>7. ASSUME NEW p \in Processes, Restart(p) PROVE Stutter
  <2>1. UNCHANGED <<sent, provider>> /\ exec \in [Intents -> {None} \cup Records]
    BY <1>7 DEF Restart, Inv, DbInv, DbTypes
  <2>2. ASSUME NEW i \in Intents
        PROVE  (IF HasStatus(i, Terminal)' THEN exec'[i].status ELSE None)
               = IF HasStatus(i, Terminal) THEN exec[i].status ELSE None
    <3>1. CASE HasStatus(i, {"SUBMITTING"})
      <4>1. exec[i] \in Records /\ exec[i].status = "SUBMITTING"
        BY <2>1, <3>1 DEF HasStatus
      <4>2. exec'[i].status = "SUBMISSION_UNKNOWN"
        BY <1>7, <3>1, <4>1 DEF Restart, Records
      <4> QED
        BY <4>1, <4>2 DEF HasStatus, Terminal
    <3>2. CASE ~HasStatus(i, {"SUBMITTING"})
      <4>1. exec'[i] = exec[i]
        BY <1>7, <3>2 DEF Restart
      <4> QED
        BY <4>1 DEF HasStatus
    <3> QED
      BY <3>1, <3>2
  <2> QED
    BY <2>1, <2>2 DEF Settled
<1>8. ASSUME NEW p \in Processes, NEW status \in Statuses, SaveOutcome(p, status),
             status \in Terminal => status = provider[proc[p].req.key]
      PROVE  [Life!Next]_(Life!vars)
  <2> DEFINE r == proc[p].req
             t == proc[p].at
  <2>1. Recorded(r) /\ UNCHANGED <<provider, sent>> /\ t \in 0..MaxClock
    BY <1>8 DEF SaveOutcome, At, Inv, ProcInv, OrderInHand, LocalTypes
  <2>2. CASE CanSave(r.intent, status, t)
    <3>1. exec' = Saved(r.intent, status, t)
      BY <1>8, <2>2 DEF SaveOutcome
    <3> QED
      BY <1>1, <1>3, <1>8, <2>1, <2>2, <3>1, SaveSettles DEF Recorded
  <2>3. CASE ~CanSave(r.intent, status, t) /\ CanSave(r.intent, "SUBMISSION_UNKNOWN", t)
    <3>1. exec' = Saved(r.intent, "SUBMISSION_UNKNOWN", t)
      BY <1>8, <2>3 DEF SaveOutcome
    <3>2. "SUBMISSION_UNKNOWN" \in Statuses /\ "SUBMISSION_UNKNOWN" \notin Terminal
      BY DEF Statuses, Terminal
    <3> QED
      BY <1>1, <1>3, <2>1, <2>3, <3>1, <3>2, SaveSettles
  <2>4. CASE ~CanSave(r.intent, status, t) /\ ~CanSave(r.intent, "SUBMISSION_UNKNOWN", t)
    BY <1>1, <1>2, <1>8, <2>1, <2>4 DEF SaveOutcome
  <2> QED
    BY <2>2, <2>3, <2>4
<1>9. ASSUME NEW p \in Processes, Answered(p) PROVE [Life!Next]_(Life!vars)
  <2>1. provider[proc[p].req.key] \in Statuses
    BY <1>9, GatewayAssumption
       DEF Answered, At, Inv, DbInv, DbTypes, ProcInv, LocalTypes, Submitting, Statuses
  <2> QED
    BY <1>8, <1>9, <2>1 DEF Answered
<1>10. ASSUME NEW p \in Processes, SubmitThrows(p) PROVE [Life!Next]_(Life!vars)
  BY <1>8, <1>10 DEF SubmitThrows, Statuses, Terminal
<1>11. ASSUME NEW p \in Processes, Apply(p) PROVE [Life!Next]_(Life!vars)
  <2> DEFINE me == proc[p]
             i == Head(me.todo)
             status == StatusFor(me.found)
  <2>1. UNCHANGED <<provider, sent>> /\ FoundAgrees(p) /\ me.pc = "apply" /\ me.at \in 0..MaxClock
    BY <1>11 DEF Apply, At, Inv, ProcInv, LocalTypes
  <2>2. status \in Statuses /\ (status \in Terminal /\ i \in Intents => status = provider[exec[i].key])
    BY <2>1 DEF StatusFor, Statuses, Terminal, FoundAgrees
  <2>3. CASE CanSave(i, status, me.at)
    <3>1. exec' = Saved(i, status, me.at)
      BY <1>11, <2>3 DEF Apply
    <3> QED
      BY <1>1, <1>3, <2>1, <2>2, <2>3, <3>1, SaveSettles
  <2>4. CASE ~CanSave(i, status, me.at)
    BY <1>1, <1>2, <1>11, <2>1, <2>4 DEF Apply
  <2> QED
    BY <2>3, <2>4
<1>12. ASSUME NEW p \in Processes,
              \/ \E r \in Requests : Admit(p, r)
              \/ Reserve(p) \/ StartRun(p) \/ Lookup(p) \/ FinishRun(p) \/ Crash(p)
       PROVE  Stutter
  BY <1>2, <1>12 DEF Admit, Reserve, StartRun, Lookup, FinishRun, Crash, db
<1>13. Release \/ Tick \/ UNCHANGED vars => Stutter
  BY <1>2 DEF Release, Tick, vars, db
<1> HIDE DEF Stutter
<1> QED
  BY StepCases, <1>1, <1>4, <1>5, <1>6, <1>7, <1>9, <1>10, <1>11, <1>12, <1>13

\* Whatever the processes do and whichever of them settles an order, each order is sent, decided
\* and settled once, and what is settled stays (executeAdmittedOrder, reconcileUnknownSubmission
\* and recoverUncertainSubmissions on one database).
THEOREM GatewayKeepsOrderLife == Spec => ImplementsOrderLife
<1>1. Init => Life!Init
  BY DEF Init, Life!Init, Settled, HasStatus
<1> QED
  BY <1>1, LifeStep, Invariance, PTL DEF Spec, ImplementsOrderLife, Life!Spec

=============================================================================
