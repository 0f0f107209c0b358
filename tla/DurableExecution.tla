-------------------------- MODULE DurableExecution --------------------------
(***************************************************************************)
(* The durable life of one exchange order: ExecutionService, its record,   *)
(* and the fills of it in the repository (SqliteDurableExecutionRepository *)
(* and InMemoryExecutionRepository, which make the same checks), against   *)
(* an exchange that answers late, twice or never.                          *)
(*                                                                         *)
(* The service runs on one thread: a method runs to its next await in one  *)
(* step, and Callers of submit, cancel and reconcile meet at their awaits, *)
(* each with the record it read before.  The exchange port is external; an *)
(* order of Quantity units trades unit by unit.  Prices, fees and times    *)
(* are left out.  A call that throws before it changes anything is a step  *)
(* that does not happen, unless a property is about it.                    *)
(***************************************************************************)
EXTENDS Integers, FiniteSets

CONSTANTS
    Callers,     \* concurrent callers of the service's asynchronous methods
    Quantity,    \* units of the order, one trade each
    MaxVersion   \* bound on record.version, in the guards of new calls

ASSUME QuantityAssumption == Quantity \in Nat \ {0}
ASSUME VersionAssumption == MaxVersion \in Nat

VARIABLES
    rec,    \* the ExecutionRecord
    fills,  \* execution_fills: its rows, <<trade, copy>>
    call,   \* per caller: the method it awaits, the record it holds, the answer
    sent,   \* how often submitOrder has been called
    wire,   \* requests the exchange has not processed yet
    exch,   \* the order at the exchange
    last    \* the last method that returned or threw after an await

vars == <<rec, fills, call, sent, wire, exch, last>>

Trades == 1..Quantity

States ==
    {"INTENT_CREATED", "RISK_APPROVED", "RISK_REJECTED", "QUEUED", "SUBMITTING",
     "ACCEPTED", "REJECTED", "SUBMISSION_UNKNOWN", "PARTIALLY_FILLED", "FILLED",
     "CANCEL_REQUESTED", "CANCELING", "CANCELED", "EXPIRED",
     "RECONCILIATION_REQUIRED", "RECONCILED"}

Terminal == {"RISK_REJECTED", "REJECTED", "FILLED", "CANCELED", "EXPIRED", "RECONCILED"}

transitions(s) ==
    CASE s = "INTENT_CREATED" -> {"RISK_APPROVED", "RISK_REJECTED"}
      [] s = "RISK_APPROVED" -> {"QUEUED"}
      [] s = "QUEUED" -> {"SUBMITTING", "CANCELED"}
      [] s = "SUBMITTING" -> {"ACCEPTED", "REJECTED", "SUBMISSION_UNKNOWN"}
      [] s \in {"ACCEPTED", "PARTIALLY_FILLED"} ->
            {"PARTIALLY_FILLED", "FILLED", "CANCEL_REQUESTED", "EXPIRED",
             "RECONCILIATION_REQUIRED"}
      [] s = "CANCEL_REQUESTED" -> {"CANCELING", "RECONCILIATION_REQUIRED"}
      [] s = "CANCELING" ->
            {"CANCELED", "FILLED", "PARTIALLY_FILLED", "SUBMISSION_UNKNOWN",
             "RECONCILIATION_REQUIRED"}
      [] s = "SUBMISSION_UNKNOWN" ->
            {"ACCEPTED", "PARTIALLY_FILLED", "FILLED", "REJECTED",
             "RECONCILIATION_REQUIRED"}
      [] s = "RECONCILIATION_REQUIRED" ->
            {"RECONCILED", "ACCEPTED", "PARTIALLY_FILLED", "FILLED", "CANCELED",
             "REJECTED", "EXPIRED"}
      [] OTHER -> {}

\* A plausible slip: an unknown submission may be queued again.
MAllowedRetry(from, to) ==
    from = to \/ to \in transitions(from) \cup
        (IF from = "SUBMISSION_UNKNOWN" THEN {"QUEUED"} ELSE {})

\* assertExecutionTransition: staying in a state is always allowed.
Allowed(from, to) == from = to \/ to \in transitions(from)

\* A plausible slip: save forgets to compare the versions.
MAccepts(r, to) == Allowed(r.state, to) /\ Allowed(rec.state, to)

\* transition and save accept a move of the record r a caller holds: the table
\* allows it, and nobody has saved another version since r was read.
Accepts(r, to) ==
    /\ Allowed(r.state, to)
    /\ rec.version = r.version
    /\ Allowed(rec.state, to)

Moved(r, to) == [r EXCEPT !.state = to, !.version = r.version + 1]

-----------------------------------------------------------------------------
(* Fills *)

\* A plausible slip: a trade that is delivered twice is stored twice.
MAppendFill(f, t) == f \cup {IF <<t, 1>> \in f THEN <<t, 2>> ELSE <<t, 1>>}

\* appendFill: the first row of a trade wins.
AppendFill(f, t) == IF <<t, 1>> \in f THEN f ELSE f \cup {<<t, 1>>}

\* The table after the first n trades of a snapshot.
AppendFills(f, n) == f \cup UNION {AppendFill(f, t) : t \in 1..n}

\* the sum of the rows: every trade is one unit
Filled(f) == Cardinality(f)

\* applyFills: the state the rows of the table stand for.
FillTarget(r, f) ==
    IF r.sized /\ Filled(f) = Quantity THEN "FILLED" ELSE "PARTIALLY_FILLED"

Counted(r, f) == [Moved(r, FillTarget(r, f)) EXCEPT !.filled = Filled(f)]

-----------------------------------------------------------------------------
(* Calls and the exchange *)

NoReply == [st |-> "none", n |-> 0]
Idle(r) == [kind |-> "idle", seen |-> r, reply |-> NoReply]

\* The record createIntent stores; requestedQuantity is optional.
Created(sized) ==
    [state |-> "INTENT_CREATED", version |-> 1, filled |-> 0, xid |-> FALSE,
     sized |-> sized]

NoRecord == Created(FALSE)

Init ==
    /\ \E sized \in BOOLEAN : rec = Created(sized)
    /\ fills = {}
    /\ call = [c \in Callers |-> Idle(NoRecord)]
    /\ sent = 0
    /\ wire = {}
    /\ exch = [st |-> "NONE", n |-> 0]
    /\ last = [kind |-> "none", from |-> "INTENT_CREATED", verdict |-> "done"]

Start(c, kind, r) ==
    call' = [call EXCEPT ![c] = [kind |-> kind, seen |-> r, reply |-> NoReply]]

Answer(c, st, n) ==
    call' = [call EXCEPT ![c] = [kind |-> @.kind, seen |-> @.seen,
                                 reply |-> [st |-> st, n |-> n]]]

Finish(c, verdict) ==
    /\ call' = [call EXCEPT ![c] = Idle(NoRecord)]
    /\ last' = [kind |-> call[c].kind, from |-> call[c].seen.state,
                verdict |-> verdict]

Awaiting(c, kind) == call[c].kind = kind /\ call[c].reply = NoReply
Answered(c, kind) == call[c].kind = kind /\ call[c].reply # NoReply

\* The caller moves the record it held to the state the answer stands for.  A
\* move that is refused inside the try block is caught, and the move to
\* SUBMISSION_UNKNOWN that follows is refused for the same reason.
Return(c, r, to) ==
    \/ /\ Accepts(r, to)
       /\ rec' = Moved(r, to)
       /\ Finish(c, "done")
    \/ /\ ~Accepts(r, to)
       /\ Finish(c, IF rec.version = r.version THEN "invalid" ELSE "refused")
       /\ UNCHANGED rec

-----------------------------------------------------------------------------
(* ExecutionService: the synchronous methods *)

Bounded == rec.version < MaxVersion

Move(to) ==
    /\ Bounded
    /\ Allowed(rec.state, to)
    /\ rec' = Moved(rec, to)
    /\ UNCHANGED <<fills, call, sent, wire, exch, last>>

approveRisk == Move("RISK_APPROVED")
rejectRisk == Move("RISK_REJECTED")
queue == Move("QUEUED")
requestCancel == Move("CANCEL_REQUESTED")

\* addFill: the row is stored even when the record refuses to count it.
addFill(t) ==
    LET f == AppendFill(fills, t)
    IN  /\ Bounded
        /\ t <= exch.n
        /\ fills' = f
        /\ rec' = IF Allowed(rec.state, FillTarget(rec, f))
                  THEN Counted(rec, f) ELSE rec
        /\ UNCHANGED <<call, sent, wire, exch, last>>

-----------------------------------------------------------------------------
(* submit *)

submit(c) ==
    /\ Bounded
    /\ call[c].kind = "idle"
    /\ rec.state = "QUEUED"
    /\ rec' = Moved(rec, "SUBMITTING")
    /\ Start(c, "submit", rec')
    /\ sent' = sent + 1
    /\ wire' = wire \cup {"submit"}
    /\ UNCHANGED <<fills, exch, last>>

\* After submitOrder: a known answer, or SUBMISSION_UNKNOWN.
submitReturn(c) ==
    LET st == call[c].reply.st
        r == [call[c].seen EXCEPT !.xid = (st = "ACCEPTED")]
    IN  /\ Answered(c, "submit")
        /\ Return(c, r, IF st \in {"ACCEPTED", "REJECTED"} THEN st
                        ELSE "SUBMISSION_UNKNOWN")
        /\ UNCHANGED <<fills, sent, wire, exch>>

-----------------------------------------------------------------------------
(* cancel *)

\* The request names the order by exchangeOrderId, if the record has one.
cancel(c) ==
    /\ Bounded
    /\ call[c].kind = "idle"
    /\ rec.state = "CANCEL_REQUESTED"
    /\ rec' = Moved(rec, "CANCELING")
    /\ Start(c, "cancel", rec')
    /\ wire' = IF rec.xid THEN wire \cup {"cancel"} ELSE wire
    /\ UNCHANGED <<fills, sent, exch, last>>

\* A plausible slip: an outcome nobody knows is taken for a cancellation.
MCancelTarget(st) ==
    IF st \in {"CANCELED", "FILLED", "PARTIALLY_FILLED"} THEN st ELSE "CANCELED"

CancelTarget(st) ==
    CASE st \in {"CANCELED", "FILLED", "PARTIALLY_FILLED"} -> st
      [] st = "UNKNOWN" -> "RECONCILIATION_REQUIRED"
      [] OTHER -> "SUBMISSION_UNKNOWN"

cancelReturn(c) ==
    /\ Answered(c, "cancel")
    /\ Return(c, call[c].seen, CancelTarget(call[c].reply.st))
    /\ UNCHANGED <<fills, sent, wire, exch>>

-----------------------------------------------------------------------------
(* reconcile; replayRecovery is a reconcile of every active record *)

Reconcilable ==
    {"SUBMISSION_UNKNOWN", "RECONCILIATION_REQUIRED", "ACCEPTED",
     "PARTIALLY_FILLED", "CANCELING"}

reconcile(c) ==
    /\ Bounded
    /\ call[c].kind = "idle"
    /\ rec.state \in Reconcilable
    /\ Start(c, "reconcile", rec)
    /\ UNCHANGED <<rec, fills, sent, wire, exch, last>>

\* A snapshot that is neither filled, cancelled nor rejected counts as accepted.
ReconcileTarget(st) ==
    IF st \in {"FILLED", "PARTIALLY_FILLED", "CANCELED", "REJECTED"} THEN st
    ELSE "ACCEPTED"

\* The record after k of the snapshot's fills were stored and counted, one
\* transition each.
AfterFills(r, k) ==
    IF k = 0 THEN r
    ELSE LET f == AppendFills(fills, k)
         IN  [Counted(r, f) EXCEPT !.version = r.version + k]

\* After getOrder: a failed lookup changes nothing; another order's snapshot
\* asks for a review; else the fills are applied, then the state.  A record
\* somebody else saved meanwhile refuses the first transition, after the first
\* fill is stored.
reconcileReturn(c) ==
    LET r == call[c].seen
        st == call[c].reply.st
        n == call[c].reply.n
        counted == AfterFills(r, n)
        to == ReconcileTarget(st)
    IN  /\ Answered(c, "reconcile")
        /\ \/ /\ st = "error"
              /\ Finish(c, "failed")
              /\ UNCHANGED <<rec, fills>>
           \/ /\ st = "DIFF"
              /\ Return(c, r, "RECONCILIATION_REQUIRED")
              /\ UNCHANGED fills
           \/ /\ st \notin {"error", "DIFF"} /\ n = 0
              /\ Return(c, r, to)
              /\ UNCHANGED fills
           \/ /\ st \notin {"error", "DIFF"} /\ n > 0
              /\ ~Accepts(r, FillTarget(r, AppendFills(fills, 1)))
              /\ fills' = AppendFills(fills, 1)
              /\ Finish(c, "refused")
              /\ UNCHANGED rec
           \/ /\ st \notin {"error", "DIFF"} /\ n > 0
              /\ Accepts(r, FillTarget(r, AppendFills(fills, 1)))
              /\ fills' = AppendFills(fills, n)
              /\ \/ /\ Allowed(counted.state, to)
                    /\ rec' = Moved(counted, to)
                    /\ Finish(c, "done")
                 \/ /\ ~Allowed(counted.state, to)
                    /\ rec' = counted
                    /\ Finish(c, "invalid")
        /\ UNCHANGED <<sent, wire, exch>>

-----------------------------------------------------------------------------
(* The exchange and the process *)

\* The port rejects: a timeout, a lost connection.  The request may still be
\* on its way.
portFails(c) ==
    /\ call[c].kind # "idle" /\ call[c].reply = NoReply
    /\ Answer(c, "error", 0)
    /\ UNCHANGED <<rec, fills, sent, wire, exch, last>>

\* The exchange gives st to the caller that awaits the answer, if one still does.
Replies(kind, st) ==
    \/ \E c \in Callers : Awaiting(c, kind) /\ Answer(c, st, 0)
    \/ (\A c \in Callers : ~Awaiting(c, kind)) /\ UNCHANGED call

exchangeSubmit ==
    /\ "submit" \in wire
    /\ wire' = wire \ {"submit"}
    /\ \/ exch' = [st |-> "OPEN", n |-> 0] /\ Replies("submit", "ACCEPTED")
       \/ exch' = [st |-> "REJECTED", n |-> 0] /\ Replies("submit", "REJECTED")
       \/ exch' = [st |-> "OPEN", n |-> 0] /\ Replies("submit", "UNKNOWN")
    /\ UNCHANGED <<rec, fills, sent, last>>

\* The order's state as the exchange reports it.
Reported ==
    CASE exch.st # "OPEN" -> exch.st
      [] exch.n = 0 -> "ACCEPTED"
      [] exch.n = Quantity -> "FILLED"
      [] OTHER -> "PARTIALLY_FILLED"

Live == exch.st = "OPEN" /\ exch.n < Quantity

exchangeCancel ==
    /\ "cancel" \in wire
    /\ wire' = wire \ {"cancel"}
    /\ \/ /\ Live
          /\ exch' = [exch EXCEPT !.st = "CANCELED"]
          /\ Replies("cancel", "CANCELED") \/ Replies("cancel", "UNKNOWN")
       \/ /\ Live /\ exch.n > 0
          /\ Replies("cancel", "PARTIALLY_FILLED")
          /\ UNCHANGED exch
       \/ /\ ~Live
          /\ Replies("cancel", IF Reported \in {"FILLED", "CANCELED"}
                               THEN Reported ELSE "UNKNOWN")
          /\ UNCHANGED exch
    /\ UNCHANGED <<rec, fills, sent, last>>

exchangeLookup(c) ==
    /\ Awaiting(c, "reconcile")
    /\ exch.st # "NONE"
    /\ Answer(c, Reported, exch.n) \/ Answer(c, "DIFF", 0)
    /\ UNCHANGED <<rec, fills, sent, wire, exch, last>>

\* The order trades, expires, or is cancelled at the exchange.
exchangeMoves ==
    /\ Live
    /\ \/ exch' = [exch EXCEPT !.n = exch.n + 1]
       \/ \E st \in {"CANCELED", "EXPIRED"} : exch' = [exch EXCEPT !.st = st]
    /\ UNCHANGED <<rec, fills, call, sent, wire, last>>

\* The process dies: calls are forgotten, the database and the wire are not.
\* It may die after k of the fills of a snapshot were stored, the last of them
\* counted or not.
crash ==
    /\ call' = [c \in Callers |-> Idle(NoRecord)]
    /\ last' = [kind |-> "none", from |-> "INTENT_CREATED", verdict |-> "done"]
    /\ \/ UNCHANGED <<rec, fills>>
       \/ \E c \in Callers : \E k \in 1..call[c].reply.n :
            /\ Answered(c, "reconcile")
            /\ Accepts(call[c].seen, FillTarget(call[c].seen, AppendFills(fills, 1)))
            /\ fills' = AppendFills(fills, k)
            /\ \E j \in {k - 1, k} : rec' = AfterFills(call[c].seen, j)
    /\ UNCHANGED <<sent, wire, exch>>

Next ==
    \/ approveRisk \/ rejectRisk \/ queue \/ requestCancel
    \/ \E t \in Trades : addFill(t)
    \/ \E c \in Callers :
        \/ submit(c) \/ submitReturn(c) \/ cancel(c) \/ cancelReturn(c)
        \/ reconcile(c) \/ reconcileReturn(c)
        \/ portFails(c) \/ exchangeLookup(c)
    \/ exchangeSubmit \/ exchangeCancel \/ exchangeMoves
    \/ crash

Spec == Init /\ [][Next]_vars

-----------------------------------------------------------------------------
(* Properties *)

Records ==
    [state : States, version : Nat, filled : Nat, xid : BOOLEAN, sized : BOOLEAN]

\* The type invariant.
TypeOK ==
    /\ rec \in Records
    /\ fills \subseteq Trades \X {1}
    /\ sent \in Nat
    /\ wire \subseteq {"submit", "cancel"}
    /\ exch \in [st : {"NONE", "OPEN", "REJECTED", "CANCELED", "EXPIRED"}, n : 0..Quantity]

\* However calls interleave, fail, are repeated or are cut short by a crash,
\* the order is never submitted twice: an unknown submission is looked up,
\* never sent again.
SubmittedOnce == sent <= 1

\* What a terminal record says is true at the exchange, for good: filled means
\* every unit traded; cancelled, rejected or stopped by the risk check means
\* that nothing is live there or on its way.
TerminalAgrees ==
    /\ rec.state = "FILLED" => exch.n = Quantity
    /\ rec.state \in Terminal \ {"FILLED"} => ~Live /\ "submit" \notin wire

\* Fill events, repeated or delivered out of order, and lookups that overlap
\* them never count a trade that did not happen, or one twice.
NoDoubleCount == rec.filled <= exch.n

\* An answer that was computed from an old record never hides a counted fill.
FilledNeverShrinks == [][rec'.filled >= rec.filled]_vars

\* SUBMISSION_UNKNOWN "can only be resolved through reconciliation": a lookup
\* the exchange answers, of a record nobody else has changed, resolves it.
UnknownIsResolvable ==
    /\ last.kind = "reconcile" /\ last.from = "SUBMISSION_UNKNOWN"
    /\ last.verdict = "invalid"
    => rec.state # "SUBMISSION_UNKNOWN"

=============================================================================
