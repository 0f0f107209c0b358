----------------------- MODULE DurableExecutionProofs -----------------------
(***************************************************************************)
(* What the durable execution service promises about one order, for any    *)
(* number of callers, any quantity and any sequence of answers, failures   *)
(* and crashes.                                                            *)
(*                                                                         *)
(* Two facts carry the proofs.  A record that a caller read before its     *)
(* await is, while its version is still the current one, the record itself *)
(* (CallTrue): what Accepts lets through never undoes what somebody else   *)
(* saved.  And what the exchange has answered stays true (CallTrue), so an *)
(* answer may be applied however late.                                     *)
(***************************************************************************)
EXTENDS DurableExecution, FiniteSetTheorems, TLAPS

Kinds == {"idle", "submit", "cancel", "reconcile"}
Outcomes ==
    {"none", "error", "DIFF", "UNKNOWN", "NONE", "ACCEPTED", "REJECTED", "PARTIALLY_FILLED",
     "FILLED", "CANCELED", "EXPIRED"}
Calls == [kind : Kinds, seen : Records, reply : [st : Outcomes, n : 0..Quantity]]

Typed == TypeOK /\ call \in [Callers -> Calls]

\* the states of an order that was never sent
Unsent == {"INTENT_CREATED", "RISK_APPROVED", "RISK_REJECTED", "QUEUED"}

\* Nothing is on the wire or at the exchange before the one submission, and the
\* exchange knows nothing of the order while the submission is on the wire.
Sending ==
    /\ sent \in {0, 1}
    /\ sent = 0 <=> rec.state \in Unsent
    /\ sent = 0 => wire = {} /\ exch.st = "NONE"
    /\ "submit" \in wire => exch.st = "NONE"
    /\ exch.st = "NONE" => exch.n = 0

\* a call that is under way holds a record that is old or current, and an
\* answer that is still true
CallTrue(k) ==
    /\ k.kind # "idle" =>
          /\ sent = 1
          /\ k.seen.version <= rec.version
          /\ k.seen.version = rec.version => k.seen = rec
    /\ k.reply.n <= exch.n
    /\ k.reply.st = "FILLED" => exch.n = Quantity
    /\ k.reply.st = "CANCELED" => exch.st = "CANCELED"
    /\ k.reply.st = "REJECTED" => exch.st = "REJECTED"

CallsTrue == \A c \in Callers : CallTrue(call[c])

\* the rows of the first n trades
Rows(n) == (1..n) \X {1}

\* every row is a trade that happened, and the record counts no more than the rows
Counting == fills \subseteq Rows(exch.n) /\ rec.filled <= Filled(fills)

Inv == Typed /\ Sending /\ CallsTrue /\ Counting /\ TerminalAgrees

-----------------------------------------------------------------------------
(* Rows and records.                                                       *)

\* A table of rows of the first n trades holds at most n of them.
LEMMA RowsCount ==
  ASSUME NEW n \in Nat, NEW f, f \subseteq Rows(n)
  PROVE  IsFiniteSet(f) /\ Filled(f) \in Nat /\ Filled(f) <= n
<1>1. IsFiniteSet(1..n) /\ Cardinality(1..n) = n
  BY FS_Interval
<1>2. IsFiniteSet({1}) /\ Cardinality({1}) = 1
  BY FS_Singleton
<1>3. IsFiniteSet(Rows(n)) /\ Cardinality(Rows(n)) = Cardinality(1..n) * Cardinality({1})
  BY <1>1, <1>2, FS_Product DEF Rows
<1>4. Cardinality(Rows(n)) = n
  BY <1>1, <1>2, <1>3
<1>5. IsFiniteSet(f) /\ Cardinality(f) <= Cardinality(Rows(n))
  BY <1>3, FS_Subset
<1>6. Cardinality(f) \in Nat
  BY <1>5, FS_CardinalityType
<1> QED
  BY <1>4, <1>5, <1>6 DEF Filled

\* A larger table counts no less.
LEMMA RowsGrow ==
  ASSUME NEW n \in Nat, NEW f, NEW g, f \subseteq g, g \subseteq Rows(n)
  PROVE  Filled(f) <= Filled(g) /\ Filled(f) \in Nat /\ Filled(g) \in Nat
<1>1. IsFiniteSet(g)
  BY RowsCount
<1>2. Cardinality(f) <= Cardinality(g)
  BY <1>1, FS_Subset
<1>3. f \subseteq Rows(n)
  OBVIOUS
<1> QED
  BY <1>2, <1>3, RowsCount DEF Filled

\* The rows of trades that happened stay rows of trades that happened.
LEMMA AppendRow ==
  ASSUME NEW n \in Nat, NEW t \in 1..n, NEW f, f \subseteq Rows(n)
  PROVE  f \subseteq AppendFill(f, t) /\ AppendFill(f, t) \subseteq Rows(n)
BY DEF AppendFill, Rows

LEMMA AppendRows ==
  ASSUME NEW n \in Nat, NEW k \in 0..n, NEW f, f \subseteq Rows(n)
  PROVE  f \subseteq AppendFills(f, k) /\ AppendFills(f, k) \subseteq Rows(n)
<1>1. f \subseteq AppendFills(f, k)
  BY DEF AppendFills
<1>2. \A t \in 1..k : t \in 1..n /\ AppendFill(f, t) \subseteq Rows(n)
  BY AppendRow
<1> HIDE DEF Rows
<1>3. AppendFills(f, k) \subseteq Rows(n)
  BY <1>2 DEF AppendFills
<1> QED
  BY <1>1, <1>3

LEMMA MovedRecord ==
  ASSUME NEW r \in Records, NEW to \in States
  PROVE  /\ Moved(r, to) \in Records
         /\ Moved(r, to).state = to /\ Moved(r, to).version = r.version + 1
         /\ Moved(r, to).filled = r.filled
<1>1. r.version + 1 \in Nat
  BY DEF Records
<1>2. Moved(r, to) \in Records
  BY <1>1 DEF Moved, Records
<1>3. Moved(r, to).state = to /\ Moved(r, to).version = r.version + 1 /\ Moved(r, to).filled = r.filled
  BY DEF Moved, Records
<1> QED
  BY <1>2, <1>3

LEMMA CountedRecord ==
  ASSUME NEW r \in Records, NEW f, Filled(f) \in Nat
  PROVE  /\ Counted(r, f) \in Records
         /\ Counted(r, f).state = FillTarget(r, f) /\ Counted(r, f).version = r.version + 1
         /\ Counted(r, f).filled = Filled(f)
<1>1. FillTarget(r, f) \in States
  BY DEF FillTarget, States
<1> HIDE DEF FillTarget
<1>2. Moved(r, FillTarget(r, f)) \in Records /\ Moved(r, FillTarget(r, f)).state = FillTarget(r, f)
      /\ Moved(r, FillTarget(r, f)).version = r.version + 1
  BY <1>1, MovedRecord
<1> QED
  BY <1>2 DEF Counted, Records

\* A record that counts the rows of trades that happened is FILLED only when all have.
LEMMA TargetTrue ==
  ASSUME NEW n \in 0..Quantity, NEW r, NEW f, f \subseteq Rows(n)
  PROVE  /\ FillTarget(r, f) \in {"FILLED", "PARTIALLY_FILLED"}
         /\ FillTarget(r, f) = "FILLED" => n = Quantity
<1>1. n \in Nat
  OBVIOUS
<1>2. Filled(f) \in Nat /\ Filled(f) <= n
  BY <1>1, RowsCount
<1>3. Filled(f) = Quantity => n = Quantity
  BY <1>2, QuantityAssumption
<1> QED
  BY <1>3 DEF FillTarget

LEMMA AfterFillsRecord ==
  ASSUME NEW r \in Records, NEW n \in 0..Quantity, NEW k \in 1..n, fills \subseteq Rows(n)
  PROVE  /\ AfterFills(r, k) \in Records
         /\ AfterFills(r, k).state = FillTarget(r, AppendFills(fills, k))
         /\ AfterFills(r, k).version = r.version + k
         /\ AfterFills(r, k).filled = Filled(AppendFills(fills, k))
<1> DEFINE f == AppendFills(fills, k)
<1>1. n \in Nat /\ k \in 0..n /\ k # 0 /\ k \in Nat
  OBVIOUS
<1>2. f \subseteq Rows(n)
  BY <1>1, AppendRows
<1>3. Filled(f) \in Nat
  BY <1>1, <1>2, RowsCount
<1> HIDE DEF f
<1>4. /\ Counted(r, f) \in Records
      /\ Counted(r, f).state = FillTarget(r, f) /\ Counted(r, f).filled = Filled(f)
  BY <1>3, CountedRecord
<1>5. AfterFills(r, k) = [Counted(r, f) EXCEPT !.version = r.version + k]
  BY <1>1 DEF AfterFills, f
<1>6. r.version + k \in Nat
  BY <1>1 DEF Records
<1> USE DEF f
<1> QED
  BY <1>4, <1>5, <1>6 DEF Records

-----------------------------------------------------------------------------
(* Steps of the service.                                                   *)

\* A call that waits for nothing and one that has just begun are true.
LEMMA FreshCall ==
  /\ Idle(NoRecord) \in Calls /\ Idle(NoRecord).kind = "idle" /\ Idle(NoRecord).reply = NoReply
  /\ NoReply.st = "none" /\ NoReply.n = 0
BY QuantityAssumption DEF Idle, NoRecord, Created, Calls, Kinds, Records, States, Outcomes, NoReply

\* A step of the service that leaves the wire and the exchange alone: the record
\* stays or gets a later version, which says what is true, and every call goes on,
\* ends or has just begun.
LEMMA Advance ==
  ASSUME Inv, rec' \in Records, rec' = rec \/ rec'.version > rec.version,
         UNCHANGED <<sent, wire, exch>>,
         sent = 0 <=> rec'.state \in Unsent,
         rec'.state = "FILLED" => exch.n = Quantity,
         rec'.state \in Terminal \ {"FILLED"} => ~Live /\ "submit" \notin wire,
         fills' \subseteq Rows(exch.n), rec'.filled <= Filled(fills'),
         call' \in [Callers -> Calls],
         \A c \in Callers : \/ call'[c] = call[c]
                            \/ call'[c] = Idle(NoRecord)
                            \/ call'[c].seen = rec' /\ sent = 1 /\ call'[c].reply = NoReply
  PROVE  Inv'
<1>0. sent' = sent /\ wire' = wire /\ exch' = exch
  OBVIOUS
<1>1. /\ TypeOK /\ call \in [Callers -> Calls] /\ Sending /\ CallsTrue
      /\ exch \in [st : {"NONE", "OPEN", "REJECTED", "CANCELED", "EXPIRED"}, n : 0..Quantity]
      /\ rec \in Records
  BY DEF Inv, Typed, TypeOK
<1>2. Typed'
  <2>1. exch.n \in 0..Quantity
    BY <1>1
  <2>2. Rows(exch.n) \subseteq Trades \X {1}
    BY <2>1, QuantityAssumption DEF Rows, Trades
  <2>3. fills' \subseteq Trades \X {1}
    BY <2>2
  <2> QED
    BY <1>0, <1>1, <2>3 DEF Typed, TypeOK
<1>3. Sending'
  BY <1>0, <1>1 DEF Sending
<1>4. Counting'
  BY <1>0 DEF Counting
<1>5. TerminalAgrees'
  BY <1>0 DEF TerminalAgrees, Live
<1>6. ASSUME NEW c \in Callers PROVE CallTrue(call[c])'
  <2>1. CallTrue(call[c]) /\ call[c] \in Calls /\ call'[c] \in Calls
    BY <1>1 DEF CallsTrue
  <2>2. CASE call'[c] = call[c]
    <3>1. CASE rec' = rec
      BY <1>0, <2>1, <2>2, <3>1 DEF CallTrue
    <3>2. CASE rec'.version > rec.version
      <4>1. call[c].kind # "idle" => sent = 1 /\ call[c].seen.version < rec'.version
        BY <1>1, <2>1, <3>2 DEF CallTrue, Calls, Records
      <4>2. call[c].seen.version \in Nat /\ rec'.version \in Nat
        BY <2>1 DEF Calls, Records
      <4> QED
        BY <1>0, <2>1, <2>2, <4>1, <4>2 DEF CallTrue
    <3> QED
      BY <3>1, <3>2
  <2>3. CASE call'[c] = Idle(NoRecord)
    BY <1>0, <1>1, <2>3, FreshCall DEF CallTrue
  <2>4. CASE call'[c].seen = rec' /\ sent = 1 /\ call'[c].reply = NoReply
    <3>1. rec'.version <= rec'.version
      BY DEF Records
    <3> QED
      BY <1>0, <1>1, <2>4, <3>1, FreshCall DEF CallTrue
  <2> QED
    BY <2>2, <2>3, <2>4
<1>7. CallsTrue'
  BY <1>6 DEF CallsTrue
<1> QED
  BY <1>2, <1>3, <1>4, <1>5, <1>7 DEF Inv

\* Finish ends one call and leaves the others.
LEMMA FinishCalls ==
  ASSUME call \in [Callers -> Calls], NEW c \in Callers, NEW verdict, Finish(c, verdict)
  PROVE  /\ call' \in [Callers -> Calls]
         /\ \A d \in Callers : call'[d] = call[d] \/ call'[d] = Idle(NoRecord)
BY FreshCall DEF Finish

\* The facts about the state that the steps of the service use.
LEMMA Facts ==
  ASSUME Inv
  PROVE  /\ rec \in Records /\ rec.filled \in Nat /\ rec.version \in Nat /\ rec.state \in States
         /\ exch.n \in 0..Quantity /\ exch.n \in Nat
         /\ fills \subseteq Rows(exch.n) /\ rec.filled <= Filled(fills) /\ Filled(fills) \in Nat
         /\ call \in [Callers -> Calls] /\ Sending /\ TerminalAgrees
<1>1. /\ rec \in Records /\ exch.n \in 0..Quantity /\ call \in [Callers -> Calls] /\ Sending /\ TerminalAgrees
      /\ fills \subseteq Rows(exch.n) /\ rec.filled <= Filled(fills)
  BY DEF Inv, Typed, TypeOK, Counting
<1>2. exch.n \in Nat
  BY <1>1
<1>3. Filled(fills) \in Nat
  BY <1>1, <1>2, RowsCount
<1> QED
  BY <1>1, <1>2, <1>3 DEF Records

\* Return: the record the caller held is the current one, or nothing is saved.
LEMMA ReturnStep ==
  ASSUME Inv, NEW c \in Callers, NEW r \in Records, NEW to \in States \ Unsent, Return(c, r, to),
         call[c].kind # "idle", r.version = call[c].seen.version, r.filled = call[c].seen.filled,
         to = "FILLED" => exch.n = Quantity,
         to \in Terminal \ {"FILLED"} => ~Live /\ "submit" \notin wire,
         UNCHANGED <<fills, sent, wire, exch>>
  PROVE  Inv' /\ rec'.filled >= rec.filled
<1>0. /\ rec \in Records /\ rec.filled \in Nat /\ rec.version \in Nat /\ call \in [Callers -> Calls] /\ Sending
      /\ fills \subseteq Rows(exch.n) /\ rec.filled <= Filled(fills) /\ TerminalAgrees
  BY Facts
<1>1. sent = 1 /\ (r.version = rec.version => call[c].seen = rec)
  BY DEF Inv, CallsTrue, CallTrue
<1>2. PICK verdict : Finish(c, verdict)
  BY DEF Return
<1>3. /\ call' \in [Callers -> Calls]
      /\ \A d \in Callers : call'[d] = call[d] \/ call'[d] = Idle(NoRecord)
  BY <1>0, <1>2, FinishCalls
<1>4. CASE Accepts(r, to) /\ rec' = Moved(r, to)
  <2>1. r.version = rec.version /\ r.filled = rec.filled
    BY <1>1, <1>4 DEF Accepts
  <2>2. /\ rec' \in Records /\ rec'.state = to /\ rec'.version = rec.version + 1
        /\ rec'.filled = rec.filled
    BY <1>4, <2>1, MovedRecord
  <2>3. rec'.version > rec.version /\ rec'.filled >= rec.filled
    BY <1>0, <2>2
  <2>4. sent = 0 <=> rec'.state \in Unsent
    BY <1>1, <2>2
  <2>5. rec'.filled <= Filled(fills')
    BY <1>0, <2>2
  <2> QED
    BY <1>0, <1>3, <2>2, <2>3, <2>4, <2>5, Advance
<1>5. CASE rec' = rec
  BY <1>0, <1>3, <1>5, Advance DEF Sending, TerminalAgrees
<1> QED
  BY <1>4, <1>5 DEF Return

\* What the table of transitions says of the targets of the synchronous methods.
LEMMA MoveSources ==
  ASSUME NEW s \in States
  PROVE  /\ Allowed(s, "RISK_APPROVED") => s \in Unsent
         /\ Allowed(s, "RISK_REJECTED") => s \in Unsent
         /\ Allowed(s, "QUEUED") => s \in Unsent
         /\ Allowed(s, "CANCEL_REQUESTED") => s \notin Unsent
BY DEF Allowed, transitions, States, Unsent

LEMMA MoveStep ==
  ASSUME Inv, NEW to \in {"RISK_APPROVED", "RISK_REJECTED", "QUEUED", "CANCEL_REQUESTED"}, Move(to)
  PROVE  Inv' /\ rec'.filled >= rec.filled
<1>0. /\ rec \in Records /\ rec.filled \in Nat /\ rec.version \in Nat /\ rec.state \in States
      /\ fills \subseteq Rows(exch.n) /\ rec.filled <= Filled(fills) /\ call \in [Callers -> Calls]
      /\ Sending
  BY Facts
<1>1. /\ Allowed(rec.state, to) /\ rec' = Moved(rec, to)
      /\ fills' = fills /\ call' = call /\ sent' = sent /\ wire' = wire /\ exch' = exch
  BY DEF Move
<1>2. to \in States
  BY DEF States
<1>3. rec' \in Records /\ rec'.state = to /\ rec'.version = rec.version + 1 /\ rec'.filled = rec.filled
  BY <1>0, <1>1, <1>2, MovedRecord
<1>4. rec'.version > rec.version /\ rec'.filled >= rec.filled
  BY <1>0, <1>3
<1>5. sent = 0 <=> to \in Unsent
  BY <1>0, <1>1, MoveSources DEF Sending, Unsent
<1>6. to \in Terminal => ~Live /\ "submit" \notin wire
  BY <1>0, <1>5 DEF Sending, Unsent, Terminal, Live
<1>7. to # "FILLED"
  OBVIOUS
<1> QED
  BY <1>0, <1>1, <1>3, <1>4, <1>5, <1>6, <1>7, Advance

LEMMA addFill_Inv ==
  ASSUME Inv, NEW t \in Trades, addFill(t)
  PROVE  Inv' /\ rec'.filled >= rec.filled
<1> DEFINE f == AppendFill(fills, t)
<1>0. /\ rec \in Records /\ rec.filled \in Nat /\ rec.version \in Nat /\ exch.n \in Nat /\ exch.n \in 0..Quantity
      /\ fills \subseteq Rows(exch.n) /\ rec.filled <= Filled(fills) /\ call \in [Callers -> Calls]
      /\ Sending /\ TerminalAgrees
  BY Facts
<1>1. /\ t <= exch.n /\ fills' = f /\ rec' = IF Allowed(rec.state, FillTarget(rec, f)) THEN Counted(rec, f) ELSE rec
      /\ call' = call /\ sent' = sent /\ wire' = wire /\ exch' = exch
  BY DEF addFill
<1>2. t \in 1..exch.n
  BY <1>0, <1>1, QuantityAssumption DEF Trades
<1>3. fills \subseteq f /\ f \subseteq Rows(exch.n)
  BY <1>0, <1>2, AppendRow
<1>4. sent = 1
  BY <1>0, <1>2 DEF Sending
<1> HIDE DEF f
<1>5. Filled(fills) <= Filled(f) /\ Filled(fills) \in Nat /\ Filled(f) \in Nat
  BY <1>0, <1>3, RowsGrow
<1>6. rec.filled <= Filled(f)
  BY <1>0, <1>5
<1>7. CASE rec' = rec
  BY <1>0, <1>1, <1>3, <1>6, <1>7, Advance DEF Sending, TerminalAgrees
<1>8. CASE rec' = Counted(rec, f)
  <2>1. /\ rec' \in Records /\ rec'.state = FillTarget(rec, f) /\ rec'.version = rec.version + 1
        /\ rec'.filled = Filled(f)
    BY <1>0, <1>5, <1>8, CountedRecord
  <2>2. rec'.version > rec.version /\ rec'.filled >= rec.filled /\ rec'.filled <= Filled(f)
    BY <1>0, <1>5, <1>6, <2>1
  <2>3. rec'.state \in {"FILLED", "PARTIALLY_FILLED"} /\ (rec'.state = "FILLED" => exch.n = Quantity)
    BY <1>0, <1>3, <2>1, TargetTrue
  <2>4. rec'.state \notin Unsent /\ rec'.state \notin Terminal \ {"FILLED"}
    BY <2>3 DEF Unsent, Terminal
  <2> QED
    BY <1>0, <1>1, <1>3, <1>4, <2>1, <2>2, <2>3, <2>4, Advance
<1> QED
  BY <1>1, <1>7, <1>8

LEMMA cancel_Inv ==
  ASSUME Inv, NEW c \in Callers, cancel(c)
  PROVE  Inv' /\ rec'.filled >= rec.filled
<1>0. /\ rec \in Records /\ rec.filled \in Nat /\ rec.version \in Nat /\ call \in [Callers -> Calls]
      /\ fills \subseteq Rows(exch.n) /\ rec.filled <= Filled(fills) /\ Sending
  BY Facts
<1>1. /\ rec.state = "CANCEL_REQUESTED" /\ rec' = Moved(rec, "CANCELING")
      /\ call' = [call EXCEPT ![c] = [kind |-> "cancel", seen |-> rec', reply |-> NoReply]]
      /\ fills' = fills /\ sent' = sent /\ exch' = exch
      /\ wire' = wire \/ wire' = wire \cup {"cancel"}
  BY DEF cancel, Start
<1>2. /\ rec' \in Records /\ rec'.state = "CANCELING" /\ rec'.version = rec.version + 1
      /\ rec'.filled = rec.filled
  BY <1>0, <1>1, MovedRecord DEF States
<1>3. rec'.version > rec.version /\ rec'.filled >= rec.filled
  BY <1>0, <1>2
<1>4. sent = 1
  BY <1>0, <1>1 DEF Sending, Unsent
<1>5. call'[c] = [kind |-> "cancel", seen |-> rec', reply |-> NoReply] /\ call'[c] \in Calls
  BY <1>0, <1>1, <1>2, FreshCall, QuantityAssumption DEF Calls, Kinds, Outcomes, NoReply
<1>6. /\ call' \in [Callers -> Calls]
      /\ \A d \in Callers : \/ call'[d] = call[d]
                            \/ call'[d].seen = rec' /\ call'[d].reply = NoReply
  BY <1>0, <1>1, <1>5
<1>7. Typed'
  <2>1. wire' \subseteq {"submit", "cancel"} /\ TypeOK
    BY <1>1 DEF Inv, Typed, TypeOK
  <2> QED
    BY <1>1, <1>2, <1>6, <2>1 DEF Typed, TypeOK
<1>8. Sending' /\ Counting' /\ TerminalAgrees'
  BY <1>0, <1>1, <1>2, <1>4 DEF Sending, Counting, TerminalAgrees, Unsent, Terminal
<1>9. ASSUME NEW d \in Callers PROVE CallTrue(call[d])'
  <2>1. CallTrue(call[d]) /\ call[d] \in Calls /\ rec'.version \in Nat
    BY <1>0, <1>2 DEF Inv, CallsTrue, Records
  <2>2. CASE call'[d] = call[d]
    <3>1. call[d].kind # "idle" => call[d].seen.version < rec'.version /\ call[d].seen.version \in Nat
      BY <1>0, <1>2, <2>1 DEF CallTrue, Calls, Records
    <3> QED
      BY <1>1, <1>4, <2>1, <2>2, <3>1 DEF CallTrue
  <2>3. CASE call'[d].seen = rec' /\ call'[d].reply = NoReply
    <3>1. exch.n \in Nat
      BY Facts
    <3> QED
      BY <1>1, <1>4, <2>1, <2>3, <3>1, FreshCall DEF CallTrue
  <2> QED
    BY <1>6, <2>2, <2>3
<1>10. CallsTrue'
  BY <1>9 DEF CallsTrue
<1> QED
  BY <1>3, <1>7, <1>8, <1>10 DEF Inv

LEMMA submit_Inv ==
  ASSUME Inv, NEW c \in Callers, submit(c)
  PROVE  Inv' /\ rec'.filled >= rec.filled
<1>0. /\ rec \in Records /\ rec.filled \in Nat /\ rec.version \in Nat /\ call \in [Callers -> Calls]
      /\ fills \subseteq Rows(exch.n) /\ rec.filled <= Filled(fills) /\ Sending
  BY Facts
<1>1. /\ rec.state = "QUEUED" /\ rec' = Moved(rec, "SUBMITTING")
      /\ call' = [call EXCEPT ![c] = [kind |-> "submit", seen |-> rec', reply |-> NoReply]]
      /\ fills' = fills /\ sent' = sent + 1 /\ exch' = exch /\ wire' = wire \cup {"submit"}
  BY DEF submit, Start
<1>2. /\ rec' \in Records /\ rec'.state = "SUBMITTING" /\ rec'.version = rec.version + 1
      /\ rec'.filled = rec.filled
  BY <1>0, <1>1, MovedRecord DEF States
<1>3. rec'.version > rec.version /\ rec'.filled >= rec.filled
  BY <1>0, <1>2
<1>4. sent = 0 /\ sent' = 1 /\ exch.st = "NONE"
  BY <1>0, <1>1 DEF Sending, Unsent
<1>5. call'[c] = [kind |-> "submit", seen |-> rec', reply |-> NoReply] /\ call'[c] \in Calls
  BY <1>0, <1>1, <1>2, FreshCall, QuantityAssumption DEF Calls, Kinds, Outcomes, NoReply
<1>6. /\ call' \in [Callers -> Calls]
      /\ \A d \in Callers : \/ call'[d] = call[d]
                            \/ call'[d].seen = rec' /\ call'[d].reply = NoReply
  BY <1>0, <1>1, <1>5
<1>7. Typed'
  <2>1. wire' \subseteq {"submit", "cancel"} /\ TypeOK
    BY <1>1 DEF Inv, Typed, TypeOK
  <2> QED
    BY <1>1, <1>2, <1>4, <1>6, <2>1 DEF Typed, TypeOK
<1>8. Sending' /\ Counting' /\ TerminalAgrees'
  BY <1>0, <1>1, <1>2, <1>4 DEF Sending, Counting, TerminalAgrees, Unsent, Terminal
<1>9. ASSUME NEW d \in Callers PROVE CallTrue(call[d])'
  <2>1. CallTrue(call[d]) /\ exch.n \in Nat /\ rec'.version \in Nat
    BY <1>2, Facts DEF Inv, CallsTrue, Records
  <2>2. CASE call'[d] = call[d]
    BY <1>1, <1>4, <2>1, <2>2 DEF CallTrue
  <2>3. CASE call'[d].seen = rec' /\ call'[d].reply = NoReply
    BY <1>1, <1>4, <2>1, <2>3, FreshCall DEF CallTrue
  <2> QED
    BY <1>6, <2>2, <2>3
<1>10. CallsTrue'
  BY <1>9 DEF CallsTrue
<1> QED
  BY <1>3, <1>7, <1>8, <1>10 DEF Inv

LEMMA reconcile_Inv ==
  ASSUME Inv, NEW c \in Callers, reconcile(c)
  PROVE  Inv' /\ rec'.filled >= rec.filled
<1>0. /\ rec \in Records /\ rec.filled \in Nat /\ call \in [Callers -> Calls]
      /\ fills \subseteq Rows(exch.n) /\ rec.filled <= Filled(fills) /\ Sending /\ TerminalAgrees
  BY Facts
<1>1. /\ rec.state \in Reconcilable
      /\ call' = [call EXCEPT ![c] = [kind |-> "reconcile", seen |-> rec, reply |-> NoReply]]
      /\ rec' = rec /\ fills' = fills /\ sent' = sent /\ exch' = exch /\ wire' = wire
  BY DEF reconcile, Start
<1>2. sent = 1
  BY <1>0, <1>1 DEF Sending, Unsent, Reconcilable
<1>3. call'[c] = [kind |-> "reconcile", seen |-> rec, reply |-> NoReply] /\ call'[c] \in Calls
  BY <1>0, <1>1, FreshCall, QuantityAssumption DEF Calls, Kinds, Outcomes, NoReply
<1>4. /\ call' \in [Callers -> Calls]
      /\ \A d \in Callers : \/ call'[d] = call[d]
                            \/ call'[d].seen = rec' /\ sent = 1 /\ call'[d].reply = NoReply
  BY <1>0, <1>1, <1>2, <1>3
<1> QED
  BY <1>0, <1>1, <1>2, <1>4, Advance DEF Sending, TerminalAgrees

\* what is known of a call whose answer is there
LEMMA AnsweredCall ==
  ASSUME Inv, NEW c \in Callers, call[c].kind # "idle"
  PROVE  /\ call[c] \in Calls /\ call[c].seen \in Records /\ call[c].reply.st \in Outcomes
         /\ call[c].reply.n \in 0..exch.n /\ sent = 1
         /\ call[c].seen.version = rec.version => call[c].seen = rec
         /\ call[c].reply.st = "FILLED" => exch.n = Quantity
         /\ call[c].reply.st \in {"CANCELED", "REJECTED"} => ~Live /\ "submit" \notin wire
<1>1. call[c] \in Calls /\ CallTrue(call[c]) /\ exch.n \in Nat /\ Sending
  BY Facts DEF Inv, CallsTrue
<1>2. call[c].seen \in Records /\ call[c].reply.st \in Outcomes /\ call[c].reply.n \in 0..Quantity
  BY <1>1 DEF Calls
<1>3. call[c].reply.n \in 0..exch.n
  BY <1>1, <1>2, QuantityAssumption DEF CallTrue
<1> QED
  BY <1>1, <1>2, <1>3 DEF CallTrue, Sending, Live

LEMMA submitReturn_Inv ==
  ASSUME Inv, NEW c \in Callers, submitReturn(c)
  PROVE  Inv' /\ rec'.filled >= rec.filled
<1> DEFINE st == call[c].reply.st
           r  == [call[c].seen EXCEPT !.xid = (st = "ACCEPTED")]
           to == IF st \in {"ACCEPTED", "REJECTED"} THEN st ELSE "SUBMISSION_UNKNOWN"
<1>1. call[c].kind # "idle" /\ Return(c, r, to) /\ UNCHANGED <<fills, sent, wire, exch>>
  BY DEF submitReturn, Answered
<1>2. /\ call[c].seen \in Records
      /\ st \in {"CANCELED", "REJECTED"} => ~Live /\ "submit" \notin wire
  BY <1>1, AnsweredCall
<1>3. (st = "ACCEPTED") \in BOOLEAN
  OBVIOUS
<1>4. r \in Records /\ r.version = call[c].seen.version /\ r.filled = call[c].seen.filled
  BY <1>2, <1>3 DEF Records
<1>5. to \in States \ Unsent /\ to # "FILLED" /\ (to \in Terminal => to = "REJECTED")
  BY DEF States, Unsent, Terminal
<1>6. to = "REJECTED" => st = "REJECTED"
  OBVIOUS
<1> HIDE DEF st, r, to
<1>7. to \in Terminal \ {"FILLED"} => ~Live /\ "submit" \notin wire
  BY <1>2, <1>5, <1>6
<1> QED
  BY <1>1, <1>4, <1>5, <1>7, ReturnStep

LEMMA cancelReturn_Inv ==
  ASSUME Inv, NEW c \in Callers, cancelReturn(c)
  PROVE  Inv' /\ rec'.filled >= rec.filled
<1> DEFINE st == call[c].reply.st
           to == CancelTarget(st)
<1>1. call[c].kind # "idle" /\ Return(c, call[c].seen, to) /\ UNCHANGED <<fills, sent, wire, exch>>
  BY DEF cancelReturn, Answered
<1>2. /\ call[c].seen \in Records
      /\ st = "FILLED" => exch.n = Quantity
      /\ st \in {"CANCELED", "REJECTED"} => ~Live /\ "submit" \notin wire
  BY <1>1, AnsweredCall
<1> HIDE DEF st
<1>3. /\ to \in States \ Unsent
      /\ to = "FILLED" => st = "FILLED"
      /\ to \in Terminal \ {"FILLED"} => st = "CANCELED"
  BY DEF CancelTarget, States, Unsent, Terminal
<1> HIDE DEF to
<1> QED
  BY <1>1, <1>2, <1>3, ReturnStep

\* the states a snapshot of the exchange puts a record into
LEMMA SnapshotTarget ==
  ASSUME NEW st
  PROVE  /\ ReconcileTarget(st) \in States \ Unsent
         /\ ReconcileTarget(st) = "FILLED" => st = "FILLED"
         /\ ReconcileTarget(st) \in Terminal \ {"FILLED"} => st \in {"CANCELED", "REJECTED"}
BY DEF ReconcileTarget, States, Unsent, Terminal

\* A snapshot whose k fills are applied to the current record: stored and counted.
LEMMA FillsStep ==
  ASSUME Inv, NEW c \in Callers, call[c].kind # "idle", NEW k \in 1..call[c].reply.n,
         call[c].seen.version = rec.version
  PROVE  LET r == AfterFills(call[c].seen, k)
             f == AppendFills(fills, k)
         IN  /\ r \in Records /\ r.version > rec.version /\ r.filled >= rec.filled
             /\ r.state \in {"FILLED", "PARTIALLY_FILLED"} /\ (r.state = "FILLED" => exch.n = Quantity)
             /\ r.filled = Filled(f) /\ f \subseteq Rows(exch.n) /\ fills \subseteq f /\ Filled(f) \in Nat
<1> DEFINE r == AfterFills(call[c].seen, k)
           f == AppendFills(fills, k)
<1>0. /\ rec \in Records /\ rec.filled \in Nat /\ rec.version \in Nat /\ exch.n \in 0..Quantity /\ exch.n \in Nat
      /\ fills \subseteq Rows(exch.n) /\ rec.filled <= Filled(fills) /\ Filled(fills) \in Nat
  BY Facts
<1>1. call[c].seen = rec /\ k \in 1..exch.n /\ k \in 0..exch.n
  <2>1. call[c].seen = rec /\ call[c].reply.n \in 0..exch.n
    BY AnsweredCall
  <2> QED
    BY <1>0, <2>1
<1>2. /\ r \in Records /\ r.state = FillTarget(rec, f) /\ r.version = rec.version + k
      /\ r.filled = Filled(f)
  BY <1>0, <1>1, AfterFillsRecord
<1>3. f \subseteq Rows(exch.n) /\ fills \subseteq f
  BY <1>0, <1>1, AppendRows
<1> HIDE DEF f, r
<1>4. Filled(fills) <= Filled(f) /\ Filled(f) \in Nat
  BY <1>0, <1>3, RowsGrow
<1>5. r.state \in {"FILLED", "PARTIALLY_FILLED"} /\ (r.state = "FILLED" => exch.n = Quantity)
  BY <1>0, <1>2, <1>3, TargetTrue
<1>6. r.version > rec.version /\ r.filled >= rec.filled
  BY <1>0, <1>1, <1>2, <1>4
<1>7. /\ r \in Records /\ r.version > rec.version /\ r.filled >= rec.filled
      /\ r.state \in {"FILLED", "PARTIALLY_FILLED"} /\ (r.state = "FILLED" => exch.n = Quantity)
      /\ r.filled = Filled(f) /\ f \subseteq Rows(exch.n) /\ fills \subseteq f /\ Filled(f) \in Nat
  BY <1>2, <1>3, <1>4, <1>5, <1>6
<1> QED
  BY <1>7 DEF r, f

LEMMA reconcileReturn_Inv ==
  ASSUME Inv, NEW c \in Callers, reconcileReturn(c)
  PROVE  Inv' /\ rec'.filled >= rec.filled
<1> DEFINE r == call[c].seen
           st == call[c].reply.st
           n == call[c].reply.n
           counted == AfterFills(r, n)
           to == ReconcileTarget(st)
<1>0. /\ rec \in Records /\ rec.filled \in Nat /\ rec.version \in Nat /\ call \in [Callers -> Calls] /\ Sending
      /\ exch.n \in Nat /\ fills \subseteq Rows(exch.n) /\ rec.filled <= Filled(fills) /\ Filled(fills) \in Nat
      /\ TerminalAgrees
  BY Facts
<1>1. call[c].kind # "idle" /\ sent' = sent /\ wire' = wire /\ exch' = exch
  BY DEF reconcileReturn, Answered
<1>2. /\ r \in Records /\ n \in 0..exch.n /\ sent = 1
      /\ r.version = rec.version => r = rec
      /\ st = "FILLED" => exch.n = Quantity
      /\ st \in {"CANCELED", "REJECTED"} => ~Live /\ "submit" \notin wire
  BY <1>1, AnsweredCall
<1>3. /\ to \in States \ Unsent
      /\ to = "FILLED" => exch.n = Quantity
      /\ to \in Terminal \ {"FILLED"} => ~Live /\ "submit" \notin wire
  BY <1>2, SnapshotTarget
<1>4. CASE st = "error" /\ Finish(c, "failed") /\ UNCHANGED <<rec, fills>>
  <2>1. /\ call' \in [Callers -> Calls]
        /\ \A d \in Callers : call'[d] = call[d] \/ call'[d] = Idle(NoRecord)
    BY <1>0, <1>4, FinishCalls
  <2> QED
    BY <1>0, <1>1, <1>4, <2>1, Advance DEF Sending, TerminalAgrees
<1>5. CASE st = "DIFF" /\ Return(c, r, "RECONCILIATION_REQUIRED") /\ UNCHANGED fills
  <2>1. "RECONCILIATION_REQUIRED" \in States \ Unsent /\ "RECONCILIATION_REQUIRED" \notin Terminal
    BY DEF States, Unsent, Terminal
  <2> QED
    BY <1>1, <1>2, <1>5, <2>1, ReturnStep
<1>6. CASE Return(c, r, to) /\ UNCHANGED fills
  <2> HIDE DEF to
  <2> QED
    BY <1>1, <1>2, <1>3, <1>6, ReturnStep
<1>7. CASE n > 0 /\ fills' = AppendFills(fills, 1) /\ Finish(c, "refused") /\ UNCHANGED rec
  <2>1. /\ call' \in [Callers -> Calls]
        /\ \A d \in Callers : call'[d] = call[d] \/ call'[d] = Idle(NoRecord)
    BY <1>0, <1>7, FinishCalls
  <2>2. 1 \in 0..exch.n
    BY <1>0, <1>2, <1>7
  <2>3. fills \subseteq fills' /\ fills' \subseteq Rows(exch.n)
    BY <1>0, <1>7, <2>2, AppendRows
  <2>4. Filled(fills) <= Filled(fills') /\ Filled(fills') \in Nat
    BY <1>0, <2>3, RowsGrow
  <2>5. rec'.filled <= Filled(fills')
    BY <1>0, <1>7, <2>4
  <2> QED
    BY <1>0, <1>1, <1>7, <2>1, <2>3, <2>5, Advance DEF Sending, TerminalAgrees
<1>8. ASSUME n > 0, Accepts(r, FillTarget(r, AppendFills(fills, 1))), fills' = AppendFills(fills, n),
             NEW verdict, Finish(c, verdict), rec' = Moved(counted, to) \/ rec' = counted
      PROVE  Inv' /\ rec'.filled >= rec.filled
  <2>1. /\ call' \in [Callers -> Calls]
        /\ \A d \in Callers : call'[d] = call[d] \/ call'[d] = Idle(NoRecord)
    BY <1>0, <1>8, FinishCalls
  <2>2. r.version = rec.version /\ n \in 1..n
    BY <1>0, <1>2, <1>8 DEF Accepts
  <2>3. /\ counted \in Records /\ counted.version > rec.version /\ counted.filled >= rec.filled
        /\ counted.state \in {"FILLED", "PARTIALLY_FILLED"}
        /\ counted.state = "FILLED" => exch.n = Quantity
        /\ counted.filled = Filled(fills') /\ fills' \subseteq Rows(exch.n) /\ Filled(fills') \in Nat
    BY <1>1, <1>8, <2>2, FillsStep
  <2> HIDE DEF r, st, n, counted, to
  <2>4. counted.filled <= Filled(fills')
    BY <2>3
  <2>5. CASE rec' = counted
    <3>1. rec'.state \notin Unsent /\ rec'.state \notin Terminal \ {"FILLED"}
      BY <2>3, <2>5 DEF Unsent, Terminal
    <3> QED
      BY <1>1, <1>2, <2>1, <2>3, <2>4, <2>5, <3>1, Advance
  <2>6. CASE rec' = Moved(counted, to)
    <3>1. /\ rec' \in Records /\ rec'.state = to /\ rec'.version = counted.version + 1
          /\ rec'.filled = counted.filled
      BY <1>3, <2>3, <2>6, MovedRecord
    <3>2. counted.version \in Nat
      BY <2>3 DEF Records
    <3>3. rec'.version > rec.version
      BY <1>0, <2>3, <3>1, <3>2
    <3> QED
      BY <1>1, <1>2, <1>3, <2>1, <2>3, <2>4, <3>1, <3>3, Advance
  <2> QED
    BY <1>8, <2>5, <2>6
<1> QED
  BY <1>4, <1>5, <1>6, <1>7, <1>8 DEF reconcileReturn

LEMMA crash_Inv == ASSUME Inv, crash PROVE Inv' /\ rec'.filled >= rec.filled
<1>0. /\ rec \in Records /\ rec.filled \in Nat /\ rec.version \in Nat /\ call \in [Callers -> Calls] /\ Sending
      /\ exch.n \in Nat /\ fills \subseteq Rows(exch.n) /\ rec.filled <= Filled(fills) /\ Filled(fills) \in Nat
      /\ TerminalAgrees
  BY Facts
<1>1. /\ call' = [c \in Callers |-> Idle(NoRecord)] /\ sent' = sent /\ wire' = wire /\ exch' = exch
  BY DEF crash
<1>2. call' \in [Callers -> Calls] /\ \A d \in Callers : call'[d] = Idle(NoRecord)
  BY <1>1, FreshCall
<1>3. CASE UNCHANGED <<rec, fills>>
  BY <1>0, <1>1, <1>2, <1>3, Advance DEF Sending, TerminalAgrees
<1>4. ASSUME NEW c \in Callers, NEW k \in 1..call[c].reply.n, Answered(c, "reconcile"),
             Accepts(call[c].seen, FillTarget(call[c].seen, AppendFills(fills, 1))),
             fills' = AppendFills(fills, k), NEW j \in {k - 1, k}, rec' = AfterFills(call[c].seen, j)
      PROVE  Inv' /\ rec'.filled >= rec.filled
  <2>1. call[c].kind # "idle" /\ call[c].seen.version = rec.version
    BY <1>4 DEF Answered, Accepts
  <2>2. call[c].seen = rec /\ call[c].reply.n \in 0..exch.n /\ sent = 1
    BY <2>1, AnsweredCall
  <2>3. fills' \subseteq Rows(exch.n) /\ fills \subseteq fills'
    BY <1>4, <2>1, FillsStep
  <2>4. Filled(fills) <= Filled(fills') /\ Filled(fills') \in Nat
    BY <1>0, <2>3, RowsGrow
  <2>5. CASE j = 0
    <3>1. rec' = rec
      BY <1>4, <2>2, <2>5 DEF AfterFills
    <3>2. rec'.filled <= Filled(fills')
      BY <1>0, <2>4, <3>1
    <3> QED
      BY <1>0, <1>1, <1>2, <2>3, <3>1, <3>2, Advance DEF Sending, TerminalAgrees
  <2>6. CASE j # 0
    <3>1. j \in 1..call[c].reply.n /\ j \in 0..exch.n /\ j <= k /\ k \in 0..exch.n
      BY <1>0, <1>4, <2>2, <2>6
    <3>2. /\ rec' \in Records /\ rec'.version > rec.version /\ rec'.filled >= rec.filled
          /\ rec'.state \in {"FILLED", "PARTIALLY_FILLED"}
          /\ rec'.state = "FILLED" => exch.n = Quantity
          /\ rec'.filled = Filled(AppendFills(fills, j))
      BY <1>4, <2>1, <3>1, FillsStep
    <3>3. AppendFills(fills, j) \subseteq fills'
      BY <1>4, <3>1 DEF AppendFills
    <3>4. rec'.filled <= Filled(fills')
      BY <1>0, <2>3, <3>2, <3>3, RowsGrow
    <3>5. rec'.state \notin Unsent /\ rec'.state \notin Terminal \ {"FILLED"}
      BY <3>2 DEF Unsent, Terminal
    <3> QED
      BY <1>1, <1>2, <2>2, <2>3, <3>2, <3>4, <3>5, Advance
  <2> QED
    BY <2>5, <2>6
<1> QED
  BY <1>3, <1>4 DEF crash

-----------------------------------------------------------------------------
(* Steps of the exchange.                                                  *)

Orders == [st : {"NONE", "OPEN", "REJECTED", "CANCELED", "EXPIRED"}, n : 0..Quantity]

\* an answer that is true of the order as it is after the step
Truthful(reply) ==
    /\ reply.n <= exch'.n
    /\ reply.st = "FILLED" => exch'.n = Quantity
    /\ reply.st = "CANCELED" => exch'.st = "CANCELED"
    /\ reply.st = "REJECTED" => exch'.st = "REJECTED"

\* A step of the exchange: the order trades on, ends for good, or stays; the calls
\* that get an answer get a true one.
LEMMA ExchangeStep ==
  ASSUME Inv, UNCHANGED <<rec, fills, sent>>, wire' \subseteq wire,
         exch' \in Orders, exch'.n >= exch.n,
         exch.st \in {"CANCELED", "REJECTED"} => exch'.st = exch.st,
         sent = 0 => exch' = exch,
         "submit" \in wire' => exch'.st = "NONE", exch'.st = "NONE" => exch'.n = 0,
         rec.state \in Terminal \ {"FILLED"} => ~Live',
         call' \in [Callers -> Calls],
         \A c \in Callers : \/ call'[c] = call[c]
                            \/ /\ call'[c].kind = call[c].kind /\ call'[c].seen = call[c].seen
                               /\ Truthful(call'[c].reply)
  PROVE  Inv' /\ rec'.filled >= rec.filled
<1>0. rec' = rec /\ fills' = fills /\ sent' = sent
  OBVIOUS
<1>1. /\ TypeOK /\ rec.filled \in Nat /\ exch.n \in 0..Quantity /\ exch.n \in Nat
      /\ fills \subseteq Rows(exch.n) /\ rec.filled <= Filled(fills)
      /\ call \in [Callers -> Calls] /\ Sending /\ TerminalAgrees
  BY Facts DEF Inv, Typed
<1>2. exch'.n \in 0..Quantity /\ exch'.n \in Nat
  BY DEF Orders
<1>3. exch.n = Quantity => exch'.n = Quantity
  BY <1>1, <1>2, QuantityAssumption
<1>4. Typed'
  BY <1>0, <1>1 DEF Typed, TypeOK, Orders
<1>5. Sending'
  BY <1>0, <1>1 DEF Sending
<1>6. Rows(exch.n) \subseteq Rows(exch'.n)
  BY <1>1, <1>2 DEF Rows
<1>7. Counting'
  BY <1>0, <1>1, <1>6 DEF Counting
<1>8. TerminalAgrees'
  BY <1>0, <1>1, <1>3 DEF TerminalAgrees
<1>9. ASSUME NEW c \in Callers PROVE CallTrue(call[c])'
  <2>1. CallTrue(call[c]) /\ call[c].reply.n \in Nat
    BY <1>1 DEF Inv, CallsTrue, Calls
  <2>2. CASE call'[c] = call[c]
    <3>1. call[c].reply.n <= exch'.n
      BY <1>1, <1>2, <2>1 DEF CallTrue
    <3> QED
      BY <1>0, <1>3, <2>1, <2>2, <3>1 DEF CallTrue
  <2>3. CASE /\ call'[c].kind = call[c].kind /\ call'[c].seen = call[c].seen
             /\ Truthful(call'[c].reply)
    BY <1>0, <2>1, <2>3 DEF CallTrue, Truthful
  <2> QED
    BY <2>2, <2>3
<1>10. CallsTrue'
  BY <1>9 DEF CallsTrue
<1>11. rec'.filled >= rec.filled
  BY <1>0, <1>1
<1> QED
  BY <1>4, <1>5, <1>7, <1>8, <1>10, <1>11 DEF Inv

LEMMA AnswerCalls ==
  ASSUME call \in [Callers -> Calls], NEW c \in Callers, NEW st \in Outcomes, NEW n \in 0..Quantity,
         Answer(c, st, n), Truthful([st |-> st, n |-> n])
  PROVE  /\ call' \in [Callers -> Calls]
         /\ \A d \in Callers : \/ call'[d] = call[d]
                               \/ /\ call'[d].kind = call[d].kind /\ call'[d].seen = call[d].seen
                                  /\ Truthful(call'[d].reply)
<1>1. call' = [call EXCEPT ![c] = [kind |-> call[c].kind, seen |-> call[c].seen, reply |-> [st |-> st, n |-> n]]]
  BY DEF Answer
<1>2. [kind |-> call[c].kind, seen |-> call[c].seen, reply |-> [st |-> st, n |-> n]] \in Calls
  BY DEF Calls
<1>3. call'[c].kind = call[c].kind /\ call'[c].seen = call[c].seen /\ call'[c].reply = [st |-> st, n |-> n]
  BY <1>1
<1>4. call' \in [Callers -> Calls] /\ \A d \in Callers : d # c => call'[d] = call[d]
  BY <1>1, <1>2
<1> QED
  BY <1>3, <1>4

LEMMA RepliesCalls ==
  ASSUME call \in [Callers -> Calls], NEW kind, NEW st \in Outcomes, Replies(kind, st),
         Truthful([st |-> st, n |-> 0])
  PROVE  /\ call' \in [Callers -> Calls]
         /\ \A d \in Callers : \/ call'[d] = call[d]
                               \/ /\ call'[d].kind = call[d].kind /\ call'[d].seen = call[d].seen
                                  /\ Truthful(call'[d].reply)
<1>1. CASE UNCHANGED call
  BY <1>1
<1>2. ASSUME NEW c \in Callers, Answer(c, st, 0)
      PROVE  /\ call' \in [Callers -> Calls]
             /\ \A d \in Callers : \/ call'[d] = call[d]
                                   \/ /\ call'[d].kind = call[d].kind /\ call'[d].seen = call[d].seen
                                      /\ Truthful(call'[d].reply)
  <2>1. 0 \in 0..Quantity
    BY QuantityAssumption
  <2> QED
    BY <1>2, <2>1, AnswerCalls
<1> QED
  BY <1>1, <1>2 DEF Replies

\* the facts about the state that the steps of the exchange use
LEMMA OrderFacts ==
  ASSUME Inv
  PROVE  /\ exch \in Orders /\ exch.n \in 0..Quantity /\ exch.n \in Nat
         /\ call \in [Callers -> Calls] /\ Sending /\ TerminalAgrees
  BY Facts DEF Inv, Typed, TypeOK, Orders

LEMMA portFails_Inv ==
  ASSUME Inv, NEW c \in Callers, portFails(c)
  PROVE  Inv' /\ rec'.filled >= rec.filled
<1>0. /\ exch \in Orders /\ exch.n \in 0..Quantity /\ exch.n \in Nat
      /\ call \in [Callers -> Calls] /\ Sending /\ TerminalAgrees
  BY OrderFacts
<1>1. Answer(c, "error", 0) /\ UNCHANGED <<rec, fills, sent>> /\ wire' = wire /\ exch' = exch
  BY DEF portFails
<1>2. Truthful([st |-> "error", n |-> 0]) /\ "error" \in Outcomes /\ 0 \in 0..Quantity
  BY <1>0, <1>1, QuantityAssumption DEF Truthful, Outcomes
<1>3. /\ call' \in [Callers -> Calls]
      /\ \A d \in Callers : \/ call'[d] = call[d]
                            \/ /\ call'[d].kind = call[d].kind /\ call'[d].seen = call[d].seen
                               /\ Truthful(call'[d].reply)
  BY <1>0, <1>1, <1>2, AnswerCalls
<1> QED
  BY <1>0, <1>1, <1>3, ExchangeStep DEF Sending, TerminalAgrees, Live

LEMMA exchangeLookup_Inv ==
  ASSUME Inv, NEW c \in Callers, exchangeLookup(c)
  PROVE  Inv' /\ rec'.filled >= rec.filled
<1>0. /\ exch \in Orders /\ exch.n \in 0..Quantity /\ exch.n \in Nat
      /\ call \in [Callers -> Calls] /\ Sending /\ TerminalAgrees
  BY OrderFacts
<1>1. /\ Answer(c, Reported, exch.n) \/ Answer(c, "DIFF", 0)
      /\ UNCHANGED <<rec, fills, sent>> /\ wire' = wire /\ exch' = exch
  BY DEF exchangeLookup
<1>2. /\ Reported \in Outcomes
      /\ Reported = "FILLED" => exch.n = Quantity
      /\ Reported \in {"CANCELED", "REJECTED"} => exch.st = Reported
  BY <1>0 DEF Reported, Outcomes, Orders
<1>3. Truthful([st |-> Reported, n |-> exch.n])
  <2> HIDE DEF Reported
  <2> QED
    BY <1>0, <1>1, <1>2 DEF Truthful
<1>4. Truthful([st |-> "DIFF", n |-> 0]) /\ "DIFF" \in Outcomes /\ 0 \in 0..Quantity
  BY <1>0, <1>1, QuantityAssumption DEF Truthful, Outcomes
<1>5. /\ call' \in [Callers -> Calls]
      /\ \A d \in Callers : \/ call'[d] = call[d]
                            \/ /\ call'[d].kind = call[d].kind /\ call'[d].seen = call[d].seen
                               /\ Truthful(call'[d].reply)
  BY <1>0, <1>1, <1>2, <1>3, <1>4, AnswerCalls
<1> QED
  BY <1>0, <1>1, <1>5, ExchangeStep DEF Sending, TerminalAgrees, Live

LEMMA exchangeSubmit_Inv == ASSUME Inv, exchangeSubmit PROVE Inv' /\ rec'.filled >= rec.filled
<1>0. /\ exch \in Orders /\ exch.n \in 0..Quantity /\ exch.n \in Nat
      /\ call \in [Callers -> Calls] /\ Sending /\ TerminalAgrees
  BY OrderFacts
<1>1. /\ "submit" \in wire /\ wire' = wire \ {"submit"} /\ UNCHANGED <<rec, fills, sent>>
      /\ exch' = [st |-> "OPEN", n |-> 0] \/ exch' = [st |-> "REJECTED", n |-> 0]
  BY DEF exchangeSubmit
<1>2. exch.st = "NONE" /\ exch.n = 0 /\ sent # 0 /\ rec.state \notin Terminal \ {"FILLED"}
  BY <1>0, <1>1 DEF Sending, TerminalAgrees
<1>3. exch' \in Orders /\ exch'.n = 0 /\ exch'.st # "NONE"
  BY <1>1, QuantityAssumption DEF Orders
<1>4. PICK st \in {"ACCEPTED", "REJECTED", "UNKNOWN"} :
         Replies("submit", st) /\ (st = "REJECTED" => exch'.st = "REJECTED")
  BY DEF exchangeSubmit
<1>5. Truthful([st |-> st, n |-> 0]) /\ st \in Outcomes
  BY <1>3, <1>4 DEF Truthful, Outcomes
<1>6. /\ call' \in [Callers -> Calls]
      /\ \A d \in Callers : \/ call'[d] = call[d]
                            \/ /\ call'[d].kind = call[d].kind /\ call'[d].seen = call[d].seen
                               /\ Truthful(call'[d].reply)
  BY <1>0, <1>4, <1>5, RepliesCalls
<1>7. exch'.n >= exch.n /\ wire' \subseteq wire /\ "submit" \notin wire'
  BY <1>1, <1>2, <1>3
<1> QED
  BY <1>1, <1>2, <1>3, <1>6, <1>7, ExchangeStep

LEMMA exchangeCancel_Inv == ASSUME Inv, exchangeCancel PROVE Inv' /\ rec'.filled >= rec.filled
<1>0. /\ exch \in Orders /\ exch.n \in 0..Quantity /\ exch.n \in Nat
      /\ call \in [Callers -> Calls] /\ Sending /\ TerminalAgrees
  BY OrderFacts
<1>1. wire' = wire \ {"cancel"} /\ wire' \subseteq wire /\ UNCHANGED <<rec, fills, sent>>
  BY DEF exchangeCancel
<1>2. CASE /\ Live /\ exch' = [exch EXCEPT !.st = "CANCELED"]
           /\ Replies("cancel", "CANCELED") \/ Replies("cancel", "UNKNOWN")
  <2>1. exch' \in Orders /\ exch'.st = "CANCELED" /\ exch'.n = exch.n /\ exch.st = "OPEN"
    BY <1>0, <1>2 DEF Orders, Live
  <2>2. PICK st \in {"CANCELED", "UNKNOWN"} : Replies("cancel", st)
    BY <1>2
  <2>3. Truthful([st |-> st, n |-> 0]) /\ st \in Outcomes
    BY <1>0, <2>1, <2>2 DEF Truthful, Outcomes
  <2>4. /\ call' \in [Callers -> Calls]
        /\ \A d \in Callers : \/ call'[d] = call[d]
                              \/ /\ call'[d].kind = call[d].kind /\ call'[d].seen = call[d].seen
                                 /\ Truthful(call'[d].reply)
    BY <1>0, <2>2, <2>3, RepliesCalls
  <2>5. exch'.n >= exch.n /\ sent # 0 /\ "submit" \notin wire'
    BY <1>0, <1>1, <2>1 DEF Sending
  <2> QED
    BY <1>1, <2>1, <2>4, <2>5, ExchangeStep DEF Live
<1>3. ASSUME NEW st \in {"PARTIALLY_FILLED", "FILLED", "CANCELED", "UNKNOWN"}, Replies("cancel", st),
             exch' = exch, st = "FILLED" => exch.n = Quantity, st = "CANCELED" => exch.st = "CANCELED"
      PROVE  Inv' /\ rec'.filled >= rec.filled
  <2>1. Truthful([st |-> st, n |-> 0]) /\ st \in Outcomes
    BY <1>0, <1>3 DEF Truthful, Outcomes
  <2>2. /\ call' \in [Callers -> Calls]
        /\ \A d \in Callers : \/ call'[d] = call[d]
                              \/ /\ call'[d].kind = call[d].kind /\ call'[d].seen = call[d].seen
                                 /\ Truthful(call'[d].reply)
    BY <1>0, <1>3, <2>1, RepliesCalls
  <2>3. exch'.n >= exch.n
    BY <1>0, <1>3
  <2>4. rec.state \in Terminal \ {"FILLED"} => ~Live'
    BY <1>0, <1>3 DEF TerminalAgrees, Live
  <2>5. "submit" \in wire' => exch.st = "NONE"
    BY <1>0, <1>1 DEF Sending
  <2> QED
    BY <1>0, <1>1, <1>3, <2>2, <2>3, <2>4, <2>5, ExchangeStep DEF Sending
<1>4. CASE Live /\ exch.n > 0 /\ Replies("cancel", "PARTIALLY_FILLED") /\ UNCHANGED exch
  BY <1>3, <1>4
<1>5. CASE /\ ~Live /\ UNCHANGED exch
           /\ Replies("cancel", IF Reported \in {"FILLED", "CANCELED"} THEN Reported ELSE "UNKNOWN")
  <2> DEFINE st == IF Reported \in {"FILLED", "CANCELED"} THEN Reported ELSE "UNKNOWN"
  <2>1. /\ Reported = "FILLED" => exch.n = Quantity
        /\ Reported = "CANCELED" => exch.st = "CANCELED"
    BY <1>0 DEF Reported, Orders
  <2>2. /\ st \in {"PARTIALLY_FILLED", "FILLED", "CANCELED", "UNKNOWN"}
        /\ st = "FILLED" => exch.n = Quantity
        /\ st = "CANCELED" => exch.st = "CANCELED"
    BY <2>1
  <2>3. Replies("cancel", st)
    BY <1>5
  <2> HIDE DEF st
  <2> QED
    BY <1>3, <1>5, <2>2, <2>3
<1> QED
  BY <1>2, <1>4, <1>5 DEF exchangeCancel

LEMMA exchangeMoves_Inv == ASSUME Inv, exchangeMoves PROVE Inv' /\ rec'.filled >= rec.filled
<1>0. /\ exch \in Orders /\ exch.n \in 0..Quantity /\ exch.n \in Nat
      /\ call \in [Callers -> Calls] /\ Sending /\ TerminalAgrees
  BY OrderFacts
<1>1. /\ UNCHANGED <<rec, fills, sent>> /\ wire' = wire /\ call' = call /\ Live
      /\ \/ exch' = [exch EXCEPT !.n = exch.n + 1]
         \/ \E st \in {"CANCELED", "EXPIRED"} : exch' = [exch EXCEPT !.st = st]
  BY DEF exchangeMoves
<1>2. exch.st = "OPEN" /\ exch.n < Quantity /\ sent # 0 /\ "submit" \notin wire
      /\ rec.state \notin Terminal \ {"FILLED"}
  BY <1>0, <1>1 DEF Live, Sending, TerminalAgrees
<1>3. exch' \in Orders /\ exch'.n >= exch.n /\ exch'.st # "NONE"
  BY <1>0, <1>1, <1>2, QuantityAssumption DEF Orders
<1> QED
  BY <1>0, <1>1, <1>2, <1>3, ExchangeStep

-----------------------------------------------------------------------------
(* The theorems.                                                           *)

LEMMA InitInv == Init => Inv
<1> SUFFICES ASSUME Init PROVE Inv
  OBVIOUS
<1>1. /\ fills = {} /\ call = [c \in Callers |-> Idle(NoRecord)] /\ sent = 0 /\ wire = {}
      /\ exch = [st |-> "NONE", n |-> 0]
  BY DEF Init
<1>2. PICK sized \in BOOLEAN : rec = Created(sized)
  BY DEF Init
<1>3. rec \in Records /\ rec.state = "INTENT_CREATED" /\ rec.filled = 0
  BY <1>2 DEF Created, Records, States
<1>4. call \in [Callers -> Calls]
  BY <1>1, FreshCall
<1>5. Typed
  BY <1>1, <1>3, <1>4, QuantityAssumption DEF Typed, TypeOK
<1>6. Sending /\ TerminalAgrees
  BY <1>1, <1>3 DEF Sending, TerminalAgrees, Unsent, Terminal
<1>7. CallsTrue
  <2>1. \A c \in Callers : call[c] = Idle(NoRecord)
    BY <1>1
  <2> QED
    BY <1>1, <2>1, FreshCall DEF CallsTrue, CallTrue
<1>8. Counting
  <2>1. Filled(fills) = 0
    BY <1>1, FS_EmptySet DEF Filled
  <2> QED
    BY <1>1, <1>3, <2>1 DEF Counting
<1> QED
  BY <1>5, <1>6, <1>7, <1>8 DEF Inv

LEMMA NextInv == ASSUME Inv, [Next]_vars PROVE Inv' /\ rec'.filled >= rec.filled
<1>1. CASE approveRisk \/ rejectRisk \/ queue \/ requestCancel
  BY <1>1, MoveStep DEF approveRisk, rejectRisk, queue, requestCancel
<1>2. ASSUME NEW t \in Trades, addFill(t) PROVE Inv' /\ rec'.filled >= rec.filled
  BY <1>2, addFill_Inv
<1>3. ASSUME NEW c \in Callers, submit(c) \/ submitReturn(c) \/ cancel(c) \/ cancelReturn(c)
      PROVE  Inv' /\ rec'.filled >= rec.filled
  BY <1>3, submit_Inv, submitReturn_Inv, cancel_Inv, cancelReturn_Inv
<1>4. ASSUME NEW c \in Callers, reconcile(c) \/ reconcileReturn(c) \/ portFails(c) \/ exchangeLookup(c)
      PROVE  Inv' /\ rec'.filled >= rec.filled
  BY <1>4, reconcile_Inv, reconcileReturn_Inv, portFails_Inv, exchangeLookup_Inv
<1>5. CASE exchangeSubmit \/ exchangeCancel \/ exchangeMoves \/ crash
  BY <1>5, exchangeSubmit_Inv, exchangeCancel_Inv, exchangeMoves_Inv, crash_Inv
<1>6. CASE UNCHANGED vars
  <2>1. rec' = rec /\ fills' = fills /\ call' = call /\ sent' = sent /\ wire' = wire /\ exch' = exch
    BY <1>6 DEF vars
  <2>2. /\ rec \in Records /\ rec.filled \in Nat /\ fills \subseteq Rows(exch.n) /\ rec.filled <= Filled(fills)
        /\ call \in [Callers -> Calls] /\ Sending /\ TerminalAgrees
    BY Facts
  <2> QED
    BY <2>1, <2>2, Advance DEF Sending, TerminalAgrees
<1> QED
  BY <1>1, <1>2, <1>3, <1>4, <1>5, <1>6 DEF Next

\* The inductive invariant holds in every reachable state.
THEOREM Invariance == Spec => []Inv
<1>1. Inv /\ [Next]_vars => Inv'
  BY NextInv
<1> QED
  BY <1>1, InitInv, PTL DEF Spec

\* Type correctness, for any number of callers and any quantity; no trade has
\* two rows in execution_fills.
THEOREM TypeCorrect == Spec => []TypeOK
<1>1. Inv => TypeOK
  BY DEF Inv, Typed
<1> QED
  BY <1>1, Invariance, PTL

\* ExecutionService never hands the order to the exchange twice, whatever is lost,
\* repeated, late or cut short by a crash: nothing leads back to QUEUED.
THEOREM NoSecondSubmission == Spec => []SubmittedOnce
<1>1. Inv => SubmittedOnce
  BY DEF Inv, Sending, SubmittedOnce
<1> QED
  BY <1>1, Invariance, PTL

\* What a terminal record says is true at the exchange, and stays so.
THEOREM TerminalIsTrue == Spec => []TerminalAgrees
<1>1. Inv => TerminalAgrees
  BY DEF Inv
<1> QED
  BY <1>1, Invariance, PTL

\* The record never counts a trade that did not happen, nor one twice.
THEOREM FillsCountedOnce == Spec => []NoDoubleCount
<1>1. Inv => NoDoubleCount
  <2> SUFFICES ASSUME Inv PROVE NoDoubleCount
    OBVIOUS
  <2>1. exch.n \in Nat /\ rec.filled \in Nat /\ fills \subseteq Rows(exch.n) /\ rec.filled <= Filled(fills)
    BY Facts
  <2>2. Filled(fills) \in Nat /\ Filled(fills) <= exch.n
    BY <2>1, RowsCount
  <2> QED
    BY <2>1, <2>2 DEF NoDoubleCount
<1> QED
  BY <1>1, Invariance, PTL

\* No answer that was computed from an old record takes a counted fill back.
THEOREM CountedFillsStay == Spec => FilledNeverShrinks
<1>1. Inv /\ [Next]_vars => [rec'.filled >= rec.filled]_vars
  BY NextInv
<1> QED
  BY <1>1, Invariance, PTL DEF Spec, FilledNeverShrinks
=============================================================================
