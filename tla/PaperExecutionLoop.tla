------------------------- MODULE PaperExecutionLoop -------------------------
(***************************************************************************)
(* The PAPER execution loop (PaperTradingExecutionLoop) for one market:    *)
(* immediate orders, manual LIMIT orders that stay open and fill in parts, *)
(* strategy orders that sweep public depth snapshots within a budget,      *)
(* cancellation, the bounded history of the account state, the validation  *)
(* and the ledger check every save runs, and restarts from the saved       *)
(* state.  The loop's calls are synchronous: each one is a single step.    *)
(*                                                                         *)
(* Amounts, prices and rates are integers, counts of 1 / Scale (in the     *)
(* code 1e-8), and every round8 and floor8 of the code is applied where    *)
(* the code applies it: the product of two of them has Scale^2 as its      *)
(* denominator until it is rounded.  Binary representation error comes on  *)
(* top in the code.  Two of its effects are in the model: a check of the   *)
(* save may refuse (the unrounded sum of paperOrderLifecycle), and so may  *)
(* Persist; and an unrounded amount of one unit is, or is not, within the  *)
(* 1e-8 that count as nothing (dust).  That it moves a product across a    *)
(* boundary of the grid is not.  A depth snapshot has one or two levels.   *)
(* Cost bases, marks and profits are left out: cash and quantity are what  *)
(* fills must explain.                                                     *)
(* Calls that return without touching the state (a closed gate, a          *)
(* duplicate, a price outside the limit ...) are the guards' complements.  *)
(***************************************************************************)
EXTENDS Integers, Sequences, FiniteSets, FiniteSetsExt, SequencesExt

CONSTANTS
    Keys,          \* idempotency keys; an order's id is the hash of its key
    None,          \* not a key
    Capital,       \* initialCapital
    Prices,        \* prices a tick may carry
    Quantities,    \* quantities a command may ask for
    Budgets,       \* allocationCapital of a strategy's BUY intent
    Sizes,         \* sizes of a level of a depth snapshot
    LevelGap,      \* price units between the best level and the next one
    Events,        \* fillEventId values; 0 stands for none
    Scale,         \* units of the grid in 1: the 1e8 of round8
    BaseTolerance, \* RECONCILIATION_BASE_TOLERANCE
    FillTolerance, \* RECONCILIATION_TOLERANCE_PER_FILL
    Overrun,       \* the 1e-6 a depth sweep may exceed its budget by
    FeeRate,       \* feeRate
    FillDiv,       \* 1 / maxFillRatio
    Slippage,      \* adverse price units of the execution profile
    LatencyTicks,  \* latencyTicks of the execution profile
    Capacity,      \* the 1_000 of every slice(0, 1_000)
    MaxClock       \* bound on the clock

ASSUME AmountAssumption ==
    /\ Capital \in Nat /\ FeeRate \in Nat /\ Slippage \in Nat
    /\ BaseTolerance \in Nat /\ FillTolerance \in Nat /\ Overrun \in Nat
    /\ LatencyTicks \in Nat /\ MaxClock \in Nat \ {0}
    /\ Scale \in Nat \ {0} /\ LevelGap \in Nat \ {0}
    /\ FillDiv \in Nat \ {0} /\ Capacity \in Nat \ {0}
    /\ Prices \subseteq Nat \ {0} /\ Quantities \subseteq Nat \ {0}
    /\ Budgets \subseteq Nat \ {0} /\ Sizes \subseteq Nat
    /\ Events \subseteq Nat \ {0}
ASSUME KeyAssumption == None \notin Keys

VARIABLES
    mem,     \* this.state
    disk,    \* the account row; what a restart loads
    ledger,  \* the rows of the fill ledger
    clock,   \* the caller's now
    last     \* the last call that reached save, and what became of it

vars == <<mem, disk, ledger, clock, last>>

\* initialState
initialState ==
    [cash |-> Capital, qty |-> 0, orders |-> <<>>, fills |-> <<>>,
     working |-> <<>>, keys |-> <<>>, at |-> 0]

Init ==
    /\ mem = initialState
    /\ disk = initialState
    /\ ledger = {}
    /\ clock = 1
    /\ last = [op |-> "start", verdict |-> "saved"]

-----------------------------------------------------------------------------
(* Amounts *)

\* toFixed(8) of n / d, in units of the grid.
Round(n, d) == (2 * n + d) \div (2 * d)

\* round8(quantity * price)
Times(q, price) == Round(q * price, Scale)

\* Sums over the fills F: the quantity, the fees, the unrounded notional (in
\* units of Scale^2), and the notional as the account was charged for it,
\* rounded fill by fill.
Quantity(F) == SumFunction([f \in F |-> f.qty])
Fees(F) == SumFunction([f \in F |-> f.fee])
Value(F) == SumFunction([f \in F |-> f.qty * f.price])
Charged(F) == SumFunction([f \in F |-> Times(f.qty, f.price)])

\* cumulativeGross and averagePrice: the sum is rounded, not its parts.
Notional(F) == Round(Value(F), Scale)
Average(F) == Round(Value(F), Quantity(F))

Bought(F) == {f \in F : f.side = "BUY"}
Sold(F) == {f \in F : f.side = "SELL"}

\* projectPaperAccounting: the cash and the quantity that the fills explain.
\* Its fixed-point products are cut off, where the loop's are rounded.
Worth(F) == SumFunction([f \in F |-> (f.qty * f.price) \div Scale])
ReplayCash(F) == Capital - Worth(Bought(F)) + Worth(Sold(F)) - Fees(F)
ReplayQty(F) == Quantity(Bought(F)) - Quantity(Sold(F))

FillsOf(F, k) == {f \in F : f.key = k}
KeysOf(s) == {o.key : o \in ToSet(s)}
\* A plausible slip: the history is never cut.
MSlice(s) == s
Slice(s) == SubSeq(s, 1, Min({Len(s), Capacity}))
\* filter: the n-th entry is the n-th one that stays
Without(s, k) ==
    LET kept == {i \in DOMAIN s : s[i].key # k}
    IN  [n \in 1..Cardinality(kept) |->
            s[CHOOSE i \in kept : Cardinality({j \in kept : j <= i}) = n]]
Replacing(s, w) == [i \in DOMAIN s |-> IF s[i].key = w.key THEN w ELSE s[i]]
Distinct(s) == Cardinality(KeysOf(s)) = Len(s)

-----------------------------------------------------------------------------
(* save: validateState, the ledger, the chronology of the history *)

\* within, with reconciliationTolerance
Tolerance(n) == BaseTolerance + FillTolerance * n
Within(a, b, tolerance) == a - b <= tolerance /\ b - a <= tolerance

\* A settled order's lifecycle asks for what was filled.  When that is not what
\* its intent asked for, each fill must be a sweep for the whole of the intent.
IntentMatches(o, F) ==
    o.strategy /\ o.status = "FILLED" /\ o.qty # o.requested =>
        \A f \in F : f.asked = o.requested

\* validateState on a terminal order and its fills: a positive price, which
\* is the rounded average of the fills.
OrderReconciles(o, F) ==
    /\ o.price > 0
    /\ Quantity(F) = o.qty
    /\ Fees(F) = o.fee
    /\ F # {} => Average(F) = o.price
    /\ o.status = "FILLED" => F # {}
    /\ IntentMatches(o, F)

\* The budget left is the allocation less the rounded sum of what the fills
\* cost; the loop subtracts each rounded cost, and may end up elsewhere.
WorkingReconciles(w, F) ==
    /\ Quantity(F) = w.filled
    /\ w.filled < w.requested
    /\ w.strategy /\ w.side = "BUY" => w.budget = Max({0, w.alloc - Notional(F)})
    /\ w.strategy => \A f \in F : f.quote <= w.cursor

\* A plausible slip: the ledger of processed keys is not checked for repeats.
MProcessedOnce(s) == TRUE

ProcessedOnce(s) == Cardinality(ToSet(s.keys)) = Len(s.keys)

validateState(s) ==
    LET F == ToSet(s.fills)
        represented == KeysOf(s.orders) \cup KeysOf(s.working)
    IN  /\ s.cash >= 0 /\ s.qty >= 0
        /\ Distinct(s.orders \o s.working)
        /\ Cardinality({f.id : f \in F}) = Len(s.fills)
        /\ \A f \in F :
            /\ f.key \in represented
            /\ f.qty > 0 /\ f.price > 0
            /\ f.asked > 0 => Times(f.qty, f.price) > 0
        /\ \A o \in ToSet(s.orders) : OrderReconciles(o, FillsOf(F, o.key))
        /\ \A w \in ToSet(s.working) : WorkingReconciles(w, FillsOf(F, w.key))
        /\ ProcessedOnce(s)
        /\ represented \subseteq ToSet(s.keys)
        /\ represented = ToSet(s.keys) /\ s.keys # <<>> =>
            /\ Within(s.cash, ReplayCash(F), Tolerance(Len(s.fills)))
            /\ s.qty = ReplayQty(F)

\* appendFillLedgerRows and assertFillLedgerReconcilesState.
LedgerAccepts(s) ==
    LET rows == ledger \cup ToSet(s.fills)
    IN  /\ \A f \in ToSet(s.fills), g \in ledger : f.id = g.id => f = g
        /\ Within(s.cash, ReplayCash(rows), Tolerance(Cardinality(rows)))
        /\ s.qty = ReplayQty(rows)

\* A plausible slip: the loop adopts the new state before it is saved.
MPersist(op, next) ==
    /\ mem' = next
    /\ \/ disk' = next /\ ledger' = ledger \cup ToSet(next.fills)
       \/ UNCHANGED <<disk, ledger>>
    /\ last' = [op |-> op, verdict |-> "saved"]
    /\ UNCHANGED clock

\* The FAILED answer: the loop keeps the state it had.
Refused(op, verdict) ==
    /\ last' = [op |-> op, verdict |-> verdict]
    /\ UNCHANGED <<mem, disk, ledger, clock>>

\* save(next), and the loop's adoption of next or its FAILED answer.  The
\* history trigger refuses a second state with the same updatedAt.  A lost
\* lease or a busy database refuses any state, and so may a check of the save
\* that is left out (profits, cost bases, a replay a unit short of the cash for
\* a fill, unrounded binary sums).
Persist(op, next) ==
    LET sound == validateState(next) /\ LedgerAccepts(next)
    IN  \/ /\ sound /\ next.at > disk.at
           /\ mem' = next
           /\ disk' = next
           /\ ledger' = ledger \cup ToSet(next.fills)
           /\ last' = [op |-> op, verdict |-> "saved"]
           /\ UNCHANGED clock
        \/ ~sound /\ Refused(op, "invalid")
        \/ Refused(op, "refused")

-----------------------------------------------------------------------------
(* The simulator *)

\* deterministicFill: the quantity and the price of a fill without depth.
ModeledQty(q, base) == Min({q, Round(base, FillDiv)})
ModeledPrice(side, price) ==
    IF side = "BUY" THEN price + Slippage ELSE price - Slippage

\* The fee of a fill: an immediate order pays it on the rounded notional.
WorkingFee(q, price) == Round(q * price * FeeRate, Scale * Scale)
ExecuteFee(q, price) == Round(Times(q, price) * FeeRate, Scale)

\* The cash and the position a fill needs.
Affords(s, side, q, price, fee) ==
    IF side = "BUY" THEN Times(q, price) + fee <= s.cash ELSE q <= s.qty

\* A plausible slip: the fee of a sale is credited.
MCashAfter(s, side, q, price, fee) ==
    IF side = "BUY" THEN s.cash - Times(q, price) - fee
                    ELSE s.cash + Times(q, price) + fee

CashAfter(s, side, q, price, fee) ==
    IF side = "BUY" THEN s.cash - Times(q, price) - fee
                    ELSE s.cash + Times(q, price) - fee
QtyAfter(s, side, q) == IF side = "BUY" THEN s.qty + q ELSE s.qty - q

\* A fill record: quote is the time of the public quote it used, asked the
\* quantity its depth receipt was built for (0: no quote, no depth).
Fill(id, w, q, price, fee, quote, asked) ==
    [id |-> id, key |-> w.key, side |-> w.side, qty |-> q, price |-> price,
     fee |-> fee, quote |-> quote, asked |-> asked]

\* The terminal record of an order with the fills F.
Terminal(w, status, F, emptyPrice) ==
    [key |-> w.key, side |-> w.side, status |-> status,
     requested |-> w.requested, alloc |-> w.alloc, strategy |-> w.strategy,
     qty |-> Quantity(F), fee |-> Fees(F),
     price |-> IF F = {} THEN emptyPrice ELSE Average(F)]

\* executeOrder: an order that fills at once and whole.
Execute(k, side, q, price) ==
    LET p == ModeledPrice(side, price)
        fee == ExecuteFee(q, p)
        w == [key |-> k, side |-> side, requested |-> q, alloc |-> 0,
              strategy |-> FALSE]
        f == Fill([key |-> k, n |-> 0], w, q, p, fee, 0, 0)
    IN  /\ k \notin ToSet(mem.keys)
        /\ p > 0
        /\ ModeledQty(q, q) = q
        /\ Affords(mem, side, q, p, fee)
        /\ Persist("execute",
             [cash |-> CashAfter(mem, side, q, p, fee),
              qty |-> QtyAfter(mem, side, q),
              orders |-> Slice(<<Terminal(w, "FILLED", {f}, p)>> \o mem.orders),
              fills |-> Slice(<<f>> \o mem.fills),
              working |-> mem.working,
              keys |-> <<k>> \o mem.keys,
              at |-> clock])

\* openLimitOrder.  The history is searched for the key, not the processed
\* keys.
OpenLimit(k, side, q, limit) ==
    LET w == [key |-> k, side |-> side, strategy |-> FALSE, limit |-> limit,
              requested |-> q, filled |-> 0, ticks |-> 0, alloc |-> 0,
              budget |-> 0, cursor |-> 0]
    IN  /\ k \notin KeysOf(mem.orders) \cup KeysOf(mem.working)
        /\ Persist("open",
             [mem EXCEPT !.working = Slice(<<w>> \o mem.working),
                         !.keys = <<k>> \o mem.keys, !.at = clock])

\* The state after a fill of the working order w: it is done ("FILLED",
\* "CANCELLED"), or goes on as rest.
AfterFill(s, w, f, status, rest) ==
    LET F == FillsOf(ToSet(s.fills), w.key) \cup {f}
    IN  [cash |-> CashAfter(s, w.side, f.qty, f.price, f.fee),
         qty |-> QtyAfter(s, w.side, f.qty),
         orders |-> IF status = "PARTIALLY_FILLED" THEN s.orders
                    ELSE Slice(<<Terminal(w, status, F, 0)>>
                               \o Without(s.orders, w.key)),
         fills |-> <<f>> \o s.fills,
         working |-> IF status = "PARTIALLY_FILLED" THEN Replacing(s.working, rest)
                                              ELSE Without(s.working, w.key),
         keys |-> s.keys,
         at |-> clock]

FillEventKnown(e) ==
    e # 0 /\ [key |-> None, n |-> e] \in {f.id : f \in ToSet(mem.fills)}

\* fill:<order>:<n>
NextFillId(s, k) ==
    [key |-> k, n |-> Cardinality(FillsOf(ToSet(s.fills), k)) + 1]

\* fillWorkingOrder: a latency tick, or a fill within the limit.
FillLimit(w, q, price, e) ==
    LET p == ModeledPrice(w.side, price)
        rem == w.requested - w.filled
        take == ModeledQty(Min({q, rem}), w.requested)
        f == Fill(IF e = 0 THEN NextFillId(mem, w.key) ELSE [key |-> None, n |-> e],
                  w, take, p, WorkingFee(take, p), 0, 0)
        ticked == [w EXCEPT !.ticks = w.ticks + 1]
    IN  /\ ~w.strategy
        /\ ~FillEventKnown(e)
        /\ \/ /\ w.ticks + 1 <= LatencyTicks
              /\ Persist("tick", [mem EXCEPT !.working = Replacing(mem.working, ticked),
                                             !.at = clock])
           \/ /\ w.ticks + 1 > LatencyTicks
              /\ IF w.side = "BUY" THEN price <= w.limit ELSE price >= w.limit
              /\ q <= rem
              /\ take > 0 /\ p > 0
              /\ IF w.side = "BUY" THEN p <= w.limit ELSE p >= w.limit
              /\ Affords(mem, w.side, take, p, f.fee)
              /\ Persist("fill",
                   AfterFill(mem, w, f, IF take = rem THEN "FILLED" ELSE "PARTIALLY_FILLED",
                             [ticked EXCEPT !.filled = w.filled + take]))

\* The state after w is cancelled with the average price given.
Cancelled(s, w, price) ==
    LET F == FillsOf(ToSet(s.fills), w.key)
        done == [Terminal(w, "CANCELLED", F, 0) EXCEPT !.price = price]
    IN  [s EXCEPT !.orders = Slice(<<done>> \o Without(s.orders, w.key)),
                  !.working = Without(s.working, w.key),
                  !.at = clock]

\* cancelWorkingOrder.  Unlike every other terminal record's, its average is
\* not rounded (0 stands for one off the grid), and a strategy order without
\* a fill has no limit to fall back to.
Cancel(w) ==
    LET F == FillsOf(ToSet(mem.fills), w.key)
        price == IF F = {} THEN w.limit
                 ELSE IF Value(F) % Quantity(F) = 0
                      THEN Value(F) \div Quantity(F) ELSE 0
    IN  Persist("cancel", Cancelled(mem, w, price))

-----------------------------------------------------------------------------
(* Strategy orders.  A tick t has a price, the time of the public quote that
   came with it (0: none), and the depth of that quote on the order's side: the
   price and the size of the best level (NoDepth: the quote has no depth) and
   the size of the level behind it (0: there is none). *)

NoDepth == -1

Ticks == {t \in [price : Prices, quote : 0..MaxClock, best : Prices,
                 size : (Sizes \ {0}) \cup {NoDepth}, deeper : Sizes \cup {0}] :
            /\ t.quote <= clock
            /\ t.quote = 0 => t.size = NoDepth
            /\ t.size = NoDepth => t.best = t.price /\ t.deeper = 0}

\* A plausible slip: the snapshot an order consumed last is good once more.
MSpent(w, t) == w.cursor > 0 /\ (t.size = NoDepth \/ t.quote < w.cursor)

\* The order has consumed depth before, and this tick brings none that is new.
Spent(w, t) == w.cursor > 0 /\ (t.size = NoDepth \/ t.quote <= w.cursor)

\* A plausible slip: the budget bounds each fill by the whole allocation.
MAffordable(w, price) == (w.alloc * Scale) \div price

\* How much of w the rest of its budget buys; a SELL has no budget.
Affordable(w, price) ==
    IF w.side = "BUY" THEN (w.budget * Scale) \div price ELSE w.requested

\* The budget that a fill leaves.
BudgetLeft(w, q, price) ==
    IF w.side = "BUY" THEN Max({0, w.budget - Times(q, price)}) ELSE 0

\* The units of an unrounded amount that count as nothing, as its binary value
\* lies below or above 1e-8.
Dust == {0, 1}

\* buildPaperOrderBookExecutionReceipt: what is taken from a level, of rem still
\* asked for (least is nothing) and for money, which is not rounded between levels.
Offered(rem, size) == Min({rem, size \div FillDiv})
Taken(side, rem, least, money, price, size) ==
    IF rem <= least THEN 0
    ELSE IF side = "BUY" THEN Min({Offered(rem, size), money \div price})
                         ELSE Offered(rem, size)

\* The budget is what ends the sweep at this level.
Pinched(side, rem, dust, money, price, size) ==
    LET take == Taken(side, rem, 1, money, price, size)
    IN  /\ side = "BUY" /\ rem > 1 /\ size \div FillDiv > 0
        /\ \/ take < Offered(rem, size)
           \/ money - take * price < Scale + dust /\ rem - take > 1

\* The sweep of the snapshot of t for the rest of w: at the first level the rest
\* is what the lifecycle subtracted, at the second it is rounded.
Sweep(w, t, dust) ==
    LET rem == w.requested - w.filled
        behind == IF w.side = "BUY" THEN t.best + LevelGap ELSE t.best - LevelGap
        size == IF behind > 0 THEN t.deeper ELSE 0
        money == w.budget * Scale
        first == Taken(w.side, rem, dust, money, t.best, t.size)
        left == money - first * t.best
        second == Taken(w.side, rem - first, 1, left, behind, size)
    IN  [first |-> first, qty |-> first + second,
         notional |-> Round(first * t.best + second * behind, Scale),
         limited |-> \/ Pinched(w.side, rem, dust, money, t.best, t.size)
                     \/ Pinched(w.side, rem - first, dust, left, behind, size)]

\* vwapPrice
AveragePrice(swept) == Round(swept.notional * Scale, swept.qty)

\* The fill of w by a tick, if the account affords it.  A fill that leaves nothing
\* or dust settles the order, and a budget that ends the fill cancels the rest.
StrategyFill(s, w, t, take, price, asked, limited) ==
    LET rem == w.requested - w.filled
        f == Fill(NextFillId(s, w.key), w, take, price, WorkingFee(take, price),
                  t.quote, asked)
        statuses == {IF rem - take <= dust THEN "FILLED"
                     ELSE IF limited THEN "CANCELLED" ELSE "PARTIALLY_FILLED" : dust \in Dust}
        rest == [w EXCEPT !.filled = w.filled + take,
                          !.ticks = w.ticks + 1,
                          !.budget = BudgetLeft(w, take, price),
                          !.cursor = IF t.quote = 0 THEN w.cursor ELSE t.quote]
    IN  /\ Affords(s, w.side, take, price, f.fee)
        /\ \E status \in statuses : Persist("advance", AfterFill(s, w, f, status, rest))

\* The average price of a strategy order that its budget cancels.
AverageSoFar(s, w, t) ==
    IF w.filled = 0 THEN t.price ELSE Average(FillsOf(ToSet(s.fills), w.key))

\* advanceStrategyWorkingOrder, with depth.  A sweep that is worth nothing or
\* exceeds its budget is rejected; one that skipped the best level is refused
\* when its receipt is validated.
AdvanceOnDepth(s, w, t) ==
    \E swept \in {Sweep(w, t, dust) : dust \in Dust} :
    LET price == AveragePrice(swept)
        exhausted == w.side = "BUY" /\ w.budget <= 1
        waiting == [w EXCEPT !.ticks = w.ticks + 1, !.cursor = t.quote]
    IN  \/ /\ exhausted \/ (w.side = "BUY" /\ swept.qty = 0)
           /\ Persist("advance", Cancelled(s, w, AverageSoFar(s, w, t)))
        \/ /\ w.side = "SELL" /\ swept.qty = 0
           /\ Persist("advance", [s EXCEPT !.working = Replacing(s.working, waiting),
                                           !.at = clock])
        \/ /\ ~exhausted /\ swept.qty > 0 /\ swept.notional > 0
           /\ w.side = "BUY" => Times(swept.qty, price) <= w.budget + Overrun
           /\ IF swept.first = 0 THEN Refused("advance", "invalid")
              ELSE StrategyFill(s, w, t, swept.qty, price, w.requested - w.filled,
                                swept.limited)

\* advanceStrategyWorkingOrder, without depth.  deterministicFill throws when
\* it has nothing to fill, and nothing catches it: a state that was set for
\* the call stays set.
AdvanceOnModel(s, w, t) ==
    LET p == ModeledPrice(w.side, t.price)
        modeled == ModeledQty(w.requested - w.filled, w.requested)
        take == Min({modeled, Affordable(w, p)})
    IN  \/ /\ modeled = 0 \/ p <= 0
           /\ mem' = s
           /\ last' = [op |-> "advance", verdict |-> "threw"]
           /\ UNCHANGED <<disk, ledger, clock>>
        \/ /\ modeled > 0 /\ p > 0 /\ take = 0
           /\ Persist("advance", Cancelled(s, w, AverageSoFar(s, w, t)))
        \/ /\ modeled > 0 /\ p > 0 /\ take > 0
           /\ StrategyFill(s, w, t, take, p, 0,
                 w.side = "BUY" /\ BudgetLeft(w, take, p) <= 1)

\* advanceStrategyWorkingOrder from the state s.
Advance(s, w, t) ==
    LET ticked == [w EXCEPT !.ticks = w.ticks + 1]
    IN  /\ w.strategy
        /\ ~Spent(w, t)
        /\ \/ /\ w.ticks + 1 <= LatencyTicks
              /\ Persist("tick", [s EXCEPT !.working = Replacing(s.working, ticked),
                                           !.at = clock])
           \/ /\ w.ticks + 1 > LatencyTicks
              /\ IF t.size # NoDepth THEN AdvanceOnDepth(s, w, t)
                                     ELSE AdvanceOnModel(s, w, t)

\* processTick with an intent: the order is opened and advanced in one save.
\* The boundary lets one strategy order work a market at a time.  What a BUY
\* costs at the tick's price may exceed the cash by guardCashInvestmentAllocation's
\* one unit.
OpenStrategy(k, side, q, alloc, t) ==
    LET w == [key |-> k, side |-> side, strategy |-> TRUE, limit |-> 0,
              requested |-> q, filled |-> 0, ticks |-> 0, alloc |-> alloc,
              budget |-> alloc, cursor |-> 0]
        opened == [mem EXCEPT !.working = Slice(<<w>> \o mem.working),
                              !.keys = <<k>> \o mem.keys, !.at = clock]
    IN  /\ \A v \in ToSet(mem.working) : ~v.strategy
        /\ k \notin ToSet(mem.keys)
        /\ q > 0
        /\ side = "BUY" =>
            q * t.price * (Scale + FeeRate) <= (mem.cash + 1) * Scale * Scale
        /\ Advance(opened, w, t)

\* buildPaperExecutionIntent: a BUY spends an allocation at the tick's price,
\* a SELL exits (part of) the position.
ProcessTick(k, t) ==
    \/ \E alloc \in Budgets : OpenStrategy(k, "BUY", Round(alloc * Scale, t.price), alloc, t)
    \/ \E q \in 1..mem.qty : OpenStrategy(k, "SELL", q, 0, t)

-----------------------------------------------------------------------------
(* Restarts and time *)

\* The constructor: the saved state, or a fresh account.
Restart ==
    /\ mem' = disk
    /\ last' = [op |-> "start", verdict |-> "saved"]
    /\ UNCHANGED <<disk, ledger, clock>>

Tick ==
    /\ clock < MaxClock
    /\ clock' = clock + 1
    /\ UNCHANGED <<mem, disk, ledger, last>>

Sides == {"BUY", "SELL"}

Next ==
    \/ \E k \in Keys, side \in Sides, q \in Quantities, price \in Prices :
        Execute(k, side, q, price) \/ OpenLimit(k, side, q, price)
    \/ \E w \in ToSet(mem.working) :
        \/ \E q \in Quantities, price \in Prices, e \in Events \cup {0} :
            FillLimit(w, q, price, e)
        \/ \E t \in Ticks : Advance(mem, w, t)
        \/ Cancel(w)
    \/ \E k \in Keys, t \in Ticks : ProcessTick(k, t)
    \/ Restart
    \/ Tick

Spec == Init /\ [][Next]_vars

-----------------------------------------------------------------------------
(* Properties *)

\* The loop never shows a caller an account that a restart would not find:
\* what a failed or refused save computed is not in memory either.
MemoryMatchesDisk == mem = disk

\* Rounding alone is never why the account and its ledger disagree: over any
\* sequence of fills the cash stays within one unit per fill of the replay of
\* the ledger, half of what the reconciliation tolerates for each fill, and the
\* quantity is exact.
AccountExplained ==
    /\ Within(disk.cash, ReplayCash(ledger), Cardinality(ledger))
    /\ disk.qty = ReplayQty(ledger)

\* No order, whatever parts, snapshots, retries and restarts it is filled
\* through, takes more than was asked for, or is charged more than its budget
\* and the tolerance of one sweep: the tolerances of several do not add up.
NoOverfill ==
    \A o \in ToSet(disk.orders) \cup ToSet(disk.working) :
        LET F == FillsOf(ledger, o.key)
        IN  /\ Quantity(F) <= o.requested
            /\ o.strategy /\ o.side = "BUY" => Charged(F) <= o.alloc + Overrun

\* A strategy order consumes a public depth snapshot at most once.
SnapshotUsedOnce ==
    \A f, g \in ledger :
        f.key = g.key /\ f.quote > 0 /\ f.quote = g.quote => f = g

\* A key that was processed and is not working any more.
Resolved(k) == k \in ToSet(disk.keys) /\ k \notin KeysOf(disk.working)

\* An idempotency key is used once: when its order is done, even after the
\* bounded history has forgotten the order, no call fills it or opens it again.
ResolvedForever ==
    [][\A k \in Keys : Resolved(k) =>
        Resolved(k)' /\ FillsOf(ledger', k) = FillsOf(ledger, k)]_vars

\* A cancellation the account asked for is never refused as invalid.
CancelIsAccepted == last.verdict = "invalid" => last.op # "cancel"

\* A fill that finishes a strategy order within 1e-8 is settled as exactly filled:
\* what the loop computes for a tick is not refused as invalid.
SettlementIsAccepted == last.verdict = "invalid" => last.op # "advance"

\* The bounded history makes room: a full one never stands in the way of a
\* fill, because the oldest orders leave it together with their fills.
HistoryMakesRoom ==
    last.verdict = "invalid" => last.op \notin {"execute", "fill"}

\* The type invariant.
TypeOK ==
    /\ clock \in 1..MaxClock
    /\ \A s \in {mem, disk} :
        /\ s.cash \in Nat /\ s.qty \in Nat /\ s.at \in 0..clock
        /\ ToSet(s.keys) \subseteq Keys
        /\ Len(s.orders) <= Capacity /\ Len(s.working) <= Capacity
    /\ \A f \in ledger : f.key \in Keys /\ f.qty > 0 /\ f.price > 0

=============================================================================
