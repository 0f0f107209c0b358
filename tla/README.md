# TLA+ specifications of NUSA

NUSA is a private, single-user, fail-closed trading and research platform for
Upbit: it runs PAPER and SHADOW trading, and live trading is disabled
(`DisabledExchangeExecutionPort`). This directory holds TLA+ models of its
stateful core: who may write the PAPER account, what an order may do to it, the
durable life of an exchange order, admission and reconciliation of orders, the
market feed, the desktop's shutdown, the dispatch of coding work, and the
server's rate limiter. TLC checks them on small instances; TLAPS proves the
safety results of all eight components for every instance. `PROJECT.json` lists components, runs, mutants, hazards, findings
and theorems, and maps every definition to the lines it models.

Run anything from this directory: `tlc -config lease_atomic.cfg
MCPaperWriterLease`, `tlapm PaperWriterLeaseProofs.tla`.

## Inventory

| Part | State | Operations | What is hard about it |
|---|---|---|---|
| PAPER account repository (`apps/cloud/src/paperTradingExecutionLoop.ts` 201-672, `packages/storage`) | lease row, account row, fill ledger, account history (SQLite, shared by processes); `leaseLost`, `lastObservedNowMs` per process; `inTransaction` per database object | acquire, heartbeat, load, backfill, save, close | several processes, clocks, crashes, lock timeouts |
| Lease reset tool (`scripts/reset-paper-writer-lease.js`) | what it read before its `await` | read, probe /health, delete | races with a runtime that starts |
| PAPER execution loop (same file, 678-1600) | account state: cash, position, orders, fills, working orders, processed keys | immediate order, open LIMIT, fill, advance a strategy order on depth, cancel, tick, restart | retries, partial fills, rounding, bounded history, a save that fails |
| Accounting replay, order book sweep, intent, lifecycle (`apps/cloud/src/paper*.ts`) | none | pure functions the loop calls | rounding, budget limits |
| PAPER boundary and risk gateway (`cloudPaperExecutionBoundary.ts`, `cloudPaperCanonicalRiskGateway.ts`) | decisions, one strategy order per market | gate, advance, cancel a superseded order | order of gate and state change |
| Durable execution (`apps/execution/src/durable-execution.ts`, `packages/storage/src/durable-execution.ts`) | execution record with a version, transitions, fills | createIntent .. queue, submit, cancel, reconcile, addFill, replayRecovery | awaits, lost answers, duplicated fills, crashes |
| Order gateway (`apps/execution/src/order-admission.ts`, `execution-gateway.ts`, `order-reconciliation.ts`, `order-restriction.ts`, `packages/storage/src/order-*.ts`) | idempotency records, execution records, operational restrictions (SQLite); the worker's cursor | admit, reserve, record, submit, look up, restrict, release, restart | lost answers, crashes between statements, several processes, a worker that sees a few records per run |
| Order engine (`apps/execution/src`) | event log, queues, reservations | replay, ghost-fill recovery, cancel-replace | ordering, capacity |
| Rate limiter (`apps/cloud/src/httpRateLimiter.ts`, `apps/execution/src/rate-limit-manager.ts`) | a bounded registry of token buckets, each with remembered decisions; the last clock reading | evaluate, refill, prune, evict | eviction, retention, clocks that go back, rounding |
| Kill switch, hard risk (`apps/execution/src`) | latch and generation | trigger, release, evaluate | stale decisions |
| Stream recovery (`websocket-recovery.ts`) | last applied sequence, status | apply, begin, commit | gaps, duplicates |
| Market connection (`packages/core/src/marketConnectionSupervisor.ts`, `upbitWebSocket.ts`) | current socket, reconnect timer, heartbeat, last ticker; connection state, open episode, downtime | start, stop, reconnect, heartbeat, open, message, close | late events of replaced sockets, silent sockets, reconnect budget, downtime counted once |
| Desktop shutdown and recovery (`apps/desktop/src/main.ts`, `shutdownSequence.ts`, `crashRecoveryMarker.ts`, `shadow/`) | crash marker, recovery log, archives; shadow session, evidence bus | start-up check, session calls, append, seal, ordered shutdown | a crash between any two steps, a full bus, a write that fails |
| Autopilot coding dispatch (`apps/autopilot/src/scheduledEvolutionCoding.ts`, `executionCoordinator.ts`, `index.ts`) | execution record, active-work claims, completion evidence, capacity wait | tick, acquire, hand off, mark dispatched, stop, release, complete | overlapping ticks, replayed requests, expired leases, workers that die |
| Closed learning, research, mobile, services, AIPOS | bindings, ledgers, sessions | - | mostly validation, I/O and UI |

How they interact: the cloud runtime drives the boundary once per market tick;
the boundary asks the risk gateway and calls the loop; each call of the loop
computes a next state and saves it through the repository, which writes only
while it holds the lease. The execution service talks to an exchange port and to
its own repository; the gateway does the same with a provider, and shares its
database with a reconciliation worker that settles what the gateway left
unknown and blocks new exposure through a restriction. The market client reports
every socket event to its supervisor, which only decides whether and when to
reconnect. The desktop's observation session publishes to the evidence bus,
whose consumer appends to the archive; the quit handler ends the session, waits
for the bus and writes the marker that the next start-up reads. A coding tick
talks to the coordinator and then sends a request whose handler talks to the
same coordinator. The cloud server asks the rate limiter before it handles a
request. The parts that are not modelled are listed in `PROJECT.json`
with the reason.

What makes each part correct: one writer at a time and no lost update (lease);
account and ledger always agree (save); no order takes more than it asked for or
is charged beyond its budget, the ledger explains the cash up to its rounding, a
snapshot or a key is used once, memory never runs ahead of disk (loop); one
submission per order, no trade counted twice, terminal states true at the
exchange (durable execution); one submission per intent and key, everything the
provider holds on record, no unknown submission forgotten, no new exposure
beside a critical unknown (gateway); a running feed always has a socket or a
timer, silence does not last, downtime is counted once (market); an interrupted
run is noticed, a completed archive holds every event, a quit ends (desktop);
one accepted run per issue, bounded attempts, no claim held for ever (coding
dispatch); no window overspent, a retry charged once, no limit that outlives its
cause (rate limiter).

## Modules

### PaperWriterLease, SerialAccount

A *writer* is one repository object: one process start, one random owner id. Its
program counter `pc` runs through `acquireLease`, the constructor, `loadLatest`
(three steps: the account row and the ledger are read by separate statements),
then `run`, where it saves (`Execute`, then `SaveCommit` or `SaveRollback`),
checks its lease (`CheckLease`: heartbeat or `verifyWriterLease`), closes or
crashes. A statement list inside `BEGIN IMMEDIATE .. COMMIT` is one step. With
`LockTimeouts` a BEGIN may fail with SQLITE_BUSY: a save then leaves `stuck`
(`inTransaction`) set, and the following saves are three steps each
(`StuckSave*`). The account is the set of operations it reflects; `FillOps` are
those with a row in the ledger. `Chronological` is the history trigger that
refuses a save whose `updated_at` does not grow.

`SerialAccount` says what the repository promises: a holder, granted once,
commits one operation at a time, account and ledger together. `Serial` in
`PaperWriterLease` is the refinement mapping.

### PaperExecutionLoop

The loop for one market. Its calls are synchronous, so each is one step; `Persist`
is the save with its two checks (`validateState`, and the ledger of the
repository) and what memory becomes; `last` keeps the verdict: `saved`,
`invalid` (the loop's own validation or ledger refuses what the loop computed),
`refused` (the lease, the disk, the chronology, or a check that is left out) or
`threw`. Calls that return early without
a change are the complements of the guards. The boundary is present as the
order of its calls: an open strategy order is advanced, only without one is a
decision executed.

Amounts, prices and rates are counts of `1 / Scale`, the 1e-8 of the code, and a
product of two of them is on the finer grid `1 / Scale^2` until it is rounded.
Every `round8` and `floor8` is where the code has it, because the code does not
always round in the same place:

- a fill charges the account `round8(quantity * price)` (`Times`) and a fee
  rounded by itself (`WorkingFee`, `ExecuteFee`); the budget of a strategy order
  loses the same rounded charge (`BudgetLeft`, lines 1263 and 1284-1286), but
  `validateState` compares it with the allocation less the *rounded sum* of the
  unrounded notionals (`WorkingReconciles`, lines 870-872);
- the average price of an order is rounded once, from the unrounded sum
  (`Average`), except in `cancelWorkingOrder`, which does not round it;
- the replay of the ledger cuts its products off where the loop rounds them
  (`Worth`), and is compared within `Tolerance`, as `reconciliationTolerance` says;
- a depth sweep takes whole units from each of its levels, spends an unrounded
  budget, rounds its total and its average price, and charges quantity times the
  rounded average, up to 1e-6 (`Overrun`) beyond the budget; a fill that leaves
  one unit settles the order (`Sweep`, `StrategyFill`).

So validation may refuse what the loop itself computed, and in the model it does:
when two roundings of a budget end a unit apart, when a settling fill is one unit
short and an earlier fill was for the whole of the intent (`IntentMatches`), when
the average price rounds to nothing, and when a sweep has to skip the best level.
The order then stays as it was and the next tick tries again. No property says
that this cannot happen; what the refusals protect is what the properties are about.

Left out are cost bases, marks and profits. A depth snapshot has one or two
levels; its best price and the price of the tick are independent. Doubles are
not exact either. Two of their effects are there: an unrounded amount of exactly
one unit may or may not count as nothing (`Dust`), and a check of the save on
unrounded sums (`paperOrderLifecycle.ts:76` against lines 865-866) may refuse,
as `Persist` always may; so may the replay, which pays for the fills one by one
and throws if it is a unit short (`paperAccountingLedger.ts:76`). That a double moves a product across a boundary of the
grid is not modelled; it is one more unit in one more direction.

### DurableExecution

One order of `ExecutionService`. A method runs to its next `await` in one step;
`call` keeps, per caller, the record it read and the answer it got, and
`submitReturn`, `cancelReturn` and `reconcileReturn` are what happens after the
await, on that old record, with the version check of `save`. The exchange is
external: it accepts, rejects, trades unit by unit, cancels, expires, answers
`UNKNOWN`, or not at all (`portFails`), and a request stays on the `wire` after
its caller is gone. `fills` is the table of fill rows, `<<trade, copy>>`: a second
row for one trade would have another `copy`. `crash` forgets the calls, and may cut a reconcile short
after some of its fills. Production injects the disabled port, so this is the
service as its tests and the orchestrator run it, with a port that acts.

### OrderGateway, OrderLife

Processes share one database and one provider. A process walks through
`executeAdmittedOrder`: `Admit` (the restriction is checked here, once),
`Reserve` (the insert whose UNIQUE constraints decide between processes),
`Record` (`SUBMITTING`), `Submit`, and then `Answered` or `SubmitThrows`, whether
or not the provider (`ProviderDecides`, external) got the order. A reconciler
walks through `reconcileUnknownSubmissions`: `StartRun` selects `PerRun` unknown
records after its cursor, `Lookup` asks the provider, `Apply` saves what was
found, `FinishRun` writes the restriction, `Release` is the release once all of
its orders are settled. Each of these is one statement or one call, and a process
may die between any two; `Restart` turns every `SUBMITTING` record into an
unknown one, also one that another live process is about to submit. The
authorization and pre-trade risk checks are the freedom not to take `Admit`.
`Unknowns` is the sorted answer of `listByStatus`, written as the place each record
gets from the number of older ones, so that it can be reasoned about without
computing a sort.

`OrderLife` says what admission, submission, recovery and reconciliation promise
together: an order is sent once for its intent and its key, decided once by the
provider, and settled once, as decided, for good. `Life` in `OrderGateway` is the
refinement mapping; `Settled` reads the settled records off the database.

### MarketConnection

One step per socket event, timer callback or call of the owner, which is what the
event loop makes of them. The client's `connect`, `scheduleReconnect`,
`Heartbeat`, `SocketOpens` and so on call the supervisor's `noteOpened`,
`noteDisconnected`, `noteStale`, `noteStopped` inside the same step. A socket that
was torn down stays in `socks` as `closing` until its own close event, so that
its late events meet its successor. Time is a clock: timers are due at a time and
with `LateTimers` may fire later. `lost`, `down` and `tries` are history: what
really happened to the feed, against which the supervisor's counters are compared.

### DesktopShutdown

Runs of the application, one after the other, on one disk. A run starts
(`Launch`, `WriteMarker`), may hold one session (`StartSession`, `Pause`,
`Resume`, `Observe`, `StopSession`; nothing calls `prepareForNextSession` in the
desktop, so a run has no second one), and quits (`Quit`, then `Finish` when every
ordered step is done) or dies (`Crash`, anywhere). `Observe` logs an event,
publishes it to the bus, and may halt the pilot by a decision of the risk gate
(`riskHalt`). The bus and the archive go on by themselves: `CreateArchive`,
`BeginDeliver`, `Delivered` or `DeliverFails`, `BeginSeal`, `EndSeal`. Every file
operation may fail, and dies with the process half done (`torn`).

### CodingDispatch

Every handler of the coordinator is one step. Most of those that write run in
`mutateExecutionAtomically`: one storage transaction, or a queue of calls if the
storage has none (`executionCoordinator.ts:494-507`). `markDispatched` (692-697)
and `release` (725-729) do not: they await a `get` and then a `put`, and so do
the readers with their one `get`. These are one step by the platform alone: the
coordinator is a Durable Object, whose input gate delivers no other request while
one of its storage operations is pending, and they await nothing else in between.
Under a storage without that gate, the two would be two steps each, and
`AcceptedOnce` and `StopHolds` would not follow. The ticks and the requests that
call the handlers are processes with a
position, which stop or are overtaken between two calls. A tick looks, asks for an
active-work slot, acquires the execution, and sends the request; a request hands
off or acquires, and ends in a dispatch, a completion, a rate-limit stop, a
release, or dies. `requests` may be delivered again (`MaxReplays`): the retry
script and the client's own retries send the same key. Times appear as what the
handlers compare: a lease expires (`LeaseExpires`), a retry falls due (`RetryDue`),
a claim grows old (`ClaimAges`), the wait ends (`WaitEnds`).

### RateLimiter

A call of `evaluate` is synchronous and is one step, in one of four ways:
`Crowded` (no slot for a new bucket, even after the idle ones were evicted),
`Replay` (a remembered decision), `Untracked` (too many are remembered), `Decide`.
The wall clock is an input of the call and may go back; `safeNow` is what the
limiter makes of it. `since`, `spent` and `chargedAt` are history: a window of time
that may start anywhere (`Measure`), what each caller was charged in it, and when
each request id was last charged.

## Runs

| Run | Result | What it shows |
|---|---|---|
| `lease_atomic` | holds | three writers, locks always granted: `LedgerMatchesAccount`, `CurrentView` (the inductive invariant), `NoLostUpdate`, refinement of `SerialAccount` |
| `lease_recovery` | holds | two writers, lock timeouts: `DisplacedForever`, and `StartupRecovers` under fairness |
| `lease_torn_save` | violated | a failed BEGIN turns later saves into torn ones |
| `loop_orders` | holds | partial fills on a coarse grid with fees, budgets and two-level sweeps: `NoOverfill`, `SnapshotUsedOnce`, and `AccountExplained` (the ledger replays to the cash, but for one unit a fill, and to the quantity) |
| `loop_bounded` | holds | history of one entry: `MemoryMatchesDisk`, `ResolvedForever` |
| `durable_calls` | holds | two callers, crashes, lost answers: `SubmittedOnce`, `TerminalAgrees`, `NoDoubleCount`, `FilledNeverShrinks` |
| `gateway_submissions` | holds | two processes, a replayed intent, lost answers, a crash: `SubmittedOnce`, `ProviderOrdersOnRecord`, refinement of `OrderLife` (which implies `SettledAgrees`), and `UnknownIsScanned` under fairness |
| `gateway_release` | violated | a restriction is released beside an order that became critical after it was written |
| `market_feed` | holds | late events, silent sockets, late timers, give-ups, stops: `DowntimeWhole`, `AttemptsMatchConnects`, `SocketOrTimer`, `StateMatchesSocket`, and `QuietSocketCloses` under fairness |
| `shutdown_runs` | holds | three runs with crashes and failing writes: `CompletedIsWhole`, `OneOpenArchive`, `InterruptionDetected`, `CleanAfterSeal`, and `QuitEnds` under fairness |
| `coding_dispatch` | holds | overlapping ticks and requests for one key: `AcceptedOnce`, `AttemptsBounded`, `StopHolds`, and `OldClaimFreed` under fairness |
| `limiter_windows` | holds | two callers for one slot, retries, heavy requests, a clock that jumps: `SpendBounded`, `ChargedOnce`, `LimitRecovers` |

The violated runs are the findings; each one's counterexample is a schedule of
the code, and `PROJECT.json` quotes the line of the repository it contradicts.

**Further disagreements.** These configurations are violated too. They are not
among the runs, and each can be reproduced with `tlc -config X.cfg M`:

| Configuration, module | Property | Schedule | What the repository says |
|---|---|---|---|
| `lease_stale_reader`, `MCPaperWriterLease` | `OnlyHolderMutates` | a displaced start-up quarantines the account of the new holder (`paperTradingExecutionLoop.ts:261`) | `reset-paper-writer-lease.js:10` "The writer lease exists so two processes can never mutate the same PAPER account." |
| `lease_reset_race`, `MCPaperWriterLease` | `ResetSparesLiveWriter` | the tool deletes the lease of a runtime that started during its probe (`reset-paper-writer-lease.js:81`) | `reset-paper-writer-lease.js:50` "A runtime that answers /health is still serving, so its lease is live and must not be cleared." |
| `loop_cancel`, `MCPaperExecutionLoop` | `CancelIsAccepted` | the cancellation of an unfilled strategy order is refused by validation (`paperTradingExecutionLoop.ts:1359`) | `cloudPaperExecutionBoundary.ts:157` "version: cancel it (risk-reducing, no new exposure) instead of continuing it." |
| `loop_settle`, `MCPaperExecutionLoop` | `SettlementIsAccepted` | the last of several fills is one unit short: settling rewrites what the order asked for (`paperOrderLifecycle.ts:77`), its fills no longer match their intent, and the save is refused (`paperTradingExecutionLoop.ts:825`) | `paperOrderLifecycle.ts:21` "A fill that finishes the order within this tolerance is settled as exactly filled." |
| `loop_full`, `MCPaperExecutionLoop` | `HistoryMakesRoom` | orders are cut at 1,000 while their fills stay, and a fill without its order is invalid: every further fill is refused (`paperTradingExecutionLoop.ts:1117`) | `paperTradingExecutionLoop.ts:1106` "Working-order fills are reconciliation state, not telemetry. Never truncate them independently of their order." |
| `durable_unknown`, `MCDurableExecution` | `UnknownIsResolvable` | an unknown submission that the exchange cancelled stays unknown: the table has no such transition (`durable-execution.ts:39`) | `docs/implementation/a5d-live-execution-state-machine.md:11` "it can only be resolved through reconciliation" |
| `market_ceiling`, `MCMarketConnection` | `EpisodeWithinCeiling` | a connection attempt that never opens or closes keeps the episode open past its ceiling (`upbitWebSocket.ts:440`) | `marketConnectionSupervisor.ts:59` "Hard ceiling on wall-clock time spent reconnecting within one episode." |
| `shutdown_seal`, `MCDesktopShutdown` | `CleanMeansSealed` | the bus swallows a seal that failed, so the marker is written clean (`shadowEvidenceBus.ts:185`) | `shutdownSequence.ts:85` "Called ONLY when every preceding step succeeded." |
| `coding_replay`, `MCCodingDispatch` | `ReplaySuppressed` | a request that acquires the key itself (the tick's lease had expired) leaves it LEASED under the same execution id, so its replay is handed that lease and runs beside it (`executionCoordinator.ts:774`) | `executionCoordinator.ts:735` "a replayed consumer cannot run the same coding request twice" |
| `limiter_replay`, `MCRateLimiter` | `ReplayExpires` | a remembered decision is looked up before the expired ones are pruned, so it is returned after its retention, a refusal included (`rate-limit-manager.ts:101`) | `rate-limit-manager.ts:14` "How long a memoized decision stays replayable for idempotency." |

**Bounds.** Lease: three writers give a holder, a displaced writer and one that
starts; two operations, one with a fill, give a save that the ledger sees and one
that it does not; the lease lasts 2 units (1 in `lease_recovery`) of a clock that
runs to 3 or 4, enough for an acquisition, an expiry and a takeover. The clock
only goes forward in the runs; the theorems allow any jumps. Loop: two keys;
`loop_orders` has a grid of halves (`Scale = 2`) with prices of 0.5 and 2 and a
fee rate of one half, so that most products fall between its points; room for
four entries; a LIMIT order of three units filled a third at a time; strategy
orders with a budget of 2, whose snapshots give them two units a level, at the
tick's price or another and a half above or below: they need several fills.
Reached are budgets and sums that round differently, a cash that is more than
one unit away from the replay, fills that settle one unit short, charges beyond
the budget (`Overrun = 1`), and second levels. `MCPaperExecutionLoop` gives the
run a view without `last`, which no action and none of its invariants reads.
`loop_bounded` has `Capacity = 1` in the place of
1,000, so that every slice drops something, and levels too small to take from. Durable execution: two callers, an
order of two units, nine versions (`MaxVersion` guards new calls only; an
answer under way always returns). Gateway: two processes, one of which reconciles;
three requests over two intents and two keys, so that an intent is replayed under
the other's key; one record per run, which makes the cursor matter; one crash.
`gateway_release` needs three orders in one process (one critical, one that
becomes critical, one new) and no crash. Market: two sockets (the current one and
one that is closing), two attempts, delays of 1 and 2, a ceiling of 5 and a clock
to 6, so that both ways of giving up happen. Shutdown: a bus of capacity 1, which
overflows at the second event; three events; three runs, so that what one crash
leaves is found, and found again after a crash of the start-up itself. Coding: one
key, because keys meet only in the slots and the wait; two ticks and two
requests; three attempts, one slot, one replay, one stop. `coding_slots.cfg` is
the other half, two keys for one slot with one tick and one request; it holds as
well. Rate limiter: two callers for one slot, so that coming back means an
eviction; three request ids for a memory of two; a capacity of two that refills
one every two units, retention 2 (the default: the refill interval), a clock to 5,
one more than a full recovery takes. Symmetry is over writers, keys,
callers, identities and request ids, which the modules only compare; the liveness
runs use none.
`CHECK_DEADLOCK FALSE` in all but `coding_dispatch` and `limiter_windows`: clocks, keys, versions and
runs are bounded, and when they are used up the system is at rest. The coding
dispatch never is, since ticks keep coming, nor is the limiter, which answers
every call; both are checked for deadlock.

**Fairness** (`FairSpec`, for the liveness properties only). Lease: time passes; a start-up
that was refused is attempted again by its supervisor; an acquisition that can
happen again and again is not starved of the database lock for good (strong
fairness on `Acquire`, because another connection may hold the lock at times:
`busy_timeout` waits, it does not give up for ever); and the operator runs the
reset tool, as the message of the refused start-up tells them to. Nothing is
assumed of the writers that run, crash or stall. Gateway: a process finishes its
call (its awaits are answered or time out), the worker runs again, a dead process
is restarted; nothing is assumed of the provider. Market: interval and timeout
callbacks run, and a socket told to close closes; nothing is assumed of a socket
that was not. Shutdown: file operations end, well or badly. Coding: time passes,
and ticks with this issue keep coming and take their steps, although each of
them may be cut short; nothing is assumed of the requests.

`TypeOK` holds on every instance. It is part of a run where it bounds something
beside the types (a history, a queue, the attempts).

**Mutants.** Every property of a passing run has a mutant of a mapped
definition (the operators whose names start with M): a renewal that does not
check the owner, a rollback that keeps the ledger rows, a lookup table that
allows a retry, and so on.

## Proofs

The proof modules extend the specification they are about. Each one states an
inductive invariant, proves that `Init` gives it and that every action keeps it
(one lemma per action), and derives the properties. "Any" below means any value
of the constants that the module's named assumption allows; the assumptions are
the checks of the code's constructors and policies, and that `None` is not one
of the values it stands beside.

**`PaperWriterLeaseProofs`**, for any writers, operations, durations and clock
jumps: `TypeCorrect`; `FencingIsFinal` (a started writer that does not own the
row never owns it again, from types and the lemma `OwnerStep`: the owner changes
to None or to a writer that has not started); and, when `LockTimeouts = FALSE`,
`LedgerAgrees`, `HolderIsCurrent`, `NoUpdateIsLost` and `RepositoryIsSerial`,
which maps every step to a step of `SerialAccount` or a stutter.
`LedgerMatchesAccount` is not inductive by itself. What makes it so is
`CurrentView`: the writer that owns the row and has read the account holds
exactly the committed operations, or the empty start-up state of a quarantined
account, whose save cannot reconcile with a ledger that is not empty; and a
pending operation is not committed yet. `CommitExtends` derives from both that a
commit adds exactly the pending operation; `ViewStep` goes through the actions.
The assumption `LockTimeouts = FALSE` is necessary: `lease_torn_save` is the
counterexample without it.

**`PaperExecutionLoopProofs`**, for any grid, tolerances, capacity, prices,
amounts, fee, latency and slippage: `TypeCorrect`, `SnapshotsUsedOnce`,
`NeverOverfilled`, `KeysStayResolved`, `MemoryIsSaved` and `CashExplained`. The calls compute different states but change the account in
one of two ways only (`Step`): a state that follows from memory is saved, or it is
adopted unsaved because `deterministicFill` threw. The invariant is about that
second, awkward case: memory may be ahead of the disk but knows every key the
disk knows and works on no order the disk has as done (`Ahead`); every fill of
the ledger has a processed key (`Ledger`); and a working order's cursor, in memory
or on disk, is not behind any of its fills in the ledger (`Account`).
`Held`, behind `NeverOverfilled`, says that memory and disk have every fill the
ledger has of an order they have, that these are the quantity the order records,
and that what they were charged, each fill rounded, is within the allocation
while the order works, with the budget that is left at most the difference. A
fill may use the tolerance only when it ends the budget, so the tolerances of
several sweeps do not add up. The slice of `executeOrder` could drop a fill of an
older order; the save is then refused, because `validateState` compares the
quantity of the fills that are left with the order's, and fewer fills have a
smaller quantity (`QuantityStrict`). The sums over fills are folds, for which the
prover has no induction rule: `AddsOnce` shows by a smallest counterexample that
only one function adds up weights one after the other, and `AddsUnits` that
counting units is such a function, so additions are facts about cardinalities.
`KeysStayResolved` uses what `validateState` refuses: a second LIMIT order with a
key the history has forgotten is stopped by the check for repeated processed keys
and by nothing before it. `MemoryIsSaved` assumes `FillDiv <= 2` and prices above
the slippage, so that nothing throws; without the first it is false (see below).

`CashExplained` does not rest on the reconciliation of the save, which is looser:
`Replays` is kept by the arithmetic of the calls. One call has at most one new
fill (`Filled`); it moves the cash by its rounded notional and its fee, and the
replay by the same fee and the notional cut off, which is the same or one unit
less (`RoundNear`, `CashDrift`). The fill is new to the ledger because
`validateState` refuses a repeated id (`FillNew`), and a refused or thrown call
adds none. What the code tolerates for each fill is twice the bound
(`RECONCILIATION_TOLERANCE_PER_FILL`, 2e-8), so on the modelled grid rounding
alone never makes the cash fail the reconciliation, however long the account
lives. Nothing is claimed of which states validation accepts.

**`DurableExecutionProofs`**, for any callers, order size and version bound:
`NoSecondSubmission`, `TerminalIsTrue`, `FillsCountedOnce`, `CountedFillsStay` and
`TypeCorrect`. The invariant is about the calls that wait for an answer
(`CallsTrue`): a record read before the await is the current record as long as its
version is, so what `save` accepts undoes nothing; and an answer, once given,
stays true at the exchange, so that it may be applied however late. `Sending` ties
the one submission to the states that follow `QUEUED`, and `Counting` bounds the
counted quantity by the fill rows and these by the trades.

**`OrderGatewayProofs`**, for any processes, requests, clock and number of
crashes: `NoDuplicateSubmission`, `SettledIsDecided`, `NoOrphanOrder`,
`GatewayKeepsOrderLife`, `TypeCorrect`, `ScanMissesNothing`. The invariant follows an order through its database rows (`UniqueOrders`, `Reserved`,
`SentRecorded`, `ProviderHeard`) and through the process that submits it
(`OrderInHand`, `Exclusive`); `FoundAgrees` says that what a reconciler looked up
is still what the provider holds when it saves it. The lemma `Grows` (rows are
not deleted, keys do not change, the provider does not change its mind) makes
these survive the steps of the other processes. `LifeStep` maps every step to a
step of `OrderLife` or to none: a save settles a record only from an open state,
and then an order that was sent and decided exists for it (`SaveSettles`).
`TypeCorrect` and `ScanMissesNothing` add the list of work of a run (`WorkInv`).
That it holds every unknown record once, and in order, needs no induction over a
sort: the number of older records is a different place for each of finitely many
records, so the places are filled from the first to the last (`UnknownsInOrder`).
The record that the last run ended with comes last behind the cursor
(`RotatedWhole`), which is the safety half of `UnknownIsScanned`.

**`MarketConnectionProofs`**, for any sockets, policy and clock: `TypeCorrect`,
`NeverStuckNorRevived`, `AttemptsAreConnects`, `StateIsTrue`, `DowntimeExact`.
The four invariants are kept only together, and with `Accounted`, which says
what the supervisor's downtime fields mean: what was closed plus what is not
accounted yet is the time the feed was down. A timer is typed as an integer,
since the prover knows a power of two only as one.

**`DesktopShutdownProofs`**, for any number of runs and events and any capacity
of the bus: `TypeCorrect`, `CompletedArchiveIsWhole`, `AtMostOneOpenArchive`,
`InterruptionsAreDetected`, `CleanMarkerIsLast`. `Marked` relates the marker to
the run that wrote it and to what a start has seen of it; `Alone` says that an
open archive is this session's or was found by the scan; `Quiet`, `Kept`, `Ending`
and `Whole` describe a session from its first event to its seal. That a session
that is over has asked for its seal (`Ending`) is what makes the shutdown wait
for it.

**`CodingDispatchProofs`**, for any keys, ticks, requests, slots and limits:
`TypeCorrect` (with never more claims than slots), `DispatchedOnce`,
`AttemptsLimited`, `StopIsKept`. Every action does one of five things to the
record of a key (`KeyStep`), and the properties are read off these: a settled
record stays settled, the count of attempts follows the grants.

**`RateLimiterProofs`**, for any policy, callers, requests and readings of the
clock: `TypeCorrect` (with the bound of the registry), `SpendLimited`,
`ChargesAreRemembered`, `LimitsEnd`. The invariant behind `SpendLimited` adds up
what a caller was charged in the window, the tokens its bucket still has and the
refills that are due; it is kept by an eviction because a bucket that is idle long
enough would be full. The one behind `ChargesAreRemembered` says that a charge
within its retention is remembered, or its bucket is gone and was idle too long.

Only model-checked: the liveness properties (`StartupRecovers`,
`UnknownIsScanned`, `QuietSocketCloses`, `QuitEnds`, `OldClaimFreed`), which need
fairness and are out of the prover's reach. Every other property of a passing run
is stated by a theorem.

## Not modelled

The recovery of recognised legacy accounting (a one-off migration), `clear` of
the repository (no caller in the runtime), heartbeat interval and scheduling,
checksums and fingerprints (an altered row is out of scope), snapshots with more
than two depth levels, more than one market, profit and marks, the risk rules, and the
parts `PROJECT.json` lists as not modelled. In the gateway: the authorization and
pre-trade checks, and restrictions for positions and balances. In the market
feed: subscription changes, parsing, the episode log. On the desktop: windows and
IPC, the strategy, a marker with a wrong checksum, the operator's clearing of a
recovery record. In the autopilot: audit dispatches, causal bindings, telemetry,
and what a coding run does in its workspace. The repository has 183,000 lines in
1,418 files, most of them validation, wiring, user interface, research scripts
and reports without state of their own; the models take the parts that keep
state across processes, awaits and crashes, so they cover a small share of its
lines. In the loop, `deterministicFill`
throws when a modelled quantity rounds to zero; a `maxFillRatio` that takes the
quantity below half a unit of the grid then leaves an unsaved order in memory
(`MemoryMatchesDisk` fails in `loop_bounded` with `FillDiv = 3`, `Budgets = {2}`
and `LatencyTicks = 0`). The runtime keeps the default ratio of 1, so the run
that checks it does as well; at that ratio the invariant holds with
`LatencyTicks` 0 and 1.

## Plan

1. Kill switch and stream recovery: the latch and its generation, gap recovery
   against a lossy stream.
2. Order engine: event replay against the transition table; ghost-fill recovery.
3. Order book sweep and accounting replay as pure operators against a reference
   definition.
4. `OrderLife` as the promise of `DurableExecution` too.
