-------------------------- MODULE PaperWriterLease --------------------------
(***************************************************************************)
(* The single-writer boundary of the PAPER account: the SQLite repository  *)
(* SqliteCloudPaperAccountRepository, the writer lease row it shares with  *)
(* every other process that opens the same state database, the transaction *)
(* runner SqliteDatabase.transaction it writes through, the trigger that   *)
(* keeps the account history chronological, and the operator's tool that   *)
(* clears an abandoned lease.                                              *)
(*                                                                         *)
(* A "writer" is one repository object with its execution loop: one        *)
(* process start, hence one random owner id, which acquires at most once.  *)
(* The account is abstracted to the set of operations (orders, fills,      *)
(* cancellations) its persisted state reflects; FillOps are the ones that  *)
(* produce a row of the canonical fill ledger.  Statements that run inside *)
(* BEGIN IMMEDIATE ... COMMIT are one step; statements outside it are one  *)
(* step each.                                                              *)
(***************************************************************************)
EXTENDS Integers, FiniteSets

CONSTANTS
    Writers,          \* repository objects, each with its own owner id
    None,             \* the owner of an absent lease row
    Ops,              \* account operations, each issued at most once
    FillOps,          \* the operations that append to the fill ledger
    LeaseDuration,    \* leaseDurationMs
    MaxClockAdvance,  \* maxClockAdvanceMs
    MaxTakeoverAge,   \* maxTakeoverAgeMs
    ClockSteps,       \* the jumps Date.now may make between two steps
    MaxClock,         \* bound on the clock
    LockTimeouts      \* TRUE: BEGIN IMMEDIATE may give up with SQLITE_BUSY

ASSUME NoneAssumption == None \notin Writers
ASSUME FillOpsAssumption == FillOps \subseteq Ops
\* The constructor's checks on its options (heartbeat interval left out).
ASSUME LeaseAssumption ==
    /\ LeaseDuration \in Nat \ {0}
    /\ MaxClockAdvance \in Nat
    /\ MaxClockAdvance >= LeaseDuration
    /\ MaxTakeoverAge \in Nat
    /\ MaxTakeoverAge >= LeaseDuration
ASSUME ClockAssumption == ClockSteps \subseteq Int /\ MaxClock \in Nat
ASSUME LockAssumption == LockTimeouts \in BOOLEAN

VARIABLES
    clock,    \* Date.now of the machine
    lease,    \* the row of cloud_paper_writer_leases; owner None: no row
    account,  \* the row of cloud_paper_accounts
    ledger,   \* the rows of cloud_paper_fill_ledger
    pc,       \* where each writer is
    mem,      \* the operations in each loop's in-memory account state
    pend,     \* the operation a writer is persisting, and its updatedAt
    seen,     \* lastObservedNowMs; the clock acquireLease read, before that
    lost,     \* leaseLost
    stuck,    \* SqliteDatabase.inTransaction left TRUE by a failed BEGIN
    used,     \* operations issued so far
    reset     \* the lease reset tool: where it is, whether the lease it read
              \* was still valid

diskVars == <<lease, account, ledger>>
vars == <<clock, lease, account, ledger, pc, mem, pend, seen, lost, stuck,
          used, reset>>

NoLease == [owner |-> None, until |-> 0, hb |-> 0]
NoAccount == [ops |-> {}, at |-> 0, status |-> "NONE"]
NoOp == [op |-> None, at |-> 0]
Idle == [pc |-> "idle", valid |-> FALSE]

Init ==
    /\ clock = 0
    /\ lease = NoLease
    /\ account = NoAccount
    /\ ledger = {}
    /\ pc = [w \in Writers |-> "new"]
    /\ mem = [w \in Writers |-> {}]
    /\ pend = [w \in Writers |-> NoOp]
    /\ seen = [w \in Writers |-> 0]
    /\ lost = [w \in Writers |-> FALSE]
    /\ stuck = [w \in Writers |-> FALSE]
    /\ used = {}
    /\ reset = Idle

-----------------------------------------------------------------------------
(* The lease row *)

\* A plausible slip: the renewal forgets which owner the row belongs to.
MRenewableAnyOwner(w) == lease.owner # None /\ lease.until > clock

\* The WHERE clause of the renewal in assertLeaseHeld.
RowRenewable(w) == lease.owner = w /\ lease.until > clock

\* A plausible slip: an expired lease is renewed by the writer that let it
\* lapse, and one that another writer took meanwhile with it.
MLeaseHeldByClock(w) ==
    ~lost[w] /\ clock - seen[w] <= MaxClockAdvance /\ lease.owner # None

\* assertLeaseHeld succeeds.  closed is pc "closed", which takes no step.
LeaseHeld(w) ==
    /\ ~lost[w]
    /\ seen[w] <= clock
    /\ clock - seen[w] <= MaxClockAdvance
    /\ RowRenewable(w)

\* A plausible slip: the new expiry is computed with the wrong sign.
MRenewed ==
    [owner |-> lease.owner, until |-> clock - LeaseDuration, hb |-> clock]

\* The row after the renewal in assertLeaseHeld: owner_id is not assigned.
Renewed ==
    [owner |-> lease.owner, until |-> clock + LeaseDuration, hb |-> clock]

\* assertLeaseHeld fails: the flag stays set whatever the transaction does.
LoseLease(w) == lost' = [lost EXCEPT ![w] = TRUE] /\ UNCHANGED seen

\* acquireLease lets a new owner in.
TakeoverAllowed(now) ==
    \/ lease.owner = None
    \/ /\ now >= lease.hb
       /\ now - lease.hb <= MaxTakeoverAge
       /\ lease.until <= now

Fills(ops) == ops \cap FillOps

Goto(w, l) == pc' = [pc EXCEPT ![w] = l]

\* The process ends, and what it kept in memory with it.
Exit(w, l) ==
    /\ Goto(w, l)
    /\ mem' = [mem EXCEPT ![w] = {}]
    /\ pend' = [pend EXCEPT ![w] = NoOp]
    /\ seen' = [seen EXCEPT ![w] = 0]
    /\ lost' = [lost EXCEPT ![w] = FALSE]
    /\ stuck' = [stuck EXCEPT ![w] = FALSE]

-----------------------------------------------------------------------------
(* Start-up: the repository's constructor, then the loop's loadLatest *)

\* acquireLease reads the clock before it waits for the write lock.
AcquireStart(w) ==
    /\ pc[w] = "new"
    /\ seen' = [seen EXCEPT ![w] = clock]
    /\ Goto(w, "acquiring")
    /\ UNCHANGED <<clock, diskVars, mem, pend, lost, stuck, used, reset>>

Acquire(w) ==
    /\ pc[w] = "acquiring"
    /\ TakeoverAllowed(seen[w])
    /\ lease' = [owner |-> w, until |-> seen[w] + LeaseDuration,
                 hb |-> seen[w]]
    /\ Goto(w, "constructing")
    /\ UNCHANGED <<clock, account, ledger, mem, pend, seen, lost, stuck,
                   used, reset>>

\* The constructor throws (lease held, clock anomaly, busy database): this
\* process exits and the supervisor may start another in its place.
AcquireRefused(w) ==
    /\ pc[w] = "acquiring"
    /\ ~TakeoverAllowed(seen[w]) \/ LockTimeouts
    /\ Exit(w, "new")
    /\ UNCHANGED <<clock, diskVars, used, reset>>

\* A writer asserts its lease and goes on to l, or throws during start-up.
AssertThenGoto(w, l) ==
    \/ /\ LeaseHeld(w)
       /\ lease' = Renewed
       /\ seen' = [seen EXCEPT ![w] = clock]
       /\ Goto(w, l)
       /\ UNCHANGED <<mem, pend, lost, stuck>>
    \/ /\ ~LeaseHeld(w)
       /\ Exit(w, "dead")
       /\ UNCHANGED lease

\* backfillFillLedgerFromHistory: the current snapshot must reconcile with a
\* non-empty ledger; an empty one is filled from history, under the lease
\* (nothing to add unless the database predates the ledger).
Backfill(w) ==
    /\ pc[w] = "constructing"
    /\ \/ /\ account.status = "VALID" => ledger # {} /\ Fills(account.ops) = ledger
          /\ Goto(w, "loading")
          /\ UNCHANGED <<lease, mem, pend, seen, lost, stuck>>
       \/ /\ account.status = "VALID" /\ ledger # {} /\ Fills(account.ops) # ledger
          /\ Exit(w, "dead")
          /\ UNCHANGED lease
       \/ /\ account.status = "VALID" /\ ledger = {}
          /\ AssertThenGoto(w, "loading")
    /\ UNCHANGED <<clock, account, ledger, used, reset>>

\* loadLatest, first statement: the renewal, outside any transaction.
LoadAssert(w) ==
    /\ pc[w] = "loading"
    /\ AssertThenGoto(w, "reading")
    /\ UNCHANGED <<clock, account, ledger, used, reset>>

\* loadLatest, second statement.  No VALID row: the loop starts afresh.
ReadAccount(w) ==
    /\ pc[w] = "reading"
    /\ \/ /\ account.status = "VALID"
          /\ mem' = [mem EXCEPT ![w] = account.ops]
          /\ Goto(w, "checking")
       \/ /\ account.status # "VALID"
          /\ mem' = [mem EXCEPT ![w] = {}]
          /\ Goto(w, "run")
    /\ UNCHANGED <<clock, diskVars, pend, seen, lost, stuck, used, reset>>

\* loadLatest, third statement: the ledger is read and reconciled.
ReadLedger(w) ==
    /\ pc[w] = "checking"
    /\ Goto(w, IF Fills(mem[w]) = ledger THEN "run" ELSE "marking")
    /\ UNCHANGED <<clock, diskVars, mem, pend, seen, lost, stuck, used, reset>>

\* loadLatest's catch: the row is quarantined and the start-up fails.
MarkCorrupted(w) ==
    /\ pc[w] = "marking"
    /\ account' = [ops |-> account.ops, at |-> account.at,
                   status |-> "CORRUPTED"]
    /\ Exit(w, "dead")
    /\ UNCHANGED <<clock, lease, ledger, used, reset>>

-----------------------------------------------------------------------------
(* Running: lease checks and saves *)

\* A plausible slip: a heartbeat that finds its lease expired or gone takes
\* it again instead of failing closed.
MCheckLease(w) ==
    /\ pc[w] = "run" /\ ~lost[w]
    /\ lease' = IF TakeoverAllowed(clock)
                THEN [owner |-> w, until |-> clock + LeaseDuration, hb |-> clock]
                ELSE lease
    /\ UNCHANGED <<clock, account, ledger, pc, mem, pend, seen, lost, stuck,
                   used, reset>>

\* assertLeaseHeld alone, in its own transaction: the heartbeat timer's
\* callback, and verifyWriterLease before a supervised learning tick.
CheckLease(w) ==
    /\ pc[w] = "run" /\ ~lost[w]
    /\ \/ /\ LeaseHeld(w)
          /\ lease' = Renewed
          /\ seen' = [seen EXCEPT ![w] = clock]
          /\ UNCHANGED lost
       \/ /\ ~LeaseHeld(w)
          /\ LoseLease(w)
          /\ UNCHANGED lease
    /\ UNCHANGED <<clock, account, ledger, pc, mem, pend, stuck, used, reset>>

\* BEGIN IMMEDIATE throws SQLITE_BUSY before the try block that would reset
\* inTransaction.  The heartbeat turns any error into a lost lease;
\* verifyWriterLease passes it on.
CheckLeaseBusy(w) ==
    /\ LockTimeouts
    /\ pc[w] = "run" /\ ~lost[w] /\ ~stuck[w]
    /\ stuck' = [stuck EXCEPT ![w] = TRUE]
    /\ \E b \in BOOLEAN : lost' = [lost EXCEPT ![w] = b]
    /\ UNCHANGED <<clock, diskVars, pc, mem, pend, seen, used, reset>>

\* The loop computes its next account state and calls save with it.
Execute(w, o) ==
    /\ pc[w] = "run"
    /\ o \notin used
    /\ used' = used \cup {o}
    /\ pend' = [pend EXCEPT ![w] = [op |-> o, at |-> clock]]
    /\ Goto(w, "saving")
    /\ UNCHANGED <<clock, diskVars, mem, seen, lost, stuck, reset>>

\* save returns or throws, and the loop answers its caller.
Return(w) == Goto(w, "run") /\ pend' = [pend EXCEPT ![w] = NoOp]

NextOps(w) == mem[w] \cup {pend[w].op}

\* appendFillLedgerRows: the rows the ledger lacks are added.
Appended(w) == ledger \cup Fills(NextOps(w))

\* assertFillLedgerReconcilesState: the state's cash and positions are the
\* replay of exactly the ledger's fills.
Reconciles(w, rows) == Fills(NextOps(w)) = rows

\* The history triggers abort on a newer row, and on another state with the
\* same updated_at; the newest history row is the last state saved.
Chronological(w) == account.status # "NONE" => pend[w].at > account.at

Saved(w) == [ops |-> NextOps(w), at |-> pend[w].at, status |-> "VALID"]

\* save, in a transaction that commits; the loop then adopts the state.
SaveCommit(w) ==
    /\ pc[w] = "saving" /\ ~stuck[w]
    /\ LeaseHeld(w)
    /\ Reconciles(w, Appended(w))
    /\ Chronological(w)
    /\ lease' = Renewed
    /\ ledger' = Appended(w)
    /\ account' = Saved(w)
    /\ mem' = [mem EXCEPT ![w] = NextOps(w)]
    /\ seen' = [seen EXCEPT ![w] = clock]
    /\ Return(w)
    /\ UNCHANGED <<clock, lost, stuck, used, reset>>

\* A plausible slip: the fill rows are written before the transaction starts,
\* so that a rejected save leaves them behind.
MSaveRollback(w) ==
    /\ pc[w] = "saving" /\ ~stuck[w] /\ LeaseHeld(w)
    /\ ~(Reconciles(w, Appended(w)) /\ Chronological(w))
    /\ ledger' = Appended(w)
    /\ Return(w)
    /\ UNCHANGED <<clock, lease, account, mem, seen, lost, stuck, used, reset>>

\* save throws and the transaction rolls back, the renewal included; what
\* assertLeaseHeld wrote in memory stays.  The loop keeps its old state.
SaveRollback(w) ==
    /\ pc[w] = "saving" /\ ~stuck[w]
    /\ \/ ~LeaseHeld(w) /\ LoseLease(w)
       \/ /\ LeaseHeld(w)
          /\ ~(Reconciles(w, Appended(w)) /\ Chronological(w))
          /\ seen' = [seen EXCEPT ![w] = clock]
          /\ UNCHANGED lost
    /\ Return(w)
    /\ UNCHANGED <<clock, diskVars, mem, stuck, used, reset>>

SaveBusy(w) ==
    /\ LockTimeouts
    /\ pc[w] = "saving" /\ ~stuck[w]
    /\ stuck' = [stuck EXCEPT ![w] = TRUE]
    /\ Return(w)
    /\ UNCHANGED <<clock, diskVars, mem, seen, lost, used, reset>>

\* With inTransaction left set, transaction(fn) only calls fn: each statement
\* of save commits by itself.
StuckSaveAssert(w) ==
    /\ pc[w] = "saving" /\ stuck[w]
    /\ \/ /\ LeaseHeld(w)
          /\ lease' = Renewed
          /\ seen' = [seen EXCEPT ![w] = clock]
          /\ Goto(w, "appending")
          /\ UNCHANGED <<pend, lost>>
       \/ /\ ~LeaseHeld(w)
          /\ LoseLease(w)
          /\ Return(w)
          /\ UNCHANGED lease
    /\ UNCHANGED <<clock, account, ledger, mem, stuck, used, reset>>

StuckSaveAppend(w) ==
    /\ pc[w] = "appending"
    /\ ledger' = Appended(w)
    /\ Goto(w, "upserting")
    /\ UNCHANGED <<clock, lease, account, mem, pend, seen, lost, stuck, used,
                   reset>>

StuckSaveUpsert(w) ==
    /\ pc[w] = "upserting"
    /\ Return(w)
    /\ \/ /\ Reconciles(w, ledger) /\ Chronological(w)
          /\ account' = Saved(w)
          /\ mem' = [mem EXCEPT ![w] = NextOps(w)]
       \/ /\ ~(Reconciles(w, ledger) /\ Chronological(w))
          /\ UNCHANGED <<account, mem>>
    /\ UNCHANGED <<clock, lease, ledger, seen, lost, stuck, used, reset>>

\* close: the writer deletes its own row.
Close(w) ==
    /\ pc[w] = "run"
    /\ lease' = IF lease.owner = w THEN NoLease ELSE lease
    /\ Exit(w, "closed")
    /\ UNCHANGED <<clock, account, ledger, used, reset>>

-----------------------------------------------------------------------------
(* The environment: crashes, the clock, the operator's reset tool *)

Terminated == {"dead", "closed"}

\* The process is killed; an open transaction rolls back, the row stays.
\* (One killed before it has acquired is a refused start.)
Crash(w) ==
    /\ pc[w] \notin Terminated \cup {"new", "acquiring"}
    /\ Exit(w, "dead")
    /\ UNCHANGED <<clock, diskVars, used, reset>>

Tick(d) ==
    /\ clock + d \in 0..MaxClock
    /\ clock' = clock + d
    /\ UNCHANGED <<diskVars, pc, mem, pend, seen, lost, stuck, used, reset>>

\* resetPaperWriterLease: the clock and the row are read first ...
ResetRead ==
    /\ reset.pc = "idle" /\ lease.owner # None
    /\ reset' = [pc |-> "probing", valid |-> lease.until > clock]
    /\ UNCHANGED <<clock, diskVars, pc, mem, pend, seen, lost, stuck, used>>

\* ... then /health is awaited, for up to two seconds.  A running loop answers;
\* a process in the middle of a synchronous start-up or save does not.  An
\* answer, or a lease that was valid when read, stops the tool.
ResetProbe ==
    /\ reset.pc = "probing"
    /\ reset' = IF reset.valid \/ \E w \in Writers : pc[w] = "run"
                THEN Idle ELSE [pc |-> "deleting", valid |-> FALSE]
    /\ UNCHANGED <<clock, diskVars, pc, mem, pend, seen, lost, stuck, used>>

\* A plausible slip: the tool reports success without deleting the row.
MResetDelete ==
    /\ reset.pc = "deleting"
    /\ reset' = Idle
    /\ UNCHANGED <<clock, diskVars, pc, mem, pend, seen, lost, stuck, used>>

\* deleteLease: the row goes, whoever owns it by now.
ResetDelete ==
    /\ reset.pc = "deleting"
    /\ lease' = NoLease
    /\ reset' = Idle
    /\ UNCHANGED <<clock, account, ledger, pc, mem, pend, seen, lost, stuck,
                   used>>

ResetTool == ResetRead \/ ResetProbe \/ ResetDelete

Startup(w) ==
    \/ AcquireStart(w) \/ Acquire(w) \/ AcquireRefused(w) \/ Backfill(w)
    \/ LoadAssert(w) \/ ReadAccount(w) \/ ReadLedger(w) \/ MarkCorrupted(w)

Persist(w) ==
    \/ SaveCommit(w) \/ SaveRollback(w) \/ SaveBusy(w)
    \/ StuckSaveAssert(w) \/ StuckSaveAppend(w) \/ StuckSaveUpsert(w)

Next ==
    \/ \E w \in Writers :
        \/ Startup(w) \/ Persist(w) \/ CheckLease(w) \/ CheckLeaseBusy(w)
        \/ Close(w) \/ Crash(w)
        \/ \E o \in Ops : Execute(w, o)
    \/ \E d \in ClockSteps : Tick(d)
    \/ ResetTool

Spec == Init /\ [][Next]_vars

-----------------------------------------------------------------------------
(* Properties *)

Labels == {"new", "acquiring", "constructing", "loading", "reading",
           "checking", "marking", "run", "saving", "appending", "upserting",
           "dead", "closed"}

\* The type invariant.
TypeOK ==
    /\ clock \in Nat
    /\ lease \in [owner : Writers \cup {None}, until : Nat, hb : Nat]
    /\ account \in [ops : SUBSET Ops, at : Nat,
                    status : {"NONE", "VALID", "CORRUPTED"}]
    /\ ledger \subseteq FillOps
    /\ pc \in [Writers -> Labels]
    /\ mem \in [Writers -> SUBSET Ops]
    /\ pend \in [Writers -> [op : Ops \cup {None}, at : Nat]]
    /\ \A w \in Writers : pc[w] \in {"saving", "appending", "upserting"}
                            => pend[w].op \in Ops
    /\ seen \in [Writers -> Nat]
    /\ lost \in [Writers -> BOOLEAN]
    /\ stuck \in [Writers -> BOOLEAN]
    /\ used \subseteq Ops
    /\ reset \in [pc : {"idle", "probing", "deleting"}, valid : BOOLEAN]

\* The account and the canonical fill ledger always tell the same story: the
\* account reflects exactly the fills of the ledger (what loadLatest and the
\* constructor reconcile before they trust either), except between two
\* statements of a save that runs without its transaction.
LedgerMatchesAccount ==
    (\A w \in Writers : pc[w] # "upserting") => Fills(account.ops) = ledger

\* No update is lost: whichever writers start, stall, crash or are displaced,
\* a save never drops an operation that was committed before it.
NoLostUpdate == [][account.ops \subseteq account'.ops]_vars

Displaced(w) == pc[w] \notin {"new", "acquiring"} /\ lease.owner # w

\* Fencing is final: once a started writer does not own the lease row, no
\* clock jump, renewal or reset ever gives the row back to it.
DisplacedForever ==
    [][\A w \in Writers : Displaced(w) => Displaced(w)']_vars

Started(w) == pc[w] \notin {"new", "acquiring"}

\* The repository implements the abstract single-writer account.
Serial == INSTANCE SerialAccount WITH
    holder <- lease.owner,
    granted <- {w \in Writers : Started(w)},
    committed <- account.ops,
    filled <- ledger

ImplementsSerialAccount == Serial!Spec

\* Only the lease holder mutates the account: "two processes can never mutate
\* the same PAPER account".  The writer that takes a step changing the account
\* row is the one whose program counter moves.
OnlyHolderMutates ==
    [][\A w \in Writers :
        account' # account /\ pc'[w] # pc[w] => lease.owner = w]_vars

\* The reset tool never clears the lease of a runtime that is serving.
ResetSparesLiveWriter ==
    [][reset.pc = "deleting" /\ reset' # reset /\ lease.owner # None
        => pc[lease.owner] # "run" \/ lease.until <= clock]_vars

\* The inductive invariant behind the account's safety.  A writer that owns
\* the row and has read the account holds the persisted operations, or the
\* empty start-up state of a quarantined account, which cannot reconcile with
\* the ledger any more; nothing is read or quarantined that the ledger has
\* not seen.
HasRead(w) == pc[w] \in {"checking", "marking", "run", "saving"}

CurrentView ==
    /\ \A w \in Writers :
        /\ ~stuck[w] /\ pc[w] \notin {"appending", "upserting"}
        /\ HasRead(w) => Fills(mem[w]) \subseteq ledger
        /\ HasRead(w) /\ lease.owner = w =>
            mem[w] = account.ops \/ (mem[w] = {} /\ ledger # {})
        /\ pc[w] = "marking" => ledger # {}
        /\ pc[w] = "saving" => pend[w].op \in used \ account.ops
    /\ \A v, w \in Writers :
        pc[v] = "saving" /\ pc[w] = "saving" /\ v # w => pend[v].op # pend[w].op
    /\ account.ops \subseteq used
    /\ account.status = "CORRUPTED" => ledger # {}
    /\ account.status = "NONE" => account.ops = {}

-----------------------------------------------------------------------------
(* Liveness: somebody can always start again *)

\* Time passes, a supervisor restarts a refused start-up, no process keeps the
\* database locked for good, and an operator runs the reset tool on a database
\* that does not start.
Fairness ==
    /\ \A d \in ClockSteps : WF_vars(Tick(d))
    /\ \A w \in Writers : WF_vars(AcquireStart(w))
                       /\ SF_vars(Acquire(w)) /\ WF_vars(AcquireRefused(w))
    /\ WF_vars(ResetTool)

FairSpec == Spec /\ Fairness

\* A crash never leaves the database unstartable: when every other writer is
\* gone, a new process eventually gets the lease, by takeover or after a
\* reset.  (The row they left expires within the bound on the clock.)
StartupRecovers ==
    \A w \in Writers :
        (/\ pc[w] \in {"new", "acquiring"}
         /\ lease.until <= MaxClock
         /\ \A v \in Writers \ {w} : pc[v] \in Terminated) ~> Started(w)

=============================================================================
