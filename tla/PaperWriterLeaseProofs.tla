---------------------- MODULE PaperWriterLeaseProofs -----------------------
(***************************************************************************)
(* Proofs about the PAPER writer lease, for any number of writers, any     *)
(* clock and any lease durations.                                          *)
(***************************************************************************)
EXTENDS PaperWriterLease, TLAPS

\* Every step of the specification is one of these.
LEMMA StepCases ==
    ASSUME [Next]_vars
    PROVE  \/ \E w \in Writers :
                \/ AcquireStart(w) \/ Acquire(w) \/ AcquireRefused(w)
                \/ Backfill(w) \/ LoadAssert(w) \/ ReadAccount(w)
                \/ ReadLedger(w) \/ MarkCorrupted(w) \/ SaveCommit(w)
                \/ SaveRollback(w) \/ SaveBusy(w) \/ StuckSaveAssert(w)
                \/ StuckSaveAppend(w) \/ StuckSaveUpsert(w) \/ CheckLease(w)
                \/ CheckLeaseBusy(w) \/ Close(w) \/ Crash(w)
                \/ \E o \in Ops : Execute(w, o)
           \/ \E d \in ClockSteps : Tick(d)
           \/ ResetRead \/ ResetProbe \/ ResetDelete
           \/ UNCHANGED vars
  BY DEF Next, Startup, Persist, ResetTool

-----------------------------------------------------------------------------
(* Types *)

\* Every variable keeps its type.
LEMMA TypeStep == TypeOK /\ [Next]_vars => TypeOK'
<1> SUFFICES ASSUME TypeOK, [Next]_vars PROVE TypeOK'
  OBVIOUS
<1> USE NoneAssumption, FillOpsAssumption, LeaseAssumption, ClockAssumption
<1>1. ASSUME NEW w \in Writers PROVE w \in Writers \cup {None}
  OBVIOUS
<1>2. ASSUME NEW w \in Writers, AcquireStart(w) PROVE TypeOK'
  BY <1>2 DEF TypeOK, AcquireStart, diskVars, Labels, Goto
<1>3. ASSUME NEW w \in Writers, Acquire(w) PROVE TypeOK'
  BY <1>3 DEF TypeOK, Acquire, diskVars, Labels, Goto
<1>4. ASSUME NEW w \in Writers, AcquireRefused(w) PROVE TypeOK'
  BY <1>4 DEF TypeOK, AcquireRefused, diskVars, Labels, Exit, Goto, NoOp
<1>5. ASSUME NEW w \in Writers, NEW l \in {"loading", "reading"},
             AssertThenGoto(w, l),
             UNCHANGED <<clock, account, ledger, used, reset>>
      PROVE  TypeOK'
  <2>1. CASE LeaseHeld(w)
    <3>1. /\ lease' = Renewed /\ seen' = [seen EXCEPT ![w] = clock]
          /\ pc' = [pc EXCEPT ![w] = l]
          /\ mem' = mem /\ pend' = pend /\ lost' = lost /\ stuck' = stuck
      BY <1>5, <2>1 DEF AssertThenGoto, Goto
    <3> QED
      BY <1>5, <3>1 DEF TypeOK, Labels, Renewed
  <2>2. CASE ~LeaseHeld(w)
    <3>1. Exit(w, "dead") /\ lease' = lease
      BY <1>5, <2>2 DEF AssertThenGoto
    <3> QED
      BY <1>5, <3>1 DEF TypeOK, Labels, Exit, Goto, NoOp
  <2> QED
    BY <2>1, <2>2
<1>6. ASSUME NEW w \in Writers, Backfill(w) PROVE TypeOK'
  <2>0. UNCHANGED <<clock, account, ledger, used, reset>>
    BY <1>6 DEF Backfill
  <2>1. CASE Goto(w, "loading") /\ UNCHANGED <<lease, mem, pend, seen, lost, stuck>>
    BY <2>0, <2>1 DEF TypeOK, Labels, Goto
  <2>2. CASE Exit(w, "dead") /\ UNCHANGED lease
    BY <2>0, <2>2 DEF TypeOK, Labels, Exit, Goto, NoOp
  <2>3. CASE AssertThenGoto(w, "loading")
    BY <1>5, <2>0, <2>3
  <2> QED
    BY <1>6, <2>1, <2>2, <2>3 DEF Backfill
<1>L. ASSUME NEW w \in Writers, LoadAssert(w) PROVE TypeOK'
  BY <1>5, <1>L DEF LoadAssert
<1>7. ASSUME NEW w \in Writers, ReadAccount(w) PROVE TypeOK'
  BY <1>7, SMTT(30) DEF TypeOK, ReadAccount, diskVars, Labels, Goto
<1>8. ASSUME NEW w \in Writers, ReadLedger(w) PROVE TypeOK'
  BY <1>8 DEF TypeOK, ReadLedger, diskVars, Labels, Goto
<1>9. ASSUME NEW w \in Writers, MarkCorrupted(w) PROVE TypeOK'
  BY <1>9 DEF TypeOK, MarkCorrupted, diskVars, Labels, Exit, Goto, NoOp
<1>10. ASSUME NEW w \in Writers, SaveCommit(w) PROVE TypeOK'
  BY <1>10 DEF TypeOK, SaveCommit, diskVars, Labels, Renewed, Appended, Saved, NextOps, Fills, Return, Goto, NoOp
<1>11. ASSUME NEW w \in Writers, SaveRollback(w) PROVE TypeOK'
  <2>1. CASE LeaseHeld(w)
    BY <1>11, <2>1 DEF TypeOK, SaveRollback, diskVars, Labels, LoseLease, Return, Goto, NoOp
  <2>2. CASE ~LeaseHeld(w)
    BY <1>11, <2>2 DEF TypeOK, SaveRollback, diskVars, Labels, LoseLease, Return, Goto, NoOp
  <2> QED
    BY <2>1, <2>2
<1>12. ASSUME NEW w \in Writers, SaveBusy(w) PROVE TypeOK'
  BY <1>12 DEF TypeOK, SaveBusy, diskVars, Labels, Return, Goto, NoOp
<1>13. ASSUME NEW w \in Writers, StuckSaveAssert(w) PROVE TypeOK'
  <2>0. UNCHANGED <<clock, account, ledger, mem, stuck, used, reset>>
    BY <1>13 DEF StuckSaveAssert
  <2>1. CASE LeaseHeld(w)
    <3>1. /\ lease' = Renewed /\ seen' = [seen EXCEPT ![w] = clock]
          /\ pc' = [pc EXCEPT ![w] = "appending"]
          /\ pend' = pend /\ lost' = lost /\ pc[w] = "saving"
      BY <1>13, <2>1 DEF StuckSaveAssert, Goto
    <3> QED
      BY <2>0, <3>1 DEF TypeOK, Labels, Renewed
  <2>2. CASE ~LeaseHeld(w)
    <3>1. LoseLease(w) /\ Return(w) /\ lease' = lease
      BY <1>13, <2>2 DEF StuckSaveAssert
    <3> QED
      BY <2>0, <3>1 DEF TypeOK, Labels, LoseLease, Return, Goto, NoOp
  <2> QED
    BY <2>1, <2>2
<1>14. ASSUME NEW w \in Writers, StuckSaveAppend(w) PROVE TypeOK'
  BY <1>14 DEF TypeOK, StuckSaveAppend, diskVars, Labels, Appended, NextOps, Fills, Goto
<1>15. ASSUME NEW w \in Writers, StuckSaveUpsert(w) PROVE TypeOK'
  BY <1>15 DEF TypeOK, StuckSaveUpsert, diskVars, Labels, Saved, NextOps, Return, Goto, NoOp
<1>16. ASSUME NEW w \in Writers, CheckLease(w) PROVE TypeOK'
  <2>1. CASE LeaseHeld(w)
    BY <1>16, <2>1, SMTT(30) DEF TypeOK, CheckLease, Labels, Renewed, LoseLease
  <2>2. CASE ~LeaseHeld(w)
    BY <1>16, <2>2 DEF TypeOK, CheckLease, Labels, Renewed, LoseLease
  <2> QED
    BY <2>1, <2>2
<1>17. ASSUME NEW w \in Writers, CheckLeaseBusy(w) PROVE TypeOK'
  BY <1>17 DEF TypeOK, CheckLeaseBusy, diskVars, Labels
<1>18. ASSUME NEW w \in Writers, Close(w) PROVE TypeOK'
  BY <1>18 DEF TypeOK, Close, diskVars, Labels, Exit, Goto, NoOp, NoLease
<1>19. ASSUME NEW w \in Writers, Crash(w) PROVE TypeOK'
  BY <1>19 DEF TypeOK, Crash, diskVars, Labels, Exit, Goto, NoOp
<1>20. ASSUME NEW w \in Writers, NEW o \in Ops, Execute(w, o) PROVE TypeOK'
  BY <1>20 DEF TypeOK, Execute, diskVars, Labels, Goto
<1>21. ASSUME NEW d \in ClockSteps, Tick(d) PROVE TypeOK'
  BY <1>21 DEF TypeOK, Tick, diskVars
<1>22. CASE ResetRead
  BY <1>22 DEF TypeOK, ResetRead, diskVars, Idle
<1>23. CASE ResetProbe
  BY <1>23 DEF TypeOK, ResetProbe, diskVars, Idle
<1>24. CASE ResetDelete
  BY <1>24 DEF TypeOK, ResetDelete, diskVars, Idle, NoLease
<1>25. CASE UNCHANGED vars
  BY <1>25 DEF TypeOK, vars
<1> QED
  BY StepCases, <1>L, <1>2, <1>3, <1>4, <1>6, <1>7, <1>8, <1>9, <1>10, <1>11, <1>12, <1>13, <1>14, <1>15, <1>16, <1>17, <1>18, <1>19, <1>20, <1>21, <1>22, <1>23, <1>24, <1>25

\* Type correctness of the repository, the loop memories and the reset tool.
THEOREM TypeCorrect == Spec => []TypeOK
<1>1. Init => TypeOK
  BY FillOpsAssumption DEF Init, TypeOK, NoLease, NoAccount, NoOp, Idle, Labels
<1> QED
  BY <1>1, TypeStep, PTL DEF Spec

-----------------------------------------------------------------------------
(* The account, when BEGIN IMMEDIATE never times out *)

\* Account and ledger agree in every state, not only between saves.
LEMMA Agree == CurrentView /\ LedgerMatchesAccount => Fills(account.ops) = ledger
  BY DEF CurrentView, LedgerMatchesAccount

\* A commit extends the persisted account by exactly the pending operation:
\* the owner's view is current, because the start-up state of a quarantined
\* account cannot reconcile with a ledger that is not empty.
LEMMA CommitExtends ==
    ASSUME TypeOK, CurrentView, LedgerMatchesAccount,
           NEW w \in Writers, SaveCommit(w)
    PROVE  /\ lease.owner = w
           /\ pend[w].op \in used \ account.ops
           /\ account'.ops = account.ops \cup {pend[w].op}
           /\ mem'[w] = account'.ops
           /\ ledger' = ledger \cup ({pend[w].op} \cap FillOps)
           /\ Fills(account'.ops) = ledger'
<1>1. /\ lease.owner = w
      /\ pend[w].op \in used \ account.ops
  BY DEF SaveCommit, LeaseHeld, RowRenewable, CurrentView
<1>2. Fills(account.ops) = ledger
  BY Agree
<1>3. mem[w] = account.ops \/ (mem[w] = {} /\ ledger # {})
  BY <1>1 DEF SaveCommit, CurrentView, HasRead
<1>4. /\ account'.ops = mem[w] \cup {pend[w].op}
      /\ mem'[w] = mem[w] \cup {pend[w].op}
      /\ ledger' = ledger \cup Fills(mem[w] \cup {pend[w].op})
      /\ Fills(mem[w] \cup {pend[w].op}) = ledger \cup Fills(mem[w] \cup {pend[w].op})
  BY DEF SaveCommit, Saved, NextOps, Appended, Reconciles, TypeOK
<1>5. mem[w] = account.ops
  BY <1>1, <1>2, <1>3, <1>4 DEF Fills
<1> QED
  BY <1>1, <1>2, <1>4, <1>5 DEF Fills

\* The inductive step.
LEMMA ViewStep ==
    ASSUME LockTimeouts = FALSE, TypeOK, CurrentView, LedgerMatchesAccount,
           [Next]_vars
    PROVE  CurrentView' /\ LedgerMatchesAccount'
<1> USE NoneAssumption, FillOpsAssumption
<1>1. Fills(account.ops) = ledger
  BY Agree
<1> DEFINE Goal == CurrentView' /\ Fills(account'.ops) = ledger'
<1>2. SUFFICES Goal
  BY DEF CurrentView, LedgerMatchesAccount
<1>3. ASSUME NEW w \in Writers, AcquireStart(w) PROVE Goal
  BY <1>3, <1>1 DEF TypeOK, CurrentView, HasRead, Fills, AcquireStart, diskVars, Goto
<1>4. ASSUME NEW w \in Writers, Acquire(w) PROVE Goal
  BY <1>4, <1>1 DEF TypeOK, CurrentView, HasRead, Fills, Acquire, diskVars, Goto
<1>5. ASSUME NEW w \in Writers, AcquireRefused(w) PROVE Goal
  BY <1>5, <1>1 DEF TypeOK, CurrentView, HasRead, Fills, AcquireRefused, diskVars, Exit, Goto, NoOp
<1>6. ASSUME NEW w \in Writers, ReadLedger(w) PROVE Goal
  BY <1>6, <1>1 DEF TypeOK, CurrentView, HasRead, Fills, ReadLedger, diskVars, Goto
<1>7. ASSUME NEW w \in Writers, MarkCorrupted(w) PROVE Goal
  BY <1>7, <1>1 DEF TypeOK, CurrentView, HasRead, Fills, MarkCorrupted, diskVars, Exit, Goto, NoOp
<1>8. ASSUME NEW w \in Writers, SaveRollback(w) PROVE Goal
  BY <1>8, <1>1 DEF TypeOK, CurrentView, HasRead, Fills, SaveRollback, diskVars, LoseLease, Return, Goto, NoOp
<1>9. ASSUME NEW w \in Writers, CheckLease(w) PROVE Goal
  BY <1>9, <1>1 DEF TypeOK, CurrentView, HasRead, Fills, CheckLease, diskVars, Renewed, LoseLease
<1>10. ASSUME NEW w \in Writers, Close(w) PROVE Goal
  BY <1>10, <1>1 DEF TypeOK, CurrentView, HasRead, Fills, Close, diskVars, Exit, Goto, NoOp, NoLease
<1>11. ASSUME NEW w \in Writers, Crash(w) PROVE Goal
  BY <1>11, <1>1 DEF TypeOK, CurrentView, HasRead, Fills, Crash, diskVars, Exit, Goto, NoOp
<1>12. ASSUME NEW w \in Writers, ReadAccount(w) PROVE Goal
  <2>0. /\ UNCHANGED <<clock, lease, account, ledger, pend, seen, lost, stuck,
                      used, reset>>
        /\ pc[w] = "reading"
    BY <1>12 DEF ReadAccount, diskVars
  <2>1. CASE account.status = "VALID"
    <3>1. mem' = [mem EXCEPT ![w] = account.ops] /\ pc' = [pc EXCEPT ![w] = "checking"]
      BY <1>12, <2>1 DEF ReadAccount, Goto
    <3> QED
      BY <1>1, <2>0, <2>1, <3>1 DEF TypeOK, CurrentView, HasRead, Fills
  <2>2. CASE account.status # "VALID"
    <3>1. mem' = [mem EXCEPT ![w] = {}] /\ pc' = [pc EXCEPT ![w] = "run"]
      BY <1>12, <2>2 DEF ReadAccount, Goto
    <3>2. account.ops = {} \/ ledger # {}
      BY <2>2 DEF TypeOK, CurrentView
    <3> QED
      BY <1>1, <2>0, <3>1, <3>2 DEF TypeOK, CurrentView, HasRead, Fills
  <2> QED
    BY <2>1, <2>2
<1>13. ASSUME NEW w \in Writers, NEW l \in {"loading", "reading"},
              pc[w] \in {"constructing", "loading"}, AssertThenGoto(w, l),
              UNCHANGED <<clock, account, ledger, used, reset>>
       PROVE  Goal
  <2>1. CASE LeaseHeld(w)
    <3>1. /\ lease' = Renewed /\ seen' = [seen EXCEPT ![w] = clock]
          /\ pc' = [pc EXCEPT ![w] = l]
          /\ mem' = mem /\ pend' = pend /\ lost' = lost /\ stuck' = stuck
      BY <1>13, <2>1 DEF AssertThenGoto, Goto
    <3> QED
      BY <1>1, <1>13, <3>1 DEF TypeOK, CurrentView, HasRead, Fills, Renewed
  <2>2. CASE ~LeaseHeld(w)
    <3>1. Exit(w, "dead") /\ lease' = lease
      BY <1>13, <2>2 DEF AssertThenGoto
    <3> QED
      BY <1>1, <1>13, <3>1 DEF TypeOK, CurrentView, HasRead, Fills, Exit, Goto, NoOp
  <2> QED
    BY <2>1, <2>2
<1>14. ASSUME NEW w \in Writers, Backfill(w) PROVE Goal
  <2>0. UNCHANGED <<clock, account, ledger, used, reset>> /\ pc[w] = "constructing"
    BY <1>14 DEF Backfill
  <2>1. CASE Goto(w, "loading") /\ UNCHANGED <<lease, mem, pend, seen, lost, stuck>>
    BY <1>1, <2>0, <2>1 DEF TypeOK, CurrentView, HasRead, Fills, Goto
  <2>2. CASE Exit(w, "dead") /\ UNCHANGED lease
    BY <1>1, <2>0, <2>2 DEF TypeOK, CurrentView, HasRead, Fills, Exit, Goto, NoOp
  <2>3. CASE AssertThenGoto(w, "loading")
    BY <1>13, <2>0, <2>3
  <2> QED
    BY <1>14, <2>1, <2>2, <2>3 DEF Backfill
<1>15. ASSUME NEW w \in Writers, LoadAssert(w) PROVE Goal
  BY <1>13, <1>15 DEF LoadAssert
<1>16. ASSUME NEW w \in Writers, SaveCommit(w) PROVE Goal
  <2>1. /\ lease.owner = w
        /\ pend[w].op \in used \ account.ops
        /\ account'.ops = account.ops \cup {pend[w].op}
        /\ mem'[w] = account'.ops
        /\ ledger' = ledger \cup ({pend[w].op} \cap FillOps)
        /\ Fills(account'.ops) = ledger'
    BY <1>16, CommitExtends
  <2>2. /\ pc[w] = "saving" /\ pc' = [pc EXCEPT ![w] = "run"]
        /\ mem' = [mem EXCEPT ![w] = NextOps(w)]
        /\ pend' = [pend EXCEPT ![w] = NoOp]
        /\ lease'.owner = lease.owner /\ account'.status = "VALID"
        /\ used' = used /\ stuck' = stuck
    BY <1>16 DEF SaveCommit, Return, Goto, Saved, Renewed
  <2>3. \A v \in Writers : ~stuck'[v] /\ pc'[v] \notin {"appending", "upserting"}
    BY <2>2 DEF TypeOK, CurrentView
  <2>4. ASSUME NEW v \in Writers, HasRead(v)'
        PROVE  /\ Fills(mem'[v]) \subseteq ledger'
               /\ lease'.owner = v => mem'[v] = account'.ops
    BY <2>1, <2>2, <2>4 DEF TypeOK, CurrentView, HasRead, Fills
  <2>5. ASSUME NEW v \in Writers
        PROVE  /\ pc'[v] = "marking" => ledger' # {}
               /\ pc'[v] = "saving" => pend'[v].op \in used' \ account'.ops
    BY <2>1, <2>2 DEF TypeOK, CurrentView
  <2>6. ASSUME NEW v \in Writers, NEW u \in Writers,
               pc'[v] = "saving", pc'[u] = "saving", v # u
        PROVE  pend'[v].op # pend'[u].op
    BY <2>2, <2>6 DEF TypeOK, CurrentView
  <2>7. account'.ops \subseteq used'
    BY <2>1, <2>2 DEF CurrentView
  <2> QED
    BY <2>1, <2>2, <2>3, <2>4, <2>5, <2>6, <2>7 DEF CurrentView
<1>17. ASSUME NEW w \in Writers,
              SaveBusy(w) \/ CheckLeaseBusy(w) \/ StuckSaveAssert(w)
              \/ StuckSaveAppend(w) \/ StuckSaveUpsert(w)
       PROVE  FALSE
  BY <1>17 DEF CurrentView, SaveBusy, CheckLeaseBusy, StuckSaveAssert,
               StuckSaveAppend, StuckSaveUpsert
<1>18. ASSUME NEW w \in Writers, NEW o \in Ops, Execute(w, o) PROVE Goal
  BY <1>18, <1>1 DEF TypeOK, CurrentView, HasRead, Fills, Execute, diskVars, Goto
<1>19. ASSUME NEW d \in ClockSteps, Tick(d) PROVE Goal
  BY <1>19, <1>1 DEF CurrentView, HasRead, Fills, Tick, diskVars
<1>20. CASE ResetRead
  BY <1>20, <1>1 DEF CurrentView, HasRead, Fills, ResetRead, diskVars
<1>21. CASE ResetProbe
  BY <1>21, <1>1 DEF CurrentView, HasRead, Fills, ResetProbe, diskVars
<1>22. CASE ResetDelete
  BY <1>22, <1>1 DEF CurrentView, HasRead, Fills, ResetDelete, NoLease, diskVars
<1>23. CASE UNCHANGED vars
  BY <1>23, <1>1 DEF CurrentView, HasRead, Fills, vars
<1> QED
  BY StepCases, <1>3, <1>4, <1>5, <1>6, <1>7, <1>8, <1>9, <1>10, <1>11, <1>12,
     <1>14, <1>15, <1>16, <1>17, <1>18, <1>19, <1>20, <1>21, <1>22, <1>23

LEMMA ViewInit == Init => CurrentView /\ LedgerMatchesAccount
  BY DEF Init, CurrentView, LedgerMatchesAccount, HasRead, Fills, NoAccount,
         NoLease

\* While no BEGIN IMMEDIATE gives up, the account and the canonical fill ledger
\* agree in every state, for any number of writers and whatever their clocks,
\* crashes and takeovers, and every owner's view is current.
THEOREM LedgerAgrees ==
    ASSUME LockTimeouts = FALSE
    PROVE  Spec => [](LedgerMatchesAccount /\ CurrentView)
<1>1. Init => TypeOK
  BY FillOpsAssumption DEF Init, TypeOK, NoLease, NoAccount, NoOp, Idle, Labels
<1>2. TypeOK /\ CurrentView /\ LedgerMatchesAccount /\ [Next]_vars
      => CurrentView' /\ LedgerMatchesAccount'
  BY ViewStep
<1> QED
  BY <1>1, <1>2, TypeStep, ViewInit, PTL DEF Spec

\* While no BEGIN IMMEDIATE gives up, the writer that owns the lease row and has
\* loaded the account computes its saves from what is persisted now, or from the
\* start-up state of a quarantined account.
THEOREM HolderIsCurrent ==
    ASSUME LockTimeouts = FALSE
    PROVE  Spec => []CurrentView
BY LedgerAgrees, PTL

-----------------------------------------------------------------------------
(* Lost updates, fencing and the abstract account *)

\* While no BEGIN IMMEDIATE gives up, no save drops a committed operation.
THEOREM NoUpdateIsLost ==
    ASSUME LockTimeouts = FALSE
    PROVE  Spec => NoLostUpdate
<1>1. ASSUME TypeOK, CurrentView, LedgerMatchesAccount, [Next]_vars
      PROVE  account.ops \subseteq account'.ops
  <2>1. ASSUME NEW w \in Writers, SaveCommit(w)
        PROVE  account.ops \subseteq account'.ops
    BY <1>1, <2>1, CommitExtends
  <2>2. ASSUME NEW w \in Writers, StuckSaveUpsert(w) PROVE FALSE
    BY <1>1, <2>2 DEF CurrentView, StuckSaveUpsert
  <2>3. ASSUME NEW w \in Writers, MarkCorrupted(w)
        PROVE  account.ops \subseteq account'.ops
    BY <2>3 DEF MarkCorrupted
  <2>4. ASSUME NEW w \in Writers,
               \/ AcquireStart(w) \/ Acquire(w) \/ AcquireRefused(w)
               \/ Backfill(w) \/ LoadAssert(w) \/ ReadAccount(w)
               \/ ReadLedger(w) \/ SaveRollback(w) \/ SaveBusy(w)
               \/ StuckSaveAssert(w) \/ StuckSaveAppend(w) \/ CheckLease(w)
               \/ CheckLeaseBusy(w) \/ Close(w) \/ Crash(w)
               \/ \E o \in Ops : Execute(w, o)
        PROVE  account' = account
    BY <2>4 DEF AcquireStart, Acquire, AcquireRefused, Backfill, LoadAssert,
                ReadAccount, ReadLedger, SaveRollback, SaveBusy,
                StuckSaveAssert, StuckSaveAppend, CheckLease, CheckLeaseBusy,
                Close, Crash, Execute, diskVars
  <2>5. ASSUME \/ \E d \in ClockSteps : Tick(d)
               \/ ResetRead \/ ResetProbe \/ ResetDelete \/ UNCHANGED vars
        PROVE  account' = account
    BY <2>5 DEF Tick, ResetRead, ResetProbe, ResetDelete, diskVars, vars
  <2> QED
    BY <1>1, <2>1, <2>2, <2>3, <2>4, <2>5, StepCases
<1>2. TypeOK /\ CurrentView /\ LedgerMatchesAccount /\ [Next]_vars
      => [account.ops \subseteq account'.ops]_vars
  BY <1>1
<1> QED
  BY <1>2, TypeCorrect, LedgerAgrees, PTL DEF Spec, NoLostUpdate

\* The lease row changes hands only when a new writer acquires, and otherwise
\* only disappears; a writer that has started stays started.
LEMMA OwnerStep ==
    ASSUME TypeOK, [Next]_vars
    PROVE  /\ \/ lease'.owner = lease.owner
              \/ lease'.owner = None
              \/ \E w \in Writers : ~Started(w) /\ lease'.owner = w
           /\ \A w \in Writers : Started(w) => Started(w)'
<1> DEFINE Goal == /\ \/ lease'.owner = lease.owner
                      \/ lease'.owner = None
                      \/ \E w \in Writers : ~Started(w) /\ lease'.owner = w
                   /\ \A w \in Writers : Started(w) => Started(w)'
<1>1. ASSUME NEW w \in Writers,
             AcquireStart(w) \/ Acquire(w) \/ AcquireRefused(w)
      PROVE  Goal
  BY <1>1 DEF TypeOK, Started, AcquireStart, Acquire, AcquireRefused, Exit,
              Goto, diskVars
<1>2. ASSUME NEW w \in Writers, NEW l \in Labels \ {"new", "acquiring"},
             pc' = [pc EXCEPT ![w] = l],
             lease'.owner = lease.owner \/ lease'.owner = None
      PROVE  Goal
  BY <1>2 DEF TypeOK, Started
<1>3. ASSUME NEW w \in Writers, NEW l \in Labels \ {"new", "acquiring"},
             AssertThenGoto(w, l)
      PROVE  Goal
  <2>1. CASE LeaseHeld(w)
    BY <1>2, <1>3, <2>1 DEF AssertThenGoto, Goto, Renewed
  <2>2. CASE ~LeaseHeld(w)
    BY <1>2, <1>3, <2>2 DEF AssertThenGoto, Exit, Goto, Labels
  <2> QED
    BY <2>1, <2>2
<1>4. ASSUME NEW w \in Writers, Backfill(w) PROVE Goal
  <2>1. CASE Goto(w, "loading") /\ UNCHANGED <<lease, mem, pend, seen, lost, stuck>>
    BY <1>2, <2>1 DEF Goto, Labels
  <2>2. CASE Exit(w, "dead") /\ UNCHANGED lease
    BY <1>2, <2>2 DEF Exit, Goto, Labels
  <2>3. CASE AssertThenGoto(w, "loading")
    BY <1>3, <2>3 DEF Labels
  <2> QED
    BY <1>4, <2>1, <2>2, <2>3 DEF Backfill
<1>5. ASSUME NEW w \in Writers, LoadAssert(w) PROVE Goal
  BY <1>3, <1>5 DEF LoadAssert, Labels
<1>6. ASSUME NEW w \in Writers, ReadAccount(w) \/ ReadLedger(w) \/ MarkCorrupted(w)
      PROVE  Goal
  BY <1>2, <1>6 DEF ReadAccount, ReadLedger, MarkCorrupted, Exit, Goto, Labels,
                    diskVars
<1>7. ASSUME NEW w \in Writers, SaveCommit(w) \/ SaveRollback(w) \/ SaveBusy(w)
      PROVE  Goal
  BY <1>2, <1>7 DEF SaveCommit, SaveRollback, SaveBusy, Return, Goto, Labels,
                    Renewed, diskVars
<1>8. ASSUME NEW w \in Writers, StuckSaveAssert(w) PROVE Goal
  <2>1. CASE LeaseHeld(w)
    BY <1>2, <1>8, <2>1 DEF StuckSaveAssert, Goto, Renewed, Labels
  <2>2. CASE ~LeaseHeld(w)
    BY <1>2, <1>8, <2>2 DEF StuckSaveAssert, Return, Goto, Labels
  <2> QED
    BY <2>1, <2>2
<1>9. ASSUME NEW w \in Writers, StuckSaveAppend(w) \/ StuckSaveUpsert(w)
      PROVE  Goal
  BY <1>2, <1>9 DEF StuckSaveAppend, StuckSaveUpsert, Return, Goto, Labels
<1>10. ASSUME NEW w \in Writers, CheckLease(w) \/ CheckLeaseBusy(w)
       PROVE  Goal
  BY <1>10 DEF CheckLease, CheckLeaseBusy, Renewed, diskVars, Started
<1>11. ASSUME NEW w \in Writers, Close(w) \/ Crash(w) PROVE Goal
  BY <1>2, <1>11 DEF Close, Crash, Exit, Goto, Labels, NoLease, diskVars
<1>12. ASSUME NEW w \in Writers, NEW o \in Ops, Execute(w, o) PROVE Goal
  BY <1>2, <1>12 DEF Execute, Goto, Labels, diskVars
<1>13. ASSUME \/ \E d \in ClockSteps : Tick(d)
              \/ ResetRead \/ ResetProbe \/ ResetDelete \/ UNCHANGED vars
       PROVE  Goal
  BY <1>13 DEF Tick, ResetRead, ResetProbe, ResetDelete, diskVars, vars,
               NoLease, Started
<1> QED
  BY <1>1, <1>4, <1>5, <1>6, <1>7, <1>8, <1>9, <1>10, <1>11, <1>12, <1>13,
     StepCases

\* A writer that lost the lease row never owns it again, even when database
\* locks time out and clocks jump.
THEOREM FencingIsFinal == Spec => DisplacedForever
<1>1. TypeOK /\ [Next]_vars
      => [\A w \in Writers : Displaced(w) => Displaced(w)']_vars
  BY OwnerStep, NoneAssumption DEF Displaced, Started
<1> QED
  BY <1>1, TypeCorrect, PTL DEF Spec, DisplacedForever

\* Every step of the repository is a step of the abstract account, or changes
\* nothing that it can see.
LEMMA SerialStep ==
    ASSUME LockTimeouts = FALSE, TypeOK, CurrentView, LedgerMatchesAccount,
           [Next]_vars
    PROVE  [Serial!Next]_(Serial!vars)
<1> USE NoneAssumption
<1> DEFINE granted == {w \in Writers : Started(w)}
<1> DEFINE Stutter == /\ lease'.owner = lease.owner
                      /\ granted' = granted
                      /\ account'.ops = account.ops
                      /\ ledger' = ledger
<1>1. Stutter => [Serial!Next]_(Serial!vars)
  BY DEF Serial!vars
<1>2. ASSUME NEW w \in Writers, Acquire(w) PROVE Serial!Grant(w)
  <2>1. ~Started(w) /\ lease'.owner = w /\ account' = account /\ ledger' = ledger
    BY <1>2 DEF Acquire, Started
  <2>2. granted' = granted \cup {w}
    BY <1>2 DEF Acquire, Goto, Started, TypeOK
  <2> QED
    BY <2>1, <2>2 DEF Serial!Grant
<1>3. ASSUME NEW w \in Writers, pc[w] \notin {"new", "acquiring"},
             NEW l \in Labels \ {"new", "acquiring"},
             pc' = [pc EXCEPT ![w] = l]
      PROVE  granted' = granted
  BY <1>3 DEF Started, TypeOK
<1>4. ASSUME NEW w \in Writers, SaveCommit(w)
      PROVE  \E o \in Ops : Serial!Commit(w, o)
  <2>1. /\ lease.owner = w
        /\ pend[w].op \in used \ account.ops
        /\ account'.ops = account.ops \cup {pend[w].op}
        /\ ledger' = ledger \cup ({pend[w].op} \cap FillOps)
    BY <1>4, CommitExtends
  <2>2. granted' = granted
    BY <1>3, <1>4 DEF SaveCommit, Return, Goto, Labels
  <2>3. lease'.owner = lease.owner /\ pend[w].op \in Ops
    BY <1>4, <2>1 DEF SaveCommit, Renewed, TypeOK
  <2> QED
    BY <2>1, <2>2, <2>3 DEF Serial!Commit
<1>5. ASSUME NEW w \in Writers, AcquireStart(w) \/ AcquireRefused(w)
      PROVE  Stutter
  <2>1. granted' = granted
    BY <1>5 DEF AcquireStart, AcquireRefused, Exit, Goto, Started, TypeOK
  <2> QED
    BY <1>5, <2>1 DEF AcquireStart, AcquireRefused, diskVars
<1>6. ASSUME NEW w \in Writers, NEW l \in Labels \ {"new", "acquiring"},
             pc[w] \in {"constructing", "loading"}, AssertThenGoto(w, l),
             UNCHANGED <<clock, account, ledger, used, reset>>
      PROVE  Stutter
  <2>1. CASE LeaseHeld(w)
    BY <1>3, <1>6, <2>1 DEF AssertThenGoto, Goto, Renewed
  <2>2. CASE ~LeaseHeld(w)
    BY <1>3, <1>6, <2>2 DEF AssertThenGoto, Exit, Goto, Labels
  <2> QED
    BY <2>1, <2>2
<1>7. ASSUME NEW w \in Writers, Backfill(w) PROVE Stutter
  <2>0. UNCHANGED <<clock, account, ledger, used, reset>> /\ pc[w] = "constructing"
    BY <1>7 DEF Backfill
  <2>1. CASE Goto(w, "loading") /\ UNCHANGED <<lease, mem, pend, seen, lost, stuck>>
    BY <1>3, <2>0, <2>1 DEF Goto, Labels
  <2>2. CASE Exit(w, "dead") /\ UNCHANGED lease
    BY <1>3, <2>0, <2>2 DEF Exit, Goto, Labels
  <2>3. CASE AssertThenGoto(w, "loading")
    BY <1>6, <2>0, <2>3 DEF Labels
  <2> QED
    BY <1>7, <2>1, <2>2, <2>3 DEF Backfill
<1>8. ASSUME NEW w \in Writers, LoadAssert(w) PROVE Stutter
  BY <1>6, <1>8 DEF LoadAssert, Labels
<1>9. ASSUME NEW w \in Writers, ReadAccount(w) \/ ReadLedger(w) \/ MarkCorrupted(w)
      PROVE  Stutter
  BY <1>3, <1>9 DEF ReadAccount, ReadLedger, MarkCorrupted, Exit, Goto, Labels,
                    diskVars
<1>10. ASSUME NEW w \in Writers, SaveRollback(w) PROVE Stutter
  BY <1>3, <1>10 DEF SaveRollback, Return, Goto, Labels, diskVars
<1>11. ASSUME NEW w \in Writers,
              SaveBusy(w) \/ CheckLeaseBusy(w) \/ StuckSaveAssert(w)
              \/ StuckSaveAppend(w) \/ StuckSaveUpsert(w)
       PROVE  FALSE
  BY <1>11 DEF CurrentView, SaveBusy, CheckLeaseBusy, StuckSaveAssert,
               StuckSaveAppend, StuckSaveUpsert
<1>12. ASSUME NEW w \in Writers, CheckLease(w) PROVE Stutter
  BY <1>12 DEF CheckLease, Renewed, Started
<1>13. ASSUME NEW w \in Writers, Close(w) PROVE Stutter \/ Serial!Release
  <2>1. granted' = granted
    BY <1>3, <1>13 DEF Close, Exit, Goto, Labels
  <2> QED
    BY <1>13, <2>1 DEF Close, NoLease, Serial!Release
<1>14. ASSUME NEW w \in Writers, Crash(w) PROVE Stutter
  BY <1>3, <1>14 DEF Crash, Exit, Goto, Labels, diskVars
<1>15. ASSUME NEW w \in Writers, NEW o \in Ops, Execute(w, o) PROVE Stutter
  BY <1>3, <1>15 DEF Execute, Goto, Labels, diskVars
<1>16. ASSUME \/ \E d \in ClockSteps : Tick(d)
              \/ ResetRead \/ ResetProbe \/ UNCHANGED vars
       PROVE  Stutter
  BY <1>16 DEF Tick, ResetRead, ResetProbe, diskVars, vars, Started
<1>17. ResetDelete => Serial!Release
  BY DEF ResetDelete, Serial!Release, NoLease, Started
<1> HIDE DEF Stutter
<1> QED
  BY StepCases, <1>1, <1>2, <1>4, <1>5, <1>7, <1>8, <1>9, <1>10, <1>11, <1>12,
     <1>13, <1>14, <1>15, <1>16, <1>17 DEF Serial!Next

\* While no BEGIN IMMEDIATE gives up, the repository and its writers implement
\* the abstract single-writer account.
THEOREM RepositoryIsSerial ==
    ASSUME LockTimeouts = FALSE
    PROVE  Spec => ImplementsSerialAccount
<1>1. Init => Serial!Init
  BY DEF Init, Serial!Init, NoLease, NoAccount, Started
<1>2. TypeOK /\ CurrentView /\ LedgerMatchesAccount /\ [Next]_vars
      => [Serial!Next]_(Serial!vars)
  BY SerialStep
<1> QED
  BY <1>1, <1>2, TypeCorrect, LedgerAgrees, PTL
  DEF Spec, ImplementsSerialAccount, Serial!Spec

=============================================================================
