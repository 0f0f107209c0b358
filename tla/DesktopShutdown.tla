-------------------------- MODULE DesktopShutdown ---------------------------
(***************************************************************************)
(* The desktop application's runs: crash marker, observation session,      *)
(* evidence bus and archive, and the ordered shutdown.                     *)
(*                                                                         *)
(*   src/apps/desktop/src/main.ts                     start, before-quit   *)
(*   src/apps/desktop/src/shutdownSequence.ts         ShutdownSequence     *)
(*   src/apps/desktop/src/crashRecoveryMarker.ts      the crash marker     *)
(*   src/apps/desktop/src/shadow/shadowOperationalRuntime.ts               *)
(*   src/apps/desktop/src/shadow/shadowEvidenceBus.ts, -Archive.ts         *)
(*                                                                         *)
(* What runs to completion in the event loop is one step; every await on   *)
(* the file system ends in a step of its own, and the process may die      *)
(* before any of them.  A run of the application holds at most one         *)
(* session, so an archive is named by its run.                             *)
(***************************************************************************)
EXTENDS Integers, FiniteSets

CONSTANTS
    None,           \* nothing
    Capacity,       \* capacity of the evidence bus
    MaxRuns,        \* bound on the runs of the application
    MaxEvents       \* bound on the events a session observes

Runs == 1..MaxRuns
Sealed == {"COMPLETED", "ABORTED"}

\* the contents of crash-marker.json
Markers == [run : Runs, clean : BOOLEAN]

ASSUME ShutdownAssumption ==
    /\ None \notin Sealed /\ None \notin Markers
    /\ Capacity \in Nat \ {0}
    /\ MaxRuns \in Nat \ {0}
    /\ MaxEvents \in Nat

VARIABLES
    \* the disk
    marker,         \* crash-marker.json: [run, clean], or None
    records,        \* recovery-records.jsonl: the runs it names
    archive,        \* by run: absent, open (no marker file), COMPLETED or ABORTED
    lines,          \* by run: events in the archive
    torn,           \* by run: events.ndjson holds what the manifest will not list
    \* the process
    run, pc,
    started,        \* startRun has written this run's marker
    recoveryRequired,   \* crashRecoveryRequired
    incomplete,     \* archives found without a marker file at start-up
    failed,         \* a shutdown step failed
    \* the session of this run
    lifecycle,
    riskHalt,       \* the pilot's own status is HALTED, by a decision of the risk gate
    logged,         \* events in the pilot's log
    published,      \* of these, accepted by the bus
    delivered,      \* of these, delivered
    bus,            \* none, OPEN or HALTED
    creation,       \* the archive's creation: pending, ok or failed
    writing,        \* an append is in flight
    wanted,         \* status of the first finalize asked for, or None
    seal,           \* none, running or done
    \* history
    owed            \* the last run that wrote a marker did not end cleanly

disk == <<marker, records, archive, lines, torn>>
session == <<lifecycle, riskHalt, logged, published, delivered, bus, creation, writing, wanted, seal>>
process == <<run, pc, started, recoveryRequired, incomplete, failed>>
vars == <<disk, process, session, owed>>

Live == {"RUNNING", "PAUSED"}

TypeOK ==
    /\ marker \in {None} \cup Markers
    /\ records \subseteq Runs
    /\ archive \in [Runs -> {"absent", "open"} \cup Sealed]
    /\ lines \in [Runs -> Nat]
    /\ torn \in [Runs -> BOOLEAN]
    /\ run \in 0..MaxRuns
    /\ pc \in {"down", "starting", "up", "flushing"}
    /\ started \in BOOLEAN /\ recoveryRequired \in BOOLEAN /\ failed \in BOOLEAN
    /\ incomplete \subseteq Runs
    /\ lifecycle \in {"IDLE", "HALTED", "COMPLETED"} \cup Live
    /\ riskHalt \in BOOLEAN
    /\ logged \in Nat
    /\ published \in 0..logged
    /\ delivered \in 0..published
    /\ published - delivered <= Capacity
    /\ bus \in {"none", "OPEN", "HALTED"}
    /\ creation \in {"pending", "ok", "failed"}
    /\ writing \in BOOLEAN
    /\ wanted \in {None} \cup Sealed
    /\ seal \in {"none", "running", "done"}
    /\ owed \in BOOLEAN

NoSession ==
    /\ lifecycle' = "IDLE"
    /\ riskHalt' = FALSE
    /\ logged' = 0 /\ published' = 0 /\ delivered' = 0
    /\ bus' = "none"
    /\ creation' = "pending"
    /\ writing' = FALSE
    /\ wanted' = None
    /\ seal' = "none"

Init ==
    /\ marker = None
    /\ records = {}
    /\ archive = [r \in Runs |-> "absent"]
    /\ lines = [r \in Runs |-> 0]
    /\ torn = [r \in Runs |-> FALSE]
    /\ run = 0 /\ pc = "down"
    /\ started = FALSE /\ recoveryRequired = FALSE /\ failed = FALSE
    /\ incomplete = {}
    /\ lifecycle = "IDLE"
    /\ riskHalt = FALSE
    /\ logged = 0 /\ published = 0 /\ delivered = 0
    /\ bus = "none"
    /\ creation = "pending"
    /\ writing = FALSE
    /\ wanted = None
    /\ seal = "none"
    /\ owed = FALSE

-----------------------------------------------------------------------------
(* Start-up.                                                               *)

Interrupted == marker # None /\ ~marker.clean

\* startRun up to the recovery record of a run that was interrupted
Launch ==
    /\ pc = "down"
    /\ run < MaxRuns
    /\ run' = run + 1
    /\ pc' = "starting"
    /\ records' = IF Interrupted THEN records \cup {marker.run} ELSE records
    /\ recoveryRequired' = Interrupted
    /\ started' = FALSE
    /\ failed' = FALSE
    /\ NoSession
    /\ UNCHANGED <<marker, archive, lines, torn, incomplete, owed>>

\* the end of startRun and the scan for incomplete archives; a marker that
\* cannot be written leaves the old one and the application fail-closed
WriteMarker ==
    /\ pc = "starting"
    /\ pc' = "up"
    /\ incomplete' = {r \in Runs : archive[r] = "open"}
    /\ \/ /\ marker' = [run |-> run, clean |-> FALSE]
          /\ started' = TRUE
          /\ owed' = FALSE
          /\ UNCHANGED recoveryRequired
       \/ /\ recoveryRequired' = TRUE
          /\ UNCHANGED <<marker, started, owed>>
    /\ UNCHANGED <<records, archive, lines, torn, run, failed, session>>

\* updateCrashMarker: a periodic update that fails blocks the rest of the run
UpdateMarkerFails ==
    /\ pc = "up"
    /\ recoveryRequired' = TRUE
    /\ UNCHANGED <<disk, run, pc, started, incomplete, failed, session, owed>>

-----------------------------------------------------------------------------
(* The session and its evidence.                                           *)

Backlog == published - delivered

\* finalizeEvidence: the requests queue up, the first one seals
Finalize(status) == wanted' = IF wanted = None THEN status ELSE wanted

\* Mutant: the queue has no limit
MLogEvent ==
    /\ logged' = logged + 1
    /\ published' = IF bus = "OPEN" THEN published + 1 ELSE published
    /\ UNCHANGED bus

\* the pilot's log and the bus after one more event of the pilot: published
\* unless the bus has halted or is full; a full bus halts
LogEvent ==
    /\ logged' = logged + 1
    /\ published' = IF bus = "OPEN" /\ Backlog < Capacity THEN published + 1 ELSE published
    /\ bus' = IF bus = "OPEN" /\ Backlog >= Capacity THEN "HALTED" ELSE bus

\* Mutant: the scan for incomplete archives does not count
MStartBlocked == recoveryRequired

\* the blockers of the start precheck that come from earlier runs
StartBlocked == recoveryRequired \/ incomplete # {}

\* shadow start; market data, kill switch and other gates may refuse it too
StartSession ==
    /\ pc = "up"
    /\ lifecycle = "IDLE"
    /\ \/ /\ ~StartBlocked
          /\ lifecycle' = "RUNNING"
          /\ bus' = "OPEN"
          /\ logged' = 1 /\ published' = 1
       \/ /\ lifecycle' = "HALTED"
          /\ UNCHANGED <<bus, logged, published>>
    /\ UNCHANGED <<disk, process, riskHalt, delivered, creation, writing, wanted, seal, owed>>

Pause ==
    /\ pc = "up"
    /\ lifecycle = "RUNNING"
    /\ lifecycle' = "PAUSED"
    /\ UNCHANGED <<disk, process, riskHalt, logged, published, delivered, bus, creation, writing,
                   wanted, seal, owed>>

Resume ==
    /\ pc = "up"
    /\ lifecycle = "PAUSED"
    /\ ~StartBlocked
    /\ lifecycle' = "RUNNING"
    /\ UNCHANGED <<disk, process, riskHalt, logged, published, delivered, bus, creation, writing,
                   wanted, seal, owed>>

\* onEvidenceHalt of a live session: the pilot stops, which logs one more event
\* that is never published, and the archive is to be sealed as ABORTED
HaltedBy(log) ==
    /\ lifecycle' = "HALTED"
    /\ logged' = IF lifecycle \in Live THEN log + 1 ELSE log
    /\ Finalize("ABORTED")

\* the pilot observes a signal, or a market episode, which is logged in a pause too;
\* a signal may make the risk gate halt the pilot
Observe ==
    /\ pc = "up"
    /\ lifecycle \in Live
    /\ logged < MaxEvents
    /\ IF Backlog < Capacity
       THEN /\ LogEvent
            /\ \/ UNCHANGED <<lifecycle, riskHalt, wanted>>
               \/ /\ lifecycle = "RUNNING"
                  /\ lifecycle' = "HALTED"
                  /\ riskHalt' = TRUE
                  /\ Finalize("ABORTED")
       ELSE /\ bus' = "HALTED"
            /\ HaltedBy(logged + 1)
            /\ UNCHANGED <<published, riskHalt>>
    /\ UNCHANGED <<disk, process, delivered, creation, writing, seal, owed>>

\* stop (status COMPLETED) and haltActiveSession (ABORTED): a live session ends
\* with a last event and the archive is to be sealed
EndSession(status) ==
    /\ lifecycle \in Live
    /\ LogEvent
    /\ lifecycle' = IF bus' = "HALTED" \/ status = "ABORTED" THEN "HALTED" ELSE "COMPLETED"
    /\ Finalize(IF bus' = "HALTED" THEN "ABORTED" ELSE status)
    /\ UNCHANGED riskHalt

\* a stop of a session that is over: the seal has been asked for, and a pilot that
\* the risk gate halted logs one event more
StopAgain ==
    /\ lifecycle \notin Live
    /\ IF riskHalt THEN LogEvent ELSE UNCHANGED <<logged, published, bus>>
    /\ UNCHANGED <<lifecycle, riskHalt, wanted>>

\* the owner, the session limit or a gate ends the session
StopSession ==
    /\ pc = "up"
    /\ \/ \E status \in Sealed : EndSession(status)
       \/ lifecycle = "HALTED" /\ logged < MaxEvents /\ StopAgain
    /\ UNCHANGED <<disk, process, delivered, creation, writing, seal, owed>>

Running == pc \in {"up", "flushing"}

\* ShadowEvidenceArchive.create; a failure may leave the directory behind
CreateArchive ==
    /\ Running
    /\ bus # "none"
    /\ creation = "pending"
    /\ \/ creation' = "ok" /\ archive' = [archive EXCEPT ![run] = "open"]
       \/ creation' = "failed"
          /\ \E left \in {"absent", "open"} : archive' = [archive EXCEPT ![run] = left]
    /\ UNCHANGED <<marker, records, lines, torn, process, lifecycle, riskHalt, logged, published,
                   delivered, bus, writing, wanted, seal, owed>>

\* drain takes the next event
BeginDeliver ==
    /\ Running
    /\ bus = "OPEN"
    /\ creation # "pending"
    /\ ~writing
    /\ Backlog > 0
    /\ seal = "none"
    /\ writing' = TRUE
    /\ UNCHANGED <<disk, process, lifecycle, riskHalt, logged, published, delivered, bus, creation,
                   wanted, seal, owed>>

Delivered ==
    /\ Running
    /\ writing
    /\ creation = "ok"
    /\ lines' = [lines EXCEPT ![run] = @ + 1]
    /\ torn' = IF seal # "none" THEN [torn EXCEPT ![run] = TRUE] ELSE torn
    /\ delivered' = delivered + 1
    /\ writing' = FALSE
    /\ UNCHANGED <<marker, records, archive, process, lifecycle, riskHalt, logged, published, bus, creation,
                   wanted, seal, owed>>

\* the append fails, with or without a trace of the event in the file, or is
\* refused by an archive that is being sealed; the bus halts, unless it has already
DeliverFails ==
    /\ Running
    /\ writing \/ (seal # "none" /\ bus = "OPEN" /\ Backlog > 0)
    /\ writing' = FALSE
    /\ bus' = "HALTED"
    /\ IF bus = "OPEN" THEN HaltedBy(logged) ELSE UNCHANGED <<lifecycle, logged, wanted>>
    /\ \E trace \in (IF writing /\ creation = "ok" THEN BOOLEAN ELSE {FALSE}) :
          torn' = IF trace THEN [torn EXCEPT ![run] = TRUE] ELSE torn
    /\ UNCHANGED <<marker, records, archive, lines, process, riskHalt, published, delivered, creation,
                   seal, owed>>

\* Mutant: the flush waits for a backlog that a halted bus never delivers
MFlushed == Backlog = 0 /\ ~writing

\* flush: the drain has ended, or never will because the bus has halted
Flushed == bus = "none" \/ (bus = "HALTED" /\ Backlog > 0) \/ (Backlog = 0 /\ ~writing)

\* Mutant: the status asked for is the status written
MEffective == wanted

\* a halted bus or a backlog makes the archive ABORTED
Effective == IF bus = "HALTED" \/ Backlog > 0 THEN "ABORTED" ELSE wanted

\* finalize of the bus, up to the sink's finalize
BeginSeal ==
    /\ Running
    /\ wanted # None
    /\ seal = "none"
    /\ creation # "pending"
    /\ Flushed
    /\ seal' = "running"
    /\ wanted' = Effective
    /\ UNCHANGED <<disk, process, lifecycle, riskHalt, logged, published, delivered, bus, creation,
                   writing, owed>>

\* archive.finalize writes the manifest, verifies the directory against it, and
\* writes the marker file last; a file that holds more than the manifest fails
EndSeal ==
    /\ Running
    /\ seal = "running"
    /\ seal' = "done"
    /\ \/ /\ creation = "ok" /\ ~torn[run]
          /\ archive' = [archive EXCEPT ![run] = wanted]
          /\ UNCHANGED <<bus, lifecycle>>
       \/ /\ bus' = "HALTED"
          /\ lifecycle' = "HALTED"
          /\ UNCHANGED archive
    /\ UNCHANGED <<marker, records, lines, torn, process, riskHalt, logged, published, delivered, creation,
                   writing, wanted, owed>>

-----------------------------------------------------------------------------
(* Shutdown.                                                               *)

\* Mutant: the clean marker is written when the shutdown begins
MQuit ==
    /\ pc = "up"
    /\ pc' = "flushing"
    /\ EndSession("COMPLETED") \/ StopAgain
    /\ failed' = FALSE
    /\ marker' = IF started THEN [run |-> run, clean |-> TRUE] ELSE marker
    /\ UNCHANGED <<records, archive, lines, torn, run, started, recoveryRequired, incomplete,
                   delivered, creation, writing, seal, owed>>

\* before-quit and the shutdown sequence up to its first await: the marker is
\* restated as not clean, the session is stopped, and the market subscription and
\* the timers are released, any of which may fail without stopping the rest.
\* Later quit requests join this one.
Quit ==
    /\ pc = "up"
    /\ pc' = "flushing"
    /\ EndSession("COMPLETED") \/ StopAgain
    /\ failed' \in BOOLEAN
    /\ UNCHANGED <<disk, run, started, recoveryRequired, incomplete,
                   delivered, creation, writing, seal, owed>>

\* Mutant: the shutdown awaits the flush, not the finalization
MEvidenceFinalized == Flushed

\* awaitEvidenceFinalized resolves: the seal has been tried, if one was asked for
EvidenceFinalized == Flushed /\ (wanted # None => seal = "done")

\* the rest of the sequence, and the process's end.  The clean marker is the last
\* write, and only when no step failed.
Finish ==
    /\ pc = "flushing"
    /\ EvidenceFinalized
    /\ pc' = "down"
    /\ \/ /\ ~failed /\ started
          /\ marker' = [run |-> run, clean |-> TRUE]
          /\ UNCHANGED owed
       \/ /\ owed' = (owed \/ started)
          /\ UNCHANGED marker
    /\ NoSession
    /\ UNCHANGED <<records, archive, lines, torn, run, started, recoveryRequired, incomplete, failed>>

\* the process dies; an append in flight may leave a trace
Crash ==
    /\ pc # "down"
    /\ pc' = "down"
    /\ owed' = (owed \/ (Running /\ started))
    /\ \E trace \in (IF writing /\ creation = "ok" THEN BOOLEAN ELSE {FALSE}) :
          torn' = IF trace THEN [torn EXCEPT ![run] = TRUE] ELSE torn
    /\ NoSession
    /\ UNCHANGED <<marker, records, archive, lines, run, started, recoveryRequired, incomplete, failed>>

Evidence == CreateArchive \/ BeginDeliver \/ Delivered \/ DeliverFails \/ BeginSeal \/ EndSeal

Next ==
    \/ Launch \/ WriteMarker \/ UpdateMarkerFails
    \/ StartSession \/ Pause \/ Resume \/ Observe \/ StopSession
    \/ Evidence
    \/ Quit \/ Finish \/ Crash

Spec == Init /\ [][Next]_vars

\* file operations end, one way or the other, and the event loop goes on
FairSpec == Spec /\ WF_vars(Evidence) /\ WF_vars(Finish)

-----------------------------------------------------------------------------
(* Properties.                                                             *)

\* A run that ended in a crash or a failed shutdown is found by the next start,
\* whatever died in between: it is in the recovery log and the new run is
\* fail-closed.
InterruptionDetected ==
    [][pc = "starting" /\ pc' = "up" /\ owed =>
         recoveryRequired' /\ marker.run \in records]_vars

\* The clean marker is written only after the seal of the run's archive has been
\* tried and no shutdown step failed.
CleanAfterSeal ==
    [][marker' # marker /\ marker' # None /\ marker'.clean =>
         ~failed /\ (bus = "none" \/ seal = "done")]_vars

\* An archive sealed as COMPLETED holds every event of the pilot's log, the
\* session's end included, whichever of stop, overflow and write failures raced.
CompletedIsWhole ==
    run \in Runs /\ archive[run] = "COMPLETED" /\ bus # "none" =>
        lines[run] = logged /\ ~torn[run]

\* No session starts beside an archive of unknown completeness: at most one
\* archive is open, across crashes and restarts.
OneOpenArchive == Cardinality({r \in Runs : archive[r] = "open"}) <= 1

\* A quit that was deferred for the seal ends: the shutdown waits for nothing
\* that can no longer happen.
QuitEnds == pc = "flushing" ~> pc = "down"

\* A clean marker says that everything before it finished ("writing it when a
\* step failed -- would tell the next launch a clean shutdown happened when it
\* did not"): the run's archive is sealed.
CleanMeansSealed ==
    marker # None /\ marker.clean => archive[marker.run] # "open"
=============================================================================
