----------------------- MODULE DesktopShutdownProofs ------------------------
(***************************************************************************)
(* What the desktop application keeps across its runs, for any number of   *)
(* runs and events and any capacity of the bus.                            *)
(*                                                                         *)
(* The inductive invariant has three independent parts: Marked relates the *)
(* crash marker to the run, Alone the open archives to the run and to what *)
(* the scan at start-up found, and the other four describe one session:    *)
(* without a bus nothing has happened (Quiet), with one the archive holds  *)
(* what was delivered (Kept), a session that is over has asked for its     *)
(* seal (Ending), and a seal as COMPLETED waits for nothing (Whole).       *)
(***************************************************************************)
EXTENDS DesktopShutdown, FiniteSetTheorems, TLAPS

Open == {r \in Runs : archive[r] = "open"}

\* The marker of a run that is under way is its own and not clean; a run that is
\* owed a recovery has left an unclean one, which a start that follows has seen.
Marked ==
    /\ Running /\ started => marker = [run |-> run, clean |-> FALSE] /\ ~owed
    /\ owed => marker # None /\ ~marker.clean
    /\ pc = "starting" => ~started
    /\ owed /\ pc = "starting" => recoveryRequired /\ marker.run \in records

\* At most one archive is open: this session's, or one the scan has found.
Alone ==
    /\ \E r \in Runs : Open \subseteq {r}
    /\ bus # "none" => Open \subseteq {run}
    /\ Running /\ bus = "none" => incomplete = Open

\* a run without a bus has observed nothing and written nothing
Quiet ==
    /\ pc # "down" => run \in Runs
    /\ bus # "none" => Running /\ lifecycle # "IDLE"
    /\ bus = "none" =>
          /\ lifecycle \notin Live \cup {"COMPLETED"} /\ ~riskHalt
          /\ logged = 0 /\ published = 0 /\ delivered = 0
          /\ creation = "pending" /\ ~writing /\ wanted = None /\ seal = "none"

\* what the archives of this run and of later ones hold
Kept ==
    /\ \A r \in Runs : r > run \/ (r = run /\ pc # "down" /\ bus = "none") =>
          lines[r] = 0 /\ archive[r] = "absent"
    /\ bus # "none" => lines[run] = delivered
    /\ writing => delivered < published
    /\ bus = "OPEN" => logged = published

\* the seal is asked for when the session ends, and not before
Ending ==
    /\ bus # "none" => (lifecycle \notin Live <=> wanted # None)
    /\ seal # "none" => wanted # None
    /\ riskHalt => wanted = "ABORTED"
    /\ pc = "flushing" => lifecycle \notin Live

\* a seal as COMPLETED has every event, and the archive then stays as it is
Whole ==
    /\ seal # "none" /\ wanted = "COMPLETED" => logged = delivered /\ published = delivered /\ ~writing
    /\ bus # "none" /\ archive[run] = "COMPLETED" =>
          seal = "done" /\ wanted = "COMPLETED" /\ ~torn[run]

Inv == TypeOK /\ Marked /\ Alone /\ Quiet /\ Kept /\ Ending /\ Whole

-----------------------------------------------------------------------------
(* The parts of the type invariant, and steps that leave a part alone.     *)

DiskType ==
    /\ marker \in {None} \cup Markers
    /\ records \subseteq Runs
    /\ archive \in [Runs -> {"absent", "open"} \cup Sealed]
    /\ lines \in [Runs -> Nat]
    /\ torn \in [Runs -> BOOLEAN]

ProcessType ==
    /\ run \in 0..MaxRuns
    /\ pc \in {"down", "starting", "up", "flushing"}
    /\ started \in BOOLEAN /\ recoveryRequired \in BOOLEAN /\ failed \in BOOLEAN
    /\ incomplete \subseteq Runs
    /\ owed \in BOOLEAN

SessionType ==
    /\ lifecycle \in {"IDLE", "HALTED", "COMPLETED"} \cup Live
    /\ riskHalt \in BOOLEAN
    /\ logged \in Nat
    /\ published \in 0..logged
    /\ delivered \in 0..published
    /\ published - delivered <= Capacity
    /\ bus \in {"none", "OPEN", "HALTED"}
    /\ creation \in {"pending", "ok", "failed"}
    /\ writing \in BOOLEAN
    /\ wanted \in {None} \cup Sealed
    /\ seal \in {"none", "running", "done"}

LEMMA TypeParts ==
  /\ TypeOK <=> DiskType /\ ProcessType /\ SessionType
  /\ TypeOK' <=> DiskType' /\ ProcessType' /\ SessionType'
BY DEF TypeOK, DiskType, ProcessType, SessionType

\* A step within a run that leaves the marker alone.
LEMMA MarkedFrame ==
  ASSUME Marked, UNCHANGED <<marker, records, run, started, owed>>,
         Running' => Running, pc' # "starting" \/ UNCHANGED <<pc, recoveryRequired>>
  PROVE  Marked'
BY DEF Marked, Running

\* A step within a session that leaves the archives' states alone.
LEMMA AloneFrame ==
  ASSUME Alone, UNCHANGED <<archive, run, incomplete>>, Running' => Running,
         bus' = "none" <=> bus = "none"
  PROVE  Alone'
BY DEF Alone, Open

\* What every session step starts from.
LEMMA SessionFacts ==
  ASSUME Inv, bus # "none"
  PROVE  /\ Running /\ run \in Runs /\ lifecycle # "IDLE"
         /\ DiskType /\ ProcessType /\ SessionType
         /\ logged \in Nat /\ published \in Nat /\ delivered \in Nat
         /\ delivered <= published /\ published <= logged
<1>1. DiskType /\ ProcessType /\ SessionType
  BY TypeParts DEF Inv
<1>2. Running /\ lifecycle # "IDLE" /\ pc # "down" /\ run \in Runs
  BY DEF Inv, Quiet, Running
<1> QED
  BY <1>1, <1>2 DEF SessionType

LEMMA NoSessionType == ASSUME NoSession PROVE SessionType'
<1> USE ShutdownAssumption
<1>1. logged' = 0 /\ published' = 0 /\ delivered' = 0
  BY DEF NoSession
<1>2. /\ logged' \in Nat /\ published' \in 0..logged' /\ delivered' \in 0..published'
      /\ published' - delivered' <= Capacity
  BY <1>1
<1>3. /\ lifecycle' = "IDLE" /\ riskHalt' = FALSE /\ bus' = "none" /\ creation' = "pending"
      /\ writing' = FALSE /\ wanted' = None /\ seal' = "none"
  BY DEF NoSession
<1> HIDE ShutdownAssumption
<1>4. wanted' \in {None} \cup Sealed
  BY <1>3, Zenon
<1> QED
  BY <1>2, <1>3, <1>4 DEF SessionType

\* The process ends: whatever the session was, it is gone, and with it what the
\* invariant says of it.
LEMMA ProcessEnds ==
  ASSUME Inv, NoSession, pc' = "down", run' = run, UNCHANGED <<archive, lines>>
  PROVE  SessionType' /\ Alone' /\ Quiet' /\ Kept' /\ Ending' /\ Whole'
<1> USE ShutdownAssumption
<1>1. SessionType'
  BY NoSessionType
<1>2. Alone'
  BY DEF Inv, Alone, Open, NoSession, Running
<1>3. Quiet' /\ Ending' /\ Whole'
  BY DEF Inv, Quiet, Ending, Whole, NoSession, Running, Live
<1>4. Kept'
  BY DEF Inv, Kept, NoSession
<1> QED
  BY <1>1, <1>2, <1>3, <1>4

-----------------------------------------------------------------------------
(* Start-up and shutdown.                                                  *)

LEMMA Launch_Inv == ASSUME Inv, Launch PROVE Inv'
<1> USE ShutdownAssumption
<1>0. DiskType /\ ProcessType /\ pc = "down" /\ run \in Nat /\ run' = run + 1 /\ run' \in Runs
  BY TypeParts DEF Inv, Launch, ProcessType, Runs
<1>1. /\ pc' = "starting" /\ NoSession /\ started' = FALSE /\ failed' = FALSE /\ bus' = "none"
      /\ records' = (IF Interrupted THEN records \cup {marker.run} ELSE records)
      /\ recoveryRequired' = Interrupted
      /\ marker' = marker /\ archive' = archive /\ lines' = lines /\ torn' = torn
      /\ incomplete' = incomplete /\ owed' = owed
  BY DEF Launch, NoSession
<1>2. DiskType'
  <2>1. Interrupted => marker.run \in Runs
    BY <1>0 DEF Interrupted, DiskType, Markers
  <2> QED
    BY <1>0, <1>1, <2>1 DEF DiskType
<1>3. ProcessType'
  <2>1. Interrupted \in BOOLEAN
    BY <1>0 DEF Interrupted, DiskType, Markers
  <2>2. recoveryRequired' \in BOOLEAN
    BY <1>1, <2>1, Zenon
  <2>3. run' \in 0..MaxRuns
    BY <1>0 DEF Runs
  <2> QED
    BY <1>0, <1>1, <2>2, <2>3 DEF ProcessType
<1>4. SessionType'
  BY <1>1, NoSessionType
<1>5. Marked'
  <2>1. owed => Interrupted
    BY DEF Inv, Marked, Interrupted
  <2>2. ~Running'
    BY <1>1 DEF Running
  <2>3. owed => recoveryRequired' /\ marker.run \in records'
    BY <1>1, <2>1
  <2> QED
    BY <1>1, <2>2, <2>3 DEF Inv, Marked
<1>6. Alone'
  BY <1>1 DEF Inv, Alone, Open, Running
<1>7. Quiet' /\ Ending' /\ Whole'
  BY <1>0, <1>1 DEF NoSession, Quiet, Ending, Whole, Live, Running
<1>8. Kept'
  <2>1. \A r \in Runs : r >= run' => lines'[r] = 0 /\ archive'[r] = "absent"
    BY <1>0, <1>1 DEF Inv, Kept, Runs
  <2> QED
    BY <1>0, <1>1, <2>1 DEF Kept, NoSession, Runs
<1> QED
  BY <1>2, <1>3, <1>4, <1>5, <1>6, <1>7, <1>8, TypeParts DEF Inv

LEMMA WriteMarker_Inv == ASSUME Inv, WriteMarker PROVE Inv'
<1> USE ShutdownAssumption
<1>0. DiskType /\ ProcessType /\ SessionType /\ pc = "starting" /\ run \in Runs
  BY TypeParts DEF Inv, WriteMarker, Quiet
<1>1. /\ pc' = "up" /\ incomplete' = Open
      /\ records' = records /\ archive' = archive /\ lines' = lines /\ torn' = torn /\ run' = run
      /\ failed' = failed /\ UNCHANGED session
  BY DEF WriteMarker, Open
<1>2. bus = "none" /\ bus' = "none"
  BY <1>0, <1>1 DEF Inv, Quiet, Running, session
<1>3. \/ /\ marker' = [run |-> run, clean |-> FALSE] /\ started' = TRUE /\ owed' = FALSE
         /\ recoveryRequired' = recoveryRequired
      \/ /\ recoveryRequired' = TRUE /\ marker' = marker /\ started' = started /\ owed' = owed
  BY DEF WriteMarker
<1>4. SessionType'
  BY <1>0, <1>1 DEF SessionType, session
<1>5. Alone'
  BY <1>1, <1>2 DEF Inv, Alone, Open
<1>6. Quiet' /\ Ending' /\ Whole'
  BY <1>0, <1>1, <1>2 DEF Inv, Quiet, Ending, Whole, session
<1>7. Kept'
  BY <1>0, <1>1, <1>2 DEF Inv, Kept, session
<1>8. ProcessType'
  BY <1>0, <1>1, <1>3 DEF ProcessType, Open
<1>9. DiskType' /\ Marked'
  <2>1. CASE /\ marker' = [run |-> run, clean |-> FALSE] /\ started' = TRUE /\ owed' = FALSE
    <3>1. [run |-> run, clean |-> FALSE] \in Markers
      BY <1>0 DEF Markers
    <3> QED
      BY <1>0, <1>1, <2>1, <3>1 DEF DiskType, Marked
  <2>2. CASE marker' = marker /\ started' = started /\ owed' = owed
    <3>1. pc' # "starting" /\ ~started'
      BY <1>0, <1>1, <2>2 DEF Marked, Inv
    <3> QED
      BY <1>0, <1>1, <2>2, <3>1 DEF DiskType, Marked, Inv
  <2> QED
    BY <1>3, <2>1, <2>2
<1> QED
  BY <1>4, <1>5, <1>6, <1>7, <1>8, <1>9, TypeParts DEF Inv

LEMMA UpdateMarkerFails_Inv == ASSUME Inv, UpdateMarkerFails PROVE Inv'
<1>0. DiskType /\ ProcessType /\ SessionType
  BY TypeParts DEF Inv
<1>1. /\ pc = "up" /\ recoveryRequired' = TRUE /\ UNCHANGED disk /\ UNCHANGED session
      /\ run' = run /\ pc' = pc /\ started' = started /\ incomplete' = incomplete /\ failed' = failed
      /\ owed' = owed
  BY DEF UpdateMarkerFails
<1>2. DiskType' /\ ProcessType' /\ SessionType'
  BY <1>0, <1>1 DEF DiskType, ProcessType, SessionType, disk, session
<1>3. Marked'
  BY <1>1, MarkedFrame DEF Inv, Running, disk
<1>4. Alone'
  BY <1>1, AloneFrame DEF Inv, Running, disk, session
<1>5. Quiet' /\ Kept' /\ Ending' /\ Whole'
  BY <1>1 DEF Inv, Quiet, Kept, Ending, Whole, Running, disk, session
<1> QED
  BY <1>2, <1>3, <1>4, <1>5, TypeParts DEF Inv

\* The trace an append leaves behind touches only the file of events.
LEMMA Trace ==
  ASSUME DiskType, run \in Runs, NEW trace \in BOOLEAN,
         torn' = IF trace THEN [torn EXCEPT ![run] = TRUE] ELSE torn
  PROVE  torn' \in [Runs -> BOOLEAN]
BY DEF DiskType

\* The marker of a run under way is a marker, and not clean.
LEMMA Unclean ==
  ASSUME run \in Runs
  PROVE  [run |-> run, clean |-> FALSE] # None /\ ~[run |-> run, clean |-> FALSE].clean
<1>1. [run |-> run, clean |-> FALSE] \in Markers
  BY DEF Markers
<1>2. [run |-> run, clean |-> FALSE] # None
  BY <1>1, ShutdownAssumption, Zenon
<1>3. ~[run |-> run, clean |-> FALSE].clean
  OBVIOUS
<1> QED
  BY <1>2, <1>3

LEMMA Finish_Inv == ASSUME Inv, Finish PROVE Inv'
<1> USE ShutdownAssumption
<1>0. DiskType /\ ProcessType /\ SessionType /\ pc = "flushing" /\ run \in Runs
  BY TypeParts DEF Inv, Finish, Quiet
<1>1. /\ pc' = "down" /\ NoSession
      /\ records' = records /\ archive' = archive /\ lines' = lines /\ torn' = torn /\ run' = run
      /\ started' = started /\ recoveryRequired' = recoveryRequired /\ incomplete' = incomplete
      /\ failed' = failed
  BY DEF Finish
<1>2. SessionType' /\ Alone' /\ Quiet' /\ Kept' /\ Ending' /\ Whole'
  BY <1>1, ProcessEnds
<1>3. ~Running' /\ Running
  BY <1>0, <1>1 DEF Running
<1>4. CASE started /\ marker' = [run |-> run, clean |-> TRUE] /\ owed' = owed
  <2>1. [run |-> run, clean |-> TRUE] \in Markers
    BY <1>0 DEF Markers
  <2>2. ~owed
    BY <1>3, <1>4 DEF Inv, Marked
  <2>3. DiskType' /\ ProcessType'
    BY <1>0, <1>1, <1>4, <2>1 DEF DiskType, ProcessType
  <2>4. Marked'
    BY <1>1, <1>3, <1>4, <2>2 DEF Marked
  <2> QED
    BY <1>2, <2>3, <2>4, TypeParts DEF Inv
<1>5. CASE owed' = (owed \/ started) /\ marker' = marker
  <2>1. started => marker # None /\ ~marker.clean
    <3>1. started => marker = [run |-> run, clean |-> FALSE]
      BY <1>3 DEF Inv, Marked
    <3> QED
      BY <1>0, <3>1, Unclean
  <2>2. owed' \in BOOLEAN
    BY <1>5
  <2>3. DiskType' /\ ProcessType'
    BY <1>0, <1>1, <1>5, <2>2 DEF DiskType, ProcessType
  <2>4. owed' => marker # None /\ ~marker.clean
    BY <1>5, <2>1 DEF Inv, Marked
  <2>5. Marked'
    BY <1>1, <1>3, <1>5, <2>4 DEF Marked
  <2> QED
    BY <1>2, <2>3, <2>5, TypeParts DEF Inv
<1> QED
  BY <1>4, <1>5 DEF Finish

LEMMA Crash_Inv == ASSUME Inv, Crash PROVE Inv'
<1> USE ShutdownAssumption
<1>0. DiskType /\ ProcessType /\ SessionType /\ run \in Runs
  BY TypeParts DEF Inv, Crash, Quiet
<1>1. /\ pc' = "down" /\ NoSession /\ owed' = (owed \/ (Running /\ started))
      /\ marker' = marker /\ records' = records /\ archive' = archive /\ lines' = lines /\ run' = run
      /\ started' = started /\ recoveryRequired' = recoveryRequired /\ incomplete' = incomplete
      /\ failed' = failed
  BY DEF Crash
<1>2. SessionType' /\ Alone' /\ Quiet' /\ Kept' /\ Ending' /\ Whole'
  BY <1>1, ProcessEnds
<1>3. ~Running'
  BY <1>1 DEF Running
<1>4. PICK trace \in BOOLEAN : torn' = IF trace THEN [torn EXCEPT ![run] = TRUE] ELSE torn
  BY DEF Crash
<1>5. DiskType'
  <2>1. torn' \in [Runs -> BOOLEAN]
    BY <1>0, <1>4, Trace
  <2> QED
    BY <1>0, <1>1, <2>1 DEF DiskType
<1>6. ProcessType'
  <2>1. owed' \in BOOLEAN
    BY <1>1
  <2> QED
    BY <1>0, <1>1, <2>1 DEF ProcessType
<1>7. Marked'
  <2>1. Running /\ started => marker # None /\ ~marker.clean
    <3>1. Running /\ started => marker = [run |-> run, clean |-> FALSE]
      BY DEF Inv, Marked
    <3> QED
      BY <1>0, <3>1, Unclean
  <2>2. owed' => marker # None /\ ~marker.clean
    BY <1>1, <2>1 DEF Inv, Marked
  <2> QED
    BY <1>1, <1>3, <2>2 DEF Marked
<1> QED
  BY <1>2, <1>5, <1>6, <1>7, TypeParts DEF Inv

-----------------------------------------------------------------------------
(* The session.                                                            *)

\* A step of the session that leaves the disk and the process's position alone.
LEMMA SessionStep ==
  ASSUME Inv, UNCHANGED disk, UNCHANGED <<run, started, recoveryRequired, incomplete, owed>>,
         pc' = pc \/ (pc = "up" /\ pc' = "flushing"), failed' \in BOOLEAN,
         SessionType', bus' = "none" <=> bus = "none",
         Quiet', Kept', Ending', Whole'
  PROVE  Inv'
<1>0. DiskType /\ ProcessType
  BY TypeParts DEF Inv
<1>1. DiskType' /\ ProcessType'
  BY <1>0 DEF DiskType, ProcessType, disk
<1>2. Marked'
  BY MarkedFrame DEF Inv, Running, disk
<1>3. Alone'
  BY AloneFrame DEF Inv, Running, disk
<1> QED
  BY <1>1, <1>2, <1>3, TypeParts DEF Inv

\* One more event of the pilot: it is published, or the bus is halted by then.
LEMMA LogStep ==
  ASSUME SessionType, bus # "none", bus = "OPEN" => logged = published, LogEvent
  PROVE  /\ logged' = logged + 1 /\ logged' \in Nat /\ published' \in 0..logged' /\ published' >= published
         /\ delivered \in 0..published' /\ published' - delivered <= Capacity
         /\ bus' \in {"OPEN", "HALTED"} /\ (bus' = "OPEN" => logged' = published')
<1> USE ShutdownAssumption
<1>1. logged \in Nat /\ published \in 0..logged /\ delivered \in 0..published /\ published - delivered <= Capacity
      /\ bus \in {"OPEN", "HALTED"}
  BY DEF SessionType
<1>2. CASE bus = "OPEN" /\ Backlog < Capacity
  BY <1>1, <1>2 DEF LogEvent, Backlog
<1>3. CASE ~(bus = "OPEN" /\ Backlog < Capacity)
  <2>1. logged' = logged + 1 /\ published' = published /\ bus' = "HALTED"
    BY <1>1, <1>3 DEF LogEvent, Backlog
  <2> QED
    BY <1>1, <2>1
<1> QED
  BY <1>2, <1>3

\* A live session has a bus, no seal was asked for, and the risk gate has not halted it.
LEMMA LiveFacts ==
  ASSUME Inv, lifecycle \in Live
  PROVE  /\ bus # "none" /\ wanted = None /\ seal = "none" /\ ~riskHalt
         /\ archive[run] # "COMPLETED" /\ (pc = "up" \/ pc = "starting" \/ pc = "down")
<1>1. bus # "none"
  BY DEF Inv, Quiet
<1>2. wanted = None
  BY <1>1 DEF Inv, Ending
<1>3. wanted # "ABORTED"
  BY <1>2, ShutdownAssumption DEF Sealed
<1>4. pc # "flushing" /\ pc \in {"down", "starting", "up", "flushing"}
  BY DEF Inv, Ending, TypeOK
<1>5. seal = "none"
  BY <1>2 DEF Inv, Ending
<1>6. ~riskHalt
  BY <1>3 DEF Inv, Ending
<1>7. archive[run] # "COMPLETED"
  BY <1>1, <1>5 DEF Inv, Whole
<1> QED
  BY <1>1, <1>2, <1>4, <1>5, <1>6, <1>7

LEMMA StartSession_Inv == ASSUME Inv, StartSession PROVE Inv'
<1> USE ShutdownAssumption
<1>0. DiskType /\ ProcessType /\ SessionType /\ pc = "up" /\ lifecycle = "IDLE" /\ run \in Runs
  BY TypeParts DEF Inv, StartSession, Quiet
<1>1. bus = "none"
  BY <1>0 DEF Inv, Quiet
<1>2. /\ ~riskHalt /\ logged = 0 /\ published = 0 /\ delivered = 0
      /\ creation = "pending" /\ ~writing /\ wanted = None /\ seal = "none"
  BY <1>1 DEF Inv, Quiet
<1>3. lines[run] = 0 /\ archive[run] = "absent"
  BY <1>0, <1>1 DEF Inv, Kept
<1>4. /\ UNCHANGED disk /\ run' = run /\ pc' = pc /\ started' = started /\ recoveryRequired' = recoveryRequired
      /\ incomplete' = incomplete /\ failed' = failed /\ owed' = owed
      /\ riskHalt' = riskHalt /\ delivered' = delivered /\ creation' = creation /\ writing' = writing
      /\ wanted' = wanted /\ seal' = seal
  BY DEF StartSession, process
<1>5. CASE ~StartBlocked /\ lifecycle' = "RUNNING" /\ bus' = "OPEN" /\ logged' = 1 /\ published' = 1
  <2>1. SessionType'
    BY <1>0, <1>2, <1>4, <1>5 DEF SessionType, Live
  <2>2. DiskType' /\ ProcessType'
    BY <1>0, <1>4 DEF DiskType, ProcessType, disk
  <2>3. Marked'
    BY <1>4, MarkedFrame DEF Inv, Running, disk
  <2>4. Open = {}
    BY <1>0, <1>1, <1>5 DEF Inv, Alone, Running, StartBlocked
  <2>5. Alone'
    BY <1>0, <1>4, <1>5, <2>4 DEF Alone, Open, disk
  <2>6. Quiet' /\ Kept'
    BY <1>0, <1>2, <1>3, <1>4, <1>5 DEF Inv, Quiet, Kept, Running, disk
  <2>7. Ending' /\ Whole'
    BY <1>0, <1>2, <1>3, <1>4, <1>5 DEF Inv, Ending, Whole, Live, disk
  <2> QED
    BY <2>1, <2>2, <2>3, <2>5, <2>6, <2>7, TypeParts DEF Inv
<1>6. CASE lifecycle' = "HALTED" /\ UNCHANGED <<bus, logged, published>>
  <2>1. SessionType'
    BY <1>0, <1>4, <1>6 DEF SessionType
  <2>2. Quiet' /\ Kept' /\ Ending' /\ Whole'
    BY <1>0, <1>1, <1>2, <1>4, <1>6 DEF Inv, Quiet, Kept, Ending, Whole, Live, disk
  <2> QED
    BY <1>0, <1>1, <1>4, <1>6, <2>1, <2>2, SessionStep DEF ProcessType
<1> QED
  BY <1>5, <1>6 DEF StartSession

LEMMA PauseResume_Inv == ASSUME Inv, Pause \/ Resume PROVE Inv'
<1>0. DiskType /\ ProcessType /\ SessionType
  BY TypeParts DEF Inv
<1>1. /\ UNCHANGED disk /\ run' = run /\ pc' = pc /\ started' = started /\ recoveryRequired' = recoveryRequired
      /\ incomplete' = incomplete /\ failed' = failed /\ owed' = owed
      /\ UNCHANGED <<riskHalt, logged, published, delivered, bus, creation, writing, wanted, seal>>
      /\ lifecycle \in Live /\ lifecycle' \in Live
  BY DEF Pause, Resume, process, Live
<1>2. bus # "none"
  BY <1>1, LiveFacts
<1>3. SessionType'
  BY <1>0, <1>1 DEF SessionType
<1>4. Quiet' /\ Kept' /\ Ending' /\ Whole'
  BY <1>1, <1>2 DEF Inv, Quiet, Kept, Ending, Whole, Live, Running, disk
<1> QED
  BY <1>0, <1>1, <1>3, <1>4, SessionStep DEF ProcessType

\* The end of a live session, by whichever way: the seal is asked for.
LEMMA EndStep ==
  ASSUME Inv, lifecycle \in Live, lifecycle' \in {"HALTED", "COMPLETED"},
         wanted' \in Sealed, riskHalt' \in BOOLEAN, riskHalt' => wanted' = "ABORTED",
         logged' \in Nat, published' \in 0..logged', published' >= published,
         delivered \in 0..published', published' - delivered <= Capacity,
         bus' \in {"OPEN", "HALTED"}, bus' = "OPEN" => logged' = published',
         UNCHANGED <<delivered, creation, writing, seal>>,
         UNCHANGED disk, UNCHANGED <<run, started, recoveryRequired, incomplete, owed>>,
         pc' = pc \/ (pc = "up" /\ pc' = "flushing"), failed' \in BOOLEAN
  PROVE  Inv'
<1> USE ShutdownAssumption
<1>0. SessionType /\ bus # "none" /\ seal = "none" /\ archive[run] # "COMPLETED"
      /\ Running /\ run \in Runs
  BY LiveFacts, SessionFacts, TypeParts DEF Inv
<1>1. SessionType'
  BY <1>0 DEF SessionType
<1>2. wanted' # None /\ lifecycle' \notin Live
  BY DEF Live
<1>3. Running' /\ pc' # "down"
  BY <1>0 DEF Running
<1>4. Quiet'
  BY <1>0, <1>3 DEF Quiet
<1>5. Kept'
  <2>1. writing => delivered < published' 
    BY <1>0 DEF Inv, Kept, SessionType
  <2> QED
    BY <1>0, <1>3, <2>1 DEF Inv, Kept, disk, Running
<1>6. Ending' /\ Whole'
  BY <1>0, <1>2 DEF Ending, Whole, disk
<1> QED
  BY <1>0, <1>1, <1>4, <1>5, <1>6, SessionStep

\* EndSession, as the owner's stop and as the first step of the shutdown
LEMMA EndSessionStep ==
  ASSUME Inv, NEW status \in Sealed, EndSession(status), UNCHANGED <<delivered, creation, writing, seal>>,
         UNCHANGED disk, UNCHANGED <<run, started, recoveryRequired, incomplete, owed>>,
         pc' = pc \/ (pc = "up" /\ pc' = "flushing"), failed' \in BOOLEAN
  PROVE  Inv'
<1>0. SessionType /\ (bus = "OPEN" => logged = published)
  BY TypeParts DEF Inv, Kept
<1>1. lifecycle \in Live /\ LogEvent /\ riskHalt' = riskHalt
  BY DEF EndSession
<1>2. bus # "none" /\ wanted = None /\ ~riskHalt
  BY <1>1, LiveFacts
<1>3. lifecycle' \in {"HALTED", "COMPLETED"} /\ wanted' \in Sealed
  BY <1>2 DEF EndSession, Finalize, Sealed
<1>4. /\ logged' \in Nat /\ published' \in 0..logged' /\ published' >= published
      /\ delivered \in 0..published' /\ published' - delivered <= Capacity
      /\ bus' \in {"OPEN", "HALTED"} /\ (bus' = "OPEN" => logged' = published')
  BY <1>0, <1>1, <1>2, LogStep
<1>5. riskHalt' \in BOOLEAN /\ ~riskHalt'
  BY <1>0, <1>1, <1>2 DEF SessionType
<1> QED
  BY <1>1, <1>3, <1>4, <1>5, EndStep

\* StopAgain, likewise: what a sealed archive holds is left alone
LEMMA StopAgainStep ==
  ASSUME Inv, StopAgain, UNCHANGED <<delivered, creation, writing, seal>>,
         UNCHANGED disk, UNCHANGED <<run, started, recoveryRequired, incomplete, owed>>,
         pc' = pc \/ (pc = "up" /\ pc' = "flushing"), failed' \in BOOLEAN
  PROVE  Inv'
<1> USE ShutdownAssumption
<1>0. SessionType /\ (bus = "OPEN" => logged = published)
  BY TypeParts DEF Inv, Kept
<1>1. lifecycle \notin Live /\ lifecycle' = lifecycle /\ riskHalt' = riskHalt /\ wanted' = wanted
  BY DEF StopAgain
<1>2. CASE riskHalt
  <2>1. bus # "none" /\ wanted = "ABORTED" /\ LogEvent
    BY <1>2 DEF Inv, Quiet, Ending, StopAgain
  <2>2. Running /\ run \in Runs
    BY <2>1, SessionFacts
  <2>3. /\ logged' \in Nat /\ published' \in 0..logged' /\ published' >= published
        /\ delivered \in 0..published' /\ published' - delivered <= Capacity
        /\ bus' \in {"OPEN", "HALTED"} /\ (bus' = "OPEN" => logged' = published')
    BY <1>0, <2>1, LogStep
  <2>4. SessionType'
    BY <1>0, <1>1, <2>3 DEF SessionType
  <2>5. Running' /\ pc' # "down"
    BY <2>2 DEF Running
  <2>6. Quiet'
    BY <1>1, <2>1, <2>2, <2>3, <2>5 DEF Inv, Quiet
  <2>7. Kept'
    <3>1. writing => delivered < published'
      BY <1>0, <2>3 DEF Inv, Kept, SessionType
    <3> QED
      BY <2>1, <2>3, <2>5, <3>1 DEF Inv, Kept, disk
  <2>8. Ending' /\ Whole'
    BY <1>1, <2>1, <2>3 DEF Inv, Ending, Whole, disk
  <2> QED
    BY <2>1, <2>3, <2>4, <2>6, <2>7, <2>8, SessionStep
<1>3. CASE ~riskHalt
  <2>1. logged' = logged /\ published' = published /\ bus' = bus
    BY <1>3 DEF StopAgain
  <2>2. SessionType'
    BY <1>0, <1>1, <2>1 DEF SessionType
  <2>3. Quiet' /\ Kept' /\ Ending' /\ Whole'
    BY <1>1, <2>1 DEF Inv, Quiet, Kept, Ending, Whole, Running, disk
  <2> QED
    BY <2>1, <2>2, <2>3, SessionStep
<1> QED
  BY <1>2, <1>3

LEMMA StopSession_Inv == ASSUME Inv, StopSession PROVE Inv'
<1>1. /\ UNCHANGED <<delivered, creation, writing, seal>> /\ UNCHANGED disk
      /\ UNCHANGED <<run, started, recoveryRequired, incomplete, owed>> /\ pc' = pc /\ failed' \in BOOLEAN
  BY DEF StopSession, process, Inv, TypeOK
<1> QED
  BY <1>1, EndSessionStep, StopAgainStep DEF StopSession

LEMMA Quit_Inv == ASSUME Inv, Quit PROVE Inv'
<1>1. /\ UNCHANGED <<delivered, creation, writing, seal>> /\ UNCHANGED disk
      /\ UNCHANGED <<run, started, recoveryRequired, incomplete, owed>>
      /\ pc = "up" /\ pc' = "flushing" /\ failed' \in BOOLEAN
  BY DEF Quit
<1>2. "COMPLETED" \in Sealed
  BY DEF Sealed
<1> QED
  BY <1>1, <1>2, EndSessionStep, StopAgainStep DEF Quit

LEMMA Observe_Inv == ASSUME Inv, Observe PROVE Inv'
<1> USE ShutdownAssumption
<1>0. SessionType /\ (bus = "OPEN" => logged = published) /\ ProcessType
  BY TypeParts DEF Inv, Kept
<1>1. /\ lifecycle \in Live /\ UNCHANGED <<delivered, creation, writing, seal>> /\ UNCHANGED disk
      /\ UNCHANGED <<run, started, recoveryRequired, incomplete, owed>> /\ pc' = pc /\ failed' = failed
  BY DEF Observe, process
<1>2. bus # "none" /\ wanted = None /\ seal = "none" /\ ~riskHalt /\ archive[run] # "COMPLETED"
  BY <1>1, LiveFacts
<1>3. Running /\ run \in Runs
  BY <1>2, SessionFacts
<1>4. CASE Backlog < Capacity
  <2>1. /\ logged' \in Nat /\ published' \in 0..logged' /\ published' >= published
        /\ delivered \in 0..published' /\ published' - delivered <= Capacity
        /\ bus' \in {"OPEN", "HALTED"} /\ (bus' = "OPEN" => logged' = published')
    BY <1>0, <1>2, <1>4, LogStep DEF Observe
  <2>2. CASE UNCHANGED <<lifecycle, riskHalt, wanted>>
    <3>1. SessionType'
      BY <1>0, <1>1, <2>1, <2>2 DEF SessionType
    <3>2. Quiet'
      BY <1>1, <1>2, <1>3, <2>1, <2>2 DEF Inv, Quiet, Running
    <3>3. writing => delivered < published'
      BY <1>0, <2>1 DEF Inv, Kept, SessionType
    <3>4. Kept'
      BY <1>1, <1>2, <2>1, <3>3 DEF Inv, Kept, disk
    <3>5. Ending' /\ Whole'
      BY <1>1, <1>2, <2>1, <2>2 DEF Inv, Ending, Whole, disk
    <3> QED
      BY <1>0, <1>1, <1>2, <2>1, <3>1, <3>2, <3>4, <3>5, SessionStep DEF ProcessType
  <2>3. CASE lifecycle' = "HALTED" /\ riskHalt' = TRUE /\ Finalize("ABORTED")
    <3>1. wanted' = "ABORTED" /\ "ABORTED" \in Sealed
      BY <1>2, <2>3 DEF Finalize, Sealed
    <3> QED
      BY <1>0, <1>1, <2>1, <2>3, <3>1, EndStep DEF ProcessType
  <2> QED
    BY <1>4, <2>2, <2>3 DEF Observe
<1>5. CASE ~(Backlog < Capacity)
  <2>1. bus' = "HALTED" /\ HaltedBy(logged + 1) /\ published' = published /\ riskHalt' = riskHalt
    BY <1>5 DEF Observe
  <2>2. lifecycle' = "HALTED" /\ logged' = logged + 1 + 1 /\ wanted' = "ABORTED" /\ "ABORTED" \in Sealed
    BY <1>1, <1>2, <2>1 DEF HaltedBy, Finalize, Sealed
  <2>3. /\ logged' \in Nat /\ published' \in 0..logged' /\ published' >= published
        /\ delivered \in 0..published' /\ published' - delivered <= Capacity
    BY <1>0, <2>1, <2>2 DEF SessionType
  <2> QED
    BY <1>0, <1>1, <1>2, <2>1, <2>2, <2>3, EndStep DEF ProcessType, SessionType
<1> QED
  BY <1>4, <1>5

-----------------------------------------------------------------------------
(* The evidence bus and the archive.                                       *)

\* A step of the bus or the archive leaves the process and the marker alone.
LEMMA EvidenceStep ==
  ASSUME Inv, bus # "none", bus' # "none", UNCHANGED process, UNCHANGED <<marker, records, owed>>,
         lifecycle' # "IDLE",
         archive' \in [Runs -> {"absent", "open"} \cup Sealed],
         \A r \in Runs : r # run => archive'[r] = archive[r],
         lines' \in [Runs -> Nat], \A r \in Runs : r # run => lines'[r] = lines[r],
         torn' \in [Runs -> BOOLEAN], SessionType',
         lines'[run] = delivered', writing' => delivered' < published', bus' = "OPEN" => logged' = published',
         Ending', Whole'
  PROVE  Inv'
<1>0. Running /\ run \in Runs /\ DiskType /\ ProcessType
  BY SessionFacts
<1>1. /\ run' = run /\ pc' = pc /\ started' = started /\ recoveryRequired' = recoveryRequired
      /\ incomplete' = incomplete /\ failed' = failed
  BY DEF process
<1>2. DiskType' /\ ProcessType'
  BY <1>0, <1>1 DEF DiskType, ProcessType
<1>3. Marked'
  BY <1>1, MarkedFrame DEF Inv, Running
<1>4. Alone'
  <2>1. Open' \subseteq {run}
    BY <1>0, <1>1 DEF Inv, Alone, Open
  <2> QED
    BY <1>0, <1>1, <2>1 DEF Alone
<1>5. Quiet'
  BY <1>0, <1>1 DEF Quiet, Running
<1>6. Kept'
  <2>1. run \in Nat /\ \A r \in Runs : r \in Nat
    BY <1>0 DEF Runs
  <2>2. \A r \in Runs : r > run => lines'[r] = 0 /\ archive'[r] = "absent"
    BY <2>1 DEF Inv, Kept
  <2> QED
    BY <1>1, <2>2 DEF Kept
<1> QED
  BY <1>2, <1>3, <1>4, <1>5, <1>6, TypeParts DEF Inv

LEMMA CreateArchive_Inv == ASSUME Inv, CreateArchive PROVE Inv'
<1> USE ShutdownAssumption
<1>0. bus # "none" /\ creation = "pending"
  BY DEF CreateArchive
<1>1. /\ Running /\ run \in Runs /\ lifecycle # "IDLE" /\ DiskType /\ SessionType
      /\ lines[run] = delivered /\ (writing => delivered < published) /\ (bus = "OPEN" => logged = published)
  BY <1>0, SessionFacts DEF Inv, Kept
<1>2. /\ UNCHANGED process /\ UNCHANGED <<marker, records, owed>> /\ lines' = lines /\ torn' = torn
      /\ lifecycle' = lifecycle /\ riskHalt' = riskHalt /\ logged' = logged /\ published' = published
      /\ delivered' = delivered /\ bus' = bus /\ writing' = writing /\ wanted' = wanted /\ seal' = seal
      /\ creation' \in {"ok", "failed"}
  BY DEF CreateArchive
<1>3. PICK st \in {"absent", "open"} : archive' = [archive EXCEPT ![run] = st]
  BY DEF CreateArchive
<1>4. /\ archive' \in [Runs -> {"absent", "open"} \cup Sealed] /\ archive'[run] = st
      /\ \A r \in Runs : r # run => archive'[r] = archive[r]
  BY <1>1, <1>3 DEF DiskType
<1>5. SessionType'
  BY <1>1, <1>2 DEF SessionType
<1>6. Ending'
  BY <1>2 DEF Inv, Ending, process
<1>7. Whole'
  BY <1>2, <1>4 DEF Inv, Whole, process
<1> QED
  BY <1>0, <1>1, <1>2, <1>4, <1>5, <1>6, <1>7, EvidenceStep DEF DiskType

LEMMA BeginDeliver_Inv == ASSUME Inv, BeginDeliver PROVE Inv'
<1> USE ShutdownAssumption
<1>0. bus = "OPEN" /\ seal = "none" /\ Backlog > 0
  BY DEF BeginDeliver
<1>1. /\ Running /\ run \in Runs /\ lifecycle # "IDLE" /\ DiskType /\ SessionType
      /\ lines[run] = delivered /\ (bus = "OPEN" => logged = published)
      /\ delivered \in Nat /\ published \in Nat
  BY <1>0, SessionFacts DEF Inv, Kept
<1>2. /\ UNCHANGED process /\ UNCHANGED <<marker, records, owed>>
      /\ archive' = archive /\ lines' = lines /\ torn' = torn
      /\ lifecycle' = lifecycle /\ riskHalt' = riskHalt /\ logged' = logged /\ published' = published
      /\ delivered' = delivered /\ bus' = bus /\ wanted' = wanted /\ seal' = seal
      /\ creation' = creation /\ writing' = TRUE
  BY DEF BeginDeliver, disk
<1>3. delivered < published
  BY <1>0, <1>1 DEF Backlog
<1>4. SessionType'
  BY <1>1, <1>2 DEF SessionType
<1>5. Ending'
  BY <1>2 DEF Inv, Ending, process
<1>6. Whole'
  BY <1>0, <1>2 DEF Inv, Whole, process
<1> QED
  BY <1>0, <1>1, <1>2, <1>3, <1>4, <1>5, <1>6, EvidenceStep DEF DiskType

LEMMA Delivered_Inv == ASSUME Inv, Delivered PROVE Inv'
<1> USE ShutdownAssumption
<1>0. writing /\ bus # "none"
  BY DEF Inv, Quiet, Delivered
<1>1. /\ Running /\ run \in Runs /\ lifecycle # "IDLE" /\ DiskType /\ SessionType
      /\ lines[run] = delivered /\ delivered < published /\ (bus = "OPEN" => logged = published)
      /\ delivered \in Nat /\ published \in Nat
  BY <1>0, SessionFacts DEF Inv, Kept
<1>2. /\ UNCHANGED process /\ UNCHANGED <<marker, records, owed>> /\ archive' = archive
      /\ lifecycle' = lifecycle /\ riskHalt' = riskHalt /\ logged' = logged /\ published' = published
      /\ bus' = bus /\ wanted' = wanted /\ seal' = seal /\ creation' = creation
      /\ delivered' = delivered + 1 /\ writing' = FALSE
      /\ lines' = [lines EXCEPT ![run] = lines[run] + 1]
  BY DEF Delivered
<1>3. torn' \in [Runs -> BOOLEAN]
  BY <1>1 DEF Delivered, DiskType
<1>4. /\ lines' \in [Runs -> Nat] /\ lines'[run] = delivered'
      /\ \A r \in Runs : r # run => lines'[r] = lines[r]
  BY <1>1, <1>2 DEF DiskType
<1>5. SessionType'
  <2>1. logged \in Nat /\ published <= logged /\ published - delivered <= Capacity
    BY <1>1 DEF SessionType
  <2>2. /\ logged' \in Nat /\ published' \in 0..logged' /\ delivered' \in 0..published'
        /\ published' - delivered' <= Capacity
    BY <1>1, <1>2, <2>1
  <2> QED
    BY <1>1, <1>2, <2>2 DEF SessionType
<1>6. Ending'
  BY <1>2 DEF Inv, Ending, process
<1>7. ~(seal # "none" /\ wanted = "COMPLETED")
  BY <1>0 DEF Inv, Whole
<1>8. Whole'
  BY <1>0, <1>2, <1>7 DEF Inv, Whole, process
<1> QED
  BY <1>0, <1>1, <1>2, <1>3, <1>4, <1>5, <1>6, <1>8, EvidenceStep DEF DiskType

LEMMA DeliverFails_Inv == ASSUME Inv, DeliverFails PROVE Inv'
<1> USE ShutdownAssumption
<1>0. bus # "none"
  BY DEF Inv, Quiet, DeliverFails
<1>1. /\ Running /\ run \in Runs /\ lifecycle # "IDLE" /\ DiskType /\ SessionType
      /\ lines[run] = delivered /\ logged \in Nat /\ published \in Nat /\ delivered \in Nat
  BY <1>0, SessionFacts DEF Inv, Kept
<1>2. /\ UNCHANGED process /\ UNCHANGED <<marker, records, owed>> /\ archive' = archive /\ lines' = lines
      /\ riskHalt' = riskHalt /\ published' = published /\ delivered' = delivered /\ seal' = seal
      /\ creation' = creation /\ bus' = "HALTED" /\ writing' = FALSE
  BY DEF DeliverFails
<1>3. PICK trace \in BOOLEAN : torn' = IF trace THEN [torn EXCEPT ![run] = TRUE] ELSE torn
  BY DEF DeliverFails
<1>4. torn' \in [Runs -> BOOLEAN]
  BY <1>1, <1>3, Trace
<1>5. ~(seal # "none" /\ wanted = "COMPLETED")
  <2>1. writing \/ (seal # "none" /\ bus = "OPEN" /\ Backlog > 0)
    BY DEF DeliverFails
  <2>2. Backlog > 0 => published # delivered
    BY <1>1 DEF Backlog
  <2> QED
    BY <2>1, <2>2 DEF Inv, Whole
<1>6. CASE bus = "OPEN"
  <2>1. HaltedBy(logged)
    BY <1>6 DEF DeliverFails
  <2>2. /\ lifecycle' = "HALTED" /\ logged' \in {logged, logged + 1}
        /\ wanted' = IF wanted = None THEN "ABORTED" ELSE wanted
    BY <2>1 DEF HaltedBy, Finalize
  <2>3. SessionType' /\ wanted' # None
    <3>1. published \in 0..logged /\ delivered \in 0..published /\ published - delivered <= Capacity
      BY <1>1 DEF SessionType
    <3>2. /\ logged' \in Nat /\ published' \in 0..logged' /\ delivered' \in 0..published'
          /\ published' - delivered' <= Capacity
      BY <1>1, <1>2, <2>2, <3>1
    <3>3. wanted' \in Sealed
      BY <1>1, <2>2 DEF SessionType, Sealed
    <3>4. wanted' # None
      BY <3>3
    <3> QED
      BY <1>1, <1>2, <2>2, <3>2, <3>3, <3>4 DEF SessionType
  <2>4. Ending'
    BY <1>2, <2>2, <2>3 DEF Inv, Ending, process, Live
  <2>5. seal # "none" => wanted # None /\ wanted' = wanted
    BY <2>2 DEF Inv, Ending
  <2>6. Whole'
    BY <1>0, <1>2, <1>5, <2>5 DEF Inv, Whole, process
  <2> QED
    BY <1>0, <1>1, <1>2, <1>4, <2>2, <2>3, <2>4, <2>6, EvidenceStep DEF DiskType
<1>7. CASE bus # "OPEN"
  <2>1. lifecycle' = lifecycle /\ logged' = logged /\ wanted' = wanted
    BY <1>7 DEF DeliverFails
  <2>2. SessionType'
    BY <1>1, <1>2, <2>1 DEF SessionType
  <2>3. Ending'
    BY <1>0, <1>2, <2>1 DEF Inv, Ending, process
  <2>4. Whole'
    BY <1>0, <1>2, <1>5, <2>1 DEF Inv, Whole, process
  <2> QED
    BY <1>0, <1>1, <1>2, <1>4, <2>1, <2>2, <2>3, <2>4, EvidenceStep DEF DiskType
<1> QED
  BY <1>6, <1>7

LEMMA BeginSeal_Inv == ASSUME Inv, BeginSeal PROVE Inv'
<1> USE ShutdownAssumption
<1>0. bus # "none" /\ wanted # None /\ seal = "none" /\ Flushed
  BY DEF Inv, Quiet, BeginSeal
<1>1. /\ Running /\ run \in Runs /\ lifecycle # "IDLE" /\ DiskType /\ SessionType
      /\ lines[run] = delivered /\ (writing => delivered < published) /\ (bus = "OPEN" => logged = published)
      /\ delivered \in Nat /\ published \in Nat /\ delivered <= published
  BY <1>0, SessionFacts DEF Inv, Kept
<1>2. /\ UNCHANGED process /\ UNCHANGED <<marker, records, owed>>
      /\ archive' = archive /\ lines' = lines /\ torn' = torn
      /\ lifecycle' = lifecycle /\ riskHalt' = riskHalt /\ logged' = logged /\ published' = published
      /\ delivered' = delivered /\ bus' = bus /\ creation' = creation /\ writing' = writing
      /\ seal' = "running" /\ wanted' = Effective
  BY DEF BeginSeal, disk
<1>3. /\ Effective \in {"ABORTED", wanted}
      /\ Effective = "COMPLETED" => bus # "HALTED" /\ ~(Backlog > 0)
  BY DEF Effective
<1>4. wanted' \in Sealed /\ wanted' # None /\ (wanted = "ABORTED" => wanted' = "ABORTED")
  BY <1>0, <1>1, <1>2, <1>3 DEF SessionType, Sealed
<1>5. SessionType'
  BY <1>1, <1>2, <1>4 DEF SessionType
<1>6. Ending'
  BY <1>0, <1>2, <1>4 DEF Inv, Ending, process
<1>7. wanted' = "COMPLETED" => logged = delivered /\ published = delivered /\ ~writing
  <2> SUFFICES ASSUME wanted' = "COMPLETED" PROVE logged = delivered /\ published = delivered /\ ~writing
    OBVIOUS
  <2>1. bus = "OPEN" /\ ~(Backlog > 0)
    BY <1>0, <1>1, <1>2, <1>3 DEF SessionType
  <2>2. published = delivered
    BY <1>1, <2>1 DEF Backlog
  <2> QED
    BY <1>1, <2>1, <2>2
<1>8. Whole'
  BY <1>0, <1>2, <1>7 DEF Inv, Whole, process
<1> QED
  BY <1>0, <1>1, <1>2, <1>5, <1>6, <1>8, EvidenceStep DEF DiskType

LEMMA EndSeal_Inv == ASSUME Inv, EndSeal PROVE Inv'
<1> USE ShutdownAssumption
<1>0. bus # "none" /\ seal = "running" /\ wanted # None
  BY DEF Inv, Quiet, Ending, EndSeal
<1>1. /\ Running /\ run \in Runs /\ lifecycle # "IDLE" /\ DiskType /\ SessionType
      /\ lines[run] = delivered /\ (writing => delivered < published) /\ (bus = "OPEN" => logged = published)
  BY <1>0, SessionFacts DEF Inv, Kept
<1>2. /\ UNCHANGED process /\ UNCHANGED <<marker, records, owed>> /\ lines' = lines /\ torn' = torn
      /\ riskHalt' = riskHalt /\ logged' = logged /\ published' = published
      /\ delivered' = delivered /\ creation' = creation /\ writing' = writing
      /\ seal' = "done" /\ wanted' = wanted
  BY DEF EndSeal
<1>3. CASE ~torn[run] /\ archive' = [archive EXCEPT ![run] = wanted] /\ UNCHANGED <<bus, lifecycle>>
  <2>1. /\ archive' \in [Runs -> {"absent", "open"} \cup Sealed] /\ archive'[run] = wanted
        /\ \A r \in Runs : r # run => archive'[r] = archive[r]
    BY <1>0, <1>1, <1>3 DEF DiskType, SessionType
  <2>2. SessionType'
    BY <1>1, <1>2, <1>3 DEF SessionType
  <2>3. Ending'
    BY <1>0, <1>2, <1>3 DEF Inv, Ending, process
  <2>4. Whole'
    BY <1>0, <1>2, <1>3, <2>1 DEF Inv, Whole, process
  <2> QED
    BY <1>0, <1>1, <1>2, <1>3, <2>1, <2>2, <2>3, <2>4, EvidenceStep DEF DiskType
<1>4. CASE bus' = "HALTED" /\ lifecycle' = "HALTED" /\ archive' = archive
  <2>1. SessionType'
    BY <1>1, <1>2, <1>4 DEF SessionType
  <2>2. Ending'
    BY <1>0, <1>2, <1>4 DEF Inv, Ending, process, Live
  <2>3. Whole'
    BY <1>0, <1>2, <1>4 DEF Inv, Whole, process
  <2> QED
    BY <1>0, <1>1, <1>2, <1>4, <2>1, <2>2, <2>3, EvidenceStep DEF DiskType
<1> QED
  BY <1>3, <1>4 DEF EndSeal
-----------------------------------------------------------------------------
(* The invariant, and what it gives.                                       *)

LEMMA Init_Inv == ASSUME Init PROVE Inv
<1> USE ShutdownAssumption
<1>1. /\ marker = None /\ records = {} /\ archive = [r \in Runs |-> "absent"]
      /\ lines = [r \in Runs |-> 0] /\ torn = [r \in Runs |-> FALSE]
      /\ run = 0 /\ pc = "down" /\ ~started /\ ~recoveryRequired /\ ~failed /\ incomplete = {}
      /\ started \in BOOLEAN /\ recoveryRequired \in BOOLEAN /\ failed \in BOOLEAN
      /\ ~owed /\ owed \in BOOLEAN
  BY DEF Init
<1>2. /\ lifecycle = "IDLE" /\ riskHalt = FALSE /\ logged = 0 /\ published = 0 /\ delivered = 0
      /\ bus = "none" /\ creation = "pending" /\ writing = FALSE /\ wanted = None /\ seal = "none"
  BY DEF Init
<1>3. DiskType
  BY <1>1 DEF DiskType
<1>4. ProcessType
  <2>1. run \in 0..MaxRuns
    BY <1>1
  <2> QED
    BY <1>1, <2>1 DEF ProcessType
<1>5. SessionType
  <2>1. /\ logged \in Nat /\ published \in 0..logged /\ delivered \in 0..published
        /\ published - delivered <= Capacity
    BY <1>2
  <2> HIDE ShutdownAssumption
  <2>2. wanted \in {None} \cup Sealed
    BY <1>2, Zenon
  <2> QED
    BY <1>2, <2>1, <2>2 DEF SessionType
<1>6. Marked
  BY <1>1 DEF Marked, Running
<1>7. Alone
  <2>1. 1 \in Runs
    BY DEF Runs
  <2>2. Open = {}
    BY <1>1 DEF Open
  <2> QED
    BY <1>1, <1>2, <2>1, <2>2 DEF Alone, Running
<1>8. Quiet
  BY <1>1, <1>2 DEF Quiet, Live
<1>9. Kept
  BY <1>1, <1>2 DEF Kept
<1>10. Ending
  BY <1>1, <1>2 DEF Ending
<1>11. Whole
  BY <1>2 DEF Whole
<1> QED
  BY <1>3, <1>4, <1>5, <1>6, <1>7, <1>8, <1>9, <1>10, <1>11, TypeParts DEF Inv

LEMMA Stutter_Inv == ASSUME Inv, UNCHANGED vars PROVE Inv'
<1>1. UNCHANGED <<disk, process, session, owed>>
  BY DEF vars
<1>2. /\ UNCHANGED <<marker, records, archive, lines, torn>>
      /\ UNCHANGED <<run, pc, started, recoveryRequired, incomplete, failed, owed>>
      /\ UNCHANGED <<lifecycle, riskHalt, logged, published, delivered, bus, creation, writing, wanted, seal>>
  BY <1>1 DEF disk, process, session
<1>3. TypeOK'
  BY <1>2 DEF Inv, TypeOK
<1>4. Marked' /\ Alone'
  BY <1>2 DEF Inv, Marked, Alone, Open, Running
<1>5. Quiet' /\ Kept'
  BY <1>2 DEF Inv, Quiet, Kept, Running
<1>6. Ending' /\ Whole'
  BY <1>2 DEF Inv, Ending, Whole
<1> QED
  BY <1>3, <1>4, <1>5, <1>6 DEF Inv

\* The parts Marked, Alone, Quiet, Kept, Ending and Whole are kept together, by
\* every step of the application and by its death.
THEOREM Invariance == Spec => []Inv
<1>1. Init => Inv
  BY Init_Inv
<1>2. Inv /\ [Next]_vars => Inv'
  BY Stutter_Inv, Launch_Inv, WriteMarker_Inv, UpdateMarkerFails_Inv, StartSession_Inv,
     PauseResume_Inv, Observe_Inv, StopSession_Inv, CreateArchive_Inv, BeginDeliver_Inv,
     Delivered_Inv, DeliverFails_Inv, BeginSeal_Inv, EndSeal_Inv, Quit_Inv, Finish_Inv, Crash_Inv
     DEF Next, Evidence
<1> QED
  BY <1>1, <1>2, PTL DEF Spec

\* Every variable keeps its type; in particular the backlog of the evidence bus
\* never exceeds its capacity, and it never delivers what it did not accept.
THEOREM TypeCorrect == Spec => []TypeOK
<1>1. Inv => TypeOK
  BY DEF Inv
<1> QED
  BY <1>1, Invariance, PTL

\* An archive that finalize marked COMPLETED holds every event of the pilot's
\* log, however stop, a full bus and failing appends interleave.
THEOREM CompletedArchiveIsWhole == Spec => []CompletedIsWhole
<1>1. Inv => CompletedIsWhole
  BY DEF Inv, CompletedIsWhole, Whole, Kept
<1> QED
  BY <1>1, Invariance, PTL

\* The start precheck keeps the archives of unknown completeness down to one,
\* over any number of crashes and restarts.
THEOREM AtMostOneOpenArchive == Spec => []OneOpenArchive
<1>1. ASSUME Inv PROVE OneOpenArchive
  <2>1. PICK r \in Runs : Open \subseteq {r}
    BY <1>1 DEF Inv, Alone
  <2>2. IsFiniteSet({r}) /\ Cardinality({r}) = 1
    BY FS_Singleton
  <2>3. Cardinality(Open) <= 1
    BY <2>1, <2>2, FS_Subset
  <2> QED
    BY <2>3 DEF OneOpenArchive, Open
<1> QED
  BY <1>1, Invariance, PTL

\* startRun finds a run that ended in a crash or in a failed shutdown, whatever
\* died since: it is in the recovery log and the new run is fail-closed.
THEOREM InterruptionsAreDetected == Spec => InterruptionDetected
<1>1. ASSUME Inv, [Next]_vars, pc = "starting", pc' = "up", owed
      PROVE  recoveryRequired' /\ marker.run \in records
  <2>1. recoveryRequired /\ marker.run \in records
    BY <1>1 DEF Inv, Marked
  <2>2. WriteMarker
    BY <1>1 DEF Next, vars, process, Launch, UpdateMarkerFails, StartSession, Pause, Resume, Observe,
       StopSession, Evidence, CreateArchive, BeginDeliver, Delivered, DeliverFails, BeginSeal, EndSeal,
       Running, Quit, Finish, Crash
  <2> QED
    BY <2>1, <2>2 DEF WriteMarker
<1>2. Inv /\ [Next]_vars =>
        [pc = "starting" /\ pc' = "up" /\ owed => recoveryRequired' /\ marker.run \in records]_vars
  BY <1>1
<1> QED
  BY <1>2, Invariance, PTL DEF Spec, InterruptionDetected

\* Nothing but start-up and the end of the shutdown writes the crash marker.
LEMMA MarkerWriters ==
  ASSUME [Next]_vars, marker' # marker
  PROVE  WriteMarker \/ Finish
BY DEF Next, vars, disk, Launch, UpdateMarkerFails, StartSession, Pause, Resume, Observe,
   StopSession, Evidence, CreateArchive, BeginDeliver, Delivered, DeliverFails, BeginSeal, EndSeal,
   Quit, Crash

\* The shutdown sequence writes the clean marker only after the seal of the run's
\* archive has been tried and when none of its steps failed.
THEOREM CleanMarkerIsLast == Spec => CleanAfterSeal
<1>1. ASSUME Inv, [Next]_vars, marker' # marker, marker' # None, marker'.clean
      PROVE  ~failed /\ (bus = "none" \/ seal = "done")
  <2>1. ~WriteMarker
    BY <1>1 DEF WriteMarker
  <2>2. Finish
    BY <1>1, <2>1, MarkerWriters
  <2>3. pc = "flushing" /\ ~failed /\ (wanted # None => seal = "done")
    BY <1>1, <2>2 DEF Finish, EvidenceFinalized
  <2>4. bus # "none" => wanted # None
    BY <1>1, <2>3 DEF Inv, Ending
  <2> QED
    BY <2>3, <2>4
<1>2. Inv /\ [Next]_vars =>
        [marker' # marker /\ marker' # None /\ marker'.clean =>
           ~failed /\ (bus = "none" \/ seal = "done")]_vars
  BY <1>1
<1> QED
  BY <1>2, Invariance, PTL DEF Spec, CleanAfterSeal
=============================================================================
