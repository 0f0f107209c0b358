----------------------- MODULE MarketConnectionProofs -----------------------
(***************************************************************************)
(* What the market feed's client and supervisor promise, for every policy, *)
(* every number of sockets and every clock.                                *)
(*                                                                         *)
(* The inductive invariant Inv joins the four invariants of the run with   *)
(* Accounted, which says what the supervisor's four downtime fields mean:  *)
(* closedDowntimeMs holds what the outage had cost at                      *)
(* downtimeAccountedUpTo, and the outage began no earlier than its share   *)
(* of the total downtime allows.  The invariants need each other: that a   *)
(* close event meets no armed timer is SocketOrTimer, and that a start     *)
(* finds no live state is StateMatchesSocket with SocketOrTimer.           *)
(***************************************************************************)
EXTENDS MarketConnection, TLAPS

\* the downtime fields, and the history they stand for
Accounted ==
    /\ lost <=> unresolvedSince # None
    /\ downtimeAccountedUpTo <= clock
    /\ disconnectedAt # None => unresolvedSince # None /\ unresolvedSince <= disconnectedAt
    /\ unresolvedSince # None => unresolvedSince <= clock /\ clock - unresolvedSince <= down
    /\ down = closedDowntimeMs + (IF unresolvedSince = None THEN 0 ELSE Unaccounted)

Inv == TypeOK /\ SocketOrTimer /\ AttemptsMatchConnects /\ StateMatchesSocket /\ Accounted

-----------------------------------------------------------------------------
(* The supervisor.                                                         *)

\* The backoff of any attempt is a number: the timer is due at some time.
LEMMA DelayType ==
  ASSUME NEW n \in Nat \ {0}
  PROVE  marketReconnectDelay(n) \in Int
<1>1. n - 1 \in Nat
  OBVIOUS
<1>2. 2 ^ (n - 1) \in Int
  BY <1>1
<1>3. InitialDelay * 2 ^ (n - 1) \in Int
  BY <1>2, MarketAssumption
<1> QED
  BY <1>3, MarketAssumption DEF marketReconnectDelay

\* what the supervisor's actions work on, and what they keep
SupervisorType ==
    /\ connectionState \in States
    /\ attempt \in 0..MaxAttempts
    /\ disconnectedAt \in {None} \cup Times
    /\ unresolvedSince \in {None} \cup Times
    /\ downtimeAccountedUpTo \in Times
    /\ closedDowntimeMs \in Nat
    /\ clock \in Times
    /\ down \in Nat

\* noteOpened: an outage that ends is accounted to the end, whether its episode
\* is still open or was given up before.
LEMMA OpenedStep ==
  ASSUME SupervisorType, Accounted, noteOpened, ~lost', UNCHANGED <<clock, down>>
  PROVE  /\ SupervisorType' /\ Accounted' /\ disconnectedAt' = None
         /\ connectionState' \in {"CONNECTED", "RECOVERED"}
<1> USE MarketAssumption
<1>1. unresolvedSince' = None /\ attempt' = 0 /\ clock' = clock /\ down' = down
  BY DEF noteOpened
<1>2. CASE disconnectedAt # None
  BY <1>1, <1>2 DEF noteOpened, closeEpisode, SupervisorType, Accounted, Unaccounted, Times, States
<1>3. CASE disconnectedAt = None /\ unresolvedSince # None
  BY <1>1, <1>3 DEF noteOpened, SupervisorType, Accounted, Unaccounted, Times, States
<1>4. CASE disconnectedAt = None /\ unresolvedSince = None
  BY <1>1, <1>4 DEF noteOpened, SupervisorType, Accounted, Unaccounted, Times, States
<1> QED
  BY <1>2, <1>3, <1>4

\* noteStopped: the open episode and the outage around it are each accounted once.
LEMMA StoppedStep ==
  ASSUME SupervisorType, Accounted, noteStopped, ~lost', UNCHANGED <<clock, down>>
  PROVE  /\ SupervisorType' /\ Accounted' /\ disconnectedAt' = None
         /\ connectionState' = "DISCONNECTED"
<1> USE MarketAssumption
<1>1. CASE disconnectedAt # None
  BY <1>1 DEF noteStopped, SupervisorType, Accounted, Unaccounted, Times, States
<1>2. CASE disconnectedAt = None
  BY <1>2 DEF noteStopped, SupervisorType, Accounted, Unaccounted, Times, States
<1> QED
  BY <1>1, <1>2

\* noteDisconnected: a first loss opens the account, a later one goes on with it,
\* and a give-up closes the episode but not the outage.
LEMMA DisconnectedStep ==
  ASSUME SupervisorType, Accounted, noteDisconnected, lost', UNCHANGED <<clock, down>>
  PROVE  /\ SupervisorType' /\ Accounted'
         /\ connectionState' \in {"RECONNECTING", "FAILED"}
<1> USE MarketAssumption
<1>0. clock' = clock /\ down' = down /\ clock \in Nat /\ Attempts \in 0..MaxAttempts
  BY DEF SupervisorType, Times, Attempts
<1>1. CASE disconnectedAt = None /\ unresolvedSince = None
  <2>1. CASE GivesUp
    BY <1>0, <1>1, <2>1 DEF noteDisconnected, SupervisorType, Accounted, Unaccounted, Times, States
  <2>2. CASE ~GivesUp
    <3>1. Attempts + 1 \in 0..MaxAttempts
      BY <1>0, <2>2 DEF GivesUp
    <3> QED
      BY <1>0, <1>1, <2>2, <3>1
      DEF noteDisconnected, SupervisorType, Accounted, Unaccounted, EpisodeStart, Times, States
  <2> QED
    BY <2>1, <2>2
<1>2. CASE ~(disconnectedAt = None /\ unresolvedSince = None)
  <2>0. unresolvedSince # None
    BY <1>2 DEF Accounted
  <2>1. CASE GivesUp
    BY <1>0, <1>2, <2>0, <2>1 DEF noteDisconnected, SupervisorType, Accounted, Unaccounted, Times, States
  <2>2. CASE ~GivesUp
    <3>1. Attempts + 1 \in 0..MaxAttempts
      BY <1>0, <2>2 DEF GivesUp
    <3>2. EpisodeStart \in Times /\ unresolvedSince <= EpisodeStart
      BY <1>0, <2>0 DEF EpisodeStart, SupervisorType, Accounted, Times
    <3> QED
      BY <1>0, <1>2, <2>0, <2>2, <3>1, <3>2
      DEF noteDisconnected, SupervisorType, Accounted, Unaccounted, Times, States
  <2> QED
    BY <2>1, <2>2
<1> QED
  BY <1>1, <1>2

-----------------------------------------------------------------------------
(* The client.                                                             *)

\* what TypeOK says of the client, the network and the history
ClientType ==
    /\ stopped \in BOOLEAN /\ heartbeat \in BOOLEAN /\ timerArmed \in BOOLEAN
    /\ health \in Healths
    /\ timer \in {None} \cup Int
    /\ current \in {None} \cup Sockets
    /\ lastMessageAt \in Times /\ lastTickerEvidenceAt \in Times
    /\ lastTradeTimestamp \in Times
    /\ socks \in [Sockets -> {"unused", "connecting", "open", "closing"}]
    /\ lost \in BOOLEAN
    /\ tries \in Nat

LEMMA TypeParts ==
  /\ TypeOK <=> ClientType /\ SupervisorType
  /\ TypeOK' <=> ClientType' /\ SupervisorType'
BY DEF TypeOK, ClientType, SupervisorType

\* A step that leaves the supervisor, the clock and the history of the outage
\* alone keeps the account.
LEMMA SupervisorFrame ==
  ASSUME SupervisorType, Accounted, UNCHANGED <<outage, attempt, clock, lost, down>>,
         connectionState' \in States
  PROVE  SupervisorType' /\ Accounted'
BY DEF SupervisorType, Accounted, Unaccounted, outage

\* scheduleReconnect of a client whose socket was just given up
LEMMA ScheduleStep ==
  ASSUME Inv, scheduleReconnect, current # None, current' = None,
         socks' \in [Sockets -> {"unused", "connecting", "open", "closing"}],
         UNCHANGED <<feed, clock, down>>
  PROVE  Inv'
<1> USE MarketAssumption
<1>0. ClientType /\ SupervisorType /\ Accounted
  BY TypeParts DEF Inv
<1>1. ~stopped /\ heartbeat /\ timer = None
  BY DEF Inv, SocketOrTimer
<1>2. lost' /\ noteDisconnected
  BY DEF scheduleReconnect
<1>3. /\ SupervisorType' /\ Accounted'
      /\ connectionState' \in {"RECONNECTING", "FAILED"}
  BY <1>0, <1>2, DisconnectedStep
<1>4. Attempts \in Nat /\ clock \in Int
  BY <1>0 DEF SupervisorType, Attempts, Times
<1>5. StateMatchesSocket'
  BY <1>3 DEF StateMatchesSocket
<1>6. CASE GivesUp
  <2>1. /\ stopped' = TRUE /\ heartbeat' = FALSE /\ timer' = None /\ timerArmed' = FALSE
        /\ health' = "DISCONNECTED" /\ tries' = 0 /\ lost' = TRUE
    BY <1>6 DEF scheduleReconnect
  <2>2. disconnectedAt' = None
    BY <1>2, <1>6 DEF noteDisconnected
  <2>3. ClientType'
    BY <1>0, <2>1 DEF ClientType, feed, Healths
  <2>4. SocketOrTimer' /\ AttemptsMatchConnects'
    BY <2>1, <2>2 DEF SocketOrTimer, AttemptsMatchConnects
  <2> QED
    BY <1>3, <1>5, <2>3, <2>4, TypeParts DEF Inv
<1>7. CASE ~GivesUp
  <2>1. /\ timer' = clock + marketReconnectDelay(Attempts + 1) /\ timerArmed' = TRUE
        /\ health' = "CONNECTING" /\ lost' = TRUE /\ stopped' = stopped /\ heartbeat' = heartbeat
        /\ tries' = IF disconnectedAt = None THEN 0 ELSE tries
    BY <1>7 DEF scheduleReconnect
  <2>2. timer' \in Int /\ timer' # None
    BY <1>4, <2>1, DelayType
  <2>3. attempt' = Attempts + 1 /\ disconnectedAt' = EpisodeStart
    BY <1>2, <1>7 DEF noteDisconnected
  <2>4. ClientType'
    BY <1>0, <2>1, <2>2 DEF ClientType, feed, Healths
  <2>5. SocketOrTimer'
    BY <1>1, <2>1, <2>2 DEF SocketOrTimer
  <2>6. attempt' = tries' + 1
    BY <1>0, <1>1, <2>1, <2>3 DEF Inv, AttemptsMatchConnects, Attempts, ClientType
  <2>7. AttemptsMatchConnects'
    BY <2>1, <2>2, <2>6 DEF AttemptsMatchConnects
  <2> QED
    BY <1>3, <1>5, <2>4, <2>5, <2>7, TypeParts DEF Inv
<1> QED
  BY <1>6, <1>7

LEMMA PlusZero == \A n \in Nat : n + 0 = n
OBVIOUS

\* connect of a client that is running by then and has no socket
LEMMA ConnectStep ==
  ASSUME Inv, connect, current = None, stopped' = FALSE, heartbeat' = TRUE, timer' = None,
         timerArmed' = FALSE, tries' \in Nat,
         disconnectedAt # None => attempt = tries',
         UNCHANGED <<feed, connectionState, attempt, outage, clock, lost, down>>
  PROVE  Inv'
<1> USE MarketAssumption
<1>0. ClientType /\ SupervisorType /\ Accounted
  BY TypeParts DEF Inv
<1>1. PICK s \in Sockets :
         /\ socks' = [socks EXCEPT ![s] = "connecting"]
         /\ current' = s
         /\ health' = "CONNECTING"
  BY DEF connect, TornDown
<1>2. ClientType'
  BY <1>0, <1>1 DEF ClientType, feed, Healths
<1>3. SupervisorType' /\ Accounted'
  BY <1>0, SupervisorFrame DEF SupervisorType
<1>4. SocketOrTimer'
  BY <1>1 DEF SocketOrTimer
<1>7. AttemptsMatchConnects'
  <2>1. disconnectedAt' # None => attempt' = tries'
    BY DEF outage
  <2>2. tries' + 0 = tries'
    BY PlusZero, Zenon
  <2> QED
    BY <2>1, <2>2 DEF AttemptsMatchConnects
<1>5. connectionState \notin {"CONNECTED", "RECOVERED", "STALE"}
  BY DEF Inv, StateMatchesSocket
<1>6. StateMatchesSocket'
  BY <1>5 DEF Inv, StateMatchesSocket
<1> QED
  BY <1>2, <1>3, <1>4, <1>6, <1>7, TypeParts DEF Inv

\* A step that touches neither the client's position nor the account: what is
\* left to show of it are the types of what it writes and the supervisor's state.
LEMMA QuietStep ==
  ASSUME Inv, ClientType', connectionState' \in States, StateMatchesSocket',
         UNCHANGED <<stopped, heartbeat, timer, timerArmed, current, attempt, outage, clock, lost, down, tries>>
  PROVE  Inv'
<1>0. SupervisorType /\ Accounted
  BY TypeParts DEF Inv
<1>1. SupervisorType' /\ Accounted'
  BY <1>0, SupervisorFrame
<1>2. SocketOrTimer' /\ AttemptsMatchConnects'
  BY DEF Inv, SocketOrTimer, AttemptsMatchConnects, outage
<1> QED
  BY <1>1, <1>2, TypeParts DEF Inv

-----------------------------------------------------------------------------
(* The steps.                                                              *)

LEMMA start_Inv == ASSUME Inv, start PROVE Inv'
<1>1. current = None /\ timer = None
  BY DEF Inv, SocketOrTimer, start
<1>2. timerArmed = FALSE /\ (disconnectedAt # None => attempt = tries) /\ tries \in Nat
  <2>1. timerArmed = (timer # None)
    BY DEF Inv, AttemptsMatchConnects
  <2>2. tries \in Nat /\ attempt \in Nat
    BY MarketAssumption DEF Inv, TypeOK
  <2>3. disconnectedAt # None => attempt = tries + 0
    BY <1>1 DEF Inv, AttemptsMatchConnects
  <2>4. timerArmed = FALSE
    BY <1>1, <2>1, Zenon
  <2>5. disconnectedAt # None => attempt = tries
    BY <2>2, <2>3
  <2> QED
    BY <2>2, <2>4, <2>5
<1>3. /\ connect /\ stopped' = FALSE /\ heartbeat' = TRUE /\ timer' = timer /\ timerArmed' = timerArmed
      /\ tries' = tries
      /\ UNCHANGED <<feed, connectionState, attempt, outage, clock, lost, down>>
  BY DEF start, supervisor
<1>4. timer' = None /\ timerArmed' = FALSE /\ tries' \in Nat /\ (disconnectedAt # None => attempt = tries')
  BY <1>1, <1>2, <1>3
<1> QED
  BY <1>1, <1>3, <1>4, ConnectStep

LEMMA TimerFires_Inv == ASSUME Inv, TimerFires PROVE Inv'
<1>1. current = None /\ ~stopped /\ heartbeat
  BY DEF Inv, SocketOrTimer, TimerFires
<1>2. stopped \in BOOLEAN /\ heartbeat \in BOOLEAN /\ tries \in Nat
  BY DEF Inv, TypeOK
<1>3. /\ connect /\ stopped' = stopped /\ heartbeat' = heartbeat /\ timer' = None /\ timerArmed' = FALSE
      /\ tries' = tries + 1
      /\ UNCHANGED <<feed, connectionState, attempt, outage, clock, lost, down>>
  BY DEF TimerFires
<1>4. disconnectedAt # None => attempt = tries + 1
  BY DEF Inv, AttemptsMatchConnects, TimerFires
<1>5. stopped' = FALSE /\ heartbeat' = TRUE /\ tries' \in Nat /\ (disconnectedAt # None => attempt = tries')
  BY <1>1, <1>2, <1>3, <1>4
<1> QED
  BY <1>1, <1>3, <1>5, ConnectStep

LEMMA stop_Inv == ASSUME Inv, stop PROVE Inv'
<1> USE MarketAssumption
<1>0. ClientType /\ SupervisorType /\ Accounted
  BY TypeParts DEF Inv
<1>1. /\ stopped' = TRUE /\ heartbeat' = FALSE /\ timer' = None /\ socks' = TornDown /\ current' = None
      /\ health' = "DISCONNECTED" /\ tries' = 0 /\ lost' = FALSE /\ noteStopped /\ timerArmed' = FALSE
      /\ UNCHANGED feed /\ clock' = clock /\ down' = down
  BY DEF stop, noteStopped
<1>2. /\ SupervisorType' /\ Accounted' /\ disconnectedAt' = None
      /\ connectionState' = "DISCONNECTED"
  BY <1>0, <1>1, StoppedStep
<1>3. TornDown \in [Sockets -> {"unused", "connecting", "open", "closing"}]
  BY <1>0 DEF ClientType, TornDown
<1>4. ClientType'
  BY <1>0, <1>1, <1>3 DEF ClientType, feed, Healths
<1>5. SocketOrTimer'
  BY <1>1 DEF SocketOrTimer
<1>6. AttemptsMatchConnects'
  BY <1>1, <1>2 DEF AttemptsMatchConnects
<1>7. StateMatchesSocket'
  BY <1>1, <1>2 DEF StateMatchesSocket
<1> QED
  BY <1>2, <1>4, <1>5, <1>6, <1>7, TypeParts DEF Inv

LEMMA SocketOpens_Inv == ASSUME Inv, NEW s \in Sockets, SocketOpens(s) PROVE Inv'
<1> USE MarketAssumption
<1>0. ClientType /\ SupervisorType /\ Accounted
  BY TypeParts DEF Inv
<1>1. /\ current = s /\ socks' = [socks EXCEPT ![s] = "open"]
      /\ lastMessageAt' = clock /\ lastTickerEvidenceAt' = clock /\ noteOpened
      /\ health' = "CONNECTED" /\ tries' = 0 /\ lost' = FALSE
      /\ stopped' = stopped /\ heartbeat' = heartbeat /\ timer' = timer /\ timerArmed' = timerArmed
      /\ current' = current /\ lastTradeTimestamp' = lastTradeTimestamp /\ clock' = clock /\ down' = down
  BY DEF SocketOpens
<1>2. /\ SupervisorType' /\ Accounted' /\ disconnectedAt' = None
      /\ connectionState' \in {"CONNECTED", "RECOVERED"}
  BY <1>0, <1>1, OpenedStep
<1>3. ClientType'
  BY <1>0, <1>1 DEF ClientType, SupervisorType, Healths
<1>4. SocketOrTimer'
  BY <1>1 DEF Inv, SocketOrTimer
<1>5. AttemptsMatchConnects'
  BY <1>1, <1>2 DEF Inv, AttemptsMatchConnects
<1>6. current' # None /\ socks'[current'] = "open"
  BY <1>0, <1>1 DEF ClientType
<1>7. StateMatchesSocket'
  BY <1>1, <1>2, <1>6 DEF StateMatchesSocket
<1> QED
  BY <1>2, <1>3, <1>4, <1>5, <1>7, TypeParts DEF Inv

\* A payload of the current socket, whatever its trade's time
LEMMA Payload_Inv ==
  ASSUME Inv, NEW s \in Sockets, Payload(s), lastTickerEvidenceAt' \in Times, lastTradeTimestamp' \in Times
  PROVE  Inv'
<1> USE MarketAssumption
<1>0. ClientType /\ SupervisorType
  BY TypeParts DEF Inv
<1>1. /\ socks[s] \in {"open", "closing"} /\ current = s /\ lastMessageAt' = clock /\ noteMessage
      /\ health' = "CONNECTED"
      /\ UNCHANGED <<stopped, heartbeat, timer, current, attempt, timerArmed, outage,
                     socks, clock, lost, down, tries>>
  BY DEF Payload
<1>2. ClientType'
  BY <1>0, <1>1 DEF ClientType, SupervisorType, Healths
<1>3. connectionState' \in States
  BY <1>0, <1>1 DEF SupervisorType, noteMessage, States
<1>4. StateMatchesSocket'
  BY <1>1 DEF Inv, StateMatchesSocket, noteMessage
<1> QED
  BY <1>1, <1>2, <1>3, <1>4, QuietStep

LEMMA Degrades_Inv == ASSUME Inv, NEW s \in Sockets, Degrades(s) PROVE Inv'
<1>0. ClientType /\ SupervisorType
  BY TypeParts DEF Inv
<1>1. /\ health' = "DEGRADED"
      /\ UNCHANGED <<stopped, heartbeat, timer, timerArmed, current, attempt, outage, clock, lost, down, tries>>
      /\ UNCHANGED <<feed, socks, connectionState>>
  BY DEF Degrades, supervisor
<1>2. ClientType'
  BY <1>0, <1>1 DEF ClientType, feed, Healths
<1>3. connectionState' \in States /\ StateMatchesSocket'
  BY <1>0, <1>1 DEF Inv, SupervisorType, StateMatchesSocket
<1> QED
  BY <1>1, <1>2, <1>3, QuietStep

LEMMA SocketCloses_Inv == ASSUME Inv, NEW s \in Sockets, SocketCloses(s) PROVE Inv'
<1> USE MarketAssumption
<1>0. ClientType /\ SupervisorType
  BY TypeParts DEF Inv
<1>1. socks' \in [Sockets -> {"unused", "connecting", "open", "closing"}]
  BY <1>0 DEF SocketCloses, ClientType
<1>2. CASE current = s
  <2>1. scheduleReconnect /\ current # None /\ current' = None /\ UNCHANGED <<feed, clock, down>>
    BY <1>2 DEF SocketCloses
  <2> QED
    BY <1>1, <2>1, ScheduleStep
<1>3. CASE current # s
  <2>1. /\ UNCHANGED <<stopped, heartbeat, timer, timerArmed, current, attempt, outage, clock, lost, down, tries>>
        /\ UNCHANGED <<feed, health, connectionState>>
        /\ socks' = [socks EXCEPT ![s] = "unused"]
    BY <1>3 DEF SocketCloses, supervisor
  <2>2. ClientType'
    BY <1>0, <1>1, <2>1 DEF ClientType, feed
  <2>3. current \in Sockets => socks'[current] = socks[current]
    BY <1>0, <1>3, <2>1 DEF ClientType
  <2>4. connectionState' \in States /\ StateMatchesSocket'
    BY <1>0, <2>1, <2>3 DEF Inv, SupervisorType, ClientType, StateMatchesSocket
  <2> QED
    BY <2>1, <2>2, <2>4, QuietStep
<1> QED
  BY <1>2, <1>3

LEMMA Heartbeat_Inv == ASSUME Inv, Heartbeat PROVE Inv'
<1> USE MarketAssumption
<1>0. ClientType /\ SupervisorType
  BY TypeParts DEF Inv
<1>1. current # None /\ current \in Sockets /\ socks' = [socks EXCEPT ![current] = "closing"]
  BY <1>0 DEF Heartbeat, IsOpen, ClientType
<1>2. socks' \in [Sockets -> {"unused", "connecting", "open", "closing"}]
  BY <1>0, <1>1 DEF ClientType
<1>3. CASE current' = None /\ scheduleReconnect
  <2>1. UNCHANGED <<feed, clock, down>>
    BY DEF Heartbeat
  <2> QED
    BY <1>1, <1>2, <1>3, <2>1, ScheduleStep
<1>4. CASE ~(current' = None /\ scheduleReconnect)
  <2>1. /\ UNCHANGED <<stopped, heartbeat, timer, timerArmed, current, attempt, outage, clock, lost, down, tries>>
        /\ UNCHANGED feed
        /\ noteStale /\ health' = "STALE"
    BY <1>4 DEF Heartbeat
  <2>2. ClientType'
    BY <1>0, <1>2, <2>1 DEF ClientType, feed, Healths
  <2>3. connectionState' \in States
    BY <1>0, <2>1 DEF SupervisorType, noteStale, States
  <2>4. socks'[current'] = "closing"
    BY <1>0, <1>1, <2>1 DEF ClientType
  <2>5. StateMatchesSocket'
    BY <1>1, <2>1, <2>4 DEF Inv, StateMatchesSocket, noteStale
  <2> QED
    BY <2>1, <2>2, <2>3, <2>5, QuietStep
<1> QED
  BY <1>3, <1>4

LEMMA Tick_Inv == ASSUME Inv, Tick PROVE Inv'
<1> USE MarketAssumption
<1>0. ClientType /\ SupervisorType /\ Accounted
  BY TypeParts DEF Inv
<1>1. /\ UNCHANGED <<stopped, heartbeat, health, timer, timerArmed, current, attempt, lost, tries>>
      /\ UNCHANGED <<feed, socks, connectionState>> /\ UNCHANGED outage
      /\ clock' = clock + 1 /\ clock < MaxClock /\ down' = IF lost THEN down + 1 ELSE down
  BY DEF Tick, client, supervisor, feed
<1>2. ClientType'
  BY <1>0, <1>1 DEF ClientType, feed
<1>3. SupervisorType'
  BY <1>0, <1>1 DEF SupervisorType, outage, Times
<1>4. Accounted'
  BY <1>0, <1>1 DEF SupervisorType, Accounted, Unaccounted, outage, Times
<1>5. SocketOrTimer' /\ AttemptsMatchConnects' /\ StateMatchesSocket'
  BY <1>1 DEF Inv, SocketOrTimer, AttemptsMatchConnects, StateMatchesSocket, outage
<1> QED
  BY <1>2, <1>3, <1>4, <1>5, TypeParts DEF Inv

-----------------------------------------------------------------------------
(* The theorems.                                                           *)

\* The inductive invariant holds in every reachable state.
THEOREM Invariance == Spec => []Inv
<1>1. Init => Inv
  <2> SUFFICES ASSUME Init PROVE Inv
    OBVIOUS
  <2>1. TypeOK
    <3>1. 0 \in Times /\ 0 \in 0..MaxAttempts
      BY MarketAssumption DEF Times
    <3>2. SupervisorType
      BY <3>1 DEF Init, SupervisorType, States
    <3>3. socks \in [Sockets -> {"unused", "connecting", "open", "closing"}]
      BY DEF Init
    <3>4. ClientType
      BY <3>1, <3>3 DEF Init, ClientType, Healths
    <3> QED
      BY <3>2, <3>4, TypeParts
  <2>2. SocketOrTimer
    BY DEF Init, SocketOrTimer
  <2>3. AttemptsMatchConnects
    BY DEF Init, AttemptsMatchConnects
  <2>4. StateMatchesSocket
    BY DEF Init, StateMatchesSocket
  <2>5. Accounted
    BY DEF Init, Accounted, Unaccounted
  <2> QED
    BY <2>1, <2>2, <2>3, <2>4, <2>5 DEF Inv
<1>2. Inv /\ [Next]_vars => Inv'
  <2> SUFFICES ASSUME Inv, [Next]_vars PROVE Inv'
    OBVIOUS
  <2>1. CASE start
    BY <2>1, start_Inv
  <2>2. CASE stop
    BY <2>2, stop_Inv
  <2>3. CASE TimerFires
    BY <2>3, TimerFires_Inv
  <2>4. ASSUME NEW s \in Sockets, SocketOpens(s) PROVE Inv'
    BY <2>4, SocketOpens_Inv
  <2>5. ASSUME NEW s \in Sockets, NEW at \in 1..clock, TickerArrives(s, at) PROVE Inv'
    <3>1. clock \in Times /\ lastTickerEvidenceAt \in Times
      BY DEF Inv, TypeOK
    <3>2. lastTickerEvidenceAt' \in Times /\ lastTradeTimestamp' \in Times /\ Payload(s)
      BY <2>5, <3>1, MarketAssumption DEF TickerArrives, Times
    <3> QED
      BY <3>2, Payload_Inv
  <2>6. ASSUME NEW s \in Sockets, OtherArrives(s) PROVE Inv'
    <3>1. lastTickerEvidenceAt' \in Times /\ lastTradeTimestamp' \in Times /\ Payload(s)
      BY <2>6 DEF OtherArrives, Inv, TypeOK
    <3> QED
      BY <3>1, Payload_Inv
  <2>7. ASSUME NEW s \in Sockets, Degrades(s) PROVE Inv'
    BY <2>7, Degrades_Inv
  <2>8. ASSUME NEW s \in Sockets, SocketCloses(s) PROVE Inv'
    BY <2>8, SocketCloses_Inv
  <2>9. CASE Heartbeat
    BY <2>9, Heartbeat_Inv
  <2>10. CASE Tick
    BY <2>10, Tick_Inv
  <2>11. CASE UNCHANGED vars
    <3>1. /\ UNCHANGED <<stopped, heartbeat, timer, timerArmed, current, attempt, outage, clock, lost, down, tries>>
          /\ UNCHANGED <<feed, health, socks, connectionState>>
      BY <2>11 DEF vars, client, supervisor, feed
    <3>2. ClientType' /\ connectionState' \in States /\ StateMatchesSocket'
      BY <3>1 DEF Inv, TypeOK, ClientType, StateMatchesSocket, feed
    <3> QED
      BY <3>1, <3>2, QuietStep
  <2> QED
    BY <2>1, <2>2, <2>3, <2>4, <2>5, <2>6, <2>7, <2>8, <2>9, <2>10, <2>11 DEF Next
<1> QED
  BY <1>1, <1>2, PTL DEF Spec

\* Type correctness of client and supervisor; no episode counts more attempts
\* than policy.maxAttempts.
THEOREM TypeCorrect == Spec => []TypeOK
<1>1. Inv => TypeOK
  BY DEF Inv
<1> QED
  BY <1>1, Invariance, PTL

\* A running client has either a socket or a reconnect timer, a stopped one
\* neither: the client can be stuck in no state, and no timer or heartbeat that
\* survived a stop can revive it.
THEOREM NeverStuckNorRevived == Spec => []SocketOrTimer
<1>1. Inv => SocketOrTimer
  BY DEF Inv
<1> QED
  BY <1>1, Invariance, PTL

\* The supervisor's attempt count is the number of connections the client really
\* made in the episode, and one more while a timer is armed: no late close event
\* of a replaced socket is ever counted.
THEOREM AttemptsAreConnects == Spec => []AttemptsMatchConnects
<1>1. Inv => AttemptsMatchConnects
  BY DEF Inv
<1> QED
  BY <1>1, Invariance, PTL

\* The supervisor claims a live feed only while the client holds a socket that was
\* opened, and a broken connection is reported as reconnecting or failed.
THEOREM StateIsTrue == Spec => []StateMatchesSocket
<1>1. Inv => StateMatchesSocket
  BY DEF Inv
<1> QED
  BY <1>1, Invariance, PTL

\* The reported downtime is exactly the time the feed was lost, across losses,
\* give-ups, restarts, recoveries and stops.
THEOREM DowntimeExact == Spec => []DowntimeWhole
<1>1. Inv => DowntimeWhole
  <2> SUFFICES ASSUME Inv PROVE DowntimeWhole
    OBVIOUS
  <2>1. SupervisorType /\ Accounted
    BY TypeParts DEF Inv
  <2>2. totalDowntimeMs = down
    BY <2>1 DEF SupervisorType, Accounted, totalDowntimeMs, Unaccounted
  <2>3. currentDowntimeMs <= down
    BY <2>1, MarketAssumption DEF SupervisorType, Accounted, currentDowntimeMs, Times
  <2> QED
    BY <2>2, <2>3 DEF DowntimeWhole
<1> QED
  BY <1>1, Invariance, PTL
=============================================================================
