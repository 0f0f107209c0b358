-------------------------- MODULE MarketConnection --------------------------
(***************************************************************************)
(* The public market feed: one WebSocket client and its supervisor.        *)
(*                                                                         *)
(*   src/packages/core/src/upbitWebSocket.ts              the client       *)
(*   src/packages/core/src/marketConnectionSupervisor.ts  the supervisor   *)
(*                                                                         *)
(* Every socket event, timer and call of the owner is one step, as in the  *)
(* single-threaded runtime the client lives in.  A socket that was torn    *)
(* down lives on until its own close event, so its late events race with   *)
(* those of its successor.  One subscribed market; the diagnostics-only    *)
(* fields (episode log, failure reason) are left out.                      *)
(***************************************************************************)
EXTENDS Integers, FiniteSets

CONSTANTS
    Sockets,        \* socket objects; a closed one is used again
    None,           \* undefined
    InitialDelay,   \* policy.initialDelayMs
    MaxDelay,       \* policy.maxDelayMs
    MaxAttempts,    \* policy.maxAttempts
    MaxTotal,       \* policy.maxTotalReconnectMs
    StaleAfter,     \* policy.staleAfterMs
    LateTimers,     \* may a due timer fire late (a busy event loop, a sleeping host)?
    MaxClock        \* bound on the clock

ASSUME MarketAssumption ==
    /\ None \notin Sockets /\ None \notin Int
    /\ InitialDelay \in Nat \ {0}
    /\ MaxDelay \in Nat /\ MaxDelay >= InitialDelay
    /\ MaxAttempts \in Nat \ {0}
    /\ MaxTotal \in Nat /\ MaxTotal >= InitialDelay
    /\ StaleAfter \in Nat \ {0}
    /\ LateTimers \in BOOLEAN
    /\ MaxClock \in Nat

VARIABLES
    \* the client
    stopped, heartbeat, health,
    timer,          \* the time the reconnect timer fires at, or None
    current,        \* this.socket, or None
    lastMessageAt, lastTickerEvidenceAt,
    lastTradeTimestamp,     \* 0 before the first ticker
    \* the supervisor
    connectionState, attempt, timerArmed,
    disconnectedAt, \* of the open episode, None without one
    unresolvedSince, downtimeAccountedUpTo, closedDowntimeMs,
    \* the network
    socks, clock,
    \* history
    lost,           \* a connection broke, and none was opened nor the client stopped since
    down,           \* how long that has been so, altogether
    tries           \* connections made in the open episode

client == <<stopped, heartbeat, health, timer, current, lastMessageAt,
            lastTickerEvidenceAt, lastTradeTimestamp>>
feed == <<lastMessageAt, lastTickerEvidenceAt, lastTradeTimestamp>>
outage == <<disconnectedAt, unresolvedSince, downtimeAccountedUpTo, closedDowntimeMs>>
supervisor == <<connectionState, attempt, timerArmed, outage>>
vars == <<client, supervisor, socks, clock, lost, down, tries>>

Times == 0..MaxClock
Healths == {"CONNECTING", "CONNECTED", "DEGRADED", "STALE", "DISCONNECTED"}
States == {"CONNECTED", "STALE", "DISCONNECTED", "RECONNECTING", "RECOVERED", "FAILED"}

TypeOK ==
    /\ stopped \in BOOLEAN /\ heartbeat \in BOOLEAN /\ timerArmed \in BOOLEAN
    /\ health \in Healths
    /\ timer \in {None} \cup Int
    /\ current \in {None} \cup Sockets
    /\ lastMessageAt \in Times /\ lastTickerEvidenceAt \in Times
    /\ lastTradeTimestamp \in Times
    /\ connectionState \in States
    /\ attempt \in 0..MaxAttempts
    /\ disconnectedAt \in {None} \cup Times
    /\ unresolvedSince \in {None} \cup Times
    /\ downtimeAccountedUpTo \in Times
    /\ closedDowntimeMs \in Nat
    /\ socks \in [Sockets -> {"unused", "connecting", "open", "closing"}]
    /\ clock \in Times
    /\ lost \in BOOLEAN
    /\ down \in Nat
    /\ tries \in Nat

Init ==
    /\ stopped = TRUE /\ heartbeat = FALSE /\ timerArmed = FALSE
    /\ health = "DISCONNECTED"
    /\ timer = None
    /\ current = None
    /\ lastMessageAt = 0 /\ lastTickerEvidenceAt = 0
    /\ lastTradeTimestamp = 0
    /\ connectionState = "DISCONNECTED"
    /\ attempt = 0
    /\ disconnectedAt = None
    /\ unresolvedSince = None
    /\ downtimeAccountedUpTo = 0
    /\ closedDowntimeMs = 0
    /\ socks = [s \in Sockets |-> "unused"]
    /\ clock = 0
    /\ lost = FALSE
    /\ down = 0
    /\ tries = 0

-----------------------------------------------------------------------------
(* The supervisor.                                                         *)

\* bounded exponential backoff, factor 2
marketReconnectDelay(n) ==
    LET raw == InitialDelay * 2 ^ (n - 1) IN IF raw < MaxDelay THEN raw ELSE MaxDelay

\* downtime of the running outage that closedDowntimeMs does not hold yet
Unaccounted == clock - downtimeAccountedUpTo

\* closeEpisode of an open episode
closeEpisode ==
    /\ closedDowntimeMs' = closedDowntimeMs + Unaccounted
    /\ downtimeAccountedUpTo' = clock
    /\ disconnectedAt' = None

\* diagnostics
totalDowntimeMs == closedDowntimeMs + (IF unresolvedSince = None THEN 0 ELSE Unaccounted)

currentDowntimeMs ==
    IF disconnectedAt # None THEN clock - disconnectedAt
    ELSE IF unresolvedSince # None THEN clock - unresolvedSince ELSE 0

\* Mutant: the time after a give-up is forgotten
MNoteOpened ==
    /\ IF disconnectedAt # None
       THEN /\ closeEpisode
            /\ connectionState' = "RECOVERED"
       ELSE /\ connectionState' = IF unresolvedSince # None THEN "RECOVERED" ELSE "CONNECTED"
            /\ UNCHANGED <<closedDowntimeMs, disconnectedAt, downtimeAccountedUpTo>>
    /\ unresolvedSince' = None
    /\ attempt' = 0

noteOpened ==
    /\ \/ /\ disconnectedAt # None
          /\ closeEpisode
          /\ connectionState' = "RECOVERED"
       \/ /\ disconnectedAt = None /\ unresolvedSince # None
          /\ closedDowntimeMs' = closedDowntimeMs + Unaccounted
          /\ connectionState' = "RECOVERED"
          /\ UNCHANGED <<disconnectedAt, downtimeAccountedUpTo>>
       \/ /\ disconnectedAt = None /\ unresolvedSince = None
          /\ connectionState' = "CONNECTED"
          /\ UNCHANGED <<disconnectedAt, downtimeAccountedUpTo, closedDowntimeMs>>
    /\ unresolvedSince' = None
    /\ attempt' = 0

noteMessage ==
    connectionState' = IF connectionState \in {"RECOVERED", "STALE"} THEN "CONNECTED"
                       ELSE connectionState

noteStale ==
    connectionState' = IF connectionState \in {"CONNECTED", "RECOVERED"} THEN "STALE"
                       ELSE connectionState

\* Mutant: the state survives the stop
MNoteStopped ==
    /\ timerArmed' = FALSE
    /\ closedDowntimeMs' = totalDowntimeMs
    /\ disconnectedAt' = None
    /\ unresolvedSince' = None
    /\ attempt' = 0
    /\ UNCHANGED <<connectionState, downtimeAccountedUpTo>>

\* any open episode ends ABANDONED, then an outage that lasts is accounted for
noteStopped ==
    LET upTo == IF disconnectedAt # None THEN clock ELSE downtimeAccountedUpTo IN
    /\ timerArmed' = FALSE
    /\ closedDowntimeMs' = closedDowntimeMs
                            + (IF disconnectedAt # None THEN Unaccounted ELSE 0)
                            + (IF unresolvedSince # None THEN clock - upTo ELSE 0)
    /\ downtimeAccountedUpTo' = upTo
    /\ disconnectedAt' = None
    /\ unresolvedSince' = None
    /\ connectionState' = "DISCONNECTED"
    /\ attempt' = 0

\* start of the episode, and attempts made in it, that noteDisconnected works on
EpisodeStart == IF disconnectedAt = None THEN clock ELSE disconnectedAt
Attempts == IF disconnectedAt = None THEN 0 ELSE attempt

\* Mutant: one attempt more than the ceiling
MGivesUp ==
    \/ Attempts > MaxAttempts
    \/ clock - EpisodeStart + marketReconnectDelay(Attempts + 1) > MaxTotal

\* both ceilings; the second one looks at the moment the retry would fire
GivesUp ==
    \/ Attempts + 1 > MaxAttempts
    \/ clock - EpisodeStart + marketReconnectDelay(Attempts + 1) > MaxTotal

\* An outage that began before a give-up keeps its beginning.
noteDisconnected ==
    LET since == IF disconnectedAt = None /\ unresolvedSince = None THEN clock ELSE unresolvedSince
        upTo  == IF disconnectedAt = None /\ unresolvedSince = None THEN clock
                 ELSE downtimeAccountedUpTo
    IN
    /\ unresolvedSince' = since
    /\ \/ /\ GivesUp
          /\ connectionState' = "FAILED"
          /\ attempt' = Attempts
          /\ closedDowntimeMs' = closedDowntimeMs + (clock - upTo)
          /\ downtimeAccountedUpTo' = clock
          /\ disconnectedAt' = None
       \/ /\ ~GivesUp
          /\ connectionState' = "RECONNECTING"
          /\ attempt' = Attempts + 1
          /\ downtimeAccountedUpTo' = upTo
          /\ disconnectedAt' = EpisodeStart
          /\ UNCHANGED closedDowntimeMs

-----------------------------------------------------------------------------
(* The client.                                                             *)

IsOpen == current # None /\ socks[current] = "open"

\* the socket left behind by teardownSocket closes in its own time
TornDown ==
    IF current = None THEN socks ELSE [socks EXCEPT ![current] = "closing"]

\* connect, of a client that is not stopped
connect ==
    \E s \in Sockets :
        /\ TornDown[s] = "unused"
        /\ socks' = [TornDown EXCEPT ![s] = "connecting"]
        /\ current' = s
        /\ health' = "CONNECTING"

start ==
    /\ stopped
    /\ stopped' = FALSE
    /\ heartbeat' = TRUE
    /\ connect
    /\ UNCHANGED <<timer, feed, supervisor, clock, lost, down, tries>>

\* Mutant: the reconnect timer outlives the stop
MStop ==
    /\ stopped' = TRUE
    /\ heartbeat' = FALSE
    /\ socks' = TornDown
    /\ current' = None
    /\ noteStopped
    /\ health' = "DISCONNECTED"
    /\ tries' = 0
    /\ lost' = FALSE
    /\ UNCHANGED <<timer, feed, clock, down>>

\* the owner may stop the client at any time, a stopped one too
stop ==
    /\ stopped' = TRUE
    /\ heartbeat' = FALSE
    /\ timer' = None
    /\ socks' = TornDown
    /\ current' = None
    /\ noteStopped
    /\ health' = "DISCONNECTED"
    /\ tries' = 0
    /\ lost' = FALSE
    /\ UNCHANGED <<feed, clock, down>>

\* scheduleReconnect of a client whose socket is gone
scheduleReconnect ==
    /\ noteDisconnected
    /\ lost' = TRUE
    /\ tries' = IF disconnectedAt = None \/ GivesUp THEN 0 ELSE tries
    /\ IF GivesUp
       THEN /\ stopped' = TRUE
            /\ heartbeat' = FALSE
            /\ timer' = None
            /\ timerArmed' = FALSE
            /\ health' = "DISCONNECTED"
       ELSE /\ timer' = clock + marketReconnectDelay(Attempts + 1)
            /\ timerArmed' = TRUE
            /\ health' = "CONNECTING"
            /\ UNCHANGED <<stopped, heartbeat>>

TimerFires ==
    /\ timer # None
    /\ clock >= timer
    /\ timer' = None
    /\ timerArmed' = FALSE
    /\ connect
    /\ tries' = tries + 1
    /\ UNCHANGED <<stopped, heartbeat, feed, connectionState, attempt, outage, clock, lost, down>>

SocketOpens(s) ==
    /\ socks[s] = "connecting"
    /\ current = s
    /\ socks' = [socks EXCEPT ![s] = "open"]
    /\ lastMessageAt' = clock
    /\ lastTickerEvidenceAt' = clock
    /\ noteOpened
    /\ health' = "CONNECTED"
    /\ tries' = 0
    /\ lost' = FALSE
    /\ UNCHANGED <<stopped, heartbeat, timer, timerArmed, current, lastTradeTimestamp, clock, down>>

\* A payload of the market, also one that arrives while the socket is closing.
\* A ticker counts only when its trade is newer than the last one.
Payload(s) ==
    /\ socks[s] \in {"open", "closing"}
    /\ current = s
    /\ lastMessageAt' = clock
    /\ noteMessage
    /\ health' = "CONNECTED"
    /\ UNCHANGED <<stopped, heartbeat, timer, current, attempt, timerArmed, outage,
                   socks, clock, lost, down, tries>>

TickerArrives(s, at) ==
    /\ at > lastTradeTimestamp
    /\ lastTradeTimestamp' = at
    /\ lastTickerEvidenceAt' = IF at > lastTickerEvidenceAt THEN at ELSE lastTickerEvidenceAt
    /\ Payload(s)

OtherArrives(s) ==
    /\ UNCHANGED <<lastTickerEvidenceAt, lastTradeTimestamp>>
    /\ Payload(s)

\* an error event, or a payload that cannot be decoded
Degrades(s) ==
    /\ socks[s] # "unused"
    /\ current = s
    /\ health' = "DEGRADED"
    /\ UNCHANGED <<stopped, heartbeat, timer, current, feed, supervisor, socks, clock, lost, down, tries>>

\* Mutant: a late close event of a replaced socket is taken for the current one's
MSocketCloses(s) ==
    /\ socks[s] # "unused"
    /\ socks' = [socks EXCEPT ![s] = "unused"]
    /\ current' = None
    /\ IF stopped THEN UNCHANGED <<stopped, heartbeat, health, timer, supervisor, lost, tries>>
                  ELSE scheduleReconnect
    /\ UNCHANGED <<feed, clock, down>>

\* the close event: the peer's, or the end of a close of our own
SocketCloses(s) ==
    /\ socks[s] # "unused"
    /\ socks' = [socks EXCEPT ![s] = "unused"]
    /\ IF current = s
       THEN /\ current' = None
            /\ scheduleReconnect
       ELSE UNCHANGED <<current, stopped, heartbeat, health, timer, supervisor, lost, tries>>
    /\ UNCHANGED <<feed, clock, down>>

\* Mutant: order book and trade traffic counts as a live ticker
MTooQuiet == clock - lastMessageAt > StaleAfter

TooQuiet ==
    \/ clock - lastMessageAt > StaleAfter
    \/ clock - lastTickerEvidenceAt > StaleAfter

\* the heartbeat interval: a quiet socket is reported STALE and closed; if close
\* throws it is given up at once
Heartbeat ==
    /\ heartbeat
    /\ IsOpen
    /\ TooQuiet
    /\ health # "STALE"
    /\ socks' = [socks EXCEPT ![current] = "closing"]
    /\ \/ /\ noteStale
          /\ health' = "STALE"
          /\ UNCHANGED <<stopped, heartbeat, timer, current, attempt, timerArmed, outage, lost, tries>>
       \/ /\ current' = None
          /\ scheduleReconnect
    /\ UNCHANGED <<feed, clock, down>>

Tick ==
    /\ clock < MaxClock
    /\ ~LateTimers => clock # timer
    /\ clock' = clock + 1
    /\ down' = IF lost THEN down + 1 ELSE down
    /\ UNCHANGED <<client, supervisor, socks, lost, tries>>

Next ==
    \/ start
    \/ stop
    \/ TimerFires
    \/ \E s \in Sockets :
         \/ SocketOpens(s)
         \/ \E at \in 1..clock : TickerArrives(s, at)
         \/ OtherArrives(s)
         \/ Degrades(s)
         \/ SocketCloses(s)
    \/ Heartbeat
    \/ Tick

Spec == Init /\ [][Next]_vars

\* interval and timeout callbacks run, and a socket whose close was asked for
\* closes (the library's close timeout)
FairSpec ==
    /\ Spec
    /\ WF_vars(Heartbeat)
    /\ WF_vars(TimerFires)
    /\ \A s \in Sockets : WF_vars(socks[s] = "closing" /\ SocketCloses(s))

-----------------------------------------------------------------------------
(* Properties.                                                             *)

\* The reported downtime is the time the feed was really lost, through any
\* sequence of losses, give-ups, restarts, recoveries and stops: nothing is
\* counted twice and nothing is dropped; and the outage in progress is never
\* longer than the total.
DowntimeWhole ==
    /\ totalDowntimeMs = down
    /\ currentDowntimeMs <= totalDowntimeMs

\* The attempt count is the number of connections really attempted in the
\* episode, and one more while the timer for the next is armed: no late event
\* and no second timer makes the two drift apart.
AttemptsMatchConnects ==
    /\ timerArmed = (timer # None)
    /\ disconnectedAt # None => attempt = tries + (IF timer # None THEN 1 ELSE 0)

\* A running client always has either a socket or a reconnect timer, never both
\* and never neither; a stopped one, after stop or a give-up, has no socket and
\* no timer left that could revive it.
SocketOrTimer ==
    IF stopped THEN current = None /\ timer = None /\ ~heartbeat
    ELSE heartbeat /\ ((current = None) = (timer # None))

\* The supervisor's state never claims a live feed without a live socket, and
\* a broken connection is never reported as connected.
StateMatchesSocket ==
    /\ connectionState \in {"CONNECTED", "RECOVERED", "STALE"} =>
          current # None /\ socks[current] \in {"open", "closing"} /\ ~lost
    /\ lost => connectionState \in {"RECONNECTING", "FAILED"}

\* the newest ticker is older than the stale threshold
TooLongSinceTicker == clock - lastTickerEvidenceAt > StaleAfter

\* A socket that stays open without ticker evidence is closed or hears of the
\* market again: other traffic does not mask a dead ticker stream.
QuietSocketCloses == (IsOpen /\ TooLongSinceTicker) ~> ~(IsOpen /\ TooLongSinceTicker)

\* An episode stays within policy.maxTotalReconnectMs ("Hard ceiling on
\* wall-clock time spent reconnecting within one episode").
EpisodeWithinCeiling == disconnectedAt # None => clock - disconnectedAt <= MaxTotal
=============================================================================
