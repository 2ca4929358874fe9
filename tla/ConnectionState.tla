--------------------------- MODULE ConnectionState ---------------------------
(***************************************************************************)
(* One ConnectionState object, any client that uses it the way the drivers *)
(* and core_selftest do, and the transport its handlers operate.           *)
(*                                                                         *)
(* link is the transport behind the handlers: "down", "trying" (a connect  *)
(* launched asynchronously that has not resolved) or "up".  ConnectFn      *)
(* replaces whatever was there by a new attempt, DisconnectFn tears it     *)
(* down, ProbeFn may be true only while it is up and may also fail then    *)
(* (the probe of a device is a request of its own).  All calls run on one  *)
(* event loop, so every handler is one atomic step.                        *)
(***************************************************************************)
EXTENDS ConnectionStateCore

CONSTANT MaxFailures \* how many attempts in a row an outage of the peer costs

ASSUME MaxFailuresAssumption == MaxFailures \in Nat

VARIABLES
  cs, link,
  misled \* history: a report of another attempt was taken for the last one's result

vars == <<cs, link, misled>>

Links == {"down", "trying", "up"}

Init == cs = FreshConnectionState /\ link = "down" /\ misled = FALSE

\* The transport after ConnectFn returned "started" to a caller in mode async.
LinkAfterConnect(async, started) ==
  IF ~started THEN "down" ELSE IF async THEN "trying" ELSE "up"

\* An outage is bounded: the attempt that would be failure MaxFailures + 1
\* does not fail.  This bounds the peer, not the code.
MayFail == cs.failures < MaxFailures

-----------------------------------------------------------------------------
(* The client. *)

Configure(async) ==
  /\ ~cs.handlers
  /\ cs' = SetHandlers(cs, async)
  /\ UNCHANGED <<link, misled>>

\* A driver's connectToHost(): handlers and first attempt in one call, again
\* and again in the same mode.
ConnectToHost(async, started) ==
  /\ cs.handlers => async = cs.async
  /\ cs' = BeginAutoConnect(SetHandlers(cs, async), started)
  /\ link' = LinkAfterConnect(async, started) /\ misled' = FALSE

ClientConnectNow(started) ==
  /\ cs' = ConnectNow(cs, started)
  /\ link' = IF cs.handlers THEN LinkAfterConnect(cs.async, started) ELSE link
  /\ misled' = FALSE

ClientBeginAutoConnect(started) ==
  /\ cs' = BeginAutoConnect(cs, started)
  /\ link' = IF cs.handlers THEN LinkAfterConnect(cs.async, started) ELSE link
  /\ misled' = FALSE

ClientDisconnectNow ==
  /\ cs' = DisconnectNow(cs)
  /\ link' = IF cs.handlers THEN "down" ELSE link
  /\ misled' = FALSE

ClientSetHeartbeat(positive) ==
  /\ cs' = SetHeartbeatIntervalMs(cs, positive)
  /\ UNCHANGED <<link, misled>>

-----------------------------------------------------------------------------
(* The two timers. *)

HeartbeatTick(alive) ==
  /\ cs.heartbeat
  /\ alive => (~cs.handlers \/ link = "up")
  /\ cs' = OnHeartbeatTick(cs, alive)
  /\ UNCHANGED <<link, misled>>

ReconnectTick(started) ==
  /\ cs.rearm # 0
  /\ (cs.handlers /\ started) \/ MayFail
  /\ cs' = OnReconnectTick(cs, started)
  /\ link' = IF cs.handlers THEN LinkAfterConnect(cs.async, started) ELSE link
  /\ misled' = FALSE

-----------------------------------------------------------------------------
(* The transport. *)

AttemptResolves(succeeded) ==
  /\ link = "trying"
  /\ succeeded \/ MayFail
  /\ link' = IF succeeded THEN "up" ELSE "down"
  /\ cs' = ReportPendingConnectResult(cs, succeeded)
  /\ UNCHANGED misled

\* A peer that goes away: the Modbus driver reports every socket error, the
\* others report only one that ends an attempt.
LinkDrops(reported) ==
  /\ link = "up"
  /\ link' = "down"
  /\ cs' = IF reported THEN ReportPendingConnectResult(cs, FALSE) ELSE cs
  /\ UNCHANGED misled

\* A report that the running attempt, if there is one, is not behind.  The object
\* cannot tell it from that attempt's own: an awaited result is taken from it, and
\* the attempt's own report will be ignored.
LateReport(succeeded) ==
  /\ succeeded \/ ~cs.awaiting \/ MayFail
  /\ cs' = ReportPendingConnectResult(cs, succeeded)
  /\ misled' = (misled \/ cs.awaiting)
  /\ UNCHANGED link

-----------------------------------------------------------------------------
ClientStep ==
  \/ \E a \in BOOLEAN : Configure(a)
  \/ \E a, r \in BOOLEAN : ConnectToHost(a, r)
  \/ \E r \in BOOLEAN : ClientConnectNow(r)
  \/ \E r \in BOOLEAN : ClientBeginAutoConnect(r)
  \/ ClientDisconnectNow
  \/ \E p \in BOOLEAN : ClientSetHeartbeat(p)

\* What happens without the client: the reconnect timer and the transport...
LoopStep ==
  \/ \E b \in BOOLEAN : ReconnectTick(b)
  \/ \E b \in BOOLEAN : AttemptResolves(b)
  \/ \E b \in BOOLEAN : LinkDrops(b)
  \/ \E b \in BOOLEAN : LateReport(b)

\* ... and the heartbeat.
BackgroundStep == LoopStep \/ \E b \in BOOLEAN : HeartbeatTick(b)

Next == ClientStep \/ BackgroundStep

\* Timers fire and an attempt resolves (a connect has its own timeout).
Fairness ==
  /\ WF_vars(\E b \in BOOLEAN : HeartbeatTick(b))
  /\ WF_vars(\E b \in BOOLEAN : ReconnectTick(b))
  /\ WF_vars(\E b \in BOOLEAN : AttemptResolves(b))

Spec == Init /\ [][Next]_vars /\ Fairness

-----------------------------------------------------------------------------
(* Safety. *)

\* The members keep their types and no action leaves the modelled transport
\* states.
TypeOK == cs \in ConnectionStates /\ link \in Links /\ misled \in BOOLEAN

\* A reconnect loop is never stranded: either its timer is armed, or an
\* attempt is awaited whose failure re-arms it.  This is what keeps a shown
\* "Reconnecting" from being permanent across every interleaving of manual
\* connects, heartbeats, ticks and late reports.
LoopHasNextEvent ==
  cs.reconnecting => cs.rearm # 0 \/ (cs.awaiting /\ cs.async /\ cs.autoRetry)

\* The reconnect timer never fires outside a loop, and inside one it was
\* armed with the delay of the current failure count.
ArmedAtCurrentRung ==
  cs.rearm # 0 => cs.reconnecting /\ cs.rearm = reconnectDelayMs(cs.failures)

\* While connected with a positive interval the heartbeat runs, whichever
\* path established the connection or changed the interval: without it a lost
\* peer would be shown as connected for ever.
LossIsMonitored == cs.connected /\ cs.probing => cs.heartbeat

\* A confirmed connection and a reconnect loop exclude each other: a loop
\* left running would tear the connection down at its next tick.
ConnectedEndsLoop == cs.connected => ~cs.reconnecting

\* The object awaits a result exactly while an attempt is running, so every
\* attempt's outcome is taken and no state waits for a report nobody sends; an
\* attempt whose result was taken from a late report of another is the exception.
AttemptIsAwaited ==
  /\ cs.awaiting => link = "trying"
  /\ link = "trying" => cs.awaiting \/ misled

\* A transport that is up behind an object that says "disconnected" has a
\* reconnect tick coming, which tears it down before it tries again; unless a late
\* report has told the object that this attempt failed.
NoOrphanLink == link = "up" => cs.connected \/ cs.rearm # 0 \/ misled

(* Actions. *)

\* Inside one loop the failure count only climbs, unless the client restarts
\* the loop or a heartbeat left over from the old connection does.
LadderClimbs ==
  [][LoopStep /\ cs.reconnecting /\ cs'.reconnecting =>
       cs'.failures \in {cs.failures, cs.failures + 1}]_vars

\* A loop the client does not interrupt ends in a connection and in nothing
\* else: no timer, report or link event abandons it.
LoopIsNotAbandoned ==
  [][BackgroundStep /\ cs.reconnecting /\ ~cs'.reconnecting
       => cs'.connected]_vars

(* Liveness. *)

\* Once the client leaves the object alone, every reconnect loop ends (by
\* LoopIsNotAbandoned, in a connection): no interleaving of ticks, attempts and
\* stray reports starves it.
LoopEnds ==
  <>[][BackgroundStep]_vars => []<>~(cs.reconnecting /\ cs.handlers)

\* Once the client leaves the object alone, a dead transport behind a
\* monitored "connected" is noticed: the probe runs and the loop starts.
LossIsNoticed ==
  <>[][BackgroundStep]_vars =>
    []<>~(cs.connected /\ cs.probing /\ link = "down")

-----------------------------------------------------------------------------
(* What the repository says of manual attempts. *)

\* connection_state.h on disconnectNow(): "The only thing that ends a
\* reconnect loop.  A failed manual attempt does not."
FailedManualAttemptKeepsLoop ==
  [][ClientConnectNow(FALSE) /\ cs.reconnecting => cs'.reconnecting]_vars

\* core_selftest: "async connectNow failure does not start automatic
\* retries": a loop starts from a lost connection or an automatic attempt.
ManualFailureStartsNoRetry ==
  [][BackgroundStep /\ cs.async /\ ~cs.reconnecting /\ cs'.reconnecting
       => cs.connected \/ (cs.awaiting /\ cs.autoRetry)]_vars

=============================================================================
