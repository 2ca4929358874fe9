------------------------- MODULE ConnectionStateCore -------------------------
(***************************************************************************)
(* The transitions of one ConnectionState object                           *)
(* (src/core/connection_state.cpp), as operators from the object's private *)
(* members, gathered in a record s, to their new values.  Every driver     *)
(* (Modbus, C3, MQ) owns one such object and calls it from its own slots,  *)
(* so the operators are kept apart from any VARIABLE: a driver's handler   *)
(* chains them inside one action, exactly as the C++ calls nest.           *)
(*                                                                         *)
(* The two QTimers are modelled by what is pending: "heartbeat" says that  *)
(* the heartbeat timer runs; "rearm" is the delay the single-shot          *)
(* reconnect timer was started with, 0 when it is stopped or has fired.    *)
(* Of the heartbeat interval only its sign matters ("probing").  The three *)
(* handlers are always installed together ("handlers").  The two signals   *)
(* are emitted on a change of "connected" and of "reconnecting".           *)
(***************************************************************************)
EXTENDS Integers, Sequences

kReconnectDelaysMs == <<5000, 5000, 5000, 15000, 15000, 30000, 60000>>

kReconnectDelayCount == 7

\* Mutant: a delay that grows with every failure instead of a held ladder.
BadReconnectDelayMs(n) == IF n < 1 THEN 5000 ELSE 5000 * n

reconnectDelayMs(consecutiveFailures) ==
  IF consecutiveFailures < 0 THEN kReconnectDelaysMs[1]
  ELSE IF consecutiveFailures >= kReconnectDelayCount
       THEN kReconnectDelaysMs[kReconnectDelayCount]
       ELSE kReconnectDelaysMs[consecutiveFailures + 1]

Delays == {5000, 15000, 30000, 60000}

ConnectionStates ==
  [connected : BOOLEAN, reconnecting : BOOLEAN, handlers : BOOLEAN,
   async : BOOLEAN, awaiting : BOOLEAN, autoRetry : BOOLEAN,
   failures : Nat, probing : BOOLEAN, heartbeat : BOOLEAN,
   rearm : Delays \cup {0}]

\* The default member values: the heartbeat interval is 5000 ms, so probing.
FreshConnectionState ==
  [connected |-> FALSE, reconnecting |-> FALSE, handlers |-> FALSE,
   async |-> FALSE, awaiting |-> FALSE, autoRetry |-> FALSE,
   failures |-> 0, probing |-> TRUE, heartbeat |-> FALSE, rearm |-> 0]

-----------------------------------------------------------------------------
(* The private helpers. *)

SetConnected(s, b) == [s EXCEPT !.connected = b]

\* Every "if (m_heartbeatIntervalMs > 0) m_heartbeatTimer.start(...)".
StartHeartbeat(s) == [s EXCEPT !.heartbeat = @ \/ s.probing]

StartReconnecting(s) ==
  [s EXCEPT !.reconnecting = TRUE, !.failures = 0,
            !.rearm = reconnectDelayMs(0)]

\* Mutant: the loop is declared over while its timer stays armed.
BadStopReconnecting(s) == [s EXCEPT !.reconnecting = FALSE, !.failures = 0]

StopReconnecting(s) ==
  [s EXCEPT !.reconnecting = FALSE, !.failures = 0, !.rearm = 0]

\* "++m_reconnectFailures; m_reconnectTimer.start(reconnectDelayMs(...))".
NextRung(s) ==
  [s EXCEPT !.failures = @ + 1, !.rearm = reconnectDelayMs(s.failures + 1)]

\* A connection that has just been confirmed from inside the loop.
Established(s) == StartHeartbeat(SetConnected(StopReconnecting(s), TRUE))

-----------------------------------------------------------------------------
(* The public interface and the two timer slots.  "started" is what the    *)
(* driver's ConnectFn returned, "alive" what its ProbeFn returned.         *)

SetHandlers(s, async) ==
  [s EXCEPT !.handlers = TRUE, !.async = async,
            !.awaiting = FALSE, !.autoRetry = FALSE]

\* The outcome of the ConnectFn of connectNow() and of beginAutoConnect().
Launch(s, started, auto) ==
  IF s.async
  THEN LET t == [s EXCEPT !.awaiting = started, !.autoRetry = auto]
       IN  IF started THEN t ELSE SetConnected(t, FALSE)
  ELSE LET t == SetConnected(s, started)
       IN  IF started THEN StartHeartbeat(t) ELSE t

ConnectNow(s, started) ==
  IF s.handlers THEN Launch(StopReconnecting(s), started, FALSE)
                ELSE StopReconnecting(s)

BeginAutoConnect(s, started) ==
  LET t == IF s.handlers THEN Launch(StopReconnecting(s), started, TRUE)
                         ELSE StopReconnecting(s)
  IN  IF s.handlers /\ started THEN t ELSE StartReconnecting(t)

\* Mutant: a pending attempt is still awaited after the user gave up.
BadDisconnectNow(s) ==
  SetConnected([StopReconnecting(s) EXCEPT !.heartbeat = FALSE], FALSE)

DisconnectNow(s) ==
  SetConnected([StopReconnecting(s) EXCEPT !.heartbeat = FALSE,
                  !.awaiting = FALSE, !.autoRetry = FALSE], FALSE)

\* Mutant: an interval set on a live connection only applies to the next one.
BadSetHeartbeatIntervalMs(s, positive) ==
  [s EXCEPT !.probing = positive, !.heartbeat = positive /\ s.heartbeat]

SetHeartbeatIntervalMs(s, positive) ==
  [s EXCEPT !.probing = positive,
            !.heartbeat = positive /\ (s.heartbeat \/ s.connected)]

\* Mutant: the lost connection is announced but no retry is armed.
BadOnHeartbeatTick(s, alive) ==
  IF alive THEN s
  ELSE [SetConnected([s EXCEPT !.heartbeat = FALSE], FALSE)
          EXCEPT !.reconnecting = TRUE, !.failures = 0]

OnHeartbeatTick(s, alive) ==
  IF alive THEN s
  ELSE StartReconnecting(SetConnected([s EXCEPT !.heartbeat = FALSE], FALSE))

\* Mutant: a retry that was launched asynchronously is not awaited.
BadOnReconnectTick(s, started) ==
  LET t == [s EXCEPT !.rearm = 0] IN
  IF t.handlers /\ started
  THEN IF t.async THEN [t EXCEPT !.autoRetry = TRUE] ELSE Established(t)
  ELSE NextRung(t)

\* Mutant: launching a retry is taken for its success.
BadLaunchEndsLoop(s, started) ==
  LET t == [s EXCEPT !.rearm = 0, !.awaiting = started, !.autoRetry = TRUE] IN
  IF ~(s.handlers /\ started) THEN NextRung(t)
  ELSE IF s.async THEN StopReconnecting(t) ELSE Established(t)

OnReconnectTick(s, started) ==
  LET t == IF s.handlers /\ s.async
           THEN [s EXCEPT !.rearm = 0, !.awaiting = started, !.autoRetry = TRUE]
           ELSE [s EXCEPT !.rearm = 0]
  IN  IF ~(s.handlers /\ started) THEN NextRung(t)
      ELSE IF s.async THEN t
      ELSE Established(t)

\* Mutant: a failure reported inside a loop starts the ladder again.
BadReportRestartsLadder(s, succeeded) ==
  LET t == [s EXCEPT !.awaiting = FALSE] IN
  IF ~(s.async /\ s.awaiting) THEN s
  ELSE IF succeeded THEN Established(t)
  ELSE IF ~s.autoRetry THEN SetConnected(t, FALSE)
  ELSE StartReconnecting(SetConnected(t, FALSE))

ReportPendingConnectResult(s, succeeded) ==
  LET t == [s EXCEPT !.awaiting = FALSE] IN
  IF ~(s.async /\ s.awaiting) THEN s
  ELSE IF succeeded THEN Established(t)
  ELSE IF ~s.autoRetry THEN SetConnected(t, FALSE)
  ELSE IF s.reconnecting THEN NextRung(SetConnected(t, FALSE))
  ELSE StartReconnecting(SetConnected(t, FALSE))

=============================================================================
