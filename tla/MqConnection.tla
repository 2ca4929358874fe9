----------------------------- MODULE MqConnection -----------------------------
(***************************************************************************)
(* The AMQP driver (features/mq/mq_connection.cpp, mq_buffer.cpp) composed *)
(* with its ConnectionState object, the QTcpSocket and the AMQP-CPP        *)
(* connection object under it, and a broker (these three are external).    *)
(*                                                                         *)
(* The broker logs a client in with two frames: tune, then openOk.  Control*)
(* frames arrive in one piece, a delivery in BigFrame pieces.  A piece is  *)
(* old once the TCP connection that carried it is gone: inputBuffer_ is    *)
(* emptied by connectToHost(), which the application calls once, and not   *)
(* by the retries of the reconnect loop.                                   *)
(***************************************************************************)
EXTENDS ConnectionStateCore, FiniteSets

CONSTANTS
  BigFrame,     \* pieces of a delivery
  MaxFaults,    \* bound: refusals, drops and closes the broker is to blame for
  SilentBroker  \* TRUE: a broker that falls silent may never hang up either

ASSUME MqConnectionAssumption ==
  /\ BigFrame \in Nat \ {0, 1} /\ MaxFaults \in Nat /\ SilentBroker \in BOOLEAN

VARIABLES
  cs,       \* state_
  socket,   \* "idle", "connecting" or "connected"
  pending,  \* connectAttemptPending_
  amqp,     \* connection_: "none", "shaking", "tuned", "ready" or "broken"
  beat,     \* heartbeatTimer_ is running
  buffer,   \* inputBuffer_, a sequence of pieces
  inbound,  \* pieces on their way to the socket
  broker,   \* what the broker does next on this TCP connection
  faults,
  keeps     \* whether AMQP::Connection::parse() leaves what it cannot parse

driver == <<cs, pending, amqp, beat>>
vars   == <<socket, driver, buffer, inbound, broker, faults, keeps>>

Piece(kind, no) == [kind |-> kind, no |-> no, old |-> FALSE]

\* Bytes that no parser will ever make sense of: what follows them is lost too.
Garbage == [kind |-> "garbage", no |-> 1, old |-> TRUE]

FrameSize(kind) == IF kind = "data" THEN BigFrame ELSE 1

\* The object is constructed, and the application connects it at once.
Init ==
  /\ cs = BeginAutoConnect(SetHandlers(FreshConnectionState, TRUE), TRUE)
  /\ socket = "connecting" /\ pending = TRUE
  /\ amqp = "none" /\ beat = FALSE
  /\ buffer = <<>> /\ inbound = <<>>
  /\ broker = "off" /\ faults = 0
  /\ keeps \in BOOLEAN

Blame == faults < MaxFaults /\ faults' = faults + 1

\* Only reconnectDelayMs() reads the count, and of the delay only that there is one
\* matters here, not how long it is: the count is cut at 4, short of the ladder's
\* longest rungs.
Saturate(c) == [c EXCEPT !.failures = IF @ > 4 THEN 4 ELSE @]

Report(c, succeeded) == Saturate(ReportPendingConnectResult(c, succeeded))

\* The members the AMQP callbacks touch, and what they make the broker do.
Members == [cs |-> cs, pending |-> pending, amqp |-> amqp, beat |-> beat, broker |-> broker]

SetMembers(d) ==
  /\ cs' = d.cs /\ pending' = d.pending /\ amqp' = d.amqp /\ beat' = d.beat
  /\ broker' = d.broker

\* Mutant: a failure is only told to the state object once the login is through.
BadFailPending(d) ==
  [d EXCEPT !.pending = FALSE, !.beat = FALSE]

\* The common part of the socket's error slot and of onError().
FailPending(d) ==
  [d EXCEPT !.pending = FALSE, !.beat = FALSE,
            !.cs = IF d.pending THEN Report(@, FALSE) ELSE @]

\* The link is gone; what was read from it stays in inputBuffer_.
Hangup ==
  /\ inbound' = <<>>
  /\ buffer' = [i \in DOMAIN buffer |-> [buffer[i] EXCEPT !.old = TRUE]]

-----------------------------------------------------------------------------
(* Timers of the state object, and the socket's signals. *)

HeartbeatTick ==
  /\ cs.heartbeat
  /\ cs' = OnHeartbeatTick(cs, socket = "connected")
  /\ UNCHANGED <<socket, pending, amqp, beat, buffer, inbound, broker, faults, keeps>>

\* The DisconnectFn, then the ConnectFn: neither inputBuffer_ nor connection_
\* nor heartbeatTimer_ is touched.
ReconnectTick ==
  /\ cs.rearm # 0
  /\ cs' = OnReconnectTick(cs, TRUE)
  /\ pending' = TRUE
  /\ socket' = "connecting" /\ Hangup /\ broker' = "off"
  /\ UNCHANGED <<amqp, beat, faults, keeps>>

\* Mutant: the open socket is reported as a connection, as Modbus does.
BadSocketConnected ==
  /\ socket = "connecting"
  /\ socket' = "connected" /\ amqp' = "shaking" /\ broker' = "greet"
  /\ pending' = FALSE /\ cs' = Report(cs, TRUE)
  /\ UNCHANGED <<beat, buffer, inbound, faults, keeps>>

\* A new AMQP object says hello; nothing is reported yet.
SocketConnected ==
  /\ socket = "connecting"
  /\ socket' = "connected" /\ amqp' = "shaking" /\ broker' = "greet"
  /\ UNCHANGED <<cs, pending, beat, buffer, inbound, faults, keeps>>

SocketError ==
  /\ socket # "idle"
  /\ socket' = "idle" /\ Hangup
  /\ SetMembers([FailPending(Members) EXCEPT !.broker = "off"])

-----------------------------------------------------------------------------
(* readSocket(): MqBuffer::feed() around AMQP::Connection::parse(). *)

\* What parse() finds at the head of the buffer (external).
Head1(b) ==
  LET size == FrameSize(b[1].kind) IN
  IF b = <<>> THEN "Nothing"
  ELSE IF b[1] = Garbage \/ b[1].no # 1 THEN "Malformed"
  ELSE IF Len(b) < size THEN "Incomplete"
  ELSE IF \E i \in 1 .. size : b[i] # [b[1] EXCEPT !.no = i] THEN "Malformed"
  ELSE "Complete"

\* onNegotiate(), onReady(), onError() and, for a delivery, no callback.  A
\* client that answers a frame of an older connection is out of turn.
Handle(d, frame) ==
  CASE frame.kind \in {"tune", "tuneNoBeat"} ->
         [d EXCEPT !.amqp = "tuned", !.beat = (frame.kind = "tune"),
                   !.broker = IF frame.old THEN "offended"
                              ELSE IF @ = "await" THEN "open" ELSE @]
    [] frame.kind = "openOk" ->
         [d EXCEPT !.amqp = "ready", !.pending = FALSE, !.cs = Report(@, TRUE)]
    [] frame.kind = "close" ->
         [FailPending(d) EXCEPT !.amqp = "broken",
                   !.broker = IF frame.old THEN "offended" ELSE "closed"]
    [] frame.kind = "data" -> d

\* One turn of the loop in feed(): r is the buffer and the members so far.
FeedTurn(r) ==
  LET b == r.buffer
      size == FrameSize(b[1].kind)
  IN
  IF r.d.amqp \in {"none", "broken"} THEN r
  ELSE CASE Head1(b) = "Complete" ->
              [buffer |-> SubSeq(b, size + 1, Len(b)), d |-> Handle(r.d, b[1])]
         [] Head1(b) = "Malformed" ->
              [buffer |-> IF keeps THEN <<Garbage>> ELSE <<>>,
               d |-> [FailPending(r.d) EXCEPT !.amqp = "broken"]]
         [] OTHER -> r

\* What follows garbage makes no difference.
AppendTo(b, chunk) == IF b # <<>> /\ b[1] = Garbage THEN b ELSE b \o chunk

\* What n turns make of r.
FeedTurns(r, n) ==
  LET turned[i \in 0 .. n] == IF i = 0 THEN r ELSE FeedTurn(turned[i - 1])
  IN  turned[n]

\* Mutant: what is left of an incomplete frame is thrown away.
BadFeed(b) == [FeedTurns([buffer |-> b, d |-> Members], Len(b)) EXCEPT !.buffer = <<>>]

\* The loop ends when parse() takes no more.  Every turn that takes something makes
\* the buffer shorter or is the last, so as many turns as there are pieces do.
Feed(b) == FeedTurns([buffer |-> b, d |-> Members], Len(b))

ReadSocket ==
  /\ inbound # <<>>
  /\ inbound' = Tail(inbound)
  /\ LET r == Feed(AppendTo(buffer, <<Head(inbound)>>)) IN
       buffer' = r.buffer /\ SetMembers(r.d)
  /\ UNCHANGED <<socket, faults, keeps>>

-----------------------------------------------------------------------------
(* The broker (external). *)

Frame(kind) == [i \in 1 .. FrameSize(kind) |-> Piece(kind, i)]

BrokerSends(kind, next) ==
  /\ inbound' = inbound \o Frame(kind)
  /\ broker' = next
  /\ UNCHANGED <<socket, driver, buffer, keeps>>

\* A greeted client is awaited, an open one is told, a logged-in one gets mail.
BrokerLogsIn ==
  /\ UNCHANGED faults
  /\ \/ broker = "greet" /\ (BrokerSends("tune", "await") \/ BrokerSends("tuneNoBeat", "await"))
     \/ broker = "open" /\ BrokerSends("openOk", "up")

BrokerDelivers ==
  /\ broker = "up" /\ inbound = <<>>
  /\ BrokerSends("data", "up") /\ UNCHANGED faults

BrokerCloses ==
  /\ broker \in {"greet", "await", "open", "up"}
  /\ Blame /\ BrokerSends("close", "mute")

BrokerFallsSilent ==
  /\ broker \in {"greet", "open"}
  /\ Blame
  /\ broker' = "mute"
  /\ UNCHANGED <<socket, driver, buffer, inbound, keeps>>

\* A client that was closed, is out of turn, or has not answered in time.
BrokerHangsUp ==
  /\ broker \in {"closed", "offended", "mute"} \/ (broker = "await" /\ inbound = <<>>)
  /\ SocketError
  /\ UNCHANGED <<faults, keeps>>

LinkFails == Blame /\ SocketError /\ UNCHANGED keeps

BrokerStep == BrokerLogsIn \/ BrokerDelivers \/ BrokerCloses \/ BrokerFallsSilent

-----------------------------------------------------------------------------
Next ==
  \/ HeartbeatTick \/ ReconnectTick \/ SocketConnected \/ ReadSocket
  \/ BrokerStep \/ BrokerHangsUp \/ LinkFails

\* Timers fire, a connect resolves, what has arrived is read; a broker goes on
\* with a login it has begun and drops a client it has no use for.
Fairness ==
  /\ WF_vars(HeartbeatTick) /\ WF_vars(ReconnectTick) /\ WF_vars(SocketConnected)
  /\ WF_vars(ReadSocket) /\ WF_vars(BrokerLogsIn)
  /\ SilentBroker \/ WF_vars(BrokerHangsUp)

Spec == Init /\ [][Next]_vars /\ Fairness

-----------------------------------------------------------------------------
\* The two records of an attempt agree: whatever state_ awaits, a callback will
\* still report, and a dialing or shaking socket is an attempt state_ awaits.
AttemptIsAwaited ==
  /\ cs.awaiting => pending /\ socket # "idle"
  /\ pending => cs.awaiting

\* connectionStateChanged(true) is the cue for MqService to open its channel: an
\* open socket is shown as connected only after the broker finished the login on
\* that very TCP connection.  And heartbeat frames go out only on a connection that
\* has negotiated them: one sent into the next handshake would end it.
ConnectedMeansLoggedIn ==
  /\ cs.connected /\ socket = "connected" => amqp \in {"ready", "broken"}
  /\ beat => socket = "connected" /\ amqp \in {"tuned", "ready"}

\* Part of a frame of a lost connection heads the input of the present one.
Poisoned == buffer # <<>> /\ buffer[1].old

\* When the faults are over the driver is logged in again and again, whatever
\* point of the login or of a delivery they struck.  The one exception: a lost
\* connection has left the beginning of a frame in inputBuffer_, and the parser
\* keeps what it cannot parse; no later login then gets past it.
ReturnsUnlessPoisoned ==
  []<>(cs.connected /\ amqp = "ready") \/ (keeps /\ []<>Poisoned)

=============================================================================
