--------------------------- MODULE ModbusConnection ---------------------------
(***************************************************************************)
(* The Modbus TCP driver (features/modbus/modbus_connection.cpp) composed  *)
(* with its ConnectionState object, the QTcpSocket under it (external) and *)
(* a device that answers in order, in pieces, late, or not at all.         *)
(*                                                                         *)
(* A frame travels as two pieces, since TCP may split it.  A reply carries *)
(* the transaction id of the request it answers; the driver sends ids and  *)
(* never compares them, so the id of the outstanding request is a history  *)
(* variable here (asked), and so is the last answer delivered (answer).    *)
(***************************************************************************)
EXTENDS ConnectionStateCore, FiniteSets

CONSTANTS
  Functions,        \* the PendingRequest kinds in use
  Hosts,
  MaxRequests,      \* bound: requests sent in one behaviour
  MaxFailures,      \* bound: failed attempts in a row, as in ConnectionState
  LateReplies       \* TRUE: a device may answer after the request timed out

ASSUME ModbusAssumption ==
  /\ Functions # {} /\ Hosts # {} /\ "None" \notin Functions
  /\ MaxRequests \in Nat /\ MaxFailures \in Nat
  /\ LateReplies \in BOOLEAN

VARIABLES
  cs,        \* state_
  socket,    \* [state, host] of the QTcpSocket
  wanted,    \* the host captured by the installed handlers
  pending,   \* pendingRequest_
  timer,     \* requestTimer_ is running
  buffer,    \* readBuffer_, a sequence of pieces
  nextId,    \* nextTransactionId_
  device,    \* requests the device has not answered
  inbound,   \* pieces on their way to the socket
  asked,     \* history: transaction id of the last request
  answer     \* history: what the last signal said, and to which request

driver == <<pending, timer, buffer>>
net    == <<device, inbound>>
ghost  == <<asked, answer>>
vars   == <<cs, socket, wanted, driver, nextId, net, ghost>>

NoAnswer == [to |-> 0, reply |-> 0]

Init ==
  /\ cs = FreshConnectionState
  /\ socket \in [state : {"idle"}, host : Hosts]
  /\ wanted = socket.host
  /\ pending = "None" /\ timer = FALSE /\ buffer = <<>>
  /\ nextId = 1
  /\ device = <<>> /\ inbound = <<>>
  /\ asked = 0 /\ answer = NoAnswer

Request(fn, id) == [fn |-> fn, id |-> id]

Piece(fn, id, part) == [fn |-> fn, id |-> id, part |-> part]

\* Mutant: a lost connection leaves its request pending.
BadSetState(c) == cs' = c /\ UNCHANGED <<buffer, pending>>

\* A new value of state_; connectionStateChanged(false) clears the exchange
\* (and leaves requestTimer_ running).
SetState(c) ==
  /\ cs' = c
  /\ IF cs.connected /\ ~c.connected
     THEN buffer' = <<>> /\ pending' = "None"
     ELSE UNCHANGED <<buffer, pending>>

\* The socket is gone: nothing the peer sent or was sent is left.
Hangup == socket' = [socket EXCEPT !.state = "idle"] /\ device' = <<>> /\ inbound' = <<>>

MayFail == cs.failures < MaxFailures

-----------------------------------------------------------------------------
(* connectToHost() and disconnectNow(), behind one button. *)

\* QTcpSocket::connectToHost() on a socket that is not idle only emits an error,
\* which state_ ignores: the attempt already running goes on (external).
Dial(h) ==
  IF socket.state = "idle" THEN [state |-> "connecting", host |-> h] ELSE socket

ConnectToHost(h) ==
  /\ ~cs.connected
  /\ cs' = BeginAutoConnect(SetHandlers(cs, TRUE), TRUE)
  /\ socket' = Dial(h)
  /\ wanted' = h
  /\ buffer' = <<>> /\ pending' = "None" /\ timer' = FALSE
  /\ UNCHANGED <<nextId, net, ghost>>

ClickDisconnect ==
  /\ cs.connected
  /\ cs' = DisconnectNow(cs)
  /\ Hangup
  /\ buffer' = <<>> /\ pending' = "None" /\ timer' = FALSE
  /\ UNCHANGED <<wanted, nextId, ghost>>

-----------------------------------------------------------------------------
(* Timers of the state object, and the socket's signals. *)

\* Mutant: the probe asks whether the socket object is still dialing.
BadHeartbeatTick ==
  /\ cs.heartbeat
  /\ SetState(OnHeartbeatTick(cs, socket.state # "connecting"))
  /\ UNCHANGED <<socket, wanted, timer, nextId, net, ghost>>

HeartbeatTick ==
  /\ cs.heartbeat
  /\ SetState(OnHeartbeatTick(cs, socket.state = "connected"))
  /\ UNCHANGED <<socket, wanted, timer, nextId, net, ghost>>

\* abort(), then a new attempt at the host of the installed handlers.
ReconnectTick ==
  /\ cs.rearm # 0
  /\ SetState(OnReconnectTick(cs, TRUE))
  /\ socket' = [state |-> "connecting", host |-> wanted]
  /\ device' = <<>> /\ inbound' = <<>>
  /\ UNCHANGED <<wanted, timer, nextId, ghost>>

\* Mutant: the result is only told to a loop that is running.
BadSocketConnected ==
  /\ socket.state = "connecting"
  /\ socket' = [socket EXCEPT !.state = "connected"]
  /\ SetState(IF cs.reconnecting THEN ReportPendingConnectResult(cs, TRUE) ELSE cs)
  /\ UNCHANGED <<wanted, timer, nextId, net, ghost>>

SocketConnected ==
  /\ socket.state = "connecting"
  /\ socket' = [socket EXCEPT !.state = "connected"]
  /\ SetState(ReportPendingConnectResult(cs, TRUE))
  /\ UNCHANGED <<wanted, timer, nextId, net, ghost>>

\* Any socket error is reported; state_ takes it only for an awaited attempt.
SocketError ==
  /\ socket.state # "idle"
  /\ socket.state = "connecting" => MayFail
  /\ Hangup
  /\ SetState(ReportPendingConnectResult(cs, FALSE))
  /\ UNCHANGED <<wanted, timer, nextId, ghost>>

-----------------------------------------------------------------------------
(* Requests. *)

\* Mutant: a second request does not wait for the first.
BadSendRequest(fn) ==
  /\ cs.connected
  /\ nextId <= MaxRequests
  /\ pending' = fn
  /\ timer' = TRUE
  /\ asked' = nextId
  /\ nextId' = (nextId + 1) % 65536
  /\ device' = IF socket.state = "connected"
               THEN Append(device, Request(fn, nextId)) ELSE device
  /\ UNCHANGED <<cs, socket, wanted, buffer, inbound, answer>>

\* The eight request methods differ in the PDU alone.  A write to a socket
\* that has died goes nowhere.
SendRequest(fn) ==
  /\ cs.connected /\ pending = "None"
  /\ nextId <= MaxRequests
  /\ pending' = fn
  /\ timer' = TRUE
  /\ asked' = nextId
  /\ nextId' = (nextId + 1) % 65536
  /\ device' = IF socket.state = "connected"
               THEN Append(device, Request(fn, nextId)) ELSE device
  /\ UNCHANGED <<cs, socket, wanted, buffer, inbound, answer>>

DeviceAnswers ==
  /\ device # <<>>
  /\ LET r == Head(device)
     IN  inbound' = inbound \o <<Piece(r.fn, r.id, "head"), Piece(r.fn, r.id, "tail")>>
  /\ device' = Tail(device)
  /\ UNCHANGED <<cs, socket, wanted, driver, nextId, ghost>>

DeviceStaysSilent ==
  /\ device # <<>>
  /\ device' = Tail(device)
  /\ UNCHANGED <<cs, socket, wanted, driver, nextId, inbound, ghost>>

-----------------------------------------------------------------------------
(* Replies. *)

\* The outcomes the decoder of fn may give for the bytes b.  Only the first
\* frame is looked at; an exception frame is accepted whatever its function, and
\* bytes that do not start a frame may look like anything.
Decoded(fn, b) ==
  IF b = <<>> \/ (Len(b) = 1 /\ b[1].part = "head") THEN {"Incomplete"}
  ELSE IF b[1].part = "tail" \/ b[2].part = "head"
       THEN {"Incomplete", "Malformed", "Ok", "Exception"}
  ELSE IF b[1].fn = fn THEN {"Ok", "Exception", "Malformed"}
  ELSE {"Exception", "Malformed"}

\* onSocketReadyRead() takes the n pieces that have arrived.  Once a frame is
\* decided the whole buffer goes; with nothing pending everything is dropped.
OnSocketReadyRead(n, outcome) ==
  LET b == buffer \o SubSeq(inbound, 1, n) IN
  /\ n \in 1 .. Len(inbound)
  /\ \/ /\ pending = "None" /\ outcome = "Dropped"
        /\ buffer' = <<>> /\ UNCHANGED <<pending, timer, answer>>
     \/ /\ pending # "None" /\ outcome \in Decoded(pending, b)
        /\ IF outcome = "Incomplete"
           THEN buffer' = b /\ UNCHANGED <<pending, timer, answer>>
           ELSE /\ buffer' = <<>> /\ pending' = "None" /\ timer' = FALSE
                /\ answer' = IF outcome = "Malformed" THEN answer
                             ELSE [to |-> asked, reply |-> b[1].id]
  /\ inbound' = SubSeq(inbound, n + 1, Len(inbound))
  /\ UNCHANGED <<cs, socket, wanted, nextId, device, asked>>

\* The reply to request id is still on its way.
OnItsWay(id) ==
  \/ \E i \in DOMAIN device : device[i].id = id
  \/ \E i \in DOMAIN inbound : inbound[i].id = id

OnRequestTimeout ==
  /\ timer
  /\ LateReplies \/ pending = "None" \/ ~OnItsWay(asked)
  /\ timer' = FALSE /\ pending' = "None" /\ buffer' = <<>>
  /\ UNCHANGED <<cs, socket, wanted, nextId, net, ghost>>

-----------------------------------------------------------------------------
Outcomes == {"Dropped", "Incomplete", "Malformed", "Ok", "Exception"}

ClickStep == ClickDisconnect \/ \E h \in Hosts : ConnectToHost(h)

LinkStep == HeartbeatTick \/ ReconnectTick \/ SocketConnected \/ SocketError

ExchangeStep ==
  \/ \E fn \in Functions : SendRequest(fn)
  \/ DeviceAnswers \/ DeviceStaysSilent
  \/ \E n \in 1 .. Len(inbound), o \in Outcomes : OnSocketReadyRead(n, o)
  \/ OnRequestTimeout

Next == ClickStep \/ LinkStep \/ ExchangeStep

\* Timers fire and a connect resolves.
Fairness ==
  /\ WF_vars(HeartbeatTick) /\ WF_vars(ReconnectTick)
  /\ WF_vars(SocketConnected \/ (socket.state = "connecting" /\ SocketError))
  /\ WF_vars(OnRequestTimeout)

Spec == Init /\ [][Next]_vars /\ Fairness

-----------------------------------------------------------------------------
\* nextTransactionId_ is 16 bits wide.
TransactionIds == 0 .. 65535

\* Every variable keeps its type.
TypeOK ==
  /\ cs \in ConnectionStates
  /\ socket \in [state : {"idle", "connecting", "connected"}, host : Hosts]
  /\ wanted \in Hosts
  /\ pending \in Functions \cup {"None"} /\ timer \in BOOLEAN
  /\ nextId \in TransactionIds

\* A request in flight always has its timeout running and never outlives the
\* connection it was sent on, whatever fragments, losses and reconnects happen
\* meanwhile: pendingRequest_ is the only thing that blocks the next request, so
\* one without a clock blocks all others, and one carried over to the next
\* connection takes that one's first reply.
PendingIsTimed == pending # "None" => timer /\ cs.connected

\* The driver's attempts and its state object stay together: a dialing socket
\* is awaited and an open one is shown as connected.
SocketIsTracked ==
  /\ socket.state = "connecting" <=> cs.awaiting
  /\ socket.state = "connected" => cs.connected

\* What is delivered as the answer to a request is the reply to that request,
\* across split frames, silent devices, losses and reconnects.
AnswerMatchesRequest == answer.to = answer.reply

\* A driver that says it is connected is connected to the host it was told.
\* Not so here: connectToHost() leaves an attempt at another host running and
\* takes its result for the new one's.
HostIsWanted == cs.connected => socket.host = wanted

\* Left alone, the driver comes to rest again and again, although handlers,
\* heartbeat and socket signals interleave: it neither dials for ever nor goes on
\* showing a socket that died as connected.
AtRest ==
  ~cs.awaiting /\ ~cs.reconnecting /\ ~(cs.connected /\ socket.state = "idle")

ComesToRest == <>[][LinkStep \/ ExchangeStep]_vars => []<>AtRest

=============================================================================
