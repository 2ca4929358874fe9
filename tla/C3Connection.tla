----------------------------- MODULE C3Connection -----------------------------
(***************************************************************************)
(* The C3/InBio access panel driver (features/c3protocol/c3_connection.cpp)*)
(* composed with its ConnectionState object, the QTcpSocket under it       *)
(* (external) and a panel that answers in order, in pieces, or not at all. *)
(*                                                                         *)
(* The connection is ready after a handshake: CONNECT_SESSION, or, when the*)
(* panel rejects that, CONNECT_SESSION_LESS.  Then six kinds of query may  *)
(* be outstanding together, each with its own pending flag and timer but   *)
(* all with one read buffer; a reply names no request, and the first kind  *)
(* in the order of Kinds that is pending takes it.                         *)
(*                                                                         *)
(* A frame is its step (which command it answers) and whether the panel    *)
(* said OK.  It travels as two pieces, since TCP may split it.             *)
(***************************************************************************)
EXTENDS ConnectionStateCore, FiniteSets

CONSTANTS
  InUse,         \* the kinds of query the application makes
  PanelModes,    \* which of its two logs the panel may keep
  MaxRequests,   \* bound: queries started
  MaxChunks,     \* bound: chunks of a big-data transfer
  MaxFailures,   \* bound: failed attempts in a row, as in ConnectionState
  Impatient,     \* TRUE: Connect may be clicked before the socket is idle again
  Overtaken      \* the waits whose timeout may fire while the reply is on its way

\* The order in which onSocketReadyRead() offers a reply.
Kinds == <<"data", "rtLog", "control", "getParam", "setParam", "count">>
KindSet == {"data", "rtLog", "control", "getParam", "setParam", "count"}

ASSUME C3Assumption ==
  /\ InUse \subseteq KindSet /\ PanelModes \subseteq {"binary", "keyValue"}
  /\ MaxRequests \in Nat /\ MaxChunks \in Nat \ {0} /\ MaxFailures \in Nat
  /\ Impatient \in BOOLEAN /\ Overtaken \subseteq KindSet \cup {"handshake"}

HandshakeSteps == {"session", "sessionLess"}
QuerySteps == {"config", "rows", "chunk", "free", "count", "binary", "keyValue",
               "control", "getParam", "setParam"}

VARIABLES
  cs,        \* state_
  socket,    \* "idle", "connecting" or "connected"
  attempt,   \* connectAttemptPending_
  step,      \* handshakeStep_, "None" or a member of HandshakeSteps
  hsTimer,   \* handshakeTimer_ is running
  session,   \* "id": sessionId_ # 0, "less": sessionLess_, "none": neither
  query,     \* what each kind waits for; "None" when its pending flag is clear
  timer,     \* which query timers run
  left,      \* chunks of the big-data transfer still to come
  rtlogMode, \* rtlogCommand_
  buffer,    \* readBuffer_, a sequence of pieces
  panelMode, \* which of its two logs the panel keeps
  panel,     \* requests the panel has not answered
  inbound,   \* pieces on their way; the first "unread" lie in the socket
  unread,
  started,   \* history: queries started so far
  current    \* history: the session was agreed on this TCP connection

shake == <<attempt, step, hsTimer>>
asks  == <<query, timer, left, rtlogMode>>
net   == <<panelMode, panel, inbound, unread>>
ghost == <<started, current>>
vars  == <<cs, socket, shake, session, asks, buffer, net, ghost>>

Frame(s, ok)   == [step |-> s, ok |-> ok]
Piece(f, part) == [frame |-> f, part |-> part]

Init ==
  /\ cs = FreshConnectionState
  /\ socket = "idle"
  /\ attempt = FALSE /\ step = "None" /\ hsTimer = FALSE
  /\ session = "none"
  /\ query = [k \in KindSet |-> "None"] /\ timer = [k \in KindSet |-> FALSE]
  /\ left = 0 /\ rtlogMode = "binary" /\ buffer = <<>>
  /\ panelMode \in PanelModes
  /\ panel = <<>> /\ inbound = <<>> /\ unread = 0
  /\ started = 0 /\ current = FALSE

isReady == session # "none" /\ socket = "connected"

MayFail == cs.failures < MaxFailures

\* The socket is gone, and with it whatever was on the wire.
Hangup ==
  /\ panel' = <<>> /\ inbound' = <<>> /\ unread' = 0
  /\ current' = FALSE
  /\ UNCHANGED <<panelMode, started>>

\* Mutant: a lost connection stops the query timers and forgets the flags.
BadClearQueries ==
  /\ timer' = [k \in KindSet |-> FALSE]
  /\ UNCHANGED <<query, left, rtlogMode>>

ClearQueries ==
  /\ query' = [k \in KindSet |-> "None"]
  /\ timer' = [k \in KindSet |-> FALSE]
  /\ UNCHANGED <<left, rtlogMode>>

\* The attempt, if there is one, has failed.
FailAttempt ==
  /\ attempt' = FALSE
  /\ step' = IF attempt THEN "None" ELSE step
  /\ cs' = IF attempt THEN ReportPendingConnectResult(cs, FALSE) ELSE cs

-----------------------------------------------------------------------------
(* connectToHost() and disconnectNow(), behind one button. *)

\* Only an idle socket dials.  Any other one emits an error from inside the
\* ConnectFn (external), and onSocketError() runs before the attempt is awaited.
ConnectToHost ==
  /\ ~isReady
  /\ Impatient \/ socket = "idle"
  /\ cs' = BeginAutoConnect(SetHandlers(cs, TRUE), TRUE)
  /\ buffer' = <<>>
  /\ IF socket = "idle"
     THEN /\ socket' = "connecting" /\ attempt' = TRUE
          /\ UNCHANGED <<step, hsTimer, asks>>
     ELSE /\ attempt' = FALSE /\ step' = "None" /\ hsTimer' = FALSE
          /\ ClearQueries
          /\ UNCHANGED socket
  /\ UNCHANGED <<session, net, ghost>>

\* connectAttemptPending_ and readBuffer_ are left as they are.
ClickDisconnect ==
  /\ isReady
  /\ session' = "none"
  /\ step' = "None" /\ hsTimer' = FALSE
  /\ ClearQueries
  /\ cs' = DisconnectNow(cs)
  /\ socket' = "idle" /\ Hangup
  /\ UNCHANGED <<attempt, buffer>>

-----------------------------------------------------------------------------
(* Timers of the state object, and the socket's signals. *)

Probe == isReady /\ ~attempt

HeartbeatTick ==
  /\ cs.heartbeat
  /\ cs' = OnHeartbeatTick(cs, Probe)
  /\ UNCHANGED <<socket, shake, session, asks, buffer, net, ghost>>

\* Mutant: the retry dials again without noting that an attempt is pending.
BadReconnectTick ==
  /\ cs.rearm # 0
  /\ cs' = OnReconnectTick(cs, TRUE)
  /\ socket' = "connecting" /\ Hangup
  /\ hsTimer' = FALSE /\ buffer' = <<>>
  /\ UNCHANGED <<attempt, step, session, asks>>

\* abort(), then the ConnectFn: neither the session nor the queries are reset.
ReconnectTick ==
  /\ cs.rearm # 0
  /\ cs' = OnReconnectTick(cs, TRUE)
  /\ socket' = "connecting" /\ Hangup
  /\ hsTimer' = FALSE /\ attempt' = TRUE /\ buffer' = <<>>
  /\ UNCHANGED <<step, session, asks>>

OnSocketConnected ==
  /\ socket = "connecting"
  /\ socket' = "connected"
  /\ step' = "session" /\ hsTimer' = TRUE /\ buffer' = <<>>
  /\ panel' = Append(panel, Frame("session", TRUE))
  /\ UNCHANGED <<cs, attempt, session, asks, panelMode, inbound, unread, ghost>>

\* Mutant: the driver reports a failed attempt only if the session was up.
BadOnSocketError ==
  /\ socket # "idle"
  /\ attempt => MayFail
  /\ socket' = "idle" /\ Hangup
  /\ hsTimer' = FALSE /\ attempt' = FALSE
  /\ ClearQueries
  /\ UNCHANGED <<cs, step, session, buffer>>

OnSocketError ==
  /\ socket # "idle"
  /\ attempt => MayFail
  /\ socket' = "idle" /\ Hangup
  /\ hsTimer' = FALSE
  /\ ClearQueries
  /\ FailAttempt
  /\ UNCHANGED <<session, buffer>>

\* The reply to a frame of one of these steps is coming.
OnItsWay(steps) ==
  \/ \E i \in DOMAIN panel : panel[i].step \in steps
  \/ \E i \in DOMAIN inbound : inbound[i].frame.step \in steps

\* At the bound an attempt times out only if its reply will never come.
OnHandshakeTimeout ==
  /\ hsTimer
  /\ ("handshake" \in Overtaken /\ (attempt => MayFail)) \/ ~OnItsWay(HandshakeSteps)
  /\ hsTimer' = FALSE
  /\ socket' = "idle" /\ Hangup
  /\ FailAttempt
  /\ UNCHANGED <<session, asks, buffer>>

-----------------------------------------------------------------------------
(* Queries. *)

FirstStep(k) ==
  CASE k \in {"data", "count"} -> "config"
    [] k = "rtLog" -> rtlogMode
    [] OTHER -> k

\* Writes the next frame of a query, and waits kHandshakeTimeoutMs for its reply.
Send(k, s) ==
  /\ panel' = IF socket = "connected" THEN Append(panel, Frame(s, TRUE)) ELSE panel
  /\ query' = [query EXCEPT ![k] = s]
  /\ timer' = [timer EXCEPT ![k] = TRUE]

\* requestTableData(), requestRealtimeLog(), sendControlRequest() and the other
\* three: each looks at its own flag only, and empties the common buffer.
Request(k) ==
  /\ isReady /\ query[k] = "None"
  /\ started < MaxRequests /\ started' = started + 1
  /\ buffer' = <<>>
  /\ Send(k, FirstStep(k))
  /\ UNCHANGED <<cs, socket, shake, session, left, rtlogMode, panelMode,
                 inbound, unread, current>>

OnQueryTimeout(k) ==
  /\ timer[k]
  /\ k \in Overtaken \/ ~OnItsWay({query[k]} \cup (IF query[k] = "rows" THEN {"prepare"} ELSE {}))
  /\ query' = [query EXCEPT ![k] = "None"]
  /\ timer' = [timer EXCEPT ![k] = FALSE]
  /\ UNCHANGED <<cs, socket, shake, session, left, rtlogMode, buffer, net, ghost>>

-----------------------------------------------------------------------------
(* The panel (external). *)

\* What the panel may say to a request; a large table is announced by PREPARE_DATA.
Replies(r) ==
  LET steps == IF r.step = "rows" THEN {"rows", "prepare"} ELSE {r.step}
  IN  {Frame(s, ok) : s \in steps, ok \in BOOLEAN}

PanelAnswers ==
  /\ panel # <<>>
  /\ \E f \in Replies(Head(panel)) :
       /\ f.step = "sessionLess" /\ ~f.ok => MayFail
       /\ inbound' = inbound \o <<Piece(f, "head"), Piece(f, "tail")>>
  /\ panel' = Tail(panel)
  /\ UNCHANGED <<cs, socket, shake, session, asks, buffer, panelMode, unread, ghost>>

PanelStaysSilent ==
  /\ panel # <<>>
  /\ Head(panel).step \in HandshakeSteps => MayFail
  /\ panel' = Tail(panel)
  /\ UNCHANGED <<cs, socket, shake, session, asks, buffer, panelMode, inbound,
                 unread, ghost>>

-----------------------------------------------------------------------------
(* onSocketReadyRead(). *)

\* What the codec makes of the first frame in b: only a frame's start, end,
\* checksum and command are verified, never whom it answers.
FirstFrame(b) ==
  IF b = <<>> \/ (Len(b) = 1 /\ b[1].part = "head") THEN {"Incomplete"}
  ELSE IF b[1].part = "tail" \/ b[2].part = "head" THEN {"Incomplete", "Malformed"}
  ELSE {"Complete"}

\* decodeGenericReply() takes every frame whose command is OK.
GenericOk(f) == f.ok /\ f.step # "prepare"

\* The outcomes of a complete frame f for a query waiting in step s.
Verdicts(s, f) ==
  IF s = "free" THEN {"Done", "Fail"}
  ELSE IF s \in {"control", "setParam"} THEN {IF GenericOk(f) THEN "Done" ELSE "Fail"}
  ELSE IF ~f.ok THEN {"Fail"}
  ELSE CASE s \in {"getParam", "keyValue"} -> {"Done"}
         [] s = "config" -> IF f.step = "config" THEN {"Next", "Fail"} ELSE {"Fail"}
         [] s = "rows" -> IF f.step = "prepare" THEN {"Next", "Fail"}
                          ELSE IF f.step = "rows" THEN {"Done", "Fail"} ELSE {"Fail"}
         [] s = "chunk" -> {"Next", "Fail"}
         [] s = "count" -> IF f.step = "count" THEN {"Done"} ELSE {"Done", "Fail"}
         [] s = "binary" -> IF f.step \in {"control", "setParam", "free"}
                                 \/ (f.step = "binary" /\ panelMode = "binary")
                            THEN {"Done"} ELSE {"Done", "NotBinary"}

\* The step that follows a reply that was understood.
NextStep(k) ==
  CASE query[k] = "config" -> IF k = "data" THEN "rows" ELSE "count"
    [] query[k] = "rows" -> "chunk"
    [] query[k] = "chunk" -> IF left > 1 THEN "chunk" ELSE "free"

\* The kind whose handler runs.
Taker == Kinds[CHOOSE i \in DOMAIN Kinds :
                 /\ query[Kinds[i]] # "None"
                 /\ \A j \in 1 .. i - 1 : query[Kinds[j]] = "None"]

Idle == \A k \in KindSet : query[k] = "None"

\* The n pieces that have just arrived, behind those nobody read.
Arrived(n) == SubSeq(inbound, 1, unread + n)

Consume(n) ==
  /\ inbound' = SubSeq(inbound, unread + n + 1, Len(inbound))
  /\ unread' = 0

\* Bytes nobody waits for stay in the socket.
ReadNothing(n) ==
  /\ ~attempt /\ Idle
  /\ unread' = unread + n
  /\ UNCHANGED <<cs, socket, shake, session, asks, buffer, panelMode, panel,
                 inbound, ghost>>

ReadIncomplete(n) ==
  LET b == buffer \o Arrived(n) IN
  /\ attempt \/ ~Idle
  /\ "Incomplete" \in FirstFrame(b)
  /\ buffer' = b /\ Consume(n)
  /\ UNCHANGED <<cs, socket, shake, session, asks, panelMode, panel, ghost>>

\* Mutant: falling back to a session-less connect leaves the old timer stopped.
BadRejected ==
  /\ step' = "sessionLess" /\ hsTimer' = FALSE
  /\ panel' = Append(panel, Frame("sessionLess", TRUE))
  /\ UNCHANGED <<cs, attempt, session, current>>

\* CONNECT_SESSION was rejected: try without a session, on a fresh timer.
Rejected ==
  /\ step' = "sessionLess" /\ hsTimer' = TRUE
  /\ panel' = Append(panel, Frame("sessionLess", TRUE))
  /\ UNCHANGED <<cs, attempt, session, current>>

\* Mutant: the open socket is reported before the panel has agreed to a session.
BadHandshakeDone(ok) ==
  /\ attempt' = FALSE /\ hsTimer' = FALSE
  /\ session' = IF ok THEN (IF step = "session" THEN "id" ELSE "less") ELSE session
  /\ cs' = ReportPendingConnectResult(cs, TRUE)
  /\ current' = (ok \/ current)
  /\ UNCHANGED <<step, panel>>

\* The handshake is decided.  A failed one leaves the socket open and
\* handshakeStep_ where it was.
HandshakeDone(ok) ==
  /\ attempt' = FALSE /\ hsTimer' = FALSE
  /\ session' = IF ok THEN (IF step = "session" THEN "id" ELSE "less") ELSE session
  /\ cs' = ReportPendingConnectResult(cs, ok)
  /\ current' = (ok \/ current)
  /\ UNCHANGED <<step, panel>>

ReadHandshake(n) ==
  LET b == buffer \o Arrived(n) IN
  /\ attempt
  /\ buffer' = <<>> /\ Consume(n)
  /\ \/ /\ "Malformed" \in FirstFrame(b)
        /\ HandshakeDone(FALSE)
     \/ /\ "Complete" \in FirstFrame(b)
        /\ IF step = "session" /\ ~b[1].frame.ok
           THEN Rejected ELSE HandshakeDone(GenericOk(b[1].frame))
  /\ UNCHANGED <<socket, asks, panelMode, started>>

\* A reply is decided for query k with verdict v.  The data handler goes on to
\* the handlers below it, which find the buffer empty and return.
Decide(k, v) ==
  \/ /\ v = "Next"
     /\ Send(k, NextStep(k))
     /\ left' \in IF query[k] = "rows" THEN 1 .. MaxChunks
                  ELSE IF query[k] = "chunk" THEN {left - 1} ELSE {left}
     /\ UNCHANGED rtlogMode
  \/ /\ v # "Next"
     /\ query' = [query EXCEPT ![k] = "None"]
     /\ timer' = [timer EXCEPT ![k] = FALSE]
     /\ rtlogMode' = IF v = "NotBinary" THEN "keyValue" ELSE rtlogMode
     /\ left' = 0
     /\ UNCHANGED panel

ReadQuery(n) ==
  LET b == buffer \o Arrived(n)
      k == Taker
  IN
  /\ ~attempt /\ ~Idle
  /\ buffer' = <<>> /\ Consume(n)
  /\ \/ /\ "Malformed" \in FirstFrame(b)
        /\ Decide(k, "Fail")
     \/ /\ "Complete" \in FirstFrame(b)
        /\ \E v \in Verdicts(query[k], b[1].frame) : Decide(k, v)
  /\ UNCHANGED <<cs, socket, shake, session, panelMode, ghost>>

OnSocketReadyRead ==
  \E n \in 1 .. Len(inbound) - unread :
    ReadNothing(n) \/ ReadIncomplete(n) \/ ReadHandshake(n) \/ ReadQuery(n)

-----------------------------------------------------------------------------
ClickStep == ConnectToHost \/ ClickDisconnect

LinkStep == HeartbeatTick \/ ReconnectTick \/ OnSocketConnected \/ OnSocketError
            \/ OnHandshakeTimeout

PanelStep == PanelAnswers \/ PanelStaysSilent

QueryStep == PanelStep \/ OnSocketReadyRead
             \/ (\E k \in InUse : Request(k)) \/ (\E k \in InUse : OnQueryTimeout(k))

Next == ClickStep \/ LinkStep \/ QueryStep

\* Timers fire, a connect resolves, what has arrived is read, and a panel that
\* will answer does so before the timeout (PanelStaysSilent: it never will).
Fairness ==
  /\ WF_vars(HeartbeatTick) /\ WF_vars(ReconnectTick) /\ WF_vars(OnHandshakeTimeout)
  /\ WF_vars(OnSocketConnected \/ (socket = "connecting" /\ OnSocketError))
  /\ WF_vars(OnSocketReadyRead) /\ WF_vars(PanelStep)
  /\ \A k \in InUse : WF_vars(OnQueryTimeout(k))

Spec == Init /\ [][Next]_vars /\ Fairness

-----------------------------------------------------------------------------
\* The types of the driver's members.
MemberTypes ==
  /\ cs \in ConnectionStates
  /\ socket \in {"idle", "connecting", "connected"}
  /\ attempt \in BOOLEAN /\ hsTimer \in BOOLEAN /\ current \in BOOLEAN
  /\ step \in HandshakeSteps \cup {"None"}
  /\ session \in {"none", "id", "less"}
  /\ query \in [KindSet -> QuerySteps \cup {"None"}]
  /\ timer \in [KindSet -> BOOLEAN]
  /\ started \in Nat
  /\ rtlogMode \in {"binary", "keyValue"} /\ panelMode \in {"binary", "keyValue"}

\* Every variable keeps its type.
TypeOK == MemberTypes /\ left \in 0 .. MaxChunks /\ unread \in 0 .. Len(inbound)

\* Whatever the driver waits for has its own clock running: each query in flight,
\* at whichever of its steps, and a session being agreed on an open socket, with or
\* without the session-less fallback.  The pending flag is all that keeps the next
\* query of its kind out, so one with no clock would shut that kind out until the
\* connection is lost.
WaitsAreTimed ==
  /\ \A k \in KindSet : query[k] # "None" => timer[k]
  /\ attempt /\ socket = "connected" => hsTimer /\ step # "None"

\* The two records of an attempt agree: whatever state_ awaits, the driver will
\* report, and an attempt on a live socket is one that state_ awaits.
AttemptIsAwaited ==
  /\ cs.awaiting => attempt
  /\ attempt /\ socket # "idle" => cs.awaiting

\* When state_ says connected over an open socket and no attempt is running, the
\* session was agreed on that very connection, not on one that was lost before.
SessionIsCurrent == cs.connected /\ socket = "connected" /\ ~attempt => current

\* isReady() is true only once the handshake of this connection has completed.
ReadyMeansSession == isReady => current

\* "The panel just told us which mode to use from now on": the driver changes to
\* the key/value log, which it never undoes, only when the panel keeps that log.
ModeIsPanels == rtlogMode = "keyValue" => panelMode = "keyValue"

\* Left alone, the driver neither waits for an attempt for ever nor stays in
\* the reconnect loop.
NeverStuckDialing ==
  <>[][LinkStep \/ QueryStep]_vars => []<>(~cs.awaiting /\ ~cs.reconnecting)

\* Every query ends, by its last reply, by a timeout, or with the connection.
QueryResolves == \A k \in InUse : query[k] # "None" ~> query[k] = "None"

=============================================================================
