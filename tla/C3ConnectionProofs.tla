-------------------------- MODULE C3ConnectionProofs --------------------------
(***************************************************************************)
(* The safety of the C3 driver for every set of query kinds, every number  *)
(* of requests and chunks and every run of failures.                       *)
(*                                                                         *)
(* Two invariants, the second resting on the first.  TimedInv holds for    *)
(* every caller and every panel: impatient clicks, overlapping queries and *)
(* replies that arrive after their timeout included.  LinkInv, which ties  *)
(* connectAttemptPending_ to state_, holds for a user who does not click   *)
(* Connect while the socket is busy.                                       *)
(***************************************************************************)
EXTENDS C3Connection, SharedFacts

\* Whatever the state object waits for comes from the driver's own handlers.
Configured ==
  cs.awaiting \/ cs.heartbeat \/ cs.rearm # 0 => Ready(cs)

TimedInv == MemberTypes /\ Configured /\ WaitsAreTimed

\* Only an attempt dials.
DialIsAttempt == socket = "connecting" => attempt

\* Nothing is on the wire of a socket that is not open.
WireNeedsSocket ==
  socket # "connected" => panel = <<>> /\ inbound = <<>> /\ unread = 0

\* The link a session was agreed on is open, and the state object is content.
CurrentIsUp ==
  current => /\ socket = "connected" /\ ~attempt /\ ~hsTimer /\ session # "none"
             /\ cs.connected /\ cs.rearm = 0

LinkInv ==
  /\ TimedInv /\ AttemptIsAwaited /\ SessionIsCurrent
  /\ DialIsAttempt /\ WireNeedsSocket /\ CurrentIsUp

-----------------------------------------------------------------------------
(* Every wait has its clock. *)

\* The handler of a reply that is to be followed by a request knows the request.
LEMMA NextStepIsStep ==
  ASSUME MemberTypes, NEW k \in KindSet, query[k] # "None", NEW f,
         "Next" \in Verdicts(query[k], f)
  PROVE  NextStep(k) \in QuerySteps
<1>. DEFINE s == query[k]
<1>1. s \in QuerySteps /\ "Next" \in Verdicts(s, f)
  BY DEF MemberTypes
<1>. HIDE DEF s
<1>2. s \in {"config", "rows", "chunk"}
  BY <1>1 DEF Verdicts, QuerySteps
<1>. QED
  BY <1>2 DEF s, NextStep, QuerySteps

\* The kind whose handler runs is one that waits.
LEMMA TakerWaits ==
  ASSUME ~Idle
  PROVE  Taker \in KindSet /\ query[Taker] # "None"
<1>. DEFINE First(i) == /\ query[Kinds[i]] # "None"
                         /\ \A j \in 1 .. i - 1 : query[Kinds[j]] = "None"
<1>1. \E i \in DOMAIN Kinds : First(i)
  BY DEF Idle, Kinds, KindSet
<1>2. Taker = Kinds[CHOOSE i \in DOMAIN Kinds : First(i)]
  BY DEF Taker
<1>. DEFINE c == CHOOSE i \in DOMAIN Kinds : First(i)
<1>3. c \in DOMAIN Kinds /\ First(c)
  BY <1>1
<1>. QED
  BY <1>2, <1>3 DEF Kinds, KindSet

\* No query and no timer.
LEMMA ClearedFacts ==
  /\ [k \in KindSet |-> "None"] \in [KindSet -> QuerySteps \cup {"None"}]
  /\ [k \in KindSet |-> FALSE] \in [KindSet -> BOOLEAN]
<1>1. [k \in KindSet |-> "None"] \in [KindSet -> QuerySteps \cup {"None"}]
  OBVIOUS
<1>2. [k \in KindSet |-> FALSE] \in [KindSet -> BOOLEAN]
  OBVIOUS
<1>. QED
  BY <1>1, <1>2

\* A driver that has just been constructed waits for nothing.
LEMMA InitEstablishesTimedInv == Init => TimedInv
<1>. SUFFICES ASSUME Init PROVE TimedInv
  OBVIOUS
<1>1. MemberTypes
  BY FreshFacts, ClearedFacts, C3Assumption DEF Init, MemberTypes
<1>2. Configured
  BY FreshFacts DEF Init, Configured
<1>3. WaitsAreTimed
  BY DEF Init, WaitsAreTimed
<1>. QED
  BY <1>1, <1>2, <1>3 DEF TimedInv

\* Sending a query's next frame starts its timer.
LEMMA SendIsTimed ==
  ASSUME TimedInv, NEW k \in KindSet, NEW s \in QuerySteps, Send(k, s)
  PROVE  /\ query' \in [KindSet -> QuerySteps \cup {"None"}]
         /\ timer' \in [KindSet -> BOOLEAN]
         /\ \A j \in KindSet : query'[j] # "None" => timer'[j]
  BY DEF Send, TimedInv, MemberTypes, WaitsAreTimed

\* Whatever the verdict on a reply, no query is left without a timer.
LEMMA DecideIsTimed ==
  ASSUME TimedInv, NEW k \in KindSet, NEW v, Decide(k, v),
         v = "Next" => NextStep(k) \in QuerySteps
  PROVE  /\ query' \in [KindSet -> QuerySteps \cup {"None"}]
         /\ timer' \in [KindSet -> BOOLEAN]
         /\ \A j \in KindSet : query'[j] # "None" => timer'[j]
         /\ rtlogMode' \in {"binary", "keyValue"}
<1>1. CASE v = "Next"
  <2>1. Send(k, NextStep(k)) /\ UNCHANGED rtlogMode
    BY <1>1 DEF Decide
  <2>. QED
    BY <1>1, <2>1, SendIsTimed DEF TimedInv, MemberTypes
<1>2. CASE v # "Next"
  <2>1. /\ query' = [query EXCEPT ![k] = "None"]
        /\ timer' = [timer EXCEPT ![k] = FALSE]
        /\ rtlogMode' = IF v = "NotBinary" THEN "keyValue" ELSE rtlogMode
    BY <1>2 DEF Decide
  <2>2. /\ query' \in [KindSet -> QuerySteps \cup {"None"}]
        /\ timer' \in [KindSet -> BOOLEAN]
    BY <2>1 DEF TimedInv, MemberTypes
  <2>3. \A j \in KindSet : query'[j] # "None" => timer'[j]
    BY <2>1 DEF TimedInv, MemberTypes, WaitsAreTimed
  <2>. QED
    BY <2>1, <2>2, <2>3 DEF TimedInv, MemberTypes
<1>. QED
  BY <1>1, <1>2

\* Every click, timer, socket signal, query and reply keeps every wait timed.
LEMMA StepPreservesTimedInv == TimedInv /\ [Next]_vars => TimedInv'
<1>. SUFFICES ASSUME TimedInv, [Next]_vars PROVE TimedInv'
  OBVIOUS
<1>. USE DEF TimedInv, MemberTypes, Configured, WaitsAreTimed, HandshakeSteps
<1>1. CASE ConnectToHost
  <2>1. /\ cs' \in ConnectionStates /\ Ready(cs')
    BY <1>1, BeginAutoConnectFacts DEF ConnectToHost
  <2>. QED
    BY <1>1, <2>1, ClearedFacts DEF ConnectToHost, ClearQueries, asks, net, ghost
<1>2. CASE ClickDisconnect
  BY <1>2, DisconnectNowFacts, ClearedFacts
     DEF ClickDisconnect, ClearQueries, Hangup
<1>3. CASE HeartbeatTick
  BY <1>3, HeartbeatFacts
     DEF HeartbeatTick, Probe, isReady, shake, asks, net, ghost
<1>4. CASE ReconnectTick
  BY <1>4, ReconnectFacts DEF ReconnectTick, SameLink, Hangup, asks
<1>5. CASE OnSocketConnected
  BY <1>5 DEF OnSocketConnected, asks, ghost
<1>6. CASE OnSocketError \/ OnHandshakeTimeout
  <2>1. /\ cs' \in ConnectionStates
        /\ cs'.awaiting \/ cs'.heartbeat \/ cs'.rearm # 0 => Ready(cs')
    BY <1>6, ReportFacts DEF OnSocketError, OnHandshakeTimeout, FailAttempt
  <2>. QED
    BY <1>6, <2>1, ClearedFacts DEF OnSocketError, OnHandshakeTimeout, FailAttempt,
                      ClearQueries, Hangup, asks
<1>7. CASE PanelStep
  BY <1>7 DEF PanelStep, PanelAnswers, PanelStaysSilent, shake, asks, ghost
<1>8. ASSUME NEW n, ReadNothing(n) \/ ReadIncomplete(n) PROVE TimedInv'
  BY <1>8 DEF ReadNothing, ReadIncomplete, shake, asks, ghost
<1>9. ASSUME NEW n, ReadHandshake(n) PROVE TimedInv'
  <2>1. CASE Rejected
    BY <1>9, <2>1 DEF ReadHandshake, Rejected, asks
  <2>2. ASSUME NEW ok \in BOOLEAN, HandshakeDone(ok) PROVE TimedInv'
    <3>1. /\ cs' \in ConnectionStates
          /\ cs'.awaiting \/ cs'.heartbeat \/ cs'.rearm # 0 => Ready(cs')
      BY <2>2, ReportFacts DEF HandshakeDone
    <3>. QED
      BY <1>9, <2>2, <3>1 DEF ReadHandshake, HandshakeDone, asks
  <2>. QED
    BY <1>9, <2>1, <2>2 DEF ReadHandshake, GenericOk
<1>10. ASSUME NEW n, ReadQuery(n) PROVE TimedInv'
  <2>1. Taker \in KindSet /\ query[Taker] # "None"
    BY <1>10, TakerWaits DEF ReadQuery
  <2>2. PICK v : /\ Decide(Taker, v)
                 /\ v = "Next" => NextStep(Taker) \in QuerySteps
    BY <1>10, <2>1, NextStepIsStep DEF ReadQuery
  <2>3. UNCHANGED <<cs, socket, shake, session, panelMode, ghost>>
    BY <1>10 DEF ReadQuery
  <2>. QED
    BY <2>1, <2>2, <2>3, DecideIsTimed DEF shake, ghost
<1>11. ASSUME NEW k \in KindSet, Request(k) PROVE TimedInv'
  <2>1. FirstStep(k) \in QuerySteps
    BY DEF FirstStep, KindSet, QuerySteps
  <2>. QED
    BY <1>11, <2>1, SendIsTimed DEF Request, shake
<1>12. ASSUME NEW k \in KindSet, OnQueryTimeout(k) PROVE TimedInv'
  BY <1>12 DEF OnQueryTimeout, shake, net, ghost
<1>13. CASE UNCHANGED vars
  BY <1>13 DEF vars, shake, asks, net, ghost
<1>. QED
  BY <1>1, <1>2, <1>3, <1>4, <1>5, <1>6, <1>7, <1>8, <1>9, <1>10, <1>11,
     <1>12, <1>13, C3Assumption
     DEF Next, ClickStep, LinkStep, QueryStep, OnSocketReadyRead

\* Each query in flight and each handshake on an open socket has its clock
\* running, for every caller and every panel.
THEOREM WaitsAlwaysTimed == Spec => []WaitsAreTimed
<1>1. Init => TimedInv
  BY InitEstablishesTimedInv
<1>2. TimedInv /\ [Next]_vars => TimedInv'
  BY StepPreservesTimedInv
<1>3. TimedInv => WaitsAreTimed
  BY DEF TimedInv
<1>. QED
  BY <1>1, <1>2, <1>3, PTL DEF Spec

-----------------------------------------------------------------------------
(* The attempt and the session. *)

\* While Connect is clicked on an idle socket only, every step keeps the
\* attempt, the session and the state object together.
LEMMA StepPreservesLinkInv ==
  ASSUME ~Impatient, LinkInv, [Next]_vars
  PROVE  LinkInv'
<1>. USE DEF LinkInv, AttemptIsAwaited, SessionIsCurrent, DialIsAttempt,
       WireNeedsSocket, CurrentIsUp
<1>0. TimedInv'
  BY StepPreservesTimedInv
<1>a. /\ cs \in ConnectionStates
      /\ cs.awaiting \/ cs.heartbeat \/ cs.rearm # 0 => Ready(cs)
  BY DEF TimedInv, MemberTypes, Configured
<1>1. CASE ConnectToHost
  <2>1. cs'.awaiting
    BY <1>1, <1>a, BeginAutoConnectFacts DEF ConnectToHost
  <2>. QED
    BY <1>0, <1>1, <2>1 DEF ConnectToHost, net, ghost
<1>2. CASE ClickDisconnect
  BY <1>0, <1>a, <1>2, DisconnectNowFacts DEF ClickDisconnect, Hangup
<1>3. CASE HeartbeatTick
  <2>1. UNCHANGED <<socket, attempt, hsTimer, session, panel, inbound, unread,
                    current>>
    BY <1>3 DEF HeartbeatTick, shake, net, ghost
  <2>2. CASE Probe
    <3>1. cs' = cs
      BY <1>3, <2>2 DEF HeartbeatTick, OnHeartbeatTick
    <3>. QED
      BY <1>0, <2>1, <3>1
  <2>3. CASE ~Probe
    <3>1. /\ ~cs'.connected
          /\ cs'.awaiting <=> cs.awaiting
      BY <1>3, <1>a, <2>3, HeartbeatFacts DEF HeartbeatTick, Probe
    <3>2. ~current
      BY <2>3 DEF Probe, isReady
    <3>. QED
      BY <1>0, <2>1, <3>1, <3>2
  <2>. QED
    BY <2>2, <2>3
<1>4. CASE ReconnectTick
  BY <1>0, <1>a, <1>4, ReconnectFacts DEF ReconnectTick, Hangup
<1>5. CASE OnSocketConnected
  BY <1>0, <1>5 DEF OnSocketConnected, ghost
<1>6. CASE OnSocketError \/ OnHandshakeTimeout
  <2>1. ~cs'.awaiting
    BY <1>6, <1>a, ReportFacts
       DEF OnSocketError, OnHandshakeTimeout, FailAttempt
  <2>. QED
    BY <1>0, <1>6, <2>1
       DEF OnSocketError, OnHandshakeTimeout, FailAttempt, Hangup
<1>7. CASE PanelStep
  BY <1>0, <1>7 DEF PanelStep, PanelAnswers, PanelStaysSilent, shake, ghost
<1>8. ASSUME NEW n \in 1 .. Len(inbound) - unread,
             ReadNothing(n) \/ ReadIncomplete(n)
      PROVE  LinkInv'
  <2>1. socket = "connected"
    OBVIOUS
  <2>. QED
    BY <1>0, <1>8, <2>1 DEF ReadNothing, ReadIncomplete, shake, ghost
<1>9. ASSUME NEW n \in 1 .. Len(inbound) - unread, ReadHandshake(n)
      PROVE  LinkInv'
  <2>1. socket = "connected" /\ attempt /\ cs.awaiting
    BY <1>9 DEF ReadHandshake
  <2>2. CASE Rejected
    BY <1>0, <1>9, <2>1, <2>2 DEF ReadHandshake, Rejected
  <2>3. ASSUME NEW ok \in BOOLEAN, HandshakeDone(ok) PROVE LinkInv'
    <3>0. cs.async
      BY <1>a, <2>1 DEF Ready
    <3>1. CASE ok = TRUE
      <4>1. cs'.connected /\ ~cs'.awaiting /\ cs'.rearm = 0
        BY <1>a, <2>1, <2>3, <3>0, <3>1, ReportSuccessFacts DEF HandshakeDone
      <4>2. session' # "none"
        BY <2>3, <3>1 DEF HandshakeDone
      <4>. QED
        BY <1>0, <1>9, <2>1, <2>3, <3>1, <4>1, <4>2
           DEF ReadHandshake, HandshakeDone
    <3>2. CASE ok = FALSE
      <4>1. ~cs'.connected /\ ~cs'.awaiting
        BY <1>a, <2>1, <2>3, <3>0, <3>2, ReportFailureFacts DEF HandshakeDone
      <4>. QED
        BY <1>0, <1>9, <2>1, <2>3, <3>2, <4>1
           DEF ReadHandshake, HandshakeDone
    <3>. QED
      BY <3>1, <3>2
  <2>. QED
    BY <1>9, <2>2, <2>3 DEF ReadHandshake, GenericOk
<1>10. ASSUME NEW n \in 1 .. Len(inbound) - unread, ReadQuery(n)
       PROVE  LinkInv'
  <2>1. socket = "connected"
    OBVIOUS
  <2>. QED
    BY <1>0, <1>10, <2>1 DEF ReadQuery, shake, ghost
<1>11. ASSUME NEW k \in KindSet, Request(k) PROVE LinkInv'
  BY <1>0, <1>11 DEF Request, Send, isReady, shake
<1>12. ASSUME NEW k \in KindSet, OnQueryTimeout(k) PROVE LinkInv'
  BY <1>0, <1>12 DEF OnQueryTimeout, shake, net, ghost
<1>13. CASE UNCHANGED vars
  BY <1>0, <1>13 DEF vars, shake, asks, net, ghost
<1>. QED
  BY <1>1, <1>2, <1>3, <1>4, <1>5, <1>6, <1>7, <1>8, <1>9, <1>10, <1>11,
     <1>12, <1>13, C3Assumption
     DEF Next, ClickStep, LinkStep, QueryStep, OnSocketReadyRead

\* The link invariant holds in every reachable state.
THEOREM LinkInvariance == ~Impatient => (Spec => []LinkInv)
<1>. SUFFICES ASSUME ~Impatient PROVE Spec => []LinkInv
  OBVIOUS
<1>1. Init => LinkInv
  BY InitEstablishesTimedInv, FreshFacts
     DEF Init, LinkInv, AttemptIsAwaited, SessionIsCurrent, DialIsAttempt,
         WireNeedsSocket, CurrentIsUp
<1>2. LinkInv /\ [Next]_vars => LinkInv'
  BY StepPreservesLinkInv
<1>. QED
  BY <1>1, <1>2, PTL DEF Spec

\* The driver's attempt and the one its state object awaits are the same,
\* provided Connect is clicked on an idle socket.
THEOREM AttemptAlwaysAwaited == ~Impatient => (Spec => []AttemptIsAwaited)
  BY LinkInvariance, PTL DEF LinkInv

\* An open socket shown as connected, with no attempt running, carries the
\* session agreed on that very connection, under the same proviso.
THEOREM SessionAlwaysCurrent == ~Impatient => (Spec => []SessionIsCurrent)
  BY LinkInvariance, PTL DEF LinkInv

=============================================================================
