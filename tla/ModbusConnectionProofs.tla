------------------------ MODULE ModbusConnectionProofs ------------------------
(***************************************************************************)
(* The safety of the Modbus driver for every set of hosts and functions,   *)
(* every number of requests and every run of failures.                     *)
(*                                                                         *)
(* Two invariants.  LinkInv ties the driver's members to those of its      *)
(* state object and needs no assumption on the device.  WireInv adds where *)
(* the one frame that may be under way is, and holds while the device      *)
(* answers before the timeout or not at all.                               *)
(***************************************************************************)
EXTENDS ModbusConnection, SharedFacts

\* Whatever the state object waits for comes from the driver's own handlers.
Configured ==
  cs.awaiting \/ cs.heartbeat \/ cs.rearm # 0 => Ready(cs)

\* A retry is armed only while nothing is connected.
RetryIsOffline == cs.rearm # 0 => ~cs.connected

LinkInv ==
  TypeOK /\ Configured /\ RetryIsOffline /\ PendingIsTimed /\ SocketIsTracked

\* Nothing under way: no request, no reply; part of a reply is left in the buffer
\* only when the socket died under it.
NothingUnderWay ==
  /\ device = <<>> /\ inbound = <<>>
  /\ buffer = <<>> \/ (socket.state = "idle" /\ pending # "None")

\* The request waits at the device.
AtDevice ==
  /\ inbound = <<>> /\ buffer = <<>>
  /\ \E fn \in Functions : device = <<Request(fn, asked)>>

\* The reply is on its way, of which the buffer may hold the first piece.
ComingBack ==
  /\ device = <<>>
  /\ \E fn \in Functions :
       \/ /\ buffer = <<>>
          /\ inbound = <<Piece(fn, asked, "head"), Piece(fn, asked, "tail")>>
       \/ /\ buffer = <<Piece(fn, asked, "head")>>
          /\ inbound = <<Piece(fn, asked, "tail")>>

\* At most the frame of the pending request is under way, on an open socket.
OneFrame ==
  \/ NothingUnderWay
  \/ /\ pending # "None" /\ socket.state = "connected"
     /\ AtDevice \/ ComingBack

WireInv == LinkInv /\ OneFrame /\ AnswerMatchesRequest

-----------------------------------------------------------------------------
(* The link. *)

\* Counting modulo 2^16 yields an id.
LEMMA ModIsId ==
  ASSUME NEW m \in Int
  PROVE  m % 65536 \in TransactionIds
  BY SMT DEF TransactionIds

\* The id after an id is an id.
LEMMA IdsWrap ==
  ASSUME NEW i \in TransactionIds
  PROVE  (i + 1) % 65536 \in TransactionIds
<1>1. i + 1 \in Int
  BY SMT DEF TransactionIds
<1>. QED
  BY <1>1, ModIsId

\* A driver that has just been constructed is consistent with its state object.
LEMMA InitEstablishesLinkInv == Init => LinkInv
<1>. SUFFICES ASSUME Init PROVE LinkInv
  OBVIOUS
<1>1. nextId \in TransactionIds
  BY DEF Init, TransactionIds
<1>. QED
  BY <1>1, FreshFacts DEF Init, LinkInv, TypeOK, Configured, RetryIsOffline,
       PendingIsTimed, SocketIsTracked

\* Every click, timer, socket signal, request and reply keeps it so.
LEMMA StepPreservesLinkInv == LinkInv /\ [Next]_vars => LinkInv'
<1>. SUFFICES ASSUME LinkInv, [Next]_vars PROVE LinkInv'
  OBVIOUS
<1>. USE DEF LinkInv, TypeOK, Configured, RetryIsOffline, PendingIsTimed,
       SocketIsTracked, SetState
<1>1. ASSUME NEW h \in Hosts, ConnectToHost(h) PROVE LinkInv'
  BY <1>1, BeginAutoConnectFacts DEF ConnectToHost, Dial
<1>2. CASE ClickDisconnect
  BY <1>2, DisconnectNowFacts DEF ClickDisconnect, Hangup
<1>3. CASE HeartbeatTick
  BY <1>3, HeartbeatFacts DEF HeartbeatTick
<1>4. CASE ReconnectTick
  BY <1>4, ReconnectFacts DEF ReconnectTick, SameLink
<1>5. CASE SocketConnected
  <2>1. cs.awaiting /\ Ready(cs)
    BY <1>5 DEF SocketConnected
  <2>. QED
    BY <1>5, <2>1, ReportSuccessFacts DEF SocketConnected, Ready
<1>6. CASE SocketError
  <2>1. CASE cs.awaiting
    BY <1>6, <2>1, ReportFailureFacts DEF SocketError, Hangup, Ready
  <2>2. CASE ~cs.awaiting
    BY <1>6, <2>2, ReportIgnored DEF SocketError, Hangup
  <2>. QED
    BY <2>1, <2>2
<1>7. ASSUME NEW fn \in Functions, SendRequest(fn) PROVE LinkInv'
  <2>1. nextId' \in TransactionIds
    BY <1>7, IdsWrap DEF SendRequest
  <2>2. /\ cs.connected /\ pending' = fn /\ timer' = TRUE
        /\ UNCHANGED <<cs, socket, wanted>>
    BY <1>7 DEF SendRequest
  <2>. QED
    BY <2>1, <2>2
<1>8. CASE DeviceAnswers \/ DeviceStaysSilent
  BY <1>8 DEF DeviceAnswers, DeviceStaysSilent, driver
<1>9. ASSUME NEW n \in 1 .. Len(inbound), NEW o \in Outcomes,
             OnSocketReadyRead(n, o)
      PROVE  LinkInv'
  BY <1>9 DEF OnSocketReadyRead
<1>10. CASE OnRequestTimeout
  BY <1>10 DEF OnRequestTimeout
<1>11. CASE UNCHANGED vars
  BY <1>11 DEF vars, driver
<1>. QED
  BY <1>1, <1>2, <1>3, <1>4, <1>5, <1>6, <1>7, <1>8, <1>9, <1>10, <1>11
     DEF Next, ClickStep, LinkStep, ExchangeStep

\* The link invariant holds in every reachable state, however late the device is.
THEOREM LinkInvariance == Spec => []LinkInv
<1>1. Init => LinkInv
  BY InitEstablishesLinkInv
<1>2. LinkInv /\ [Next]_vars => LinkInv'
  BY StepPreservesLinkInv
<1>. QED
  BY <1>1, <1>2, PTL DEF Spec

\* A request in flight has its timeout running and its connection up.
THEOREM PendingAlwaysTimed == Spec => []PendingIsTimed
  BY LinkInvariance, PTL DEF LinkInv

\* A dialing socket is awaited, and an open one is shown as connected.
THEOREM SocketAlwaysTracked == Spec => []SocketIsTracked
  BY LinkInvariance, PTL DEF LinkInv

-----------------------------------------------------------------------------
(* The wire. *)

\* While no reply is overtaken by its timeout, every step keeps at most the
\* frame of the pending request under way.
LEMMA StepPreservesWireInv ==
  ASSUME ~LateReplies, WireInv, [Next]_vars
  PROVE  WireInv'
<1>. USE DEF WireInv, OneFrame
<1>0. LinkInv'
  BY StepPreservesLinkInv
<1>a. pending = "None" => NothingUnderWay /\ buffer = <<>>
  BY DEF NothingUnderWay
<1>b. socket.state # "connected" => NothingUnderWay
  OBVIOUS
<1>c. ~cs.connected => pending = "None"
  BY DEF LinkInv, PendingIsTimed
<1>1. ASSUME NEW h \in Hosts, ConnectToHost(h) PROVE WireInv'
  <2>1. NothingUnderWay'
    BY <1>1, <1>a, <1>c DEF ConnectToHost, net, NothingUnderWay
  <2>. QED
    BY <1>0, <1>1, <2>1 DEF ConnectToHost, ghost, AnswerMatchesRequest
<1>2. CASE ClickDisconnect
  <2>1. NothingUnderWay'
    BY <1>2 DEF ClickDisconnect, Hangup, NothingUnderWay
  <2>. QED
    BY <1>0, <1>2, <2>1 DEF ClickDisconnect, ghost, AnswerMatchesRequest
<1>3. CASE HeartbeatTick
  <2>1. CASE socket.state = "connected"
    <3>1. cs' = cs
      BY <1>3, <2>1 DEF HeartbeatTick, OnHeartbeatTick, SetState
    <3>2. UNCHANGED <<socket, pending, buffer, device, inbound, asked, answer>>
      BY <1>3, <3>1 DEF HeartbeatTick, SetState, net, ghost
    <3>. QED
      BY <1>0, <3>2 DEF NothingUnderWay, AtDevice, ComingBack,
                        AnswerMatchesRequest
  <2>2. CASE socket.state # "connected"
    <3>1. NothingUnderWay'
      BY <1>3, <2>2, <1>b DEF HeartbeatTick, SetState, net, NothingUnderWay
    <3>. QED
      BY <1>0, <1>3, <3>1 DEF HeartbeatTick, ghost, AnswerMatchesRequest
  <2>. QED
    BY <2>1, <2>2
<1>4. CASE ReconnectTick
  <2>1. NothingUnderWay'
    <3>1. ~cs.connected
      BY <1>4 DEF ReconnectTick, LinkInv, RetryIsOffline
    <3>. QED
      BY <1>4, <3>1, <1>a, <1>c
         DEF ReconnectTick, SetState, NothingUnderWay
  <2>. QED
    BY <1>0, <1>4, <2>1 DEF ReconnectTick, ghost, AnswerMatchesRequest
<1>5. CASE SocketConnected
  <2>1. NothingUnderWay'
    BY <1>5, <1>b DEF SocketConnected, SetState, net, NothingUnderWay
  <2>. QED
    BY <1>0, <1>5, <2>1 DEF SocketConnected, ghost, AnswerMatchesRequest
<1>6. CASE SocketError
  <2>1. socket'.state = "idle"
    BY <1>6 DEF SocketError, Hangup, LinkInv, TypeOK
  <2>2. NothingUnderWay'
    BY <1>6, <2>1, <1>a DEF SocketError, SetState, Hangup, NothingUnderWay
  <2>. QED
    BY <1>0, <1>6, <2>2 DEF SocketError, ghost, AnswerMatchesRequest
<1>7. ASSUME NEW fn \in Functions, SendRequest(fn) PROVE WireInv'
  <2>1. /\ pending = "None" /\ pending' = fn /\ asked' = nextId
        /\ device' = IF socket.state = "connected"
                     THEN Append(device, Request(fn, nextId)) ELSE device
        /\ UNCHANGED <<socket, buffer, inbound, answer>>
    BY <1>7 DEF SendRequest
  <2>2. pending' # "None"
    BY <2>1, ModbusAssumption
  <2>3. CASE socket.state = "connected"
    <3>1. device' = <<Request(fn, asked')>>
      BY <2>1, <2>3, <1>a DEF NothingUnderWay
    <3>2. AtDevice'
      BY <2>1, <3>1, <1>a DEF AtDevice, NothingUnderWay
    <3>. QED
      BY <1>0, <2>1, <2>2, <2>3, <3>2 DEF AnswerMatchesRequest
  <2>4. CASE socket.state # "connected"
    BY <1>0, <2>1, <2>4, <1>a DEF NothingUnderWay, AnswerMatchesRequest
  <2>. QED
    BY <2>3, <2>4
<1>8. CASE DeviceAnswers
  <2>1. /\ device # <<>>
        /\ inbound' = inbound \o <<Piece(Head(device).fn, Head(device).id, "head"),
                                   Piece(Head(device).fn, Head(device).id, "tail")>>
        /\ device' = Tail(device)
        /\ UNCHANGED <<socket, pending, buffer, asked, answer>>
    BY <1>8 DEF DeviceAnswers, driver, ghost
  <2>2. pending # "None" /\ socket.state = "connected" /\ AtDevice
    BY <2>1 DEF NothingUnderWay, ComingBack
  <2>3. PICK fn \in Functions : device = <<Request(fn, asked)>>
    BY <2>2 DEF AtDevice
  <2>4. Head(device) = Request(fn, asked) /\ Tail(device) = <<>>
    BY <2>3
  <2>5. inbound' = <<Piece(fn, asked, "head"), Piece(fn, asked, "tail")>>
    BY <2>1, <2>2, <2>4 DEF AtDevice, Request
  <2>6. ComingBack'
    BY <2>1, <2>2, <2>4, <2>5 DEF AtDevice, ComingBack
  <2>. QED
    BY <1>0, <2>1, <2>2, <2>6 DEF AnswerMatchesRequest
<1>9. CASE DeviceStaysSilent
  <2>1. /\ device # <<>> /\ device' = Tail(device)
        /\ UNCHANGED <<socket, pending, buffer, inbound, asked, answer>>
    BY <1>9 DEF DeviceStaysSilent, driver, ghost
  <2>2. AtDevice
    BY <2>1 DEF NothingUnderWay, ComingBack
  <2>3. NothingUnderWay'
    BY <2>1, <2>2 DEF AtDevice, NothingUnderWay
  <2>. QED
    BY <1>0, <2>1, <2>3 DEF AnswerMatchesRequest
<1>10. ASSUME NEW n \in 1 .. Len(inbound), NEW o \in Outcomes,
              OnSocketReadyRead(n, o)
       PROVE  WireInv'
  <2>. DEFINE b == buffer \o SubSeq(inbound, 1, n)
  <2>0. inbound # <<>>
    OBVIOUS
  <2>1. pending # "None" /\ socket.state = "connected" /\ ComingBack
    BY <2>0 DEF NothingUnderWay, AtDevice
  <2>2. /\ o \in Decoded(pending, b)
        /\ IF o = "Incomplete"
           THEN buffer' = b /\ UNCHANGED <<pending, answer>>
           ELSE /\ buffer' = <<>>
                /\ answer' = IF o = "Malformed" THEN answer
                             ELSE [to |-> asked, reply |-> b[1].id]
        /\ inbound' = SubSeq(inbound, n + 1, Len(inbound))
        /\ UNCHANGED <<socket, device, asked>>
    BY <1>10, <2>1 DEF OnSocketReadyRead
  <2>3. PICK fn \in Functions :
          \/ /\ buffer = <<>>
             /\ inbound = <<Piece(fn, asked, "head"), Piece(fn, asked, "tail")>>
          \/ /\ buffer = <<Piece(fn, asked, "head")>>
             /\ inbound = <<Piece(fn, asked, "tail")>>
    BY <2>1 DEF ComingBack
  <2>. DEFINE H == Piece(fn, asked, "head")
              T == Piece(fn, asked, "tail")
  <2>4. H.part = "head" /\ T.part = "tail" /\ H.id = asked
    BY DEF Piece
  <2>5. \/ /\ b = <<H>> /\ SubSeq(inbound, n + 1, Len(inbound)) = <<T>>
        \/ /\ b = <<H, T>> /\ SubSeq(inbound, n + 1, Len(inbound)) = <<>>
    <3>. HIDE DEF H, T
    <3>1. CASE buffer = <<>> /\ inbound = <<H, T>>
      <4>1. Len(inbound) = 2
        BY <3>1
      <4>2. CASE n = 1
        <5>1. n + 1 = 2
          BY <4>2
        <5>. QED
          BY <3>1, <4>1, <4>2, <5>1, ReadsOfFrame
      <4>3. CASE n = 2
        <5>1. n + 1 = 3
          BY <4>3
        <5>. QED
          BY <3>1, <4>1, <4>3, <5>1, ReadsOfFrame
      <4>. QED
        BY <4>1, <4>2, <4>3
    <3>2. CASE buffer = <<H>> /\ inbound = <<T>>
      <4>1. Len(inbound) = 1
        BY <3>2
      <4>2. n = 1 /\ n + 1 = 2
        BY <4>1
      <4>. QED
        BY <3>2, <4>1, <4>2, ReadsOfFrame
    <3>. QED
      BY <2>3, <3>1, <3>2 DEF H, T
  <2>. HIDE DEF b
  <2>6. CASE b = <<H>> /\ SubSeq(inbound, n + 1, Len(inbound)) = <<T>>
    <3>1. o = "Incomplete"
      BY <2>2, <2>4, <2>6 DEF Decoded
    <3>2. buffer' = <<H>> /\ inbound' = <<T>> /\ UNCHANGED <<device, asked>>
      BY <2>2, <2>6, <3>1
    <3>3. ComingBack'
      BY <2>1, <3>2 DEF ComingBack
    <3>. QED
      BY <1>0, <2>1, <2>2, <3>1, <3>3 DEF AnswerMatchesRequest
  <2>7. CASE b = <<H, T>> /\ SubSeq(inbound, n + 1, Len(inbound)) = <<>>
    <3>1. o # "Incomplete"
      BY <2>2, <2>4, <2>7 DEF Decoded
    <3>2. NothingUnderWay'
      BY <2>1, <2>2, <2>7, <3>1 DEF NothingUnderWay, ComingBack
    <3>3. AnswerMatchesRequest'
      <4>1. b[1].id = asked
        BY <2>4, <2>7
      <4>. QED
        BY <2>2, <3>1, <4>1 DEF AnswerMatchesRequest
    <3>. QED
      BY <1>0, <3>2, <3>3
  <2>. QED
    BY <2>5, <2>6, <2>7
<1>11. CASE OnRequestTimeout
  <2>1. /\ pending = "None" \/ ~OnItsWay(asked)
        /\ buffer' = <<>>
        /\ UNCHANGED <<device, inbound, answer>>
    BY <1>11 DEF OnRequestTimeout, net, ghost
  <2>2. ~OnItsWay(asked) => ~AtDevice
    BY DEF OnItsWay, AtDevice, Request
  <2>3. ~OnItsWay(asked) => ~ComingBack
    BY DEF OnItsWay, ComingBack, Piece
  <2>4. NothingUnderWay'
    BY <2>1, <2>2, <2>3, <1>a DEF NothingUnderWay
  <2>. QED
    BY <1>0, <2>1, <2>4 DEF AnswerMatchesRequest
<1>12. CASE UNCHANGED vars
  BY <1>0, <1>12 DEF vars, driver, net, ghost, NothingUnderWay, AtDevice,
                     ComingBack, AnswerMatchesRequest
<1>. QED
  BY <1>1, <1>2, <1>3, <1>4, <1>5, <1>6, <1>7, <1>8, <1>9, <1>10, <1>11,
     <1>12 DEF Next, ClickStep, LinkStep, ExchangeStep

\* What is delivered as the answer to a request is the reply to that request,
\* provided no device answers a request that has already timed out.
THEOREM AnswerAlwaysMatches == ~LateReplies => (Spec => []AnswerMatchesRequest)
<1>. SUFFICES ASSUME ~LateReplies PROVE Spec => []AnswerMatchesRequest
  OBVIOUS
<1>1. Init => WireInv
  BY InitEstablishesLinkInv DEF Init, WireInv, OneFrame, NothingUnderWay,
       AnswerMatchesRequest, NoAnswer
<1>2. WireInv /\ [Next]_vars => WireInv'
  BY StepPreservesWireInv
<1>3. WireInv => AnswerMatchesRequest
  BY DEF WireInv
<1>. QED
  BY <1>1, <1>2, <1>3, PTL DEF Spec

=============================================================================
