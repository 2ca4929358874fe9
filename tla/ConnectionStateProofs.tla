------------------------ MODULE ConnectionStateProofs ------------------------
(***************************************************************************)
(* The safety properties of ConnectionState, for every outage bound.       *)
(*                                                                         *)
(* They are proved together: each needs the others (LoopHasNextEvent after *)
(* a failed report needs AttemptIsAwaited's flags, NoOrphanLink after a    *)
(* manual attempt needs ArmedAtCurrentRung), plus two facts no run states: *)
(* nothing is connected, awaited or up before handlers are installed, and  *)
(* only asynchronous handlers leave a result to wait for.                  *)
(***************************************************************************)
EXTENDS ConnectionState, TLAPS

Configured ==
  /\ cs.connected \/ cs.awaiting \/ link # "down" => cs.handlers
  /\ cs.awaiting => cs.async

IInv ==
  /\ TypeOK
  /\ LoopHasNextEvent
  /\ ArmedAtCurrentRung
  /\ LossIsMonitored
  /\ ConnectedEndsLoop
  /\ AttemptIsAwaited
  /\ NoOrphanLink
  /\ Configured

\* The delay ladder is total on failure counts and every rung is a delay.
LEMMA LadderTotal ==
  ASSUME NEW n \in Nat
  PROVE  reconnectDelayMs(n) \in Delays /\ reconnectDelayMs(n) # 0
  BY DEF reconnectDelayMs, kReconnectDelaysMs, kReconnectDelayCount, Delays

-----------------------------------------------------------------------------
(* The steps. *)

\* A ConnectionState that has just been constructed satisfies the invariant.
LEMMA InitEstablishesIInv == Init => IInv
<1>. SUFFICES ASSUME Init PROVE IInv
  OBVIOUS
<1>0. cs \in ConnectionStates
  BY DEF Init, FreshConnectionState, ConnectionStates, Delays
<1>1. TypeOK
  BY <1>0 DEF Init, Links, TypeOK
<1>2. /\ LoopHasNextEvent /\ ArmedAtCurrentRung /\ LossIsMonitored
      /\ ConnectedEndsLoop /\ AttemptIsAwaited /\ NoOrphanLink /\ Configured
  BY DEF Init, FreshConnectionState, LoopHasNextEvent, ArmedAtCurrentRung,
         LossIsMonitored, ConnectedEndsLoop, AttemptIsAwaited, NoOrphanLink,
         Configured
<1>. QED
  BY <1>1, <1>2 DEF IInv

\* Every public call, timer tick and late result preserves the invariant.
LEMMA StepPreservesIInv == IInv /\ [Next]_vars => IInv'
<1>. SUFFICES ASSUME IInv, [Next]_vars PROVE IInv'
  OBVIOUS
<1>. USE LadderTotal DEF ConnectionStates, Links, IInv, TypeOK,
       LoopHasNextEvent, ArmedAtCurrentRung, LossIsMonitored,
       ConnectedEndsLoop, AttemptIsAwaited, NoOrphanLink, Configured
<1>0. /\ cs.failures + 1 \in Nat
      /\ reconnectDelayMs(cs.failures + 1) \in Delays
      /\ reconnectDelayMs(cs.failures + 1) # 0
  <2>1. cs.failures + 1 \in Nat
    OBVIOUS
  <2>. QED
    BY <2>1, LadderTotal
<1>1. ASSUME NEW a \in BOOLEAN, Configure(a) PROVE IInv'
  BY <1>1 DEF Configure, SetHandlers
<1>2. ASSUME NEW a \in BOOLEAN, NEW r \in BOOLEAN, ConnectToHost(a, r)
      PROVE  IInv'
  BY <1>2 DEF ConnectToHost, SetHandlers, BeginAutoConnect, Launch,
              LinkAfterConnect, SetConnected, StartHeartbeat,
              StopReconnecting, StartReconnecting
<1>3. ASSUME NEW r \in BOOLEAN, ClientConnectNow(r) PROVE IInv'
  BY <1>3 DEF ClientConnectNow, ConnectNow, Launch, LinkAfterConnect,
              SetConnected, StartHeartbeat, StopReconnecting
<1>4. ASSUME NEW r \in BOOLEAN, ClientBeginAutoConnect(r) PROVE IInv'
  BY <1>4 DEF ClientBeginAutoConnect, BeginAutoConnect, Launch,
              LinkAfterConnect, SetConnected, StartHeartbeat,
              StopReconnecting, StartReconnecting
<1>5. CASE ClientDisconnectNow
  BY <1>5 DEF ClientDisconnectNow, DisconnectNow, SetConnected,
              StopReconnecting
<1>6. ASSUME NEW p \in BOOLEAN, ClientSetHeartbeat(p) PROVE IInv'
  BY <1>6 DEF ClientSetHeartbeat, SetHeartbeatIntervalMs
<1>7. ASSUME NEW b \in BOOLEAN, HeartbeatTick(b) PROVE IInv'
  BY <1>7 DEF HeartbeatTick, OnHeartbeatTick, SetConnected,
              StartReconnecting
<1>8. ASSUME NEW b \in BOOLEAN, ReconnectTick(b) PROVE IInv'
  <2>. USE <1>8 DEF ReconnectTick, OnReconnectTick, LinkAfterConnect
  <2>1. CASE ~(cs.handlers /\ b) /\ cs.async /\ cs.handlers
    BY <1>0, <2>1 DEF NextRung
  <2>2. CASE ~(cs.handlers /\ b) /\ ~(cs.async /\ cs.handlers)
    BY <1>0, <2>2 DEF NextRung
  <2>3. CASE cs.handlers /\ b /\ cs.async
    BY <2>3
  <2>4. CASE cs.handlers /\ b /\ ~cs.async
    BY <2>4 DEF Established, SetConnected, StartHeartbeat, StopReconnecting
  <2>. QED
    BY <2>1, <2>2, <2>3, <2>4
<1>9. ASSUME NEW b \in BOOLEAN, AttemptResolves(b) PROVE IInv'
  <2>. USE <1>9 DEF AttemptResolves, ReportPendingConnectResult
  <2>0. CASE ~cs.awaiting
    BY <2>0
  <2>1. CASE cs.awaiting /\ b
    BY <2>1 DEF Established, SetConnected, StartHeartbeat, StopReconnecting
  <2>2. CASE cs.awaiting /\ ~b /\ ~cs.autoRetry
    BY <2>2 DEF SetConnected
  <2>3. CASE cs.awaiting /\ ~b /\ cs.autoRetry /\ cs.reconnecting
    BY <1>0, <2>3 DEF NextRung, SetConnected
  <2>4. CASE cs.awaiting /\ ~b /\ cs.autoRetry /\ ~cs.reconnecting
    BY <2>4 DEF StartReconnecting, SetConnected
  <2>. QED
    BY <2>0, <2>1, <2>2, <2>3, <2>4
<1>10. ASSUME NEW b \in BOOLEAN, LinkDrops(b) PROVE IInv'
  BY <1>10 DEF LinkDrops, ReportPendingConnectResult
<1>11. ASSUME NEW b \in BOOLEAN, LateReport(b) PROVE IInv'
  <2>. USE <1>11 DEF LateReport, ReportPendingConnectResult
  <2>0. CASE ~cs.awaiting
    BY <2>0
  <2>1. CASE cs.awaiting /\ b
    BY <2>1 DEF Established, SetConnected, StartHeartbeat, StopReconnecting
  <2>2. CASE cs.awaiting /\ ~b /\ ~cs.autoRetry
    BY <2>2 DEF SetConnected
  <2>3. CASE cs.awaiting /\ ~b /\ cs.autoRetry /\ cs.reconnecting
    BY <1>0, <2>3 DEF NextRung, SetConnected
  <2>4. CASE cs.awaiting /\ ~b /\ cs.autoRetry /\ ~cs.reconnecting
    BY <2>4 DEF StartReconnecting, SetConnected
  <2>. QED
    BY <2>0, <2>1, <2>2, <2>3, <2>4
<1>12. CASE UNCHANGED vars
  BY <1>12 DEF vars
<1>. QED
  BY <1>1, <1>2, <1>3, <1>4, <1>5, <1>6, <1>7, <1>8, <1>9, <1>10, <1>11,
     <1>12 DEF Next, ClientStep, BackgroundStep, LoopStep

-----------------------------------------------------------------------------
(* The theorems. *)

\* The strengthened invariant holds in every reachable state.
THEOREM Invariance == Spec => []IInv
<1>1. Init => IInv
  BY InitEstablishesIInv
<1>2. IInv /\ [Next]_vars => IInv'
  BY StepPreservesIInv
<1>. QED
  BY <1>1, <1>2, PTL DEF Spec

\* The members of connection_state.h keep their types for every outage bound.
THEOREM TypeCorrect == Spec => []TypeOK
  BY Invariance, PTL DEF IInv

\* A reconnect loop always has a tick armed or an attempt awaited, whatever
\* the client, the timers and the transport do.
THEOREM LoopNeverStranded == Spec => []LoopHasNextEvent
  BY Invariance, PTL DEF IInv

\* The reconnect timer runs only inside a loop and at the rung of its count.
THEOREM TimerFollowsLadder == Spec => []ArmedAtCurrentRung
  BY Invariance, PTL DEF IInv

\* A connection with a positive heartbeat interval is always being probed.
THEOREM ConnectionIsMonitored == Spec => []LossIsMonitored
  BY Invariance, PTL DEF IInv

\* No loop survives the connection it was after.
THEOREM LoopAndConnectionExclude == Spec => []ConnectedEndsLoop
  BY Invariance, PTL DEF IInv

\* A result is awaited only while an attempt runs, and while one runs, unless a late
\* report of another attempt was taken for its result.
THEOREM AwaitsRunningAttempt == Spec => []AttemptIsAwaited
  BY Invariance, PTL DEF IInv

\* A transport left up behind a "disconnected" object is about to be torn down,
\* unless a late report had the object give the attempt up.
THEOREM OrphanIsTornDown == Spec => []NoOrphanLink
  BY Invariance, PTL DEF IInv

\* Left alone by its client, a loop ends in a connection or not at all.
THEOREM LoopEndsInConnection == Spec => LoopIsNotAbandoned
<1>1. IInv /\ [Next]_vars =>
        [BackgroundStep /\ cs.reconnecting /\ ~cs'.reconnecting
           => cs'.connected]_vars
  <2>. SUFFICES ASSUME IInv, BackgroundStep, cs.reconnecting,
                       ~cs'.reconnecting
                PROVE  cs'.connected
    BY DEF vars
  <2>. USE DEF IInv, TypeOK, ConnectionStates
  <2>1. ASSUME NEW b \in BOOLEAN, HeartbeatTick(b) PROVE cs'.connected
    BY <2>1 DEF HeartbeatTick, OnHeartbeatTick, StartReconnecting, SetConnected
  <2>2. ASSUME NEW b \in BOOLEAN, ReconnectTick(b) PROVE cs'.connected
    BY <2>2 DEF ReconnectTick, OnReconnectTick, NextRung, Established,
                StartHeartbeat, SetConnected, StopReconnecting
  <2>3. ASSUME NEW b \in BOOLEAN,
               cs' = ReportPendingConnectResult(cs, b)
        PROVE  cs'.connected
    BY <2>3 DEF ReportPendingConnectResult, NextRung, Established,
                StartHeartbeat, SetConnected, StopReconnecting,
                StartReconnecting
  <2>4. CASE \E b \in BOOLEAN : AttemptResolves(b) \/ LateReport(b)
    BY <2>3, <2>4 DEF AttemptResolves, LateReport
  <2>5. CASE \E b \in BOOLEAN : LinkDrops(b)
    BY <2>3, <2>5 DEF LinkDrops
  <2>. QED
    BY <2>1, <2>2, <2>4, <2>5 DEF BackgroundStep, LoopStep
<1>. QED
  BY <1>1, Invariance, PTL DEF Spec, LoopIsNotAbandoned

\* Inside one loop a retry's failure moves the count one rung up and no result
\* or loss moves it back.
THEOREM FailuresOnlyClimb == Spec => LadderClimbs
<1>1. IInv /\ [Next]_vars =>
        [LoopStep /\ cs.reconnecting /\ cs'.reconnecting
           => cs'.failures \in {cs.failures, cs.failures + 1}]_vars
  <2>. SUFFICES ASSUME IInv, LoopStep, cs.reconnecting, cs'.reconnecting
                PROVE  cs'.failures \in {cs.failures, cs.failures + 1}
    BY DEF vars
  <2>. USE DEF IInv, TypeOK, ConnectionStates
  <2>1. ASSUME NEW b \in BOOLEAN, ReconnectTick(b)
        PROVE  cs'.failures \in {cs.failures, cs.failures + 1}
    BY <2>1 DEF ReconnectTick, OnReconnectTick, NextRung, Established,
                StartHeartbeat, SetConnected, StopReconnecting
  <2>2. ASSUME NEW b \in BOOLEAN,
               cs' = ReportPendingConnectResult(cs, b)
        PROVE  cs'.failures \in {cs.failures, cs.failures + 1}
    BY <2>2 DEF ReportPendingConnectResult, NextRung, Established,
                StartHeartbeat, SetConnected, StopReconnecting
  <2>3. CASE \E b \in BOOLEAN : AttemptResolves(b) \/ LateReport(b)
    BY <2>2, <2>3 DEF AttemptResolves, LateReport
  <2>4. CASE \E b \in BOOLEAN : LinkDrops(b)
    BY <2>2, <2>4 DEF LinkDrops
  <2>. QED
    BY <2>1, <2>3, <2>4 DEF LoopStep
<1>. QED
  BY <1>1, Invariance, PTL DEF Spec, LadderClimbs

=============================================================================
