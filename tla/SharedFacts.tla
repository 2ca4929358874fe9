----------------------------- MODULE SharedFacts -----------------------------
(***************************************************************************)
(* The facts the proofs of several modules share: what each operator of    *)
(* ConnectionStateCore does to the members a driver relies on, for any     *)
(* state of the object, and how a frame of two pieces can be read.  The    *)
(* drivers install asynchronous handlers, so the facts are about those.    *)
(* And induction, from the least number that has not a property: here the  *)
(* property is a set of numbers, which all the provers can instantiate.    *)
(***************************************************************************)
EXTENDS ConnectionStateCore, SequenceTheorems, WellFoundedInduction, TLAPS

\* Handlers are installed, and their results will be waited for.
Ready(s) == s.handlers /\ s.async

\* The members of s that say what goes on, but for awaiting, agree in t.
SameLink(s, t) ==
  /\ t.connected <=> s.connected
  /\ t.heartbeat <=> s.heartbeat
  /\ Ready(t) <=> Ready(s)

-----------------------------------------------------------------------------
(* The state object. *)

\* The delay ladder is total on failure counts and every rung is a delay.
LEMMA LadderTotal ==
  ASSUME NEW n \in Nat
  PROVE  reconnectDelayMs(n) \in Delays /\ reconnectDelayMs(n) # 0
  BY DEF reconnectDelayMs, kReconnectDelaysMs, kReconnectDelayCount, Delays

\* So is the rung after any count.
LEMMA NextRungTotal ==
  ASSUME NEW s \in ConnectionStates
  PROVE  /\ s.failures + 1 \in Nat
         /\ reconnectDelayMs(s.failures + 1) \in Delays
         /\ reconnectDelayMs(s.failures + 1) # 0
<1>1. s.failures + 1 \in Nat
  BY DEF ConnectionStates
<1>. QED
  BY <1>1, LadderTotal

\* A new object waits for nothing.
LEMMA FreshFacts ==
  /\ FreshConnectionState \in ConnectionStates
  /\ ~FreshConnectionState.connected /\ ~FreshConnectionState.awaiting
  /\ ~FreshConnectionState.heartbeat /\ ~FreshConnectionState.reconnecting
  /\ FreshConnectionState.rearm = 0
  BY DEF FreshConnectionState, ConnectionStates

\* setHandlers() and beginAutoConnect() on an asynchronous driver that dials: the
\* attempt is awaited and a loop that was running is over.
LEMMA BeginAutoConnectFacts ==
  ASSUME NEW s \in ConnectionStates,
         NEW t, t = BeginAutoConnect(SetHandlers(s, TRUE), TRUE)
  PROVE  /\ t \in ConnectionStates
         /\ Ready(t) /\ t.awaiting /\ t.autoRetry
         /\ ~t.reconnecting /\ t.rearm = 0
         /\ t.connected <=> s.connected
         /\ t.heartbeat <=> s.heartbeat
<1>. DEFINE u == SetHandlers(s, TRUE)
            v == StopReconnecting(u)
<1>1. /\ u \in ConnectionStates /\ u.handlers /\ u.async
      /\ u.connected <=> s.connected
      /\ u.heartbeat <=> s.heartbeat
  BY DEF SetHandlers, ConnectionStates
<1>. HIDE DEF u
<1>2. /\ v \in ConnectionStates /\ v.handlers /\ v.async
      /\ ~v.reconnecting /\ v.rearm = 0
      /\ v.connected <=> s.connected
      /\ v.heartbeat <=> s.heartbeat
  BY <1>1 DEF StopReconnecting, ConnectionStates
<1>3. t = Launch(v, TRUE, TRUE)
  BY <1>1 DEF BeginAutoConnect, u
<1>. HIDE DEF v
<1>. QED
  BY <1>2, <1>3 DEF Launch, ConnectionStates, Ready

\* disconnectNow() ends everything.
LEMMA DisconnectNowFacts ==
  ASSUME NEW s \in ConnectionStates, NEW t, t = DisconnectNow(s)
  PROVE  /\ t \in ConnectionStates
         /\ ~t.connected /\ ~t.awaiting /\ ~t.heartbeat
         /\ ~t.reconnecting /\ t.rearm = 0
         /\ Ready(t) <=> Ready(s)
  BY DEF DisconnectNow, SetConnected, StopReconnecting, ConnectionStates, Ready

\* A heartbeat either changes nothing or starts the loop.
LEMMA HeartbeatFacts ==
  ASSUME NEW s \in ConnectionStates, NEW alive \in BOOLEAN,
         NEW t, t = OnHeartbeatTick(s, alive)
  PROVE  /\ t \in ConnectionStates
         /\ alive => t = s
         /\ ~alive => /\ ~t.connected /\ ~t.heartbeat
                      /\ t.reconnecting /\ t.rearm # 0
                      /\ t.awaiting <=> s.awaiting
                      /\ t.autoRetry <=> s.autoRetry
                      /\ Ready(t) <=> Ready(s)
<1>1. reconnectDelayMs(0) \in Delays /\ reconnectDelayMs(0) # 0
  BY LadderTotal
<1>. QED
  BY <1>1 DEF OnHeartbeatTick, SetConnected, StartReconnecting,
              ConnectionStates, Ready

\* A tick of the loop launches an attempt and awaits it.
LEMMA ReconnectFacts ==
  ASSUME NEW s \in ConnectionStates, Ready(s),
         NEW t, t = OnReconnectTick(s, TRUE)
  PROVE  /\ t \in ConnectionStates
         /\ t.awaiting /\ t.autoRetry /\ t.rearm = 0
         /\ t.reconnecting <=> s.reconnecting
         /\ SameLink(s, t)
  BY DEF OnReconnectTick, ConnectionStates, Ready, SameLink

\* An unawaited report is ignored.
LEMMA ReportIgnored ==
  ASSUME NEW s, ~(s.async /\ s.awaiting), NEW b
  PROVE  ReportPendingConnectResult(s, b) = s
  BY DEF ReportPendingConnectResult

\* The report of an awaited attempt that succeeded ends the loop in a connection.
LEMMA ReportSuccessFacts ==
  ASSUME NEW s \in ConnectionStates, s.async, s.awaiting,
         NEW t, t = ReportPendingConnectResult(s, TRUE)
  PROVE  /\ t \in ConnectionStates
         /\ t.connected /\ ~t.awaiting /\ ~t.reconnecting /\ t.rearm = 0
         /\ s.heartbeat => t.heartbeat
         /\ s.probing => t.heartbeat
         /\ t.heartbeat => s.heartbeat \/ s.probing
         /\ Ready(t) <=> Ready(s)
  BY DEF ReportPendingConnectResult, Established, StartHeartbeat, SetConnected,
         StopReconnecting, ConnectionStates, Ready

\* The report of an awaited attempt that failed leaves nothing connected; an
\* attempt of beginAutoConnect() or of the loop is followed by a retry.
LEMMA ReportFailureFacts ==
  ASSUME NEW s \in ConnectionStates, s.async, s.awaiting,
         NEW t, t = ReportPendingConnectResult(s, FALSE)
  PROVE  /\ t \in ConnectionStates
         /\ ~t.connected /\ ~t.awaiting
         /\ s.autoRetry => t.reconnecting /\ t.rearm # 0
         /\ t.heartbeat <=> s.heartbeat
         /\ t.rearm # 0 => s.rearm # 0 \/ s.autoRetry
         /\ Ready(t) <=> Ready(s)
<1>. USE DEF ReportPendingConnectResult, ConnectionStates, Ready
<1>1. reconnectDelayMs(0) \in Delays /\ reconnectDelayMs(0) # 0
  BY LadderTotal
<1>2. CASE ~s.autoRetry
  BY <1>2 DEF SetConnected
<1>3. CASE s.autoRetry /\ s.reconnecting
  BY <1>3, NextRungTotal DEF SetConnected, NextRung
<1>4. CASE s.autoRetry /\ ~s.reconnecting
  BY <1>1, <1>4 DEF SetConnected, StartReconnecting
<1>. QED
  BY <1>2, <1>3, <1>4

\* Whatever is reported, nothing is awaited afterwards, and the timers run only
\* for a driver that had something going on.
LEMMA ReportFacts ==
  ASSUME NEW s \in ConnectionStates, s.awaiting => Ready(s),
         NEW b \in BOOLEAN, NEW t, t = ReportPendingConnectResult(s, b)
  PROVE  /\ t \in ConnectionStates
         /\ ~t.awaiting
         /\ Ready(t) <=> Ready(s)
         /\ t.heartbeat \/ t.rearm # 0
              => s.awaiting \/ s.heartbeat \/ s.rearm # 0
<1>1. CASE ~s.awaiting
  BY <1>1, ReportIgnored
<1>2. CASE s.awaiting /\ b
  <2>1. s.async /\ b = TRUE
    BY <1>2 DEF Ready
  <2>. QED
    BY <1>2, <2>1, ReportSuccessFacts
<1>3. CASE s.awaiting /\ ~b
  <2>1. s.async /\ b = FALSE
    BY <1>3 DEF Ready
  <2>. QED
    BY <1>3, <2>1, ReportFailureFacts
<1>. QED
  BY <1>1, <1>2, <1>3

-----------------------------------------------------------------------------
(* A frame in two pieces. *)

\* A sequence of one element is known by that element.
LEMMA SingleElement ==
  ASSUME NEW S, NEW s \in Seq(S), NEW h \in S, Len(s) = 1, s[1] = h
  PROVE  s = <<h>>
<1>1. <<h>> \in Seq(S) /\ Len(<<h>>) = 1 /\ <<h>>[1] = h
  OBVIOUS
<1>2. \A i \in 1 .. Len(s) : s[i] = <<h>>[i]
  BY <1>1
<1>. QED
  BY <1>1, <1>2, SeqEqual

\* A sequence of two elements is known by those two.
LEMMA TwoElements ==
  ASSUME NEW S, NEW s \in Seq(S), NEW h \in S, NEW t \in S,
         Len(s) = 2, s[1] = h, s[2] = t
  PROVE  s = <<h, t>>
<1>1. <<h, t>> \in Seq(S) /\ Len(<<h, t>>) = 2
      /\ <<h, t>>[1] = h /\ <<h, t>>[2] = t
  OBVIOUS
<1>2. \A i \in 1 .. Len(s) : s[i] = <<h, t>>[i]
  BY <1>1
<1>. QED
  BY <1>1, <1>2, SeqEqual

\* What a read of the first piece, of both, or of the second behind the first
\* takes from the wire and leaves there.
LEMMA ReadsOfFrame ==
  ASSUME NEW h, NEW t
  PROVE  /\ <<>> \o SubSeq(<<h, t>>, 1, 1) = <<h>>
         /\ SubSeq(<<h, t>>, 2, 2) = <<t>>
         /\ <<>> \o SubSeq(<<h, t>>, 1, 2) = <<h, t>>
         /\ SubSeq(<<h, t>>, 3, 2) = <<>>
         /\ <<h>> \o SubSeq(<<t>>, 1, 1) = <<h, t>>
         /\ SubSeq(<<t>>, 2, 1) = <<>>
<1>. DEFINE S == {h, t}
<1>1. /\ h \in S /\ t \in S /\ <<>> \in Seq(S)
      /\ <<h>> \in Seq(S) /\ <<t>> \in Seq(S) /\ <<h, t>> \in Seq(S)
      /\ Len(<<h>>) = 1 /\ Len(<<t>>) = 1 /\ Len(<<h, t>>) = 2
      /\ <<h>>[1] = h /\ <<t>>[1] = t
      /\ <<h, t>>[1] = h /\ <<h, t>>[2] = t
  OBVIOUS
<1>2. /\ \A i \in 1 .. 1 : <<h, t>>[i] \in S
      /\ \A i \in 2 .. 2 : <<h, t>>[i] \in S
      /\ \A i \in 1 .. 2 : <<h, t>>[i] \in S
      /\ \A i \in 1 .. 1 : <<t>>[i] \in S
  OBVIOUS
<1>. HIDE DEF S
<1>3. SubSeq(<<h, t>>, 1, 1) = <<h>>
  <2>1. /\ SubSeq(<<h, t>>, 1, 1) \in Seq(S)
        /\ Len(SubSeq(<<h, t>>, 1, 1)) = 1
        /\ SubSeq(<<h, t>>, 1, 1)[1] = h
    BY <1>1, <1>2, SubSeqProperties
  <2>. QED
    BY <1>1, <2>1, SingleElement
<1>4. SubSeq(<<h, t>>, 2, 2) = <<t>>
  <2>1. /\ SubSeq(<<h, t>>, 2, 2) \in Seq(S)
        /\ Len(SubSeq(<<h, t>>, 2, 2)) = 1
        /\ SubSeq(<<h, t>>, 2, 2)[1] = t
    BY <1>1, <1>2, SubSeqProperties
  <2>. QED
    BY <1>1, <2>1, SingleElement
<1>5. SubSeq(<<h, t>>, 1, 2) = <<h, t>>
  <2>1. /\ SubSeq(<<h, t>>, 1, 2) \in Seq(S)
        /\ Len(SubSeq(<<h, t>>, 1, 2)) = 2
        /\ SubSeq(<<h, t>>, 1, 2)[1] = h
        /\ SubSeq(<<h, t>>, 1, 2)[2] = t
    BY <1>1, <1>2, SubSeqProperties
  <2>. QED
    BY <1>1, <2>1, TwoElements
<1>6. SubSeq(<<t>>, 1, 1) = <<t>>
  <2>1. /\ SubSeq(<<t>>, 1, 1) \in Seq(S)
        /\ Len(SubSeq(<<t>>, 1, 1)) = 1
        /\ SubSeq(<<t>>, 1, 1)[1] = t
    BY <1>1, <1>2, SubSeqProperties
  <2>. QED
    BY <1>1, <2>1, SingleElement
<1>7. <<h>> \o <<t>> = <<h, t>>
  <2>1. /\ <<h>> \o <<t>> \in Seq(S) /\ Len(<<h>> \o <<t>>) = 2
        /\ (<<h>> \o <<t>>)[1] = h /\ (<<h>> \o <<t>>)[2] = t
    BY <1>1, ConcatProperties
  <2>. QED
    BY <1>1, <2>1, TwoElements
<1>8. /\ SubSeq(<<h, t>>, 3, 2) = <<>> /\ SubSeq(<<t>>, 2, 1) = <<>>
      /\ <<>> \o <<h>> = <<h>> /\ <<>> \o <<h, t>> = <<h, t>>
  <2>1. <<>> \o <<h>> = <<h>> /\ <<>> \o <<h, t>> = <<h, t>>
    BY <1>1, ConcatEmptySeq
  <2>. QED
    BY <2>1, SubSeqEmpty
<1>. QED
  BY <1>3, <1>4, <1>5, <1>6, <1>7, <1>8

-----------------------------------------------------------------------------
(* Induction over numbers. *)

\* A set of numbers that is not empty has a least one.
LEMMA LeastNumber ==
  ASSUME NEW S, S \subseteq Nat, S # {}
  PROVE  \E m \in S : \A k \in S : m <= k
<1>1. IsWellFoundedOn(OpToRel(<, Nat), Nat)
  BY NatLessThanWellFounded
<1>2. PICK m \in S : \A k \in S : ~(<<k, m>> \in OpToRel(<, Nat))
  BY <1>1, WFMin
<1>3. \A k \in S : ~(k < m)
  BY <1>2 DEF OpToRel
<1>. QED
  BY <1>3

\* Induction, for a property given as the set of numbers that have it.
LEMMA Induction ==
  ASSUME NEW S, 0 \in S, \A n \in Nat : n \in S => n + 1 \in S
  PROVE  Nat \subseteq S
<1>1. SUFFICES ASSUME Nat \ S # {} PROVE FALSE
  OBVIOUS
<1>2. PICK m \in Nat \ S : \A k \in Nat \ S : m <= k
  BY <1>1, LeastNumber
<1>3. m # 0 /\ m - 1 \in Nat
  BY <1>2
<1>. QED
  BY <1>2, <1>3

=============================================================================
