-------------------------- MODULE MqConnectionProofs --------------------------
(***************************************************************************)
(* The AMQP driver keeps its two records of an attempt in step and shows a *)
(* connection only when the broker has logged it in on the present link,   *)
(* whatever parts of frames the links before it left in inputBuffer_.      *)
(*                                                                         *)
(* The invariant LinkInv says how far a login has come by what is in the   *)
(* buffer and on the wire.  A read runs the loop of MqBuffer::feed(): that *)
(* it keeps the invariant is an induction over the turns of the loop, from *)
(* the least turn that would break it.                                     *)
(***************************************************************************)
EXTENDS MqConnection, SharedFacts

\* What the broker may send to begin a login: with heartbeats, or without.
Tunes == {"tune", "tuneNoBeat"}

Kinds == Tunes \cup {"openOk", "close", "data"}

Pieces == [kind : Kinds, no : Nat, old : BOOLEAN] \cup {Garbage}

MemberSet ==
  [cs : ConnectionStates, pending : BOOLEAN, beat : BOOLEAN,
   amqp : {"none", "shaking", "tuned", "ready", "broken"},
   broker : {"off", "greet", "await", "open", "up", "mute", "closed", "offended"}]

TypeOK ==
  /\ Members \in MemberSet
  /\ socket \in {"idle", "connecting", "connected"} /\ keeps \in BOOLEAN
  /\ buffer \in Seq(Pieces) /\ inbound \in Seq(Pieces) /\ faults \in Nat

\* None of the pieces in s is of these kinds.
Without(s, kinds) == \A i \in 1 .. Len(s) : s[i].kind \notin kinds

\* All pieces of s but the last are of an older connection.
OldButLast(s) == \A i \in 1 .. Len(s) - 1 : s[i].old

AllOld(s) == \A i \in 1 .. Len(s) : s[i].old

\* The state object and the driver: an attempt is awaited, or a retry is armed, or
\* a connection is watched, never two of them.
AttemptInv(d) ==
  /\ Ready(d.cs)
  /\ d.cs.awaiting <=> d.pending
  /\ d.cs.awaiting => ~d.cs.connected /\ d.cs.rearm = 0
  /\ d.cs.heartbeat => d.cs.connected
  /\ d.cs.rearm # 0 => ~d.cs.connected

\* A link on which a retry was armed, or which is shown as connected, or on which
\* heartbeats go out, has come so far.
LoginInv(d) ==
  /\ d.amqp # "none"
  /\ d.cs.rearm # 0 => d.amqp = "broken"
  /\ d.cs.connected => d.amqp \in {"ready", "broken"}
  /\ d.beat => d.amqp \in {"tuned", "ready"}

\* The login has its order on the wire, whatever is left of older connections: with
\* buffer b, pieces w under way and members d.
StreamInv(b, w, d) ==
  /\ d.amqp = "ready" => Without(b, Tunes) /\ Without(w, Tunes)
  /\ d.broker = "greet" => d.amqp = "shaking" /\ w = <<>> /\ AllOld(b)
  /\ d.broker = "await" =>
       d.amqp # "ready" /\ Len(w) <= 1 /\ OldButLast(b) /\ (w # <<>> => AllOld(b))
  /\ d.broker = "open" => d.amqp = "tuned" /\ b = <<>> /\ w = <<>>

\* The end of a login finds a parser that has taken all there was before.
OpenIsNext ==
  \/ Without(inbound, {"openOk"})
  \/ /\ inbound # <<>> /\ Without(Tail(inbound), Tunes \cup {"openOk"})
     /\ buffer = <<>> /\ amqp = "tuned" /\ broker # "await"
     /\ inbound[1].kind = "openOk"

LinkInv ==
  /\ TypeOK /\ AttemptInv(Members) /\ Without(buffer, {"openOk"})
  /\ pending => socket # "idle"
  /\ socket = "connecting" => pending
  /\ socket # "connected" => inbound = <<>> /\ AllOld(buffer) /\ broker = "off" /\ ~beat
  /\ socket = "connected" =>
       broker # "off" /\ LoginInv(Members) /\ StreamInv(buffer, inbound, Members) /\ OpenIsNext

\* The same in the middle of feed(), when one end of a login may head the buffer.
LoopInv(b, w, d) ==
  /\ AttemptInv(d) /\ LoginInv(d) /\ StreamInv(b, w, d)
  /\ d.broker \notin {"off", "greet"}
  /\ \/ Without(b, {"openOk"})
     \/ /\ Len(b) = 1 /\ d.amqp = "tuned" /\ d.broker # "await" /\ Without(w, Tunes)

Loops(w) == {r \in [buffer : Seq(Pieces), d : MemberSet] : LoopInv(r.buffer, w, r.d)}

-----------------------------------------------------------------------------
(* The loop of feed(). *)

\* The turns of the loop, one after the other.
IsRun(t, r, n) == t = [i \in 0 .. n |-> IF i = 0 THEN r ELSE FeedTurn(t[i - 1])]

\* A run of any length exists.
LEMMA RunsExist ==
  ASSUME NEW r, NEW n \in Nat
  PROVE  \E t : IsRun(t, r, n)
<1>. DEFINE S == {m \in Nat : \E t : IsRun(t, r, m)}
<1>1. 0 \in S
  <2>. DEFINE t == [i \in 0 .. 0 |-> r]
  <2>1. t = [i \in 0 .. 0 |-> IF i = 0 THEN r ELSE FeedTurn(t[i - 1])]
    OBVIOUS
  <2>2. IsRun(t, r, 0)
    BY <2>1 DEF IsRun
  <2>. QED
    BY <2>2
<1>2. ASSUME NEW m \in Nat, m \in S PROVE m + 1 \in S
  <2>1. PICK t : IsRun(t, r, m)
    BY <1>2
  <2>. DEFINE u == [i \in 0 .. m + 1 |-> IF i = m + 1 THEN FeedTurn(t[m]) ELSE t[i]]
  <2>2. \A i \in 0 .. m : u[i] = t[i]
    OBVIOUS
  <2>3. ASSUME NEW i \in 0 .. m + 1
        PROVE  u[i] = IF i = 0 THEN r ELSE FeedTurn(u[i - 1])
    <3>1. CASE i = m + 1
      BY <3>1, <2>2
    <3>2. CASE i \in 0 .. m
      <4>1. t[i] = IF i = 0 THEN r ELSE FeedTurn(t[i - 1])
        BY <3>2, <2>1 DEF IsRun
      <4>2. i # 0 => i - 1 \in 0 .. m
        BY <3>2
      <4>. QED
        BY <3>2, <4>1, <4>2, <2>2
    <3>. QED
      BY <3>1, <3>2
  <2>4. u = [i \in 0 .. m + 1 |-> u[i]]
    OBVIOUS
  <2>5. u = [i \in 0 .. m + 1 |-> IF i = 0 THEN r ELSE FeedTurn(u[i - 1])]
    BY <2>3, <2>4
  <2>6. IsRun(u, r, m + 1)
    BY <2>5 DEF IsRun
  <2>. QED
    BY <2>6
<1>. HIDE DEF S
<1>3. n \in S
  BY <1>1, <1>2, Induction
<1>. QED
  BY <1>3 DEF S

\* FeedTurns is the end of a run.
LEMMA TurnsAreRun ==
  ASSUME NEW r, NEW n \in Nat
  PROVE  \E t : /\ FeedTurns(r, n) = t[n] /\ t[0] = r
                /\ \A i \in 0 .. n - 1 : t[i + 1] = FeedTurn(t[i])
<1>. DEFINE t == CHOOSE u : u = [i \in 0 .. n |-> IF i = 0 THEN r ELSE FeedTurn(u[i - 1])]
<1>1. t = [i \in 0 .. n |-> IF i = 0 THEN r ELSE FeedTurn(t[i - 1])]
  BY RunsExist DEF IsRun
<1>2. FeedTurns(r, n) = t[n]
  BY DEF FeedTurns
<1>. HIDE DEF t
<1>3. t[0] = r
  BY <1>1
<1>4. ASSUME NEW i \in 0 .. n - 1 PROVE t[i + 1] = FeedTurn(t[i])
  <2>1. i + 1 \in 0 .. n /\ i + 1 # 0 /\ (i + 1) - 1 = i
    OBVIOUS
  <2>. QED
    BY <1>1, <2>1
<1>. QED
  BY <1>2, <1>3, <1>4

\* What every turn preserves, the loop preserves.
LEMMA LoopPreserves ==
  ASSUME NEW S, NEW r \in S, \A x \in S : FeedTurn(x) \in S, NEW n \in Nat
  PROVE  FeedTurns(r, n) \in S
<1>1. PICK t : /\ FeedTurns(r, n) = t[n] /\ t[0] = r
               /\ \A i \in 0 .. n - 1 : t[i + 1] = FeedTurn(t[i])
  BY TurnsAreRun
<1>. DEFINE N == {i \in Nat : i <= n => t[i] \in S}
<1>2. 0 \in N
  BY <1>1
<1>3. ASSUME NEW i \in Nat, i \in N PROVE i + 1 \in N
  <2>. SUFFICES ASSUME i + 1 <= n PROVE t[i + 1] \in S
    OBVIOUS
  <2>1. i \in 0 .. n - 1 /\ t[i] \in S
    BY <1>3
  <2>. QED
    BY <2>1, <1>1
<1>. HIDE DEF N
<1>4. n \in N
  BY <1>2, <1>3, Induction
<1>. QED
  BY <1>1, <1>4 DEF N

\* A parser that has taken all the pieces, or has failed, takes no more.
LEMMA LastTurn ==
  ASSUME NEW r \in [buffer : Seq(Pieces), d : MemberSet],
         r.buffer = <<>> \/ r.d.amqp \in {"none", "broken"}
  PROVE  FeedTurn(r) = r
<1>1. CASE r.d.amqp \in {"none", "broken"}
  BY <1>1 DEF FeedTurn
<1>2. CASE r.buffer = <<>>
  <2>1. Head1(r.buffer) = "Nothing"
    BY <1>2 DEF Head1
  <2>. QED
    BY <2>1, Zenon DEF FeedTurn
<1>. QED
  BY <1>1, <1>2

\* The three things a turn can do: nothing; take the frame at the head, which is at
\* least one piece; give up.
LEMMA TurnCases ==
  ASSUME NEW r \in [buffer : Seq(Pieces), d : MemberSet],
         NEW b, b = r.buffer, NEW t, t = FeedTurn(r)
  PROVE  \/ t = r
         \/ /\ r.d.amqp \notin {"none", "broken"} /\ b # <<>> /\ b[1] # Garbage
            /\ \E n \in 1 .. Len(b) :
                 t = [buffer |-> SubSeq(b, n + 1, Len(b)), d |-> Handle(r.d, b[1])]
         \/ /\ r.d.amqp \notin {"none", "broken"} /\ b # <<>>
            /\ t = [buffer |-> IF keeps THEN <<Garbage>> ELSE <<>>,
                    d |-> [FailPending(r.d) EXCEPT !.amqp = "broken"]]
<1>. DEFINE size == FrameSize(b[1].kind)
<1>1. size \in Nat \ {0}
  BY MqConnectionAssumption DEF FrameSize
<1>2. CASE r.d.amqp \in {"none", "broken"}
  BY <1>2 DEF FeedTurn
<1>3. CASE r.d.amqp \notin {"none", "broken"} /\ Head1(b) = "Complete"
  <2>1. b # <<>> /\ b[1] # Garbage /\ ~(Len(b) < size)
    BY <1>3 DEF Head1
  <2>2. size \in 1 .. Len(b)
    BY <1>1, <2>1
  <2>3. t = [buffer |-> SubSeq(b, size + 1, Len(b)), d |-> Handle(r.d, b[1])]
    BY <1>3 DEF FeedTurn
  <2>. QED
    BY <1>3, <2>1, <2>2, <2>3
<1>4. CASE r.d.amqp \notin {"none", "broken"} /\ Head1(b) = "Malformed"
  <2>1. b # <<>>
    BY <1>4 DEF Head1
  <2>2. t = [buffer |-> IF keeps THEN <<Garbage>> ELSE <<>>,
             d |-> [FailPending(r.d) EXCEPT !.amqp = "broken"]]
    BY <1>4 DEF FeedTurn
  <2>. QED
    BY <1>4, <2>1, <2>2
<1>5. CASE r.d.amqp \notin {"none", "broken"} /\ Head1(b) \notin {"Complete", "Malformed"}
  BY <1>5 DEF FeedTurn
<1>. QED
  BY <1>2, <1>3, <1>4, <1>5

\* A report, seen from the driver: nothing is awaited afterwards; an awaited attempt
\* becomes a connection or a retry, and any other report changes nothing.
LEMMA ReportedFacts ==
  ASSUME NEW c \in ConnectionStates, Ready(c), NEW b \in BOOLEAN, NEW t, t = Report(c, b)
  PROVE  /\ t \in ConnectionStates /\ Ready(t) /\ ~t.awaiting
         /\ c.awaiting /\ b = TRUE => t.connected /\ t.rearm = 0
         /\ c.awaiting /\ b = FALSE => /\ ~t.connected /\ (t.heartbeat <=> c.heartbeat)
         /\ ~c.awaiting => /\ t.connected <=> c.connected
                           /\ t.heartbeat <=> c.heartbeat
                           /\ t.rearm = c.rearm
<1>. DEFINE u == ReportPendingConnectResult(c, b)
<1>1. /\ u \in ConnectionStates /\ Ready(u) /\ ~u.awaiting
      /\ c.awaiting /\ b => u.connected /\ u.rearm = 0
      /\ c.awaiting /\ ~b => /\ ~u.connected /\ (u.heartbeat <=> c.heartbeat)
      /\ ~c.awaiting => u = c
  <2>1. CASE ~c.awaiting
    BY <2>1, ReportIgnored
  <2>2. CASE c.awaiting /\ b
    <3>1. c.async /\ b = TRUE
      BY <2>2 DEF Ready
    <3>. QED
      BY <2>2, <3>1, ReportSuccessFacts
  <2>3. CASE c.awaiting /\ ~b
    <3>1. c.async /\ b = FALSE
      BY <2>3 DEF Ready
    <3>. QED
      BY <2>3, <3>1, ReportFailureFacts
  <2>. QED
    BY <2>1, <2>2, <2>3
<1>. HIDE DEF u
<1>2. t = [u EXCEPT !.failures = IF @ > 4 THEN 4 ELSE @]
  BY DEF Report, Saturate, u
<1>. QED
  BY <1>1, <1>2 DEF ConnectionStates, Ready

\* A failure that ends the attempt there was.
LEMMA FailPendingFacts ==
  ASSUME NEW d \in MemberSet, AttemptInv(d), NEW e, e = FailPending(d)
  PROVE  /\ e \in MemberSet /\ AttemptInv(e) /\ ~e.pending /\ ~e.beat
         /\ e.amqp = d.amqp /\ e.broker = d.broker
         /\ e.cs.connected <=> d.cs.connected
<1>. DEFINE c == Report(d.cs, FALSE)
<1>1. d.cs \in ConnectionStates /\ Ready(d.cs) /\ FALSE \in BOOLEAN
  BY DEF MemberSet, AttemptInv
<1>2. /\ c \in ConnectionStates /\ Ready(c) /\ ~c.awaiting
      /\ d.cs.awaiting => /\ ~c.connected /\ (c.heartbeat <=> d.cs.heartbeat)
  BY <1>1, ReportedFacts
<1>3. /\ e = [d EXCEPT !.pending = FALSE, !.beat = FALSE,
                       !.cs = IF d.pending THEN c ELSE d.cs]
  BY DEF FailPending, MemberSet
<1>. HIDE DEF c
<1>. QED
  BY <1>1, <1>2, <1>3 DEF MemberSet, AttemptInv

\* What is left when the first n pieces are taken.
LEMMA RestOf ==
  ASSUME NEW b \in Seq(Pieces), NEW n \in 1 .. Len(b), NEW s, s = SubSeq(b, n + 1, Len(b))
  PROVE  /\ s \in Seq(Pieces) /\ Len(s) = Len(b) - n
         /\ \A i \in 1 .. Len(s) : s[i] = b[i + n] /\ i + n \in 1 .. Len(b)
<1>1. \A i \in n + 1 .. Len(b) : b[i] \in Pieces
  BY ElementOfSeq
<1>2. /\ s \in Seq(Pieces)
      /\ Len(s) = IF n + 1 <= Len(b) THEN Len(b) - (n + 1) + 1 ELSE 0
      /\ \A i \in 1 .. Len(b) - (n + 1) + 1 : s[i] = b[(n + 1) + i - 1]
  BY <1>1, SubSeqProperties
<1>3. Len(s) = Len(b) - n
  BY <1>2
<1>4. ASSUME NEW i \in 1 .. Len(s) PROVE s[i] = b[i + n] /\ i + n \in 1 .. Len(b)
  BY <1>2, <1>3
<1>. QED
  BY <1>2, <1>3, <1>4

\* The callbacks keep the driver and its state object together.
LEMMA HandleFacts ==
  ASSUME NEW d \in MemberSet, AttemptInv(d), NEW f \in Pieces, f # Garbage,
         NEW e, e = Handle(d, f)
  PROVE  /\ e \in MemberSet /\ AttemptInv(e)
         /\ f.kind \in Tunes =>
              /\ e.amqp = "tuned" /\ e.cs = d.cs
              /\ e.broker = IF f.old THEN "offended"
                            ELSE IF d.broker = "await" THEN "open" ELSE d.broker
         /\ f.kind = "openOk" =>
              /\ e.amqp = "ready" /\ e.broker = d.broker
              /\ e.cs.rearm # 0 => d.cs.rearm # 0
         /\ f.kind = "close" =>
              /\ e.amqp = "broken" /\ ~e.beat /\ e.broker \in {"offended", "closed"}
         /\ f.kind = "data" => e = d
<1>1. f.kind \in Kinds
  BY DEF Pieces, Kinds
<1>2. CASE f.kind \in Tunes
  <2>1. e = [d EXCEPT !.amqp = "tuned", !.beat = (f.kind = "tune"),
                      !.broker = IF f.old THEN "offended"
                                 ELSE IF d.broker = "await" THEN "open" ELSE d.broker]
    BY <1>2 DEF Handle, Tunes, MemberSet
  <2>. QED
    BY <1>2, <2>1 DEF MemberSet, AttemptInv, Tunes
<1>3. CASE f.kind = "openOk"
  <2>. DEFINE c == Report(d.cs, TRUE)
  <2>1. d.cs \in ConnectionStates /\ Ready(d.cs) /\ TRUE \in BOOLEAN
    BY DEF MemberSet, AttemptInv
  <2>2. /\ c \in ConnectionStates /\ Ready(c) /\ ~c.awaiting
        /\ d.cs.awaiting => c.connected /\ c.rearm = 0
        /\ ~d.cs.awaiting => /\ c.connected <=> d.cs.connected
                             /\ c.heartbeat <=> d.cs.heartbeat
                             /\ c.rearm = d.cs.rearm
    BY <2>1, ReportedFacts
  <2>3. e = [d EXCEPT !.amqp = "ready", !.pending = FALSE, !.cs = c]
    BY <1>3 DEF Handle, MemberSet
  <2>. HIDE DEF c
  <2>. QED
    BY <1>3, <2>1, <2>2, <2>3 DEF MemberSet, AttemptInv, Tunes
<1>4. CASE f.kind = "close"
  <2>. DEFINE g == FailPending(d)
  <2>1. g \in MemberSet /\ AttemptInv(g) /\ ~g.beat
    BY FailPendingFacts
  <2>2. e = [g EXCEPT !.amqp = "broken",
                      !.broker = IF f.old THEN "offended" ELSE "closed"]
    BY <1>4 DEF Handle
  <2>. HIDE DEF g
  <2>. QED
    BY <1>4, <2>1, <2>2 DEF MemberSet, AttemptInv, Tunes
<1>5. CASE f.kind = "data"
  BY <1>5 DEF Handle, Tunes
<1>. QED
  BY <1>1, <1>2, <1>3, <1>4, <1>5 DEF Kinds, Tunes

\* A buffer and members as they can be met in the loop.
LoopStates == {r \in [buffer : Seq(Pieces), d : MemberSet] : AttemptInv(r.d)}

\* A turn leaves such a state, and gives up or is idle or makes the buffer shorter.
LEMMA TurnFacts ==
  ASSUME NEW r \in LoopStates, NEW t, t = FeedTurn(r)
  PROVE  /\ t \in LoopStates
         /\ t = r \/ t.d.amqp = "broken" \/ Len(t.buffer) < Len(r.buffer)
<1>. DEFINE b == r.buffer
            d == r.d
<1>1. /\ r \in [buffer : Seq(Pieces), d : MemberSet]
      /\ b \in Seq(Pieces) /\ d \in MemberSet /\ AttemptInv(d)
  BY DEF LoopStates
<1>2. CASE t = r
  BY <1>2
<1>3. ASSUME b # <<>>, b[1] # Garbage, NEW n \in 1 .. Len(b),
             t = [buffer |-> SubSeq(b, n + 1, Len(b)), d |-> Handle(d, b[1])]
      PROVE  t \in LoopStates /\ Len(t.buffer) < Len(b)
  <2>1. b[1] \in Pieces
    BY <1>1, <1>3, ElementOfSeq
  <2>2. Handle(d, b[1]) \in MemberSet /\ AttemptInv(Handle(d, b[1]))
    BY <1>1, <1>3, <2>1, HandleFacts
  <2>3. SubSeq(b, n + 1, Len(b)) \in Seq(Pieces) /\ Len(SubSeq(b, n + 1, Len(b))) = Len(b) - n
    BY <1>1, <1>3, RestOf
  <2>4. Len(t.buffer) < Len(b)
    BY <1>1, <1>3, <2>3
  <2>. QED
    BY <1>3, <2>2, <2>3, <2>4 DEF LoopStates
<1>4. ASSUME t = [buffer |-> IF keeps THEN <<Garbage>> ELSE <<>>,
                  d |-> [FailPending(d) EXCEPT !.amqp = "broken"]]
      PROVE  t \in LoopStates /\ t.d.amqp = "broken"
  <2>. DEFINE g == FailPending(d)
  <2>1. g \in MemberSet /\ AttemptInv(g)
    BY <1>1, FailPendingFacts
  <2>2. (IF keeps THEN <<Garbage>> ELSE <<>>) \in Seq(Pieces)
    BY DEF Pieces
  <2>. HIDE DEF g
  <2>3. [g EXCEPT !.amqp = "broken"] \in MemberSet /\ AttemptInv([g EXCEPT !.amqp = "broken"])
    BY <2>1 DEF MemberSet, AttemptInv
  <2>4. t.buffer \in Seq(Pieces) /\ t.d = [g EXCEPT !.amqp = "broken"]
    BY <1>4, <2>2 DEF g
  <2>5. t \in [buffer : Seq(Pieces), d : MemberSet]
    BY <1>4, <2>2, <2>3 DEF g
  <2>6. t.d.amqp = "broken"
    BY <2>1, <2>4 DEF MemberSet
  <2>. QED
    BY <2>3, <2>4, <2>5, <2>6 DEF LoopStates
<1>. HIDE DEF b, d
<1>5. \/ t = r
      \/ /\ b # <<>> /\ b[1] # Garbage
         /\ \E n \in 1 .. Len(b) :
              t = [buffer |-> SubSeq(b, n + 1, Len(b)), d |-> Handle(d, b[1])]
      \/ t = [buffer |-> IF keeps THEN <<Garbage>> ELSE <<>>,
              d |-> [FailPending(d) EXCEPT !.amqp = "broken"]]
  BY <1>1, TurnCases DEF b, d
<1>6. t \in LoopStates /\ (t = r \/ t.d.amqp = "broken" \/ Len(t.buffer) < Len(b))
  BY <1>2, <1>3, <1>4, <1>5
<1>. QED
  BY <1>6 DEF b

\* As many turns as there are pieces are enough: the loop of the model ends where
\* parse() takes no more, which is where the loop of feed() ends.
THEOREM FeedTakesAll ==
  ASSUME NEW r \in LoopStates, NEW e, e = FeedTurns(r, Len(r.buffer))
  PROVE  FeedTurn(e) = e
<1>. DEFINE n == Len(r.buffer)
<1>1. n \in Nat
  BY DEF LoopStates
<1>2. PICK t : /\ e = t[n] /\ t[0] = r
               /\ \A i \in 0 .. n - 1 : t[i + 1] = FeedTurn(t[i])
  BY <1>1, TurnsAreRun
<1>. DEFINE N == {i \in Nat : i <= n => /\ t[i] \in LoopStates
                                        /\ FeedTurn(t[i]) = t[i] \/ Len(t[i].buffer) <= n - i}
<1>3. 0 \in N
  BY <1>1, <1>2
<1>4. ASSUME NEW i \in Nat, i \in N PROVE i + 1 \in N
  <2>. DEFINE x == t[i]
              y == FeedTurn(x)
  <2>. SUFFICES ASSUME i + 1 <= n
                PROVE  y \in LoopStates /\ (FeedTurn(y) = y \/ Len(y.buffer) <= n - (i + 1))
    <3>1. i + 1 <= n => i \in 0 .. n - 1
      BY <1>1
    <3>. QED
      BY <1>2, <3>1
  <2>1. x \in LoopStates /\ (y = x \/ Len(x.buffer) <= n - i)
    BY <1>1, <1>4
  <2>2. y \in LoopStates /\ (y = x \/ y.d.amqp = "broken" \/ Len(y.buffer) < Len(x.buffer))
    BY <2>1, TurnFacts
  <2>3. Len(x.buffer) \in Nat /\ Len(y.buffer) \in Nat
    BY <2>1, <2>2 DEF LoopStates
  <2>4. CASE y = x
    BY <2>2, <2>4
  <2>5. CASE y.d.amqp = "broken"
    BY <2>2, <2>5, LastTurn DEF LoopStates
  <2>6. CASE y # x /\ Len(y.buffer) < Len(x.buffer)
    BY <1>1, <2>1, <2>2, <2>3, <2>6
  <2>. QED
    BY <2>2, <2>4, <2>5, <2>6
<1>. HIDE DEF N
<1>5. n \in N
  BY <1>1, <1>3, <1>4, Induction
<1>6. e \in LoopStates /\ (FeedTurn(e) = e \/ Len(e.buffer) <= 0)
  BY <1>1, <1>2, <1>5 DEF N
<1>7. CASE Len(e.buffer) <= 0
  <2>1. e.buffer = <<>>
    BY <1>6, <1>7, EmptySeq DEF LoopStates
  <2>. QED
    BY <1>6, <2>1, LastTurn DEF LoopStates
<1>. QED
  BY <1>6, <1>7

-----------------------------------------------------------------------------
(* The login. *)

\* Whatever the turn finds at the head of the buffer, the login keeps its order.
LEMMA TurnPreservesLoopInv ==
  ASSUME NEW w \in Seq(Pieces), NEW r \in Loops(w)
  PROVE  FeedTurn(r) \in Loops(w)
<1>. DEFINE b == r.buffer
            d == r.d
            t == FeedTurn(r)
<1>1. /\ r \in [buffer : Seq(Pieces), d : MemberSet]
      /\ b \in Seq(Pieces) /\ d \in MemberSet /\ LoopInv(b, w, d)
  BY DEF Loops
<1>2. t \in [buffer : Seq(Pieces), d : MemberSet] /\ AttemptInv(t.d)
  <2>1. r \in LoopStates
    BY <1>1 DEF LoopStates, LoopInv
  <2>. QED
    BY <2>1, TurnFacts DEF LoopStates
<1>3. CASE t = r
  BY <1>3
<1>4. ASSUME d.amqp \notin {"none", "broken"}, b # <<>>, b[1] # Garbage, NEW n \in 1 .. Len(b),
             t = [buffer |-> SubSeq(b, n + 1, Len(b)), d |-> Handle(d, b[1])]
      PROVE  LoopInv(t.buffer, w, t.d)
  <2>. DEFINE f == b[1]
              s == SubSeq(b, n + 1, Len(b))
              e == Handle(d, f)
  <2>1. f \in Pieces /\ f # Garbage /\ Len(b) \in Nat /\ 1 \in 1 .. Len(b)
    BY <1>1, <1>4, ElementOfSeq
  <2>2. /\ s \in Seq(Pieces) /\ Len(s) = Len(b) - n
        /\ \A i \in 1 .. Len(s) : s[i] = b[i + n] /\ i + n \in 1 .. Len(b)
    BY <1>1, <1>4, RestOf
  <2>3. /\ Len(s) \in Nat /\ Len(s) < Len(b)
        /\ \A K : Without(b, K) => Without(s, K)
        /\ AllOld(b) => AllOld(s)
        /\ OldButLast(b) => OldButLast(s)
        /\ OldButLast(b) /\ ~f.old => Len(s) = 0
        /\ Len(b) = 1 => Without(s, {"openOk"})
    <3>1. Len(s) \in Nat /\ Len(s) < Len(b)
      BY <2>1, <2>2
    <3>2. \A K : Without(b, K) => Without(s, K)
      BY <2>2 DEF Without
    <3>3. AllOld(b) => AllOld(s)
      BY <2>2 DEF AllOld
    <3>4. ASSUME OldButLast(b), NEW i \in 1 .. Len(s) - 1 PROVE s[i].old
      <4>1. i \in 1 .. Len(s) /\ i + n \in 1 .. Len(b) - 1
        BY <2>1, <2>2, <3>1, <1>4
      <4>. QED
        BY <3>4, <4>1, <2>2 DEF OldButLast
    <3>5. ASSUME OldButLast(b), ~f.old PROVE Len(s) = 0
      <4>1. ~(1 \in 1 .. Len(b) - 1)
        BY <3>5 DEF OldButLast
      <4>. QED
        BY <2>1, <3>1, <4>1
    <3>6. Len(b) = 1 => Without(s, {"openOk"})
      BY <3>1 DEF Without
    <3>. QED
      BY <3>1, <3>2, <3>3, <3>4, <3>5, <3>6 DEF OldButLast
  <2>4. /\ e \in MemberSet /\ AttemptInv(e)
        /\ f.kind \in Tunes =>
             /\ e.amqp = "tuned" /\ e.cs = d.cs
             /\ e.broker = IF f.old THEN "offended"
                           ELSE IF d.broker = "await" THEN "open" ELSE d.broker
        /\ f.kind = "openOk" =>
             /\ e.amqp = "ready" /\ e.broker = d.broker
             /\ e.cs.rearm # 0 => d.cs.rearm # 0
        /\ f.kind = "close" =>
             /\ e.amqp = "broken" /\ ~e.beat /\ e.broker \in {"offended", "closed"}
        /\ f.kind = "data" => e = d
    <3>1. AttemptInv(d) /\ d \in MemberSet
      BY <1>1 DEF LoopInv
    <3>. QED
      BY <3>1, <2>1, HandleFacts
  <2>5. f.kind \in Tunes \cup {"openOk", "close", "data"}
    BY <2>1 DEF Pieces, Kinds
  <2>6. /\ LoginInv(d) /\ StreamInv(b, w, d) /\ d.broker \notin {"off", "greet"}
        /\ \/ Without(b, {"openOk"})
           \/ /\ Len(b) = 1 /\ d.amqp = "tuned" /\ d.broker # "await" /\ Without(w, Tunes)
    BY <1>1 DEF LoopInv
  <2>7. t.buffer = s /\ t.d = e
    BY <1>4
  <2>8. Len(s) = 0 => s = <<>>
    BY <2>2, EmptySeq
  <2>9. d.broker # "open"
    BY <1>4, <2>6 DEF StreamInv
  <2>. HIDE DEF s, e, f, t
  <2>10. CASE f.kind \in Tunes
    <3>1. d.amqp # "ready"
      <4>1. ~Without(b, Tunes)
        BY <2>1, <2>10 DEF Without, f
      <4>. QED
        BY <2>6, <4>1 DEF StreamInv
    <3>2. LoginInv(e)
      BY <1>4, <2>4, <2>6, <2>10, <3>1 DEF LoginInv
    <3>3. e.broker = "open" => s = <<>> /\ w = <<>>
      <4>1. e.broker = "open" => ~f.old /\ d.broker = "await"
        BY <2>4, <2>9, <2>10
      <4>2. ~f.old => ~AllOld(b)
        BY <2>1 DEF AllOld, f
      <4>. QED
        BY <2>3, <2>6, <2>8, <4>1, <4>2 DEF StreamInv
    <3>4. StreamInv(s, w, e)
      BY <2>4, <2>6, <2>10, <3>3 DEF StreamInv
    <3>5. Without(s, {"openOk"}) /\ e.broker \notin {"off", "greet"}
      BY <2>3, <2>4, <2>6, <2>10
    <3>. QED
      BY <2>4, <2>7, <3>2, <3>4, <3>5 DEF LoopInv
  <2>11. CASE f.kind = "openOk"
    <3>1. ~Without(b, {"openOk"})
      BY <2>1, <2>11 DEF Without, f
    <3>2. Len(b) = 1 /\ d.amqp = "tuned" /\ d.broker # "await" /\ Without(w, Tunes)
      BY <2>6, <3>1
    <3>3. LoginInv(e)
      BY <2>4, <2>6, <2>11, <3>2 DEF LoginInv
    <3>4. Without(s, Tunes) /\ Without(s, {"openOk"})
      BY <2>3, <3>2 DEF Without
    <3>5. StreamInv(s, w, e)
      BY <2>4, <2>6, <2>9, <2>11, <3>2, <3>4 DEF StreamInv
    <3>. QED
      BY <2>4, <2>6, <2>7, <2>11, <3>3, <3>4, <3>5 DEF LoopInv
  <2>12. CASE f.kind = "close"
    <3>. QED
      BY <2>3, <2>4, <2>6, <2>7, <2>12 DEF LoopInv, LoginInv, StreamInv
  <2>13. CASE f.kind = "data"
    <3>. QED
      BY <1>4, <2>3, <2>4, <2>6, <2>7, <2>8, <2>9, <2>13 DEF LoopInv, LoginInv, StreamInv
  <2>. QED
    BY <2>5, <2>10, <2>11, <2>12, <2>13
<1>5. ASSUME d.amqp \notin {"none", "broken"}, b # <<>>,
             t = [buffer |-> IF keeps THEN <<Garbage>> ELSE <<>>,
                  d |-> [FailPending(d) EXCEPT !.amqp = "broken"]]
      PROVE  LoopInv(t.buffer, w, t.d)
  <2>. DEFINE g == FailPending(d)
              e == [g EXCEPT !.amqp = "broken"]
              s == IF keeps THEN <<Garbage>> ELSE <<>>
  <2>1. /\ d \in MemberSet /\ AttemptInv(d) /\ StreamInv(b, w, d)
        /\ d.broker \notin {"off", "greet"}
    BY <1>1 DEF LoopInv
  <2>2. g \in MemberSet /\ ~g.beat /\ g.broker = d.broker
    BY <2>1, FailPendingFacts
  <2>3. t.buffer = s /\ t.d = e
    BY <1>5
  <2>. HIDE DEF g
  <2>4. e.amqp = "broken" /\ ~e.beat /\ e.broker = d.broker
    BY <2>2 DEF MemberSet
  <2>5. Len(s) \in {0, 1} /\ (\A i \in 1 .. Len(s) : s[i] = Garbage)
    OBVIOUS
  <2>. HIDE DEF s, e, t
  <2>6. AllOld(s) /\ OldButLast(s) /\ Without(s, {"openOk"})
    BY <2>5 DEF AllOld, OldButLast, Without, Garbage
  <2>7. LoginInv(e)
    BY <2>4 DEF LoginInv
  <2>8. StreamInv(s, w, e)
    BY <1>5, <2>1, <2>4, <2>6 DEF StreamInv
  <2>. QED
    BY <1>2, <2>1, <2>3, <2>4, <2>6, <2>7, <2>8 DEF LoopInv
<1>. HIDE DEF b, d, t
<1>6. \/ t = r
      \/ /\ d.amqp \notin {"none", "broken"} /\ b # <<>> /\ b[1] # Garbage
         /\ \E n \in 1 .. Len(b) :
              t = [buffer |-> SubSeq(b, n + 1, Len(b)), d |-> Handle(d, b[1])]
      \/ /\ d.amqp \notin {"none", "broken"} /\ b # <<>>
         /\ t = [buffer |-> IF keeps THEN <<Garbage>> ELSE <<>>,
                 d |-> [FailPending(d) EXCEPT !.amqp = "broken"]]
  BY <1>1, TurnCases DEF b, d, t
<1>7. CASE t # r
  <2>1. LoopInv(t.buffer, w, t.d)
    BY <1>4, <1>5, <1>6, <1>7
  <2>. QED
    BY <1>2, <2>1 DEF Loops, t
<1>. QED
  BY <1>3, <1>7 DEF t

\* Nothing is left of a single piece that is a whole frame.
LEMMA SinglePieceIsTaken ==
  ASSUME NEW r \in [buffer : Seq(Pieces), d : MemberSet], Len(r.buffer) = 1,
         r.buffer[1].kind # "data", r.d.amqp \notin {"none", "broken"},
         NEW e, e = FeedTurns(r, 1)
  PROVE  Without(e.buffer, {"openOk"})
<1>. DEFINE b == r.buffer
<1>1. PICK t : /\ e = t[1] /\ t[0] = r
               /\ \A i \in 0 .. 1 - 1 : t[i + 1] = FeedTurn(t[i])
  BY TurnsAreRun
<1>2. e = FeedTurn(r)
  BY <1>1
<1>3. b # <<>> /\ ~(Len(b) < FrameSize(b[1].kind)) /\ FrameSize(b[1].kind) = 1
  BY EmptySeq DEF FrameSize
<1>4. Head1(b) \in {"Complete", "Malformed"}
  BY <1>3 DEF Head1
<1>5. e.buffer \in {SubSeq(b, 2, 1), <<Garbage>>, <<>>}
  <2>1. CASE Head1(b) = "Complete"
    BY <1>2, <1>3, <2>1 DEF FeedTurn
  <2>2. CASE Head1(b) = "Malformed"
    BY <1>2, <2>2 DEF FeedTurn
  <2>. QED
    BY <1>4, <2>1, <2>2
<1>6. SubSeq(b, 2, 1) = <<>>
  BY SubSeqEmpty
<1>. QED
  BY <1>5, <1>6 DEF Without, Garbage

\* A turn brings no piece into the buffer but what stands for lost bytes.
LEMMA TurnAddsNoOpen ==
  ASSUME NEW r \in [buffer : Seq(Pieces), d : MemberSet], Without(r.buffer, {"openOk"})
  PROVE  Without(FeedTurn(r).buffer, {"openOk"})
<1>. DEFINE b == r.buffer
            t == FeedTurn(r)
<1>1. CASE t = r
  BY <1>1
<1>2. ASSUME NEW n \in 1 .. Len(b), t = [buffer |-> SubSeq(b, n + 1, Len(b)), d |-> Handle(r.d, b[1])]
      PROVE  Without(t.buffer, {"openOk"})
  <2>1. \A i \in 1 .. Len(t.buffer) : t.buffer[i] = b[i + n] /\ i + n \in 1 .. Len(b)
    BY <1>2, RestOf
  <2>. QED
    BY <2>1 DEF Without
<1>3. ASSUME t = [buffer |-> IF keeps THEN <<Garbage>> ELSE <<>>,
                  d |-> [FailPending(r.d) EXCEPT !.amqp = "broken"]]
      PROVE  Without(t.buffer, {"openOk"})
  BY <1>3 DEF Without, Garbage
<1>. HIDE DEF t
<1>. QED
  BY <1>1, <1>2, <1>3, TurnCases DEF t

\* The members of the driver after a handler has set them.
LEMMA MembersAreSet ==
  ASSUME NEW d \in MemberSet, SetMembers(d)
  PROVE  Members' = d
  BY DEF SetMembers, Members, MemberSet

\* A sequence of pieces in front of another.
LEMMA Joined ==
  ASSUME NEW s \in Seq(Pieces), NEW u \in Seq(Pieces)
  PROVE  /\ s \o u \in Seq(Pieces) /\ Len(s \o u) = Len(s) + Len(u)
         /\ \A K : Without(s \o u, K) <=> Without(s, K) /\ Without(u, K)
<1>1. /\ s \o u \in Seq(Pieces) /\ Len(s \o u) = Len(s) + Len(u)
      /\ \A i \in 1 .. Len(s) + Len(u) :
           (s \o u)[i] = IF i <= Len(s) THEN s[i] ELSE u[i - Len(s)]
  BY ConcatProperties
<1>2. Len(s) \in Nat /\ Len(u) \in Nat
  OBVIOUS
<1>3. ASSUME NEW K, Without(s \o u, K) PROVE Without(s, K) /\ Without(u, K)
  <2>1. ASSUME NEW i \in 1 .. Len(s) PROVE s[i].kind \notin K
    <3>1. i \in 1 .. Len(s) + Len(u) /\ (s \o u)[i] = s[i]
      BY <1>1, <1>2
    <3>. QED
      BY <1>1, <1>3, <3>1 DEF Without
  <2>2. ASSUME NEW i \in 1 .. Len(u) PROVE u[i].kind \notin K
    <3>1. i + Len(s) \in 1 .. Len(s) + Len(u) /\ (s \o u)[i + Len(s)] = u[i]
      BY <1>1, <1>2
    <3>. QED
      BY <1>1, <1>3, <3>1 DEF Without
  <2>. QED
    BY <2>1, <2>2 DEF Without
<1>4. ASSUME NEW K, Without(s, K), Without(u, K) PROVE Without(s \o u, K)
  BY <1>1, <1>2, <1>4 DEF Without
<1>. QED
  BY <1>1, <1>3, <1>4

\* The pieces of a frame are pieces of that frame.
LEMMA FrameFacts ==
  ASSUME NEW kind \in Kinds
  PROVE  /\ Frame(kind) \in Seq(Pieces) /\ Len(Frame(kind)) = FrameSize(kind)
         /\ kind # "data" => FrameSize(kind) = 1
         /\ \A i \in 1 .. Len(Frame(kind)) : Frame(kind)[i].kind = kind
         /\ \A K : kind \notin K => Without(Frame(kind), K)
<1>1. FrameSize(kind) \in Nat /\ (kind # "data" => FrameSize(kind) = 1)
  BY MqConnectionAssumption DEF FrameSize
<1>2. \A i \in 1 .. FrameSize(kind) : Piece(kind, i) \in Pieces /\ Piece(kind, i).kind = kind
  BY <1>1 DEF Piece, Pieces
<1>3. Frame(kind) \in [1 .. FrameSize(kind) -> Pieces]
  BY <1>2 DEF Frame
<1>4. Frame(kind) \in Seq(Pieces) /\ Len(Frame(kind)) = FrameSize(kind)
  BY <1>1, <1>3
<1>. QED
  BY <1>1, <1>2, <1>4 DEF Frame, Without

\* readSocket(): what has arrived is fed to the parser, to the end of the loop.
LEMMA ReadPreservesLinkInv ==
  ASSUME LinkInv, ReadSocket
  PROVE  LinkInv'
<1>. DEFINE p == Head(inbound)
            w == Tail(inbound)
            b == AppendTo(buffer, <<p>>)
            r == [buffer |-> b, d |-> Members]
            e == FeedTurns(r, Len(b))
<1>1. /\ inbound # <<>> /\ socket = "connected" /\ broker # "off"
      /\ LoginInv(Members) /\ StreamInv(buffer, inbound, Members) /\ OpenIsNext
      /\ AttemptInv(Members) /\ Without(buffer, {"openOk"})
  BY DEF LinkInv, ReadSocket
<1>2. /\ inbound \in Seq(Pieces) /\ buffer \in Seq(Pieces) /\ Members \in MemberSet
  BY DEF LinkInv, TypeOK
<1>3. /\ p \in Pieces /\ w \in Seq(Pieces) /\ p = inbound[1]
      /\ Len(w) = Len(inbound) - 1 /\ Len(inbound) \in Nat \ {0}
      /\ \A i \in 1 .. Len(w) : w[i] = inbound[i + 1]
  <2>1. /\ Len(inbound) \in Nat \ {0}
    BY <1>1, <1>2, EmptySeq
  <2>. QED
    BY <1>1, <1>2, <2>1, HeadTailProperties, ElementOfSeq
<1>4. ASSUME NEW K, Without(inbound, K) PROVE p.kind \notin K /\ Without(w, K)
  <2>1. 1 \in 1 .. Len(inbound) /\ \A i \in 1 .. Len(w) : i + 1 \in 1 .. Len(inbound)
    BY <1>3
  <2>. QED
    BY <1>3, <1>4, <2>1 DEF Without
<1>5. <<p>> \in Seq(Pieces) /\ Len(<<p>>) = 1 /\ <<p>>[1] = p
  BY <1>3
<1>. HIDE DEF p, w
<1>6. /\ b \in Seq(Pieces) /\ Len(b) \in Nat
      /\ \A K : Without(buffer, K) /\ p.kind \notin K => Without(b, K)
      /\ AllOld(buffer) => OldButLast(b)
      /\ buffer = <<>> => b = <<p>>
  <2>1. CASE buffer # <<>> /\ buffer[1] = Garbage
    <3>1. b = buffer
      BY <2>1 DEF AppendTo
    <3>. QED
      BY <1>2, <2>1, <3>1 DEF AllOld, OldButLast
  <2>2. CASE ~(buffer # <<>> /\ buffer[1] = Garbage)
    <3>1. b = buffer \o <<p>>
      BY <2>2 DEF AppendTo
    <3>2. /\ buffer \o <<p>> \in Seq(Pieces) /\ Len(buffer \o <<p>>) = Len(buffer) + 1
          /\ \A K : Without(buffer \o <<p>>, K) <=> Without(buffer, K) /\ Without(<<p>>, K)
      BY <1>2, <1>5, Joined
    <3>3. \A i \in 1 .. Len(buffer) : (buffer \o <<p>>)[i] = buffer[i]
      BY <1>2, <1>5, ConcatProperties
    <3>4. \A K : p.kind \notin K => Without(<<p>>, K)
      BY <1>5 DEF Without
    <3>5. AllOld(buffer) => OldButLast(buffer \o <<p>>)
      BY <1>2, <3>2, <3>3 DEF AllOld, OldButLast
    <3>6. buffer = <<>> => buffer \o <<p>> = <<p>>
      BY <1>5, ConcatEmptySeq
    <3>7. \A K : Without(buffer, K) /\ p.kind \notin K => Without(b, K)
      BY <3>1, <3>2, <3>4
    <3>8. b \in Seq(Pieces) /\ Len(b) \in Nat
      BY <3>1, <3>2
    <3>. QED
      BY <3>1, <3>5, <3>6, <3>7, <3>8
  <2>. QED
    BY <2>1, <2>2
<1>. HIDE DEF b
<1>7. /\ Without(w, {"openOk"}) 
      /\ \/ p.kind # "openOk"
         \/ /\ p.kind = "openOk" /\ buffer = <<>> /\ Members.amqp = "tuned"
            /\ Members.broker # "await" /\ Without(w, Tunes)
  <2>1. CASE Without(inbound, {"openOk"})
    BY <1>4, <2>1
  <2>2. CASE ~Without(inbound, {"openOk"})
    <3>1. /\ Without(w, Tunes \cup {"openOk"}) /\ p.kind = "openOk"
          /\ buffer = <<>> /\ Members.amqp = "tuned" /\ Members.broker # "await"
      BY <1>1, <1>3, <2>2 DEF OpenIsNext, w, Members
    <3>. QED
      BY <3>1 DEF Without
  <2>. QED
    BY <2>1, <2>2
<1>8. StreamInv(b, w, Members) /\ Members.broker \notin {"off", "greet"}
  <2>1. Members.broker # "greet" /\ Members.broker # "open" /\ Members.broker # "off"
    BY <1>1 DEF StreamInv, Members
  <2>2. Members.amqp = "ready" => Without(b, Tunes) /\ Without(w, Tunes)
    BY <1>1, <1>4, <1>6 DEF StreamInv
  <2>3. Members.broker = "await" =>
          Members.amqp # "ready" /\ Len(w) <= 1 /\ OldButLast(b) /\ w = <<>>
    <3>1. Members.broker = "await" => Len(w) = 0 /\ AllOld(buffer) /\ Members.amqp # "ready"
      BY <1>1, <1>3 DEF StreamInv
    <3>2. Len(w) = 0 => w = <<>>
      BY <1>3, EmptySeq
    <3>. QED
      BY <1>6, <3>1, <3>2
  <2>. QED
    BY <2>1, <2>2, <2>3 DEF StreamInv
<1>9. \/ Without(b, {"openOk"})
      \/ /\ Len(b) = 1 /\ Members.amqp = "tuned" /\ Members.broker # "await"
         /\ Without(w, Tunes)
  BY <1>1, <1>5, <1>6, <1>7
<1>10. r \in Loops(w) /\ r \in [buffer : Seq(Pieces), d : MemberSet]
  BY <1>1, <1>2, <1>6, <1>8, <1>9 DEF Loops, LoopInv
<1>11. e \in Loops(w)
  <2>. HIDE DEF r
  <2>. QED
    BY <1>3, <1>6, <1>10, TurnPreservesLoopInv, LoopPreserves
<1>12. Without(e.buffer, {"openOk"})
  <2>1. CASE p.kind = "openOk"
    <3>1. b = <<p>> /\ Len(b) = 1 /\ b[1] = p
      BY <1>5, <1>6, <1>7, <2>1
    <3>2. /\ r.buffer = b /\ r.d = Members
          /\ Members.amqp = "tuned" /\ e = FeedTurns(r, 1)
      BY <1>7, <2>1, <3>1
    <3>. HIDE DEF r, e
    <3>. QED
      BY <1>10, <2>1, <3>1, <3>2, SinglePieceIsTaken
  <2>2. CASE p.kind # "openOk"
    <3>. DEFINE S == {x \in Loops(w) : Without(x.buffer, {"openOk"})}
    <3>1. Without(b, {"openOk"})
      BY <1>1, <1>6, <2>2
    <3>2. r \in S
      BY <1>10, <3>1
    <3>3. \A x \in S : FeedTurn(x) \in S
      BY <1>3, TurnPreservesLoopInv, TurnAddsNoOpen DEF Loops
    <3>. HIDE DEF S, r
    <3>4. e \in S
      BY <1>6, <3>2, <3>3, LoopPreserves
    <3>. QED
      BY <3>4 DEF S
  <2>. QED
    BY <2>1, <2>2
<1>13. /\ e.buffer \in Seq(Pieces) /\ e.d \in MemberSet /\ AttemptInv(e.d) /\ LoginInv(e.d)
       /\ StreamInv(e.buffer, w, e.d) /\ e.d.broker # "off"
  BY <1>11 DEF Loops, LoopInv
<1>14. /\ inbound' = w /\ buffer' = e.buffer /\ SetMembers(e.d)
       /\ socket' = socket /\ faults' = faults /\ keeps' = keeps
  BY DEF ReadSocket, Feed, w, b, p
<1>. HIDE DEF e
<1>15. Members' = e.d /\ broker' = e.d.broker
  BY <1>13, <1>14, MembersAreSet DEF SetMembers
<1>16. TypeOK'
  BY <1>3, <1>13, <1>14, <1>15 DEF LinkInv, TypeOK
<1>17. OpenIsNext'
  BY <1>7, <1>14 DEF OpenIsNext
<1>. QED
  BY <1>1, <1>12, <1>13, <1>14, <1>15, <1>16, <1>17 DEF LinkInv

\* What is read stays read when the link goes, with its kinds.
LEMMA HangupFacts ==
  ASSUME TypeOK, Hangup
  PROVE  /\ inbound' = <<>> /\ buffer' \in Seq(Pieces) /\ AllOld(buffer')
         /\ Len(buffer') = Len(buffer)
         /\ \A K : Without(buffer, K) => Without(buffer', K)
<1>1. buffer \in Seq(Pieces) /\ DOMAIN buffer = 1 .. Len(buffer) /\ Len(buffer) \in Nat
  BY DEF TypeOK
<1>2. \A i \in 1 .. Len(buffer) :
        /\ [buffer[i] EXCEPT !.old = TRUE] \in Pieces
        /\ [buffer[i] EXCEPT !.old = TRUE].old
        /\ [buffer[i] EXCEPT !.old = TRUE].kind = buffer[i].kind
  <2>. SUFFICES ASSUME NEW p \in Pieces
                PROVE  /\ [p EXCEPT !.old = TRUE] \in Pieces
                       /\ [p EXCEPT !.old = TRUE].old
                       /\ [p EXCEPT !.old = TRUE].kind = p.kind
    BY <1>1, ElementOfSeq
  <2>1. CASE p \in [kind : Kinds, no : Nat, old : BOOLEAN]
    BY <2>1 DEF Pieces
  <2>2. CASE p = Garbage
    <3>1. p \in [kind : {"garbage"}, no : {1}, old : {TRUE}]
      BY <2>2 DEF Garbage
    <3>2. [p EXCEPT !.old = TRUE] \in [kind : {"garbage"}, no : {1}, old : {TRUE}]
      BY <3>1
    <3>3. [p EXCEPT !.old = TRUE] = p
      BY <3>1, <3>2
    <3>. QED
      BY <2>2, <3>1, <3>3
  <2>. QED
    BY <2>1, <2>2 DEF Pieces
<1>3. buffer' = [i \in 1 .. Len(buffer) |-> [buffer[i] EXCEPT !.old = TRUE]]
  BY <1>1 DEF Hangup
<1>4. buffer' \in Seq(Pieces) /\ Len(buffer') = Len(buffer)
  BY <1>1, <1>2, <1>3
<1>. QED
  BY <1>2, <1>3, <1>4 DEF Hangup, AllOld, Without

\* The object is constructed and dials.
LEMMA InitEstablishesLinkInv == Init => LinkInv
<1>. SUFFICES ASSUME Init PROVE LinkInv
  OBVIOUS
<1>1. /\ cs \in ConnectionStates /\ Ready(cs) /\ cs.awaiting /\ cs.rearm = 0
      /\ ~cs.connected /\ ~cs.heartbeat
  BY FreshFacts, BeginAutoConnectFacts DEF Init
<1>2. /\ Members.cs = cs /\ Members.pending = TRUE /\ Members.beat = FALSE
      /\ Members \in MemberSet
  BY <1>1 DEF Init, Members, MemberSet
<1>3. AttemptInv(Members)
  BY <1>1, <1>2 DEF AttemptInv
<1>4. TypeOK
  BY <1>2, EmptySeq DEF Init, TypeOK
<1>. QED
  BY <1>3, <1>4 DEF Init, LinkInv, Without, AllOld

\* The timers of the state object.
LEMMA TimersPreserveLinkInv ==
  ASSUME LinkInv, HeartbeatTick \/ ReconnectTick
  PROVE  LinkInv'
<1>1. /\ cs \in ConnectionStates /\ Members \in MemberSet /\ AttemptInv(Members) /\ TypeOK
      /\ Members.cs = cs /\ Members.pending = pending /\ Members.amqp = amqp
      /\ Members.beat = beat /\ Members.broker = broker /\ Ready(cs)
  BY DEF LinkInv, TypeOK, MemberSet, Members, AttemptInv
<1>2. CASE HeartbeatTick
  <2>. DEFINE alive == socket = "connected"
  <2>1. alive \in BOOLEAN /\ cs' = OnHeartbeatTick(cs, alive)
    BY <1>2 DEF HeartbeatTick
  <2>2. CASE alive
    <3>1. cs' = cs
      BY <1>1, <2>1, <2>2, HeartbeatFacts
    <3>2. UNCHANGED vars
      BY <1>2, <3>1 DEF HeartbeatTick, vars, driver
    <3>. QED
      BY <3>2 DEF LinkInv, TypeOK, Members, OpenIsNext, vars, driver
  <2>3. CASE ~alive
    <3>1. /\ cs' \in ConnectionStates /\ ~cs'.connected /\ ~cs'.heartbeat
          /\ (cs'.awaiting <=> cs.awaiting) /\ Ready(cs')
      BY <1>1, <2>1, <2>3, HeartbeatFacts
    <3>2. /\ Members' = [Members EXCEPT !.cs = cs'] /\ UNCHANGED <<socket, pending, beat, buffer, inbound, broker, faults, keeps>>
      BY <1>2 DEF HeartbeatTick, Members
    <3>3. ~cs.awaiting
      BY <1>1, <1>2 DEF HeartbeatTick, AttemptInv
    <3>4. Members' \in MemberSet /\ AttemptInv(Members')
      BY <1>1, <3>1, <3>2, <3>3 DEF MemberSet, AttemptInv
    <3>5. TypeOK'
      BY <1>1, <3>2, <3>4 DEF TypeOK
    <3>. QED
      BY <2>3, <3>2, <3>4, <3>5 DEF LinkInv
  <2>. QED
    BY <2>2, <2>3
<1>3. CASE ReconnectTick
  <2>1. /\ cs.rearm # 0 /\ cs' = OnReconnectTick(cs, TRUE) /\ pending' = TRUE
        /\ socket' = "connecting" /\ Hangup /\ broker' = "off"
        /\ UNCHANGED <<amqp, beat, faults, keeps>>
    BY <1>3 DEF ReconnectTick
  <2>2. /\ cs' \in ConnectionStates /\ cs'.awaiting /\ cs'.rearm = 0
        /\ (cs'.connected <=> cs.connected) /\ (cs'.heartbeat <=> cs.heartbeat) /\ Ready(cs')
    BY <1>1, <2>1, ReconnectFacts DEF SameLink
  <2>3. Members' = [cs |-> cs', pending |-> TRUE, amqp |-> amqp, beat |-> beat, broker |-> "off"]
    BY <2>1 DEF Members
  <2>4. ~cs.connected /\ ~cs.heartbeat
    BY <1>1, <2>1 DEF AttemptInv
  <2>5. Members' \in MemberSet /\ AttemptInv(Members')
    BY <1>1, <2>2, <2>3, <2>4 DEF MemberSet, AttemptInv
  <2>6. ~beat
    BY <1>1, <2>1 DEF LinkInv, LoginInv
  <2>7. /\ inbound' = <<>> /\ buffer' \in Seq(Pieces) /\ Without(buffer', {"openOk"})
        /\ AllOld(buffer')
    BY <1>1, <2>1, HangupFacts DEF LinkInv
  <2>8. TypeOK'
    BY <1>1, <2>1, <2>5, <2>7, EmptySeq DEF TypeOK
  <2>. QED
    BY <2>1, <2>5, <2>6, <2>7, <2>8 DEF LinkInv
<1>. QED
  BY <1>2, <1>3

\* The socket's signals.
LEMMA SocketPreservesLinkInv ==
  ASSUME LinkInv, SocketConnected \/ (SocketError /\ faults' \in Nat /\ keeps' = keeps)
  PROVE  LinkInv'
<1>1. /\ Members \in MemberSet /\ AttemptInv(Members) /\ TypeOK
      /\ Members.cs = cs /\ Members.pending = pending /\ Members.amqp = amqp
      /\ Members.beat = beat /\ Members.broker = broker
  BY DEF LinkInv, TypeOK, MemberSet, Members
<1>2. CASE SocketConnected
  <2>1. /\ socket = "connecting" /\ socket' = "connected" /\ amqp' = "shaking"
        /\ broker' = "greet" /\ UNCHANGED <<cs, pending, beat, buffer, inbound, faults, keeps>>
    BY <1>2 DEF SocketConnected
  <2>2. Members' = [cs |-> cs, pending |-> pending, amqp |-> "shaking", beat |-> beat,
                    broker |-> "greet"]
    BY <2>1 DEF Members
  <2>3. Members' \in MemberSet /\ AttemptInv(Members')
    BY <1>1, <2>2 DEF MemberSet, AttemptInv
  <2>4. pending /\ inbound = <<>> /\ ~beat /\ ~cs.connected /\ cs.rearm = 0
    BY <1>1, <2>1 DEF LinkInv, AttemptInv
  <2>5. LoginInv(Members')
    BY <1>1, <2>2, <2>4 DEF LoginInv, MemberSet
  <2>6. AllOld(buffer) /\ Without(buffer, {"openOk"})
    BY <2>1 DEF LinkInv
  <2>7. StreamInv(buffer', inbound', Members')
    BY <2>1, <2>2, <2>4, <2>6 DEF StreamInv
  <2>8. OpenIsNext'
    BY <2>1, <2>4 DEF OpenIsNext, Without
  <2>9. TypeOK'
    BY <1>1, <2>1, <2>3 DEF TypeOK
  <2>. QED
    BY <2>1, <2>3, <2>4, <2>5, <2>6, <2>7, <2>8, <2>9 DEF LinkInv
<1>3. CASE SocketError /\ faults' \in Nat /\ keeps' = keeps
  <2>. DEFINE g == FailPending(Members)
              d == [g EXCEPT !.broker = "off"]
  <2>1. socket' = "idle" /\ Hangup /\ SetMembers(d)
    BY <1>3 DEF SocketError
  <2>2. g \in MemberSet /\ AttemptInv(g) /\ ~g.pending /\ ~g.beat
    BY <1>1, FailPendingFacts
  <2>. HIDE DEF g
  <2>3. d \in MemberSet /\ AttemptInv(d) /\ ~d.pending /\ ~d.beat /\ d.broker = "off"
    BY <2>2 DEF MemberSet, AttemptInv
  <2>. HIDE DEF d
  <2>4. /\ Members' = d /\ pending' = d.pending /\ beat' = d.beat /\ broker' = d.broker
    BY <2>1, <2>3, MembersAreSet DEF SetMembers
  <2>5. /\ inbound' = <<>> /\ buffer' \in Seq(Pieces) /\ Without(buffer', {"openOk"})
        /\ AllOld(buffer')
    BY <1>1, <2>1, HangupFacts DEF LinkInv
  <2>6. TypeOK'
    BY <1>1, <1>3, <2>1, <2>3, <2>4, <2>5, EmptySeq DEF TypeOK
  <2>. QED
    BY <2>1, <2>3, <2>4, <2>5, <2>6 DEF LinkInv
<1>. QED
  BY <1>2, <1>3

\* The broker sends a frame, or nothing any more.
LEMMA BrokerPreservesLinkInv ==
  ASSUME LinkInv, BrokerStep
  PROVE  LinkInv'
<1>1. /\ Members \in MemberSet /\ AttemptInv(Members) /\ TypeOK
      /\ Members.cs = cs /\ Members.pending = pending /\ Members.amqp = amqp
      /\ Members.beat = beat /\ Members.broker = broker
      /\ inbound \in Seq(Pieces) /\ buffer \in Seq(Pieces)
  BY DEF LinkInv, TypeOK, MemberSet, Members
<1>2. socket = "connected"
  BY DEF LinkInv, BrokerStep, BrokerLogsIn, BrokerDelivers, BrokerCloses, BrokerFallsSilent
<1>3. LoginInv(Members) /\ StreamInv(buffer, inbound, Members) /\ OpenIsNext
  BY <1>2 DEF LinkInv
<1>4. ASSUME NEW next \in {"await", "up", "mute"}, broker' = next, faults' \in Nat,
             UNCHANGED <<socket, driver, buffer, keeps>>, inbound' \in Seq(Pieces),
             StreamInv(buffer, inbound', [Members EXCEPT !.broker = next]), OpenIsNext'
      PROVE  LinkInv'
  <2>1. Members' = [Members EXCEPT !.broker = next] /\ UNCHANGED <<pending, beat>>
    BY <1>4 DEF Members, driver
  <2>2. Members' \in MemberSet /\ AttemptInv(Members') /\ LoginInv(Members')
    BY <1>1, <1>3, <2>1 DEF MemberSet, AttemptInv, LoginInv
  <2>3. TypeOK'
    BY <1>1, <1>4, <2>2 DEF TypeOK
  <2>. QED
    BY <1>2, <1>4, <2>1, <2>2, <2>3 DEF LinkInv
<1>5. faults' \in Nat
  BY <1>1 DEF TypeOK, BrokerStep, BrokerLogsIn, BrokerDelivers, BrokerCloses,
              BrokerFallsSilent, Blame
\* A frame that is neither part of the login goes to the end of what is under way.
<1>6. ASSUME NEW kind \in {"data", "close"}, NEW next \in {"up", "mute"}, BrokerSends(kind, next)
      PROVE  LinkInv'
  <2>. DEFINE f == Frame(kind)
  <2>1. /\ inbound' = inbound \o f /\ broker' = next
        /\ UNCHANGED <<socket, driver, buffer, keeps>>
    BY <1>6 DEF BrokerSends
  <2>2. f \in Seq(Pieces) /\ \A K : kind \notin K => Without(f, K)
    BY FrameFacts DEF Kinds
  <2>3. Without(f, Tunes) /\ Without(f, {"openOk"}) /\ Without(f, Tunes \cup {"openOk"})
    BY <2>2 DEF Tunes
  <2>. HIDE DEF f
  <2>4. /\ inbound' \in Seq(Pieces)
        /\ \A K : Without(inbound, K) /\ Without(f, K) => Without(inbound', K)
    BY <1>1, <2>1, <2>2, Joined
  <2>5. StreamInv(buffer, inbound', [Members EXCEPT !.broker = next])
    BY <1>1, <1>3, <2>3, <2>4 DEF StreamInv, MemberSet
  <2>6. OpenIsNext'
    <3>1. CASE Without(inbound, {"openOk"})
      BY <2>3, <2>4, <3>1 DEF OpenIsNext
    <3>2. CASE ~Without(inbound, {"openOk"})
      <4>1. /\ inbound # <<>> /\ Without(Tail(inbound), Tunes \cup {"openOk"})
            /\ buffer = <<>> /\ amqp = "tuned" /\ inbound[1].kind = "openOk"
        BY <1>3, <3>2 DEF OpenIsNext
      <4>2. /\ Tail(inbound) \in Seq(Pieces) /\ Len(inbound) \in Nat \ {0}
        BY <1>1, <4>1, HeadTailProperties, EmptySeq
      <4>3. inbound' # <<>> /\ inbound'[1] = inbound[1] /\ Tail(inbound') = Tail(inbound) \o f
        BY <1>1, <2>1, <2>2, <4>1, <4>2
      <4>4. Without(Tail(inbound'), Tunes \cup {"openOk"})
        BY <2>2, <2>3, <4>1, <4>2, <4>3, Joined
      <4>. QED
        BY <2>1, <4>1, <4>3, <4>4 DEF OpenIsNext, driver
    <3>. QED
      BY <3>1, <3>2
  <2>. QED
    BY <1>4, <1>5, <2>1, <2>4, <2>5, <2>6
\* The first frame of the login finds a link on which nothing has come yet.
<1>7. ASSUME NEW kind \in Tunes, broker = "greet", BrokerSends(kind, "await")
      PROVE  LinkInv'
  <2>1. inbound = <<>> /\ amqp = "shaking" /\ AllOld(buffer)
    BY <1>1, <1>3, <1>7 DEF StreamInv
  <2>2. /\ Frame(kind) \in Seq(Pieces) /\ Len(Frame(kind)) = 1
        /\ Without(Frame(kind), {"openOk"})
    <3>1. kind \in Kinds /\ kind # "data" /\ kind \notin {"openOk"}
      BY DEF Kinds, Tunes
    <3>. QED
      BY <3>1, FrameFacts
  <2>3. /\ inbound' = Frame(kind) /\ broker' = "await"
        /\ UNCHANGED <<socket, driver, buffer, keeps>>
    BY <1>7, <2>1, <2>2 DEF BrokerSends
  <2>4. StreamInv(buffer, inbound', [Members EXCEPT !.broker = "await"])
    <3>. DEFINE d == [Members EXCEPT !.broker = "await"]
    <3>1. d.broker = "await" /\ d.amqp = "shaking"
      BY <1>1, <2>1 DEF MemberSet
    <3>2. OldButLast(buffer) /\ Len(inbound') = 1
      BY <1>1, <2>1, <2>2, <2>3 DEF AllOld, OldButLast
    <3>. HIDE DEF d
    <3>3. StreamInv(buffer, inbound', d)
      BY <2>1, <3>1, <3>2 DEF StreamInv
    <3>. QED
      BY <3>3 DEF d
  <2>5. OpenIsNext'
    BY <2>2, <2>3 DEF OpenIsNext
  <2>. QED
    BY <1>4, <1>5, <2>2, <2>3, <2>4, <2>5
\* The last finds a parser that has answered the first, and no more to take.
<1>8. ASSUME broker = "open", BrokerSends("openOk", "up")
      PROVE  LinkInv'
  <2>1. inbound = <<>> /\ amqp = "tuned" /\ buffer = <<>>
    BY <1>1, <1>3, <1>8 DEF StreamInv
  <2>2. /\ Frame("openOk") \in Seq(Pieces) /\ Len(Frame("openOk")) = 1
        /\ Frame("openOk")[1].kind = "openOk"
    BY FrameFacts DEF Kinds
  <2>3. /\ inbound' = Frame("openOk") /\ broker' = "up"
        /\ UNCHANGED <<socket, driver, buffer, keeps>>
    BY <1>8, <2>1, <2>2 DEF BrokerSends
  <2>4. StreamInv(buffer, inbound', [Members EXCEPT !.broker = "up"])
    BY <1>1, <2>1 DEF StreamInv, MemberSet
  <2>5. inbound' # <<>> /\ Len(Tail(inbound')) = 0
    BY <2>2, <2>3, EmptySeq
  <2>6. OpenIsNext'
    BY <2>1, <2>2, <2>3, <2>5 DEF OpenIsNext, Without, driver
  <2>. QED
    BY <1>4, <1>5, <2>2, <2>3, <2>4, <2>6
<1>9. CASE BrokerFallsSilent
  <2>1. broker' = "mute" /\ UNCHANGED <<socket, driver, buffer, inbound, keeps>>
    BY <1>9 DEF BrokerFallsSilent
  <2>2. StreamInv(buffer, inbound', [Members EXCEPT !.broker = "mute"])
    BY <1>1, <1>3, <2>1 DEF StreamInv, MemberSet
  <2>3. OpenIsNext'
    BY <1>3, <2>1 DEF OpenIsNext, driver
  <2>. QED
    BY <1>1, <1>4, <1>5, <2>1, <2>2, <2>3
<1>. QED
  BY <1>6, <1>7, <1>8, <1>9
  DEF BrokerStep, BrokerLogsIn, BrokerDelivers, BrokerCloses, Tunes

\* Every signal, timer, read and step of the broker keeps the login in order.
LEMMA StepPreservesLinkInv == LinkInv /\ [Next]_vars => LinkInv'
<1>. SUFFICES ASSUME LinkInv, [Next]_vars PROVE LinkInv'
  OBVIOUS
<1>1. CASE UNCHANGED vars
  BY <1>1 DEF LinkInv, TypeOK, Members, OpenIsNext, vars, driver
<1>2. CASE HeartbeatTick \/ ReconnectTick
  BY <1>2, TimersPreserveLinkInv
<1>3. CASE SocketConnected
  BY <1>3, SocketPreservesLinkInv
<1>4. CASE ReadSocket
  BY <1>4, ReadPreservesLinkInv
<1>5. CASE BrokerStep
  BY <1>5, BrokerPreservesLinkInv
<1>6. CASE BrokerHangsUp \/ LinkFails
  <2>1. SocketError /\ faults' \in Nat /\ keeps' = keeps
    BY <1>6 DEF BrokerHangsUp, LinkFails, Blame, LinkInv, TypeOK
  <2>. QED
    BY <2>1, SocketPreservesLinkInv
<1>. QED
  BY <1>1, <1>2, <1>3, <1>4, <1>5, <1>6 DEF Next

-----------------------------------------------------------------------------
\* The invariant holds in every environment.
THEOREM LinkInvariance == Spec => []LinkInv
<1>1. Init => LinkInv
  BY InitEstablishesLinkInv
<1>2. LinkInv /\ [Next]_vars => LinkInv'
  BY StepPreservesLinkInv
<1>. QED
  BY <1>1, <1>2, PTL DEF Spec

\* Whatever the state object awaits the driver will report, at every point of a login
\* where the link or the broker can fail.
THEOREM AttemptAlwaysAwaited == Spec => []AttemptIsAwaited
<1>1. LinkInv => AttemptIsAwaited
  BY DEF LinkInv, AttemptInv, Members, AttemptIsAwaited
<1>. QED
  BY <1>1, LinkInvariance, PTL

\* A connection that is shown has been logged in on this very link, and heartbeats
\* go out on none other, whatever older links have left in the buffer.
THEOREM ConnectedAlwaysLoggedIn == Spec => []ConnectedMeansLoggedIn
<1>1. LinkInv => ConnectedMeansLoggedIn
  BY DEF LinkInv, LoginInv, Members, ConnectedMeansLoggedIn, TypeOK, MemberSet
<1>. QED
  BY <1>1, LinkInvariance, PTL

=============================================================================
