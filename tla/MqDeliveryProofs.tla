--------------------------- MODULE MqDeliveryProofs ---------------------------
(***************************************************************************)
(* No message leaves the broker without a row in the store, for every set  *)
(* of messages, every prefetch window and every run of faults, provided    *)
(* the worker is idle whenever a connection is replaced.                   *)
(*                                                                         *)
(* A delivery tag is only a number.  The invariant says what each place    *)
(* that holds a tag (the two wires, the worker's queues, the service's     *)
(* sets) knows about the message the broker delivered under it.  What a    *)
(* place may hold is a set that depends on the broker and on the store;    *)
(* the operators of MqService are shown to stay inside such sets whatever  *)
(* they are, and each step to keep the sets honest.                        *)
(*                                                                         *)
(* The second half is about the consumer: the service's four flags follow  *)
(* the broker's consumer through requests, answers and the broker's own    *)
(* cancels that cross each other on the wires.  The invariant there says   *)
(* which frames are in flight for each position of the flags.              *)
(***************************************************************************)
EXTENDS MqDelivery, SequenceTheorems, FiniteSetTheorems, TLAPS

\* What the broker reads on the wire counts.
Live == conn = "up" /\ broker.open

\* Tags that may be acknowledged: what was delivered under them is stored.
StoredTags ==
  {t \in Nat : Live => /\ t < broker.nextTag
                       /\ \A p \in broker.unacked : p[1] = t => store[p[2]] # "absent"}

\* Tags that may be rejected: what was delivered under them cannot be decoded.
RefusedTags ==
  {t \in Nat : Live => /\ t < broker.nextTag
                       /\ \A p \in broker.unacked : p[1] = t => p[2] \in Undecodable}

\* Tag t was given to message m, or to nothing that is still unacknowledged.
Tagged(t, m) ==
  Live => /\ t < broker.nextTag
          /\ \A p \in broker.unacked : p[1] = t => p[2] = m

\* What may be on the wire to the broker, in the worker's queue, among its
\* results, and on the wire from the broker.
UpFrames ==
  {f \in Frames : /\ f.kind = "ack" => f.tag \in StoredTags
                  /\ f.kind = "reject" => f.tag \in RefusedTags
                  /\ f.kind = "publish" => f.msg \in Messages}

Jobs ==
  {f \in Frames : f.msg \in Messages /\ (f.kind = "insert" => Tagged(f.tag, f.msg))}

Results == {f \in Frames : f.msg \in Messages /\ f.tag \in StoredTags}

DownFrames ==
  {f \in Frames : /\ f.kind \in {"consumeOk", "cancelOk", "cancelled", "closed", "deliver"}
                  /\ f.kind = "deliver" => f.msg \in Messages /\ Tagged(f.tag, f.msg)}

\* The process, with committed deliveries from T, frames from U, jobs from J and
\* results from D.
Apps(T, U, J, D) ==
  [chan : Nat, open : BOOLEAN, paused : BOOLEAN, consuming : BOOLEAN,
   starting : BOOLEAN, cancelPending : BOOLEAN, tagged : BOOLEAN,
   pending : SUBSET Nat, committed : SUBSET T, ackId : SUBSET (Nat \X Messages),
   jobs : Seq(J), done : Seq(D), up : Seq(U)]

\* Besides, the committed deliveries are finitely many, pending, and have their
\* envelope at hand, one for each tag.
Within(a, T, U, J, D) ==
  /\ a \in Apps(T, U, J, D)
  /\ a.committed \subseteq a.pending /\ IsFiniteSet(a.committed)
  /\ \A t \in a.committed : \E p \in a.ackId : p[1] = t
  /\ \A p, q \in a.ackId : p[1] = q[1] => p = q

AppInv == Within(app, StoredTags, UpFrames, Jobs, Results)

Deliveries == SUBSET (Nat \X Messages)

Brokers ==
  [ready : SUBSET Messages, unacked : Deliveries, consumers : Nat,
   open : BOOLEAN, nextTag : Nat, acked : SUBSET Messages, rejected : SUBSET Messages]

\* The broker hands out each tag once per channel.
BrokerInv ==
  /\ broker \in Brokers
  /\ \A p \in broker.unacked : p[1] < broker.nextTag
  /\ \A p, q \in broker.unacked : p[1] = q[1] => p = q

\* Nothing of a lost connection is left once its loss was noticed.
DownIsQuiet ==
  conn = "down" => app.up = <<>> /\ down = <<>> /\ app.pending = {}

StoreInv ==
  /\ conn \in {"up", "broken", "down"} /\ epoch \in Nat
  /\ store \in [Messages -> {"absent", "sent", "received"}]
  /\ ackedRow \subseteq Messages

DeliveryInv ==
  /\ AppInv /\ BrokerInv /\ StoreInv /\ DownIsQuiet
  /\ down \in Seq(DownFrames)
  /\ AckedIsStored

-----------------------------------------------------------------------------
(* The operators of MqService, for any sets T, U, J and D. *)

\* A call may cancel or start the consumer, acknowledge a tag of T, and have any
\* message's row marked.
Closed(T, U, J) ==
  /\ T \subseteq Nat
  /\ \A t \in T : Frame("ack", t, NoMessage) \in U
  /\ Frame("consume", 0, NoMessage) \in U /\ Frame("cancel", 0, NoMessage) \in U
  /\ \A m \in Messages : Frame("markAcked", 0, m) \in J

\* A call adds no delivery, and writes nothing to a dead wire.
Calm(a, b, w) == b.pending \subseteq a.pending /\ (~w.live => b.up = a.up)

\* Writing a frame.
LEMMA SendFacts ==
  ASSUME NEW T, NEW U, NEW J, NEW D, NEW a, Within(a, T, U, J, D),
         NEW w, NEW f \in U, NEW b, b = Send(a, w, f)
  PROVE  /\ Within(b, T, U, J, D) /\ Calm(a, b, w)
         /\ b.pending = a.pending /\ b.committed = a.committed /\ b.ackId = a.ackId
<1>1. Append(a.up, f) \in Seq(U)
  BY AppendProperties DEF Within, Apps
<1>. QED
  BY <1>1 DEF Send, Within, Apps, Calm

\* Queueing a job.
LEMMA EnqueueFacts ==
  ASSUME NEW T, NEW U, NEW J, NEW D, NEW a, Within(a, T, U, J, D),
         NEW kind, NEW tag, NEW m, Frame(kind, tag, m) \in J,
         NEW b, b = Enqueue(a, kind, tag, m)
  PROVE  /\ Within(b, T, U, J, D)
         /\ b.pending = a.pending /\ b.up = a.up
<1>1. Append(a.jobs, Frame(kind, tag, m)) \in Seq(J)
  BY AppendProperties DEF Within, Apps
<1>. QED
  BY <1>1 DEF Enqueue, Within, Apps

\* ensureChannel() and startConsuming().
LEMMA StartConsumingFacts ==
  ASSUME NEW T, NEW U, NEW J, NEW D, Closed(T, U, J),
         NEW a, Within(a, T, U, J, D), NEW w, w.object \in Nat,
         NEW b, b = StartConsuming(a, w)
  PROVE  Within(b, T, U, J, D) /\ Calm(a, b, w)
<1>. PICK c : c = [EnsureChannel(a, w) EXCEPT !.starting = TRUE]
  OBVIOUS
<1>1. Within(c, T, U, J, D) /\ c.pending = a.pending /\ c.up = a.up
  BY DEF EnsureChannel, Within, Apps
<1>2. CASE b = a
  BY <1>2 DEF Calm
<1>3. CASE b = Send(c, w, Frame("consume", 0, NoMessage))
  <2>1. Frame("consume", 0, NoMessage) \in U
    BY DEF Closed
  <2>2. Within(b, T, U, J, D) /\ Calm(c, b, w)
    BY <1>1, <1>3, <2>1, SendFacts
  <2>. QED
    BY <1>1, <2>2 DEF Calm
<1>. QED
  BY <1>2, <1>3 DEF StartConsuming

\* cancelConsumer().
LEMMA CancelConsumerFacts ==
  ASSUME NEW T, NEW U, NEW J, NEW D, Closed(T, U, J),
         NEW a, Within(a, T, U, J, D), NEW w,
         NEW b, b = CancelConsumer(a, w)
  PROVE  Within(b, T, U, J, D) /\ Calm(a, b, w)
<1>. PICK c : c = [a EXCEPT !.cancelPending = TRUE]
  OBVIOUS
<1>1. Within(c, T, U, J, D) /\ c.pending = a.pending /\ c.up = a.up
  BY DEF Within, Apps
<1>2. CASE b = a
  BY <1>2 DEF Calm
<1>3. CASE b = Send(c, w, Frame("cancel", 0, NoMessage))
  <2>1. Frame("cancel", 0, NoMessage) \in U
    BY DEF Closed
  <2>2. Within(b, T, U, J, D) /\ Calm(c, b, w)
    BY <1>1, <1>3, <2>1, SendFacts
  <2>. QED
    BY <1>1, <2>2 DEF Calm
<1>. QED
  BY <1>2, <1>3 DEF CancelConsumer

\* A tag that has an entry gives an envelope id.
LEMMA EnvelopeIsMessage ==
  ASSUME NEW T, NEW U, NEW J, NEW D, NEW a, Within(a, T, U, J, D),
         NEW tag, \E p \in a.ackId : p[1] = tag
  PROVE  EnvelopeOf(a, tag) \in Messages
<1>1. (CHOOSE p \in a.ackId : p[1] = tag) \in a.ackId
  OBVIOUS
<1>. QED
  BY <1>1 DEF EnvelopeOf, Within, Apps

\* onDeliveryAcked(), for a delivery that is no longer committed.
LEMMA OnDeliveryAckedFacts ==
  ASSUME NEW T, NEW U, NEW J, NEW D, Closed(T, U, J),
         NEW a, Within(a, T, U, J, D), NEW tag, tag \notin a.committed,
         NEW b, b = OnDeliveryAcked(a, tag)
  PROVE  Within(b, T, U, J, D) /\ b.pending = a.pending /\ b.up = a.up
<1>a. PICK mine : mine = {p \in a.ackId : p[1] = tag}
  OBVIOUS
<1>b. PICK c : c = [a EXCEPT !.ackId = @ \ mine]
  OBVIOUS
<1>1. Within(c, T, U, J, D) /\ c.pending = a.pending /\ c.up = a.up
  BY <1>a, <1>b DEF Within, Apps
<1>2. CASE mine = {}
  BY <1>2, <1>a DEF OnDeliveryAcked
<1>3. CASE mine # {}
  <2>a. PICK m : m = EnvelopeOf(a, tag)
    OBVIOUS
  <2>1. m \in Messages
    BY <1>3, <1>a, <2>a, EnvelopeIsMessage
  <2>2. b = Enqueue(c, "markAcked", 0, m)
    BY <1>3, <1>a, <1>b, <2>a DEF OnDeliveryAcked
  <2>3. Frame("markAcked", 0, m) \in J
    BY <2>1 DEF Closed
  <2>4. Within(b, T, U, J, D) /\ b.pending = c.pending /\ b.up = c.up
    BY <1>1, <2>2, <2>3, EnqueueFacts
  <2>. QED
    BY <1>1, <2>4
<1>. QED
  BY <1>2, <1>3

\* confirmInserted(), for a tag whose message is stored and whose envelope the
\* tab remembers.
LEMMA ConfirmInsertedFacts ==
  ASSUME NEW T, NEW U, NEW J, NEW D, Closed(T, U, J),
         NEW a, Within(a, T, U, J, D), NEW w,
         NEW tag \in T, \E p \in a.ackId : p[1] = tag,
         NEW b, b = ConfirmInserted(a, w, tag)
  PROVE  Within(b, T, U, J, D) /\ Calm(a, b, w)
<1>a. PICK s : s = Send(a, w, Frame("ack", tag, NoMessage))
  OBVIOUS
<1>b. PICK c : c = [s EXCEPT !.committed = @ \ {tag}, !.pending = @ \ {tag}]
  OBVIOUS
<1>1. CASE b = a
  BY <1>1 DEF Calm
<1>2. CASE tag \in a.pending /\ b = [a EXCEPT !.committed = @ \cup {tag}]
  <2>1. IsFiniteSet(a.committed \cup {tag})
    BY FS_AddElement DEF Within
  <2>2. a \in Apps(T, U, J, D)
    BY DEF Within
  <2>3. a.committed \cup {tag} \in SUBSET T
    BY <2>2 DEF Apps
  <2>4. /\ b.pending = a.pending /\ b.committed = a.committed \cup {tag}
        /\ b.ackId = a.ackId /\ b.up = a.up
    BY <1>2, <2>2 DEF Apps
  <2>5. b \in Apps(T, U, J, D)
    BY <1>2, <2>2, <2>3 DEF Apps
  <2>. QED
    BY <1>2, <2>1, <2>4, <2>5 DEF Within, Calm
<1>3. CASE b = OnDeliveryAcked(c, tag)
  <2>0. Frame("ack", tag, NoMessage) \in U
    BY DEF Closed
  <2>1. /\ Within(s, T, U, J, D) /\ Calm(a, s, w)
        /\ s.pending = a.pending /\ s.committed = a.committed /\ s.ackId = a.ackId
    BY <1>a, <2>0, SendFacts
  <2>2. IsFiniteSet(s.committed \ {tag})
    BY <2>1, FS_Subset DEF Within
  <2>3. Within(c, T, U, J, D) /\ tag \notin c.committed /\ Calm(a, c, w)
    BY <1>b, <2>1, <2>2 DEF Within, Apps, Calm
  <2>4. Within(b, T, U, J, D) /\ b.pending = c.pending /\ b.up = c.up
    BY <1>3, <2>3, OnDeliveryAckedFacts
  <2>. QED
    BY <2>3, <2>4 DEF Calm
<1>. QED
  BY <1>1, <1>2, <1>3, <1>a, <1>b DEF ConfirmInserted

\* A sequence is a function from an interval.
LEMMA IntervalIsSeq ==
  ASSUME NEW S, NEW n \in Nat, NEW s \in [1 .. n -> S]
  PROVE  s \in Seq(S) /\ Len(s) = n
<1>1. s \in Seq(S)
  BY SeqDef
<1>. QED
  BY <1>1, LenProperties

\* An order of a finite set is a sequence of its elements.
LEMMA OrderIsSeq ==
  ASSUME NEW S, IsFiniteSet(S), NEW order \in SetToSeqs(S)
  PROVE  order \in Seq(S)
<1>1. Cardinality(S) \in Nat
  BY FS_CardinalityType
<1>2. order \in [1 .. Cardinality(S) -> S]
  BY DEF SetToSeqs
<1>. QED
  BY <1>1, <1>2, IntervalIsSeq

\* Appending to a concatenation appends to its second part.
LEMMA AppendToConcat ==
  \A S : \A s, t \in Seq(S), e \in S : s \o Append(t, e) = Append(s \o t, e)
<1>. SUFFICES ASSUME NEW S, NEW s \in Seq(S), NEW t \in Seq(S), NEW e \in S
              PROVE  s \o Append(t, e) = Append(s \o t, e)
  OBVIOUS
<1>1. <<e>> \in Seq(S) /\ s \o t \in Seq(S)
  BY ConcatProperties
<1>2. Append(t, e) = t \o <<e>> /\ Append(s \o t, e) = (s \o t) \o <<e>>
  BY <1>1, AppendIsConcat
<1>. QED
  BY <1>1, <1>2, ConcatAssociative

\* The acknowledgements and the jobs of the loop: their length and kind.
Acks(order) == [i \in DOMAIN order |-> Frame("ack", order[i], NoMessage)]

Marks(a, order) ==
  [i \in DOMAIN order |->
     Frame("markAcked", 0, EnvelopeOf(a, order[i]))]

\* The two queues after the loop, and a queue with one more element (named, so
\* that the provers take an equality of queues as it stands).
UpAfter(a, order) == a.up \o Acks(order)

JobsAfter(a, order) == a.jobs \o Marks(a, order)

Plus(s, e) == Append(s, e)

\* The loop writes acknowledgements and queues jobs, one for each tag.
LEMMA LoopFrames ==
  ASSUME NEW T, NEW U, NEW J, NEW D, Closed(T, U, J),
         NEW a, Within(a, T, U, J, D), NEW order \in Seq(a.committed)
  PROVE  /\ Acks(order) \in Seq(U) /\ Marks(a, order) \in Seq(J)
         /\ Len(Acks(order)) = Len(order) /\ Len(Marks(a, order)) = Len(order)
<1>a. PICK n \in Nat : /\ n = Len(order) /\ DOMAIN order = 1 .. n
                      /\ \A i \in 1 .. n : order[i] \in a.committed
  BY LenProperties
<1>1. \A i \in 1 .. n : order[i] \in T
  BY <1>a DEF Within, Apps
<1>2. Acks(order) \in [1 .. n -> U]
  BY <1>a, <1>1 DEF Closed, Acks
<1>3. \A i \in 1 .. n : EnvelopeOf(a, order[i]) \in Messages
  BY <1>a, EnvelopeIsMessage DEF Within
<1>4. Marks(a, order) \in [1 .. n -> J]
  BY <1>a, <1>3 DEF Closed, Marks
<1>. QED
  BY <1>2, <1>4, <1>a, IntervalIsSeq

\* The loop of pauseConsuming().
LEMMA ConfirmCommittedFacts ==
  ASSUME NEW T, NEW U, NEW J, NEW D, Closed(T, U, J),
         NEW a, Within(a, T, U, J, D), NEW w,
         NEW order \in Seq(a.committed),
         NEW b, b = ConfirmCommitted(a, w, order)
  PROVE  Within(b, T, U, J, D) /\ Calm(a, b, w)
<1>a. PICK acks, marks : acks = Acks(order) /\ marks = Marks(a, order)
  OBVIOUS
<1>b. PICK tags : tags = Range(order)
  OBVIOUS
<1>1. acks \in Seq(U)
  BY <1>a, LoopFrames
<1>2. marks \in Seq(J)
  BY <1>a, LoopFrames
<1>3. a.up \o acks \in Seq(U) /\ a.jobs \o marks \in Seq(J)
  BY <1>1, <1>2, ConcatProperties DEF Within, Apps
<1>4. IsFiniteSet(a.committed \ tags)
  BY FS_Subset DEF Within
<1>5. CASE b = a
  BY <1>5 DEF Calm
<1>6. CASE b = [a EXCEPT !.up = IF w.live /\ a.chan = w.object THEN @ \o acks ELSE @,
                         !.committed = @ \ tags, !.pending = @ \ tags,
                         !.ackId = {p \in @ : p[1] \notin tags},
                         !.jobs = @ \o marks]
  <2>0. a \in Apps(T, U, J, D)
    BY DEF Within
  <2>1. /\ b.up \in Seq(U) /\ (~w.live => b.up = a.up)
        /\ b.committed = a.committed \ tags /\ b.pending = a.pending \ tags
        /\ b.ackId = {p \in a.ackId : p[1] \notin tags}
        /\ b.jobs \in Seq(J)
    BY <1>3, <1>6, <2>0 DEF Apps
  <2>2. b \in Apps(T, U, J, D)
    <3>a. PICK u : u = IF w.live /\ a.chan = w.object THEN a.up \o acks ELSE a.up
      OBVIOUS
    <3>b. PICK k : k = {p \in a.ackId : p[1] \notin tags}
      OBVIOUS
    <3>c. PICK j : j = a.jobs \o marks
      OBVIOUS
    <3>1. /\ u \in Seq(U) /\ k \in SUBSET (Nat \X Messages) /\ j \in Seq(J)
          /\ a.committed \ tags \in SUBSET T /\ a.pending \ tags \in SUBSET Nat
      BY <1>3, <2>0, <3>a, <3>b, <3>c DEF Apps
    <3>2. b = [a EXCEPT !.up = u, !.committed = @ \ tags, !.pending = @ \ tags,
                        !.ackId = k, !.jobs = j]
      BY <1>6, <3>a, <3>b, <3>c
    <3>. QED
      BY <2>0, <3>1, <3>2 DEF Apps
  <2>3. \A t \in b.committed : \E p \in b.ackId : p[1] = t
    BY <2>1 DEF Within
  <2>4. \A p, q \in b.ackId : p[1] = q[1] => p = q
    BY <2>1 DEF Within
  <2>. QED
    BY <1>4, <2>1, <2>2, <2>3, <2>4 DEF Within, Calm
<1>. QED
  BY <1>5, <1>6, <1>a, <1>b DEF ConfirmCommitted, Acks, Marks

\* One more turn of the loop sends one more acknowledgement.
LEMMA AcksOneMore ==
  ASSUME NEW T, NEW U, NEW J, NEW D, Closed(T, U, J), NEW a, Within(a, T, U, J, D),
         NEW order \in Seq(a.committed), NEW tag \in a.committed
  PROVE  UpAfter(a, Append(order, tag)) = Plus(UpAfter(a, order), Frame("ack", tag, NoMessage))
<1>a. PICK n \in Nat : n = Len(order) /\ DOMAIN order = 1 .. n
  BY LenProperties
<1>b. PICK more : more = Append(order, tag)
  OBVIOUS
<1>c. PICK C, q : C = a.committed /\ q = a.up
  OBVIOUS
<1>d. PICK f : f = Frame("ack", tag, NoMessage)
  OBVIOUS
<1>0. /\ q \in Seq(U) /\ order \in Seq(C) /\ tag \in C /\ f \in U
      /\ \A t \in C : Frame("ack", t, NoMessage) \in U
  BY <1>c, <1>d DEF Within, Apps, Closed
<1>1. /\ DOMAIN more = 1 .. n + 1 /\ more[n + 1] = tag
      /\ \A i \in 1 .. n : more[i] = order[i] /\ order[i] \in C
  BY <1>0, <1>a, <1>b, AppendProperties, LenProperties
<1>2. Acks(order) \in [1 .. n -> U] /\ Acks(more) \in [1 .. n + 1 -> U]
  BY <1>0, <1>a, <1>1 DEF Acks
<1>e. PICK x, y : x = Acks(order) /\ y = Acks(more)
  OBVIOUS
<1>3. x \in Seq(U) /\ Len(x) = n /\ y \in Seq(U) /\ Len(y) = n + 1
  BY <1>2, <1>e, IntervalIsSeq
<1>4. \A i \in 1 .. n + 1 : y[i] = Append(x, f)[i]
  BY <1>0, <1>a, <1>d, <1>e, <1>1, <1>3, AppendProperties DEF Acks
<1>5. y = Append(x, f)
  BY <1>0, <1>3, <1>4, AppendProperties, SeqEqual
<1>6. q \o Append(x, f) = Append(q \o x, f)
  BY <1>0, <1>3, AppendToConcat
<1>. QED
  BY <1>b, <1>c, <1>d, <1>e, <1>5, <1>6 DEF UpAfter, Plus

\* And it queues one more job.
LEMMA MarksOneMore ==
  ASSUME NEW T, NEW U, NEW J, NEW D, Closed(T, U, J), NEW a, Within(a, T, U, J, D),
         NEW order \in Seq(a.committed), NEW tag \in a.committed
  PROVE  JobsAfter(a, Append(order, tag)) = Plus(JobsAfter(a, order), Frame("markAcked", 0, EnvelopeOf(a, tag)))
<1>a. PICK n \in Nat : n = Len(order) /\ DOMAIN order = 1 .. n
  BY LenProperties
<1>b. PICK more : more = Append(order, tag)
  OBVIOUS
<1>c. PICK C, q : C = a.committed /\ q = a.jobs
  OBVIOUS
<1>d. PICK f : f = Frame("markAcked", 0, EnvelopeOf(a, tag))
  OBVIOUS
<1>0. /\ q \in Seq(J) /\ order \in Seq(C) /\ tag \in C /\ f \in J
      /\ \A t \in C : Frame("markAcked", 0, EnvelopeOf(a, t)) \in J
  BY <1>c, <1>d, EnvelopeIsMessage DEF Within, Apps, Closed
<1>1. /\ DOMAIN more = 1 .. n + 1 /\ more[n + 1] = tag
      /\ \A i \in 1 .. n : more[i] = order[i] /\ order[i] \in C
  BY <1>0, <1>a, <1>b, AppendProperties, LenProperties
<1>2. Marks(a, order) \in [1 .. n -> J] /\ Marks(a, more) \in [1 .. n + 1 -> J]
  BY <1>0, <1>a, <1>1 DEF Marks
<1>e. PICK x, y : x = Marks(a, order) /\ y = Marks(a, more)
  OBVIOUS
<1>3. x \in Seq(J) /\ Len(x) = n /\ y \in Seq(J) /\ Len(y) = n + 1
  BY <1>2, <1>e, IntervalIsSeq
<1>4. \A i \in 1 .. n + 1 : y[i] = Append(x, f)[i]
  BY <1>0, <1>a, <1>d, <1>e, <1>1, <1>3, AppendProperties DEF Marks
<1>5. y = Append(x, f)
  BY <1>0, <1>3, <1>4, AppendProperties, SeqEqual
<1>6. q \o Append(x, f) = Append(q \o x, f)
  BY <1>0, <1>3, AppendToConcat
<1>. QED
  BY <1>b, <1>c, <1>d, <1>e, <1>5, <1>6 DEF JobsAfter, Plus

\* The loop, turn by turn: confirmInserted() of one more committed delivery takes
\* ConfirmCommitted of some of them to ConfirmCommitted of these and that one.
THEOREM LoopUnrolls ==
  ASSUME NEW T, NEW U, NEW J, NEW D, Closed(T, U, J),
         NEW a, Within(a, T, U, J, D), a.paused = FALSE, NEW w,
         NEW order \in Seq(a.committed), NEW tag \in a.committed,
         tag \notin Range(order)
  PROVE  ConfirmCommitted(a, w, Append(order, tag))
           = ConfirmInserted(ConfirmCommitted(a, w, order), w, tag)
<1>a. PICK b : b = ConfirmCommitted(a, w, order)
  OBVIOUS
<1>b. PICK c : c = ConfirmCommitted(a, w, Append(order, tag))
  OBVIOUS
<1>c. PICK d : d = ConfirmInserted(b, w, tag)
  OBVIOUS
<1>0. a \in Apps(T, U, J, D) /\ tag \in a.pending /\ tag \in T
  BY DEF Within, Apps
<1>1. CASE a.chan = 0 \/ ~a.open
  BY <1>0, <1>1, <1>a, <1>b, <1>c DEF ConfirmCommitted, ConfirmInserted
<1>2. CASE ~(a.chan = 0 \/ ~a.open)
  <2>a. PICK tags : tags = Range(order)
    OBVIOUS
  <2>b. PICK acks, acks2, ack :
          /\ acks = UpAfter(a, order) /\ acks2 = UpAfter(a, Append(order, tag))
          /\ ack = Frame("ack", tag, NoMessage)
    OBVIOUS
  <2>c. PICK marks, marks2, mark :
          /\ marks = JobsAfter(a, order) /\ marks2 = JobsAfter(a, Append(order, tag))
          /\ mark = Frame("markAcked", 0, EnvelopeOf(a, tag))
    OBVIOUS
  <2>1. /\ b.up = IF w.live /\ a.chan = w.object THEN acks ELSE a.up
        /\ b.jobs = marks
        /\ b.committed = a.committed \ tags /\ b.pending = a.pending \ tags
        /\ b.ackId = {p \in a.ackId : p[1] \notin tags}
    BY <1>0, <1>2, <1>a, <2>a, <2>b, <2>c DEF ConfirmCommitted, Apps, UpAfter, JobsAfter, Acks, Marks
  <2>2. /\ b.chan = a.chan /\ b.open = a.open /\ b.paused = a.paused
        /\ b.consuming = a.consuming /\ b.starting = a.starting
        /\ b.cancelPending = a.cancelPending /\ b.tagged = a.tagged
        /\ b.done = a.done
    BY <1>0, <1>2, <1>a DEF ConfirmCommitted, Apps
  <2>3. Range(Append(order, tag)) = tags \cup {tag}
    <3>1. PICK n \in Nat : n = Len(order) /\ DOMAIN order = 1 .. n
      BY LenProperties
    <3>2. /\ DOMAIN Append(order, tag) = 1 .. n + 1
          /\ \A i \in 1 .. n : Append(order, tag)[i] = order[i]
          /\ Append(order, tag)[n + 1] = tag
      BY <3>1, AppendProperties, LenProperties
    <3>. QED
      BY <3>1, <3>2, <2>a DEF Range
  <2>4. acks2 = Plus(acks, ack)
    BY <2>b, AcksOneMore
  <2>5. marks2 = Plus(marks, mark)
    BY <2>c, MarksOneMore
  <2>7. /\ c.up = IF w.live /\ a.chan = w.object THEN Plus(acks, ack) ELSE a.up
        /\ c.jobs = Plus(marks, mark)
        /\ c.committed = a.committed \ (tags \cup {tag})
        /\ c.pending = a.pending \ (tags \cup {tag})
        /\ c.ackId = {p \in a.ackId : p[1] \notin tags \cup {tag}}
        /\ c.chan = a.chan /\ c.open = a.open /\ c.paused = a.paused
        /\ c.consuming = a.consuming /\ c.starting = a.starting
        /\ c.cancelPending = a.cancelPending /\ c.tagged = a.tagged
        /\ c.done = a.done
    <3>a. PICK tags2 : tags2 = Range(Append(order, tag))
      OBVIOUS
    <3>1. c = [a EXCEPT !.up = IF w.live /\ a.chan = w.object THEN acks2 ELSE @,
                        !.committed = @ \ tags2, !.pending = @ \ tags2,
                        !.ackId = {p \in @ : p[1] \notin tags2},
                        !.jobs = marks2]
      BY <1>2, <1>b, <2>b, <2>c, <3>a DEF ConfirmCommitted, UpAfter, JobsAfter, Acks, Marks
    <3>. QED
      BY <1>0, <2>3, <2>4, <2>5, <3>1, <3>a DEF Apps
  <2>8. /\ d.up = IF w.live /\ a.chan = w.object THEN Plus(acks, ack) ELSE a.up
        /\ d.jobs = Plus(marks, mark)
        /\ d.committed = a.committed \ (tags \cup {tag})
        /\ d.pending = a.pending \ (tags \cup {tag})
        /\ d.ackId = {p \in a.ackId : p[1] \notin tags \cup {tag}}
        /\ d.chan = a.chan /\ d.open = a.open /\ d.paused = a.paused
        /\ d.consuming = a.consuming /\ d.starting = a.starting
        /\ d.cancelPending = a.cancelPending /\ d.tagged = a.tagged
        /\ d.done = a.done
    <3>a. PICK s : s = Send(b, w, ack)
      OBVIOUS
    <3>b. PICK e : e = [s EXCEPT !.committed = @ \ {tag}, !.pending = @ \ {tag}]
      OBVIOUS
    <3>1. Within(b, T, U, J, D) /\ b \in Apps(T, U, J, D)
      BY <1>a, ConfirmCommittedFacts DEF Within
    <3>2. s = [b EXCEPT !.up = IF w.live /\ a.chan = w.object THEN Plus(@, ack) ELSE @]
      BY <2>2, <3>1, <3>a DEF Send, Apps, Plus
    <3>3. d = OnDeliveryAcked(e, tag)
      BY <1>0, <1>2, <1>c, <2>1, <2>2, <2>a, <2>b, <3>a, <3>b DEF ConfirmInserted
    <3>4. /\ e.up = IF w.live /\ a.chan = w.object THEN Plus(b.up, ack) ELSE b.up
          /\ e.jobs = b.jobs /\ e.ackId = b.ackId
          /\ e.committed = b.committed \ {tag} /\ e.pending = b.pending \ {tag}
      BY <3>1, <3>2, <3>b DEF Apps
    <3>5. /\ e.chan = a.chan /\ e.open = a.open /\ e.paused = a.paused
          /\ e.consuming = a.consuming /\ e.starting = a.starting
          /\ e.cancelPending = a.cancelPending /\ e.tagged = a.tagged
          /\ e.done = a.done
      BY <2>2, <3>1, <3>2, <3>b DEF Apps
    <3>6. PICK q \in a.ackId : /\ q[1] = tag
                               /\ \A p \in a.ackId : p[1] = tag => p = q
      BY DEF Within
    <3>7. {p \in e.ackId : p[1] = tag} = {q}
      BY <2>1, <2>a, <3>4, <3>6
    <3>8. EnvelopeOf(e, tag) = EnvelopeOf(a, tag)
      <4>1. (CHOOSE p \in a.ackId : p[1] = tag) = q
        BY <3>6
      <4>2. (CHOOSE p \in e.ackId : p[1] = tag) = q
        BY <3>7
      <4>. QED
        BY <4>1, <4>2 DEF EnvelopeOf
    <3>9. d = [e EXCEPT !.ackId = @ \ {q}, !.jobs = Plus(@, mark)]
      BY <2>c, <3>3, <3>7, <3>8 DEF OnDeliveryAcked, Enqueue, Plus
    <3>10. e \in Apps(T, U, J, D)
      <4>1. Plus(b.up, ack) \in Seq(U)
        BY <1>0, <2>b, <3>1, AppendProperties DEF Apps, Closed, Plus
      <4>. QED
        BY <3>1, <3>2, <3>b, <4>1 DEF Apps
    <3>11. /\ d.up = e.up /\ d.jobs = Plus(e.jobs, mark)
           /\ d.committed = e.committed /\ d.pending = e.pending
           /\ d.ackId = e.ackId \ {q}
           /\ d.chan = a.chan /\ d.open = a.open /\ d.paused = a.paused
           /\ d.consuming = a.consuming /\ d.starting = a.starting
           /\ d.cancelPending = a.cancelPending /\ d.tagged = a.tagged
           /\ d.done = a.done
      BY <3>5, <3>9, <3>10 DEF Apps
    <3>12. d.ackId = {p \in a.ackId : p[1] \notin tags \cup {tag}}
      BY <2>1, <3>4, <3>6, <3>11
    <3>. QED
      BY <2>1, <3>4, <3>11, <3>12
  <2>9. c \in Apps(T, U, J, D)
    <3>1. Append(order, tag) \in Seq(a.committed)
      BY AppendProperties
    <3>2. Within(c, T, U, J, D)
      BY <1>b, <3>1, ConfirmCommittedFacts
    <3>. QED
      BY <3>2 DEF Within
  <2>10. d \in Apps(T, U, J, D)
    <3>1. Within(b, T, U, J, D)
      BY <1>a, ConfirmCommittedFacts
    <3>2. \E p \in b.ackId : p[1] = tag
      BY <2>1, <2>a DEF Within
    <3>. QED
      BY <1>0, <1>c, <3>1, <3>2, ConfirmInsertedFacts DEF Within
  <2>11. c = d
    <3>1. c = [chan |-> c.chan, open |-> c.open, paused |-> c.paused,
                consuming |-> c.consuming, starting |-> c.starting,
                cancelPending |-> c.cancelPending, tagged |-> c.tagged,
                pending |-> c.pending, committed |-> c.committed,
                ackId |-> c.ackId, jobs |-> c.jobs, done |-> c.done,
                up |-> c.up]
      BY <2>9 DEF Apps
    <3>2. d = [chan |-> d.chan, open |-> d.open, paused |-> d.paused,
                consuming |-> d.consuming, starting |-> d.starting,
                cancelPending |-> d.cancelPending, tagged |-> d.tagged,
                pending |-> d.pending, committed |-> d.committed,
                ackId |-> d.ackId, jobs |-> d.jobs, done |-> d.done,
                up |-> d.up]
      BY <2>10 DEF Apps
    <3>. QED
      BY <2>7, <2>8, <3>1, <3>2
  <2>. QED
    BY <2>11, <1>a, <1>b, <1>c
<1>. QED
  BY <1>1, <1>2, <1>a, <1>b, <1>c

\* pauseConsuming().
LEMMA PauseConsumingFacts ==
  ASSUME NEW T, NEW U, NEW J, NEW D, Closed(T, U, J),
         NEW a, Within(a, T, U, J, D), NEW w, w.object \in Nat,
         NEW paused \in BOOLEAN, NEW order \in SetToSeqs(a.committed),
         NEW b, b = PauseConsuming(a, w, paused, order)
  PROVE  Within(b, T, U, J, D) /\ Calm(a, b, w)
<1>a. PICK c : c = [a EXCEPT !.paused = paused]
  OBVIOUS
<1>1. /\ Within(c, T, U, J, D) /\ c.pending = a.pending /\ c.up = a.up
      /\ c.committed = a.committed
  BY <1>a DEF Within, Apps
<1>2. CASE paused = TRUE
  <2>1. b = CancelConsumer(c, w)
    BY <1>2, <1>a DEF PauseConsuming
  <2>2. Within(b, T, U, J, D) /\ Calm(c, b, w)
    BY <1>1, <2>1, CancelConsumerFacts
  <2>. QED
    BY <1>1, <2>2 DEF Calm
<1>3. CASE paused = FALSE
  <2>a. PICK d : d = ConfirmCommitted(c, w, order)
    OBVIOUS
  <2>1. order \in Seq(c.committed)
    BY <1>1, OrderIsSeq DEF Within
  <2>2. Within(d, T, U, J, D) /\ Calm(c, d, w)
    BY <1>1, <2>1, <2>a, ConfirmCommittedFacts
  <2>3. b = d \/ b = StartConsuming(d, w)
    BY <1>3, <1>a, <2>a DEF PauseConsuming
  <2>4. Within(b, T, U, J, D) /\ Calm(d, b, w)
    <3>1. CASE b = d
      BY <2>2, <3>1 DEF Calm
    <3>2. CASE b = StartConsuming(d, w)
      BY <2>2, <3>2, StartConsumingFacts
    <3>. QED
      BY <2>3, <3>1, <3>2
  <2>. QED
    BY <1>1, <2>2, <2>4 DEF Calm
<1>. QED
  BY <1>2, <1>3

\* consume()'s onSuccess.
LEMMA OnConsumeSuccessFacts ==
  ASSUME NEW T, NEW U, NEW J, NEW D, Closed(T, U, J),
         NEW a, Within(a, T, U, J, D), NEW w,
         NEW b, b = OnConsumeSuccess(a, w)
  PROVE  Within(b, T, U, J, D) /\ Calm(a, b, w)
<1>a. PICK c : c = [a EXCEPT !.starting = FALSE, !.consuming = TRUE, !.tagged = TRUE]
  OBVIOUS
<1>1. Within(c, T, U, J, D) /\ c.pending = a.pending /\ c.up = a.up
  BY <1>a DEF Within, Apps
<1>2. CASE b = c
  BY <1>1, <1>2 DEF Calm
<1>3. CASE b = CancelConsumer(c, w)
  <2>1. Within(b, T, U, J, D) /\ Calm(c, b, w)
    BY <1>1, <1>3, CancelConsumerFacts
  <2>. QED
    BY <1>1, <2>1 DEF Calm
<1>. QED
  BY <1>2, <1>3, <1>a DEF OnConsumeSuccess

\* The consumer was cancelled, by us or by the broker.
LEMMA OnConsumerGoneFacts ==
  ASSUME NEW T, NEW U, NEW J, NEW D, Closed(T, U, J),
         NEW a, Within(a, T, U, J, D), NEW w, w.object \in Nat,
         NEW byBroker \in BOOLEAN, NEW b, b = OnConsumerGone(a, w, byBroker)
  PROVE  Within(b, T, U, J, D) /\ Calm(a, b, w)
<1>a. PICK c : c = [a EXCEPT !.starting = @ /\ ~byBroker, !.consuming = FALSE,
                             !.cancelPending = FALSE, !.tagged = FALSE]
  OBVIOUS
<1>1. Within(c, T, U, J, D) /\ c.pending = a.pending /\ c.up = a.up
  BY <1>a DEF Within, Apps
<1>2. CASE b = c
  BY <1>1, <1>2 DEF Calm
<1>3. CASE b = StartConsuming(c, w)
  <2>1. Within(b, T, U, J, D) /\ Calm(c, b, w)
    BY <1>1, <1>3, StartConsumingFacts
  <2>. QED
    BY <1>1, <2>1 DEF Calm
<1>. QED
  BY <1>2, <1>3, <1>a DEF OnConsumerGone

\* onReceived(), for a tag that may be rejected if the message cannot be decoded
\* and a job that the worker may have otherwise.
LEMMA OnReceivedFacts ==
  ASSUME NEW T, NEW U, NEW J, NEW D, NEW a, Within(a, T, U, J, D), NEW w,
         NEW tag \in Nat, NEW m \in Messages,
         m \in Undecodable => Frame("reject", tag, NoMessage) \in U,
         m \notin Undecodable => Frame("insert", tag, m) \in J,
         NEW b, b = OnReceived(a, w, tag, m)
  PROVE  Within(b, T, U, J, D)
<1>1. CASE m \in Undecodable
  <2>a. PICK s : s = Send(a, w, Frame("reject", tag, NoMessage))
    OBVIOUS
  <2>1. Within(s, T, U, J, D)
    BY <1>1, <2>a, SendFacts
  <2>2. IsFiniteSet(s.committed \ {tag})
    BY <2>1, FS_Subset DEF Within
  <2>3. CASE b = a
    BY <2>3
  <2>4. CASE b = [s EXCEPT !.pending = @ \ {tag}, !.committed = @ \ {tag}]
    <3>1. s \in Apps(T, U, J, D)
      BY <2>1 DEF Within
    <3>2. b \in Apps(T, U, J, D)
      BY <2>4, <3>1 DEF Apps
    <3>3. /\ b.pending = s.pending \ {tag} /\ b.committed = s.committed \ {tag}
          /\ b.ackId = s.ackId
      BY <2>4, <3>1 DEF Apps
    <3>. QED
      BY <2>1, <2>2, <3>2, <3>3 DEF Within
  <2>. QED
    BY <1>1, <2>3, <2>4, <2>a DEF OnReceived, RejectDelivery
<1>2. CASE m \notin Undecodable
  <2>a. PICK c : c = [a EXCEPT !.pending = @ \cup {tag}]
    OBVIOUS
  <2>1. Within(c, T, U, J, D)
    BY <2>a DEF Within, Apps
  <2>2. b = Enqueue(c, "insert", tag, m) /\ Frame("insert", tag, m) \in J
    BY <1>2, <2>a DEF OnReceived
  <2>. QED
    BY <2>1, <2>2, EnqueueFacts
<1>. QED
  BY <1>1, <1>2

\* resetConnectionState().
LEMMA ResetFacts ==
  ASSUME NEW T, NEW U, NEW J, NEW D, NEW a, Within(a, T, U, J, D),
         NEW b, b = ResetConnectionState(a)
  PROVE  Within(b, T, U, J, D) /\ b.up = <<>> /\ b.pending = {}
<1>1. IsFiniteSet({}) /\ <<>> \in Seq(U)
  BY FS_EmptySet, EmptySeq
<1>2. a \in Apps(T, U, J, D)
  BY DEF Within
<1>3. /\ b \in Apps(T, U, J, D) /\ b.up = <<>> /\ b.pending = {}
      /\ b.committed = {} /\ b.ackId = a.ackId
  BY <1>1, <1>2 DEF ResetConnectionState, Apps
<1>. QED
  BY <1>1, <1>3 DEF Within

-----------------------------------------------------------------------------
(* The actions on the process, for any sets T, U, J and D. *)

\* A process that was just started, and one with nothing in flight.
LEMMA IdleFacts ==
  ASSUME NEW T, NEW U, NEW J, NEW D, NEW a,
         a.committed = {}, a.jobs = <<>>, a.done = <<>>, a.up = <<>>,
         \/ a = FreshApp
         \/ \E T0, U0, J0, D0 : Within(a, T0, U0, J0, D0)
  PROVE  Within(a, T, U, J, D)
<1>1. /\ IsFiniteSet({})
      /\ <<>> \in Seq(U) /\ <<>> \in Seq(J) /\ <<>> \in Seq(D)
  BY FS_EmptySet, EmptySeq
<1>2. CASE a = FreshApp
  BY <1>1, <1>2 DEF FreshApp, Within, Apps
<1>3. CASE \E T0, U0, J0, D0 : Within(a, T0, U0, J0, D0)
  <2>1. PICK T0, U0, J0, D0 : Within(a, T0, U0, J0, D0)
    BY <1>3
  <2>2. a \in Apps(T0, U0, J0, D0)
    BY <2>1 DEF Within
  <2>3. a \in Apps(T, U, J, D)
    BY <1>1, <2>2 DEF Apps
  <2>. QED
    BY <1>1, <2>1, <2>3 DEF Within
<1>. QED
  BY <1>2, <1>3

\* The pause box, in either direction.
LEMMA TogglePauseStays ==
  ASSUME NEW T, NEW U, NEW J, NEW D, Closed(T, U, J), Within(app, T, U, J, D),
         Here.object \in Nat, TogglePause
  PROVE  Within(app', T, U, J, D) /\ Calm(app, app', Here)
<1>1. PICK order \in SetToSeqs(app.committed) :
        app' = PauseConsuming(app, Here, ~app.paused, order)
  BY DEF TogglePause
<1>2. (~app.paused) \in BOOLEAN
  OBVIOUS
<1>. QED
  BY <1>1, <1>2, PauseConsumingFacts

\* A publish may create the channel, writes a frame and hands a row to the worker.
LEMMA PublishStays ==
  ASSUME NEW T, NEW U, NEW J, NEW D, Within(app, T, U, J, D),
         Here.object \in Nat, NEW m, Publish(m),
         Frame("publish", 0, m) \in U, Frame("insertSent", 0, m) \in J
  PROVE  Within(app', T, U, J, D)
<1>a. PICK a : a = EnsureChannel(app, Here)
  OBVIOUS
<1>b. PICK b : b = Send(a, Here, Frame("publish", 0, m))
  OBVIOUS
<1>1. Within(a, T, U, J, D)
  BY <1>a DEF EnsureChannel, Within, Apps
<1>2. Within(b, T, U, J, D)
  BY <1>1, <1>b, SendFacts
<1>3. app' = Enqueue(b, "insertSent", 0, m)
  BY <1>a, <1>b DEF Publish
<1>. QED
  BY <1>2, <1>3, EnqueueFacts

\* The worker takes a job and may post its result.
LEMMA WorkerStepStays ==
  ASSUME NEW T, NEW U, NEW J, NEW D, Within(app, T, U, J, D), WorkerStep,
         Head(app.jobs).kind = "insert" => Head(app.jobs) \in D
  PROVE  /\ Within(app', T, U, J, D)
         /\ app'.up = app.up /\ app'.pending = app.pending
<1>a. PICK j : j = Head(app.jobs)
  OBVIOUS
<1>1. app \in Apps(T, U, J, D) /\ app.jobs # <<>>
  BY DEF Within, WorkerStep
<1>2. Tail(app.jobs) \in Seq(J)
  BY <1>1, HeadTailProperties DEF Apps
<1>b. PICK d : d = IF j.kind = "insert" THEN Append(app.done, j) ELSE app.done
  OBVIOUS
<1>3. d \in Seq(D)
  BY <1>1, <1>a, <1>b, AppendProperties DEF Apps
<1>4. app' = [app EXCEPT !.jobs = Tail(@), !.done = d]
  BY <1>a, <1>b DEF WorkerStep
<1>5. app' \in Apps(T, U, J, D)
  BY <1>1, <1>2, <1>3, <1>4 DEF Apps
<1>6. /\ app'.committed = app.committed /\ app'.pending = app.pending
      /\ app'.ackId = app.ackId /\ app'.up = app.up
  BY <1>1, <1>4 DEF Apps
<1>. QED
  BY <1>5, <1>6 DEF Within

\* A result remembers the envelope of its tag before the delivery is confirmed.
LEMMA InsertDoneStays ==
  ASSUME NEW T, NEW U, NEW J, NEW D, Closed(T, U, J), Within(app, T, U, J, D),
         \A j \in D : j.tag \in T /\ j.msg \in Messages, InsertDone
  PROVE  Within(app', T, U, J, D) /\ Calm(app, app', Here)
<1>a. PICK j : j = Head(app.done)
  OBVIOUS
<1>1. app \in Apps(T, U, J, D) /\ app.done # <<>>
  BY DEF Within, InsertDone
<1>2. j \in D /\ Tail(app.done) \in Seq(D)
  BY <1>1, <1>a, HeadTailProperties DEF Apps
<1>b. PICK k : k = {p \in app.ackId : p[1] # j.tag} \cup {<<j.tag, j.msg>>}
  OBVIOUS
<1>c. PICK a : a = [app EXCEPT !.done = Tail(@), !.ackId = k]
  OBVIOUS
<1>3. j.tag \in T /\ j.tag \in Nat /\ j.msg \in Messages
  BY <1>2 DEF Closed
<1>4. k \in SUBSET (Nat \X Messages)
  BY <1>1, <1>3, <1>b DEF Apps
<1>5. a \in Apps(T, U, J, D)
  BY <1>1, <1>2, <1>4, <1>c DEF Apps
<1>6. /\ a.committed = app.committed /\ a.pending = app.pending
      /\ a.ackId = k /\ a.up = app.up
  BY <1>1, <1>c DEF Apps
<1>d. PICK e : e = <<j.tag, j.msg>> /\ e[1] = j.tag /\ e \in k
  BY <1>b
<1>7. Within(a, T, U, J, D)
  <2>0. \A p \in app.ackId : p[1] # j.tag => p \in k
    BY <1>b
  <2>1. \A t \in a.committed : \E p \in a.ackId : p[1] = t
    BY <1>6, <1>d, <2>0 DEF Within
  <2>2. \A p, q \in a.ackId : p[1] = q[1] => p = q
    BY <1>6, <1>b DEF Within
  <2>. QED
    BY <1>5, <1>6, <2>1, <2>2 DEF Within
<1>8. \E p \in a.ackId : p[1] = j.tag
  BY <1>6, <1>d
<1>9. app' = ConfirmInserted(a, Here, j.tag)
  BY <1>a, <1>b, <1>c DEF InsertDone
<1>10. Within(app', T, U, J, D) /\ Calm(a, app', Here)
  BY <1>3, <1>7, <1>8, <1>9, ConfirmInsertedFacts
<1>11. Calm(app, app', Here)
  BY <1>6, <1>10 DEF Calm
<1>. QED
  BY <1>10, <1>11

\* The handler of every kind of frame from the broker.
LEMMA ReceiveFrameStays ==
  ASSUME NEW T, NEW U, NEW J, NEW D, Closed(T, U, J), Within(app, T, U, J, D),
         Here.object \in Nat, ReceiveFrame, NEW f, f = Head(down),
         f.kind \in {"consumeOk", "cancelOk", "cancelled", "closed", "deliver"},
         f.kind = "deliver" =>
           /\ f.tag \in Nat /\ f.msg \in Messages
           /\ f.msg \in Undecodable => Frame("reject", f.tag, NoMessage) \in U
           /\ f.msg \notin Undecodable => Frame("insert", f.tag, f.msg) \in J
  PROVE  Within(app', T, U, J, D)
<1>1. CASE f.kind = "consumeOk"
  <2>1. app' = OnConsumeSuccess(app, Here)
    BY <1>1 DEF ReceiveFrame
  <2>. QED
    BY <2>1, OnConsumeSuccessFacts
<1>2. CASE f.kind = "cancelOk"
  <2>1. app' = OnConsumerGone(app, Here, FALSE)
    BY <1>2 DEF ReceiveFrame
  <2>. QED
    BY <2>1, OnConsumerGoneFacts
<1>3. CASE f.kind = "cancelled"
  <2>1. app' = OnConsumerGone(app, Here, TRUE)
    BY <1>3 DEF ReceiveFrame
  <2>. QED
    BY <2>1, OnConsumerGoneFacts
<1>4. CASE f.kind = "closed"
  <2>1. app' = [app EXCEPT !.open = FALSE, !.starting = FALSE, !.cancelPending = FALSE]
    BY <1>4 DEF ReceiveFrame
  <2>. QED
    BY <2>1 DEF Within, Apps
<1>5. CASE f.kind = "deliver"
  <2>1. app' = OnReceived(app, Here, f.tag, f.msg)
    BY <1>5 DEF ReceiveFrame
  <2>. QED
    BY <1>5, <2>1, OnReceivedFacts
<1>. QED
  BY <1>1, <1>2, <1>3, <1>4, <1>5

\* The broker takes a frame off the wire.
LEMMA BrokerReadsFrameStays ==
  ASSUME NEW T, NEW U, NEW J, NEW D, Within(app, T, U, J, D), BrokerReadsFrame
  PROVE  Within(app', T, U, J, D)
<1>1. app \in Apps(T, U, J, D) /\ app.up # <<>>
  BY DEF Within, BrokerReadsFrame
<1>2. Tail(app.up) \in Seq(U)
  BY <1>1, HeadTailProperties DEF Apps
<1>3. app' = [app EXCEPT !.up = Tail(@)]
  BY DEF BrokerReadsFrame
<1>. QED
  BY <1>2, <1>3 DEF Within, Apps

\* What was written and not read is lost with the link.
LEMMA LinkBreaksStays ==
  ASSUME NEW T, NEW U, NEW J, NEW D, Within(app, T, U, J, D), LinkBreaks
  PROVE  Within(app', T, U, J, D)
  BY EmptySeq DEF LinkBreaks, Within, Apps

\* The process starts again from nothing.
LEMMA CrashStays ==
  ASSUME NEW T, NEW U, NEW J, NEW D, Crash
  PROVE  /\ Within(app', T, U, J, D)
         /\ app'.up = <<>> /\ app'.pending = {}
<1>1. /\ app' = FreshApp /\ app'.committed = {} /\ app'.jobs = <<>>
      /\ app'.done = <<>> /\ app'.up = <<>> /\ app'.pending = {}
  BY DEF Crash, FreshApp
<1>. QED
  BY <1>1, IdleFacts

\* The new connection is asked for a consumer.
LEMMA ReconnectedStays ==
  ASSUME NEW T, NEW U, NEW J, NEW D, Closed(T, U, J), Within(app, T, U, J, D),
         epoch \in Nat, Reconnected
  PROVE  Within(app', T, U, J, D)
<1>a. PICK w : w = Wire(epoch + 1, TRUE)
  OBVIOUS
<1>1. w.object \in Nat /\ app' = StartConsuming(app, w)
  BY <1>a DEF Wire, Reconnected
<1>. QED
  BY <1>1, StartConsumingFacts

-----------------------------------------------------------------------------
(* The broker. *)

\* What the broker may do with a frame.
Reads(f, mine) ==
  \/ broker' = broker /\ down' = down
  \/ broker' = [broker EXCEPT !.consumers = @ + 1] /\ Answer("consumeOk")
  \/ /\ broker' = [broker EXCEPT !.consumers = IF @ > 0 THEN @ - 1 ELSE @]
     /\ Answer("cancelOk")
  \/ /\ f.kind = "ack" /\ broker.open /\ down' = down
     /\ broker' = [broker EXCEPT !.unacked = @ \ mine,
                                 !.acked = @ \cup {p[2] : p \in mine}]
  \/ /\ f.kind = "reject" /\ broker.open /\ down' = down
     /\ broker' = [broker EXCEPT !.unacked = @ \ mine,
                                 !.rejected = @ \cup {p[2] : p \in mine}]
  \/ /\ f.kind = "publish" /\ down' = down
     /\ broker' = [broker EXCEPT !.ready = @ \cup {f.msg}]

\* A frame the broker reads settles only deliveries of the tag it names.
LEMMA ReadsFacts ==
  ASSUME broker \in Brokers, BrokerReadsFrame, NEW f, f = Head(app.up),
         f.kind = "publish" => f.msg \in Messages, NEW mine, mine = Unacked(f.tag)
  PROVE  /\ Reads(f, mine)
         /\ mine \subseteq broker.unacked /\ \A p \in mine : p[1] = f.tag
         /\ \A p \in broker.unacked : p[1] = f.tag => p \in mine
         /\ {p[2] : p \in mine} \subseteq Messages
         /\ broker'.open = broker.open /\ broker'.nextTag = broker.nextTag
         /\ broker'.unacked \subseteq broker.unacked
         /\ broker' \in Brokers
<1>1. /\ mine \subseteq broker.unacked /\ \A p \in mine : p[1] = f.tag
      /\ \A p \in broker.unacked : p[1] = f.tag => p \in mine
      /\ {p[2] : p \in mine} \subseteq Messages
  BY DEF Unacked, Brokers, Deliveries
<1>2. Reads(f, mine)
  BY DEF BrokerReadsFrame, Reads
<1>3. broker'.open = broker.open /\ broker'.nextTag = broker.nextTag
  BY <1>2 DEF Reads, Brokers
<1>4. /\ broker'.unacked \subseteq broker.unacked
      /\ broker' \in Brokers
  <2>0. broker \in Brokers
    OBVIOUS
  <2>a. PICK u, gone : u = broker.unacked \ mine /\ gone = {p[2] : p \in mine}
    OBVIOUS
  <2>b. PICK c : c \in Nat /\ c = IF broker.consumers > 0 THEN broker.consumers - 1
                                  ELSE broker.consumers
    BY <2>0 DEF Brokers
  <2>c. PICK d \in Nat : d = broker.consumers + 1
    BY <2>0 DEF Brokers
  <2>d. PICK r : r = broker.ready \cup {f.msg}
    OBVIOUS
  <2>1. /\ u \in Deliveries /\ u \subseteq broker.unacked /\ gone \in SUBSET Messages
    BY <1>1, <2>0, <2>a DEF Brokers, Deliveries
  <2>2. CASE broker' = broker
    BY <2>0, <2>2
  <2>3. CASE broker' = [broker EXCEPT !.consumers = @ + 1]
    <3>1. broker' = [broker EXCEPT !.consumers = d]
      BY <2>0, <2>3, <2>c DEF Brokers
    <3>. QED
      BY <2>0, <3>1 DEF Brokers
  <2>4. CASE broker' = [broker EXCEPT !.consumers = IF @ > 0 THEN @ - 1 ELSE @]
    <3>1. broker' = [broker EXCEPT !.consumers = c]
      BY <2>0, <2>4, <2>b DEF Brokers
    <3>. QED
      BY <2>0, <2>b, <3>1 DEF Brokers
  <2>5. CASE broker' = [broker EXCEPT !.unacked = @ \ mine,
                                      !.acked = @ \cup {p[2] : p \in mine}]
    <3>a. PICK e : e = broker.acked \cup gone
      OBVIOUS
    <3>1. broker' = [broker EXCEPT !.unacked = u, !.acked = e]
      BY <2>0, <2>5, <2>a, <3>a DEF Brokers
    <3>2. e \in SUBSET Messages
      BY <2>0, <2>1, <3>a DEF Brokers
    <3>. QED
      BY <2>0, <2>1, <3>1, <3>2 DEF Brokers
  <2>6. CASE broker' = [broker EXCEPT !.unacked = @ \ mine,
                                      !.rejected = @ \cup {p[2] : p \in mine}]
    <3>a. PICK e : e = broker.rejected \cup gone
      OBVIOUS
    <3>1. broker' = [broker EXCEPT !.unacked = u, !.rejected = e]
      BY <2>0, <2>6, <2>a, <3>a DEF Brokers
    <3>2. e \in SUBSET Messages
      BY <2>0, <2>1, <3>a DEF Brokers
    <3>. QED
      BY <2>0, <2>1, <3>1, <3>2 DEF Brokers
  <2>7. CASE f.kind = "publish" /\ broker' = [broker EXCEPT !.ready = @ \cup {f.msg}]
    <3>1. broker' = [broker EXCEPT !.ready = r]
      BY <2>0, <2>7, <2>d DEF Brokers
    <3>2. r \in SUBSET Messages
      BY <2>0, <2>7, <2>d DEF Brokers
    <3>. QED
      BY <2>0, <3>1, <3>2 DEF Brokers
  <2>. QED
    BY <1>2, <2>2, <2>3, <2>4, <2>5, <2>6, <2>7 DEF Reads
<1>. QED
  BY <1>1, <1>2, <1>3, <1>4

\* A delivery takes the next tag.
LEMMA DeliverFacts ==
  ASSUME broker \in Brokers, NEW m \in Messages, Deliver(m)
  PROVE  broker' \in Brokers
<1>a. PICK u, r, k : /\ u = broker.unacked \cup {<<broker.nextTag, m>>}
                     /\ r = broker.ready \ {m} /\ k = broker.nextTag + 1
  OBVIOUS
<1>1. u \in Deliveries /\ r \in SUBSET Messages /\ k \in Nat
  BY <1>a DEF Brokers, Deliveries
<1>2. broker' = [broker EXCEPT !.ready = r, !.nextTag = k, !.unacked = u]
  BY <1>a DEF Deliver
<1>. QED
  BY <1>1, <1>2 DEF Brokers

\* What the broker does when a channel ends.
LEMMA RequeuedFacts ==
  ASSUME broker \in Brokers, NEW b, NEW o \in BOOLEAN, b = [Requeued EXCEPT !.open = o]
  PROVE  /\ b \in Brokers
         /\ b.unacked = {} /\ b.acked = broker.acked /\ b.rejected = broker.rejected
         /\ b.open = o
<1>a. PICK r, u : r = broker.ready \cup {p[2] : p \in broker.unacked} /\ u = {}
  OBVIOUS
<1>1. r \in SUBSET Messages /\ u \in Deliveries
  BY <1>a DEF Brokers, Deliveries
<1>2. b = [broker EXCEPT !.ready = r, !.unacked = u, !.consumers = 0, !.open = o,
                         !.nextTag = 1]
  BY <1>a DEF Brokers, Requeued
<1>4. b \in Brokers
  <2>1. ASSUME NEW c, NEW one \in Nat,
               c = [broker EXCEPT !.ready = r, !.unacked = u, !.consumers = 0,
                                  !.open = o, !.nextTag = one]
        PROVE  c \in Brokers
    BY <1>1, <2>1 DEF Brokers
  <2>. QED
    BY <1>2, <2>1
<1>5. b.unacked = u /\ b.acked = broker.acked /\ b.rejected = broker.rejected
      /\ b.open = o
  BY <1>2 DEF Brokers
<1>. QED
  BY <1>4, <1>5, <1>a

-----------------------------------------------------------------------------
(* Types, in every environment. *)

OutFrames == {f \in Frames : f.kind = "publish" => f.msg \in Messages}

Rows == {f \in Frames : f.msg \in Messages}

InFrames ==
  {f \in Frames : /\ f.kind \in {"consumeOk", "cancelOk", "cancelled", "closed", "deliver"}
                  /\ f.kind = "deliver" => f.msg \in Messages}

TypesInv ==
  /\ Within(app, Nat, OutFrames, Rows, Rows)
  /\ broker \in Brokers /\ StoreInv /\ down \in Seq(InFrames)

\* The types allow what the service writes by itself.
LEMMA TypesAreClosed ==
  /\ Closed(Nat, OutFrames, Rows)
  /\ \A j \in Rows : j.tag \in Nat /\ j.msg \in Messages
<1>1. ASSUME NEW t \in Nat PROVE Frame("ack", t, NoMessage) \in OutFrames
  BY DEF Frame, Frames, FrameKinds, OutFrames
<1>2. /\ Frame("consume", 0, NoMessage) \in OutFrames
      /\ Frame("cancel", 0, NoMessage) \in OutFrames
  BY DEF Frame, Frames, FrameKinds, OutFrames
<1>3. ASSUME NEW m \in Messages PROVE Frame("markAcked", 0, m) \in Rows
  BY DEF Frame, Frames, FrameKinds, Rows
<1>4. \A j \in Rows : j.tag \in Nat /\ j.msg \in Messages
  BY DEF Rows, Frames
<1>. QED
  BY <1>1, <1>2, <1>3, <1>4 DEF Closed

\* A frame from the broker.
LEMMA InFrameFacts ==
  /\ \A kind \in {"consumeOk", "cancelOk", "cancelled", "closed"} :
       Frame(kind, 0, NoMessage) \in InFrames
  /\ \A tag \in Nat, m \in Messages : Frame("deliver", tag, m) \in InFrames
  BY DEF Frame, Frames, FrameKinds, InFrames

\* The types hold at the start.
LEMMA InitTypesInv ==
  Init => TypesInv
<1>. SUFFICES ASSUME Init PROVE TypesInv
  OBVIOUS
<1>1. Within(app, Nat, OutFrames, Rows, Rows)
  <2>1. /\ app = FreshApp /\ app.committed = {} /\ app.jobs = <<>>
        /\ app.done = <<>> /\ app.up = <<>>
    BY DEF Init, FreshApp
  <2>. QED
    BY <2>1, IdleFacts
<1>2. broker \in Brokers
  BY DEF Init, Brokers, Deliveries, Messages
<1>3. StoreInv
  BY DEF Init, StoreInv
<1>4. down \in Seq(InFrames)
  BY EmptySeq DEF Init
<1>. QED
  BY <1>1, <1>2, <1>3, <1>4 DEF TypesInv

\* Every step keeps the types.
LEMMA StepPreservesTypesInv ==
  ASSUME TypesInv, [Next]_vars
  PROVE  TypesInv'
<1>0. /\ Within(app, Nat, OutFrames, Rows, Rows)
      /\ broker \in Brokers /\ StoreInv /\ down \in Seq(InFrames)
      /\ epoch \in Nat /\ Here.object \in Nat
  BY DEF TypesInv, StoreInv, Here, Wire
<1>a. /\ Closed(Nat, OutFrames, Rows)
      /\ \A j \in Rows : j.tag \in Nat /\ j.msg \in Messages
  BY TypesAreClosed
\* What a step of the process leaves alone keeps its type.
<1>b. ASSUME Within(app', Nat, OutFrames, Rows, Rows),
             UNCHANGED <<conn, epoch, broker, store, ackedRow>>,
             down' \in Seq(InFrames)
      PROVE  TypesInv'
  BY <1>0, <1>b DEF TypesInv, StoreInv
\* And so does what a step of the broker does.
<1>c. ASSUME Within(app', Nat, OutFrames, Rows, Rows), broker' \in Brokers,
             conn' \in {"up", "broken", "down"}, epoch' \in Nat,
             UNCHANGED <<store, ackedRow>>, down' \in Seq(InFrames)
      PROVE  TypesInv'
  BY <1>0, <1>c DEF TypesInv, StoreInv
<1>d. conn \in {"up", "broken", "down"}
  BY <1>0 DEF StoreInv
<1>1. CASE TogglePause
  <2>1. Within(app', Nat, OutFrames, Rows, Rows)
    BY <1>0, <1>1, <1>a, TogglePauseStays
  <2>. QED
    BY <1>0, <1>1, <1>b, <2>1 DEF TogglePause
<1>2. ASSUME NEW m \in Local, Publish(m) PROVE TypesInv'
  <2>1. Frame("publish", 0, m) \in OutFrames /\ Frame("insertSent", 0, m) \in Rows
    BY DEF Frame, Frames, FrameKinds, OutFrames, Rows, Messages
  <2>2. Within(app', Nat, OutFrames, Rows, Rows)
    BY <1>0, <1>2, <2>1, PublishStays
  <2>. QED
    BY <1>0, <1>2, <1>b, <2>2 DEF Publish
<1>3. CASE WorkerStep
  <2>1. Head(app.jobs) \in Rows
    <3>1. app.jobs \in Seq(Rows) /\ app.jobs # <<>>
      BY <1>0, <1>3 DEF Within, Apps, WorkerStep
    <3>. QED
      BY <3>1, HeadTailProperties
  <2>2. Within(app', Nat, OutFrames, Rows, Rows)
    BY <1>0, <1>3, <2>1, WorkerStepStays
  <2>3. StoreInv'
    BY <1>0, <1>3, <1>a, <2>1 DEF WorkerStep, StoreInv
  <2>. QED
    BY <1>0, <1>3, <2>2, <2>3 DEF TypesInv, WorkerStep
<1>4. CASE InsertDone
  <2>1. Within(app', Nat, OutFrames, Rows, Rows)
    BY <1>0, <1>4, <1>a, InsertDoneStays
  <2>. QED
    BY <1>0, <1>4, <1>b, <2>1 DEF InsertDone
<1>5. CASE ReceiveFrame
  <2>a. PICK f : f = Head(down)
    OBVIOUS
  <2>1. f \in InFrames /\ down' \in Seq(InFrames)
    BY <1>0, <1>5, <2>a, HeadTailProperties DEF ReceiveFrame
  <2>2. /\ f.kind \in {"consumeOk", "cancelOk", "cancelled", "closed", "deliver"}
        /\ f.tag \in Nat /\ (f.kind = "deliver" => f.msg \in Messages)
    BY <2>1 DEF InFrames, Frames
  <2>3. Frame("reject", f.tag, NoMessage) \in OutFrames
    BY <2>2 DEF Frame, Frames, FrameKinds, OutFrames
  <2>4. f.kind = "deliver" => Frame("insert", f.tag, f.msg) \in Rows
    BY <2>2 DEF Frame, Frames, FrameKinds, Rows
  <2>5. Within(app', Nat, OutFrames, Rows, Rows)
    BY <1>0, <1>5, <1>a, <2>2, <2>3, <2>4, <2>a, ReceiveFrameStays
  <2>. QED
    BY <1>0, <1>5, <1>b, <2>1, <2>5 DEF ReceiveFrame
<1>6. CASE BrokerReadsFrame
  <2>a. PICK f, mine : f = Head(app.up) /\ mine = Unacked(f.tag)
    OBVIOUS
  <2>1. f.kind = "publish" => f.msg \in Messages
    <3>1. app.up \in Seq(OutFrames) /\ app.up # <<>>
      BY <1>0, <1>6 DEF Within, Apps, BrokerReadsFrame
    <3>2. f \in OutFrames
      BY <2>a, <3>1, HeadTailProperties
    <3>. QED
      BY <3>2 DEF OutFrames
  <2>2. Reads(f, mine) /\ broker' \in Brokers
    BY <1>0, <1>6, <2>1, <2>a, ReadsFacts
  <2>3. down' \in Seq(InFrames)
    BY <1>0, <2>2, InFrameFacts, AppendProperties DEF Reads, Answer
  <2>4. Within(app', Nat, OutFrames, Rows, Rows)
    BY <1>0, <1>6, BrokerReadsFrameStays
  <2>. QED
    BY <1>0, <1>6, <1>c, <1>d, <2>2, <2>3, <2>4 DEF BrokerReadsFrame
<1>7. ASSUME NEW m \in Messages, Deliver(m) PROVE TypesInv'
  <2>1. broker' \in Brokers
    BY <1>0, <1>7, DeliverFacts
  <2>2. broker.nextTag \in Nat
    BY <1>0 DEF Brokers
  <2>3. down' \in Seq(InFrames)
    BY <1>0, <1>7, <2>2, InFrameFacts, AppendProperties DEF Deliver
  <2>. QED
    BY <1>0, <1>7, <1>c, <1>d, <2>1, <2>3 DEF Deliver
<1>8. CASE BrokerCancels
  <2>1. broker' \in Brokers
    <3>a. PICK n : n \in Nat /\ n = broker.consumers - 1
      BY <1>0, <1>8 DEF BrokerCancels, Brokers
    <3>1. broker' = [broker EXCEPT !.consumers = n]
      BY <1>0, <1>8, <3>a DEF BrokerCancels, Brokers
    <3>. QED
      BY <1>0, <3>1, <3>a DEF Brokers
  <2>2. down' \in Seq(InFrames)
    BY <1>0, <1>8, InFrameFacts, AppendProperties DEF BrokerCancels, Answer
  <2>. QED
    BY <1>0, <1>8, <1>c, <1>d, <2>1, <2>2 DEF BrokerCancels
<1>9. CASE ChannelCloses
  <2>1. broker' \in Brokers
    BY <1>0, <1>9, RequeuedFacts DEF ChannelCloses
  <2>2. down' \in Seq(InFrames)
    BY <1>0, <1>9, InFrameFacts, AppendProperties DEF ChannelCloses, Answer
  <2>. QED
    BY <1>0, <1>9, <1>c, <1>d, <2>1, <2>2 DEF ChannelCloses
<1>10. CASE LinkBreaks \/ Crash
  <2>1. broker' = [Requeued EXCEPT !.open = TRUE]
    BY <1>0, <1>10 DEF Brokers, Requeued, LinkBreaks, Crash
  <2>2. broker' \in Brokers
    BY <1>0, <2>1, RequeuedFacts
  <2>3. Within(app', Nat, OutFrames, Rows, Rows)
    BY <1>0, <1>10, LinkBreaksStays, CrashStays
  <2>4. down' \in Seq(InFrames)
    BY <1>0, <1>10, EmptySeq DEF LinkBreaks, Crash
  <2>. QED
    BY <1>0, <1>10, <1>c, <2>2, <2>3, <2>4 DEF LinkBreaks, Crash
<1>11. CASE LossNoticed
  <2>1. Within(app', Nat, OutFrames, Rows, Rows)
    BY <1>0, <1>11, ResetFacts DEF LossNoticed
  <2>2. down' \in Seq(InFrames)
    BY <1>11, EmptySeq DEF LossNoticed
  <2>. QED
    BY <1>0, <1>11, <1>c, <2>1, <2>2 DEF LossNoticed
<1>12. CASE Reconnected
  <2>1. Within(app', Nat, OutFrames, Rows, Rows)
    BY <1>0, <1>12, <1>a, ReconnectedStays
  <2>. QED
    BY <1>0, <1>12, <1>c, <2>1 DEF Reconnected
<1>13. CASE UNCHANGED vars
  BY <1>0, <1>13, <1>b DEF vars
<1>. QED
  BY <1>1, <1>2, <1>3, <1>4, <1>5, <1>6, <1>7, <1>8, <1>9, <1>10, <1>11, <1>12,
     <1>13 DEF Next, Messages

\* The types of the proof hold in every state, whatever the switches allow.
THEOREM TypesInvariance == Spec => []TypesInv
<1>1. TypesInv /\ [Next]_vars => TypesInv'
  BY StepPreservesTypesInv
<1>. QED
  BY <1>1, InitTypesInv, PTL DEF Spec

\* Every member of the service and of the tab, every frame on a wire, every job and
\* every row keeps its type, in every environment.
THEOREM DeliveryTypes == Spec => []TypeOK
<1>1. ASSUME TypesInv PROVE TypeOK
  <2>1. /\ app \in Apps(Nat, OutFrames, Rows, Rows)
        /\ app.committed \subseteq app.pending
    BY <1>1 DEF TypesInv, Within
  <2>2. /\ OutFrames \subseteq Frames /\ Rows \subseteq Frames /\ InFrames \subseteq Frames
    BY DEF OutFrames, Rows, InFrames
  <2>3. /\ app.jobs \in Seq(Frames) /\ app.done \in Seq(Frames)
        /\ app.up \in Seq(Frames) /\ down \in Seq(Frames)
    BY <1>1, <2>1, <2>2, SeqMonotonic DEF Apps, TypesInv
  <2>4. broker.unacked \subseteq Nat \X Messages
    BY <1>1 DEF TypesInv, Brokers, Deliveries
  <2>5. /\ app.chan \in Nat /\ app.pending \subseteq Nat
        /\ app.ackId \subseteq Nat \X Messages
    BY <2>1 DEF Apps
  <2>. QED
    BY <1>1, <2>1, <2>3, <2>4, <2>5 DEF TypesInv, StoreInv, TypeOK
<1>. QED
  BY <1>1, TypesInvariance, PTL

-----------------------------------------------------------------------------
(* The sets of the invariant, from one state to the next. *)

\* A process that keeps inside some sets keeps inside larger ones.
LEMMA WithinGrows ==
  ASSUME NEW T, NEW U, NEW J, NEW D, NEW a, Within(a, T, U, J, D),
         NEW T2, NEW U2, NEW J2, NEW D2,
         T \subseteq T2, U \subseteq U2, J \subseteq J2, D \subseteq D2
  PROVE  Within(a, T2, U2, J2, D2)
<1>1. a \in Apps(T, U, J, D)
  BY DEF Within
<1>2. a.up \in Seq(U2) /\ a.jobs \in Seq(J2) /\ a.done \in Seq(D2)
  BY <1>1, SeqMonotonic DEF Apps
<1>3. a \in Apps(T2, U2, J2, D2)
  BY <1>1, <1>2 DEF Apps
<1>. QED
  BY <1>3 DEF Within

\* The sets of the invariant allow what the service writes by itself.
LEMMA SetsAreClosed ==
  /\ Closed(StoredTags, UpFrames, Jobs)
  /\ Closed(StoredTags, UpFrames, Jobs)'
<1>1. ASSUME NEW t \in Nat
      PROVE  /\ Frame("ack", t, NoMessage) \in Frames
             /\ Frame("ack", t, NoMessage).kind = "ack"
             /\ Frame("ack", t, NoMessage).tag = t
  BY DEF Frame, Frames, FrameKinds
<1>2. /\ Frame("consume", 0, NoMessage) \in Frames
      /\ Frame("consume", 0, NoMessage).kind = "consume"
      /\ Frame("cancel", 0, NoMessage) \in Frames
      /\ Frame("cancel", 0, NoMessage).kind = "cancel"
  BY DEF Frame, Frames, FrameKinds
<1>3. ASSUME NEW m \in Messages
      PROVE  /\ Frame("markAcked", 0, m) \in Frames
             /\ Frame("markAcked", 0, m).kind = "markAcked"
             /\ Frame("markAcked", 0, m).msg = m
  BY DEF Frame, Frames, FrameKinds
<1>4. StoredTags \subseteq Nat /\ StoredTags' \subseteq Nat
  BY DEF StoredTags
<1>5. Closed(StoredTags, UpFrames, Jobs)
  BY <1>1, <1>2, <1>3, <1>4 DEF Closed, UpFrames, Jobs
<1>6. Closed(StoredTags, UpFrames, Jobs)'
  BY <1>1, <1>2, <1>3, <1>4 DEF Closed, UpFrames, Jobs
<1>. QED
  BY <1>5, <1>6

\* The broker may forget deliveries and hand out new tags, and the store may
\* gain rows: what was known about the tags stays true.
Onward ==
  /\ Live' => /\ Live /\ broker.nextTag <= broker'.nextTag
              /\ \A p \in broker'.unacked : p \in broker.unacked \/ p[1] >= broker.nextTag
  /\ \A m \in Messages : store[m] # "absent" => store'[m] # "absent"

\* What the places hold is still allowed after such a step.
LEMMA SetsGrow ==
  ASSUME DeliveryInv, BrokerInv', Onward
  PROVE  /\ Within(app, StoredTags', UpFrames', Jobs', Results')
         /\ down \in Seq(DownFrames')
<1>0. /\ broker.nextTag \in Nat /\ broker'.nextTag \in Nat
      /\ broker.unacked \subseteq Nat \X Messages
      /\ broker'.unacked \subseteq Nat \X Messages
  BY DEF DeliveryInv, BrokerInv, Brokers, Deliveries
<1>1. ASSUME NEW t \in Nat, Live', t < broker.nextTag
      PROVE  /\ t < broker'.nextTag
             /\ \A p \in broker'.unacked : p[1] = t => p \in broker.unacked
  BY <1>0, <1>1 DEF Onward
<1>2. StoredTags \subseteq StoredTags'
  <2>. SUFFICES ASSUME NEW t \in StoredTags, Live'
                PROVE  /\ t < broker'.nextTag
                       /\ \A p \in broker'.unacked : p[1] = t => store'[p[2]] # "absent"
    BY DEF StoredTags
  <2>1. /\ t \in Nat /\ t < broker.nextTag
        /\ \A p \in broker.unacked : p[1] = t => store[p[2]] # "absent"
    BY DEF StoredTags, Onward
  <2>. QED
    BY <1>0, <1>1, <2>1 DEF Onward
<1>3. RefusedTags \subseteq RefusedTags'
  BY <1>1 DEF RefusedTags, Onward
<1>4. \A t \in Nat, m \in Messages : Tagged(t, m) => Tagged(t, m)'
  BY <1>1 DEF Tagged, Onward
<1>5. UpFrames \subseteq UpFrames' /\ Results \subseteq Results'
  BY <1>2, <1>3 DEF UpFrames, Results
<1>6. Jobs \subseteq Jobs' /\ DownFrames \subseteq DownFrames'
  <2>1. \A f \in Frames : f.tag \in Nat
    BY DEF Frames
  <2>. QED
    BY <1>4, <2>1 DEF Jobs, DownFrames
<1>7. Within(app, StoredTags', UpFrames', Jobs', Results')
  BY <1>2, <1>5, <1>6, WithinGrows DEF DeliveryInv, AppInv
<1>8. down \in Seq(DownFrames')
  BY <1>6, SeqMonotonic DEF DeliveryInv
<1>. QED
  BY <1>7, <1>8

-----------------------------------------------------------------------------
(* The invariant holds at the start and is kept by every step. *)

\* The invariant holds at the start: nothing holds a tag.
LEMMA InitDeliveryInv ==
  Init => DeliveryInv
<1>. SUFFICES ASSUME Init PROVE DeliveryInv
  OBVIOUS
<1>1. AppInv
  <2>1. /\ app = FreshApp /\ app.committed = {} /\ app.jobs = <<>>
        /\ app.done = <<>> /\ app.up = <<>>
    BY DEF Init, FreshApp
  <2>. QED
    BY <2>1, IdleFacts DEF AppInv
<1>2. BrokerInv
  BY DEF Init, BrokerInv, Brokers, Deliveries, Messages
<1>3. StoreInv /\ DownIsQuiet /\ AckedIsStored
  BY DEF Init, FreshApp, StoreInv, DownIsQuiet, AckedIsStored
<1>4. down \in Seq(DownFrames)
  BY EmptySeq DEF Init
<1>. QED
  BY <1>1, <1>2, <1>3, <1>4 DEF DeliveryInv

\* A step of the event loop changes neither the broker nor the store.
LEMMA LoopStep ==
  ASSUME DeliveryInv, UNCHANGED <<conn, epoch, broker, store, ackedRow>>
  PROVE  /\ BrokerInv' /\ StoreInv' /\ AckedIsStored'
         /\ Within(app, StoredTags', UpFrames', Jobs', Results')
         /\ down \in Seq(DownFrames')
         /\ Closed(StoredTags', UpFrames', Jobs')
         /\ Here.object \in Nat /\ (Here.live <=> conn = "up")
<1>1. BrokerInv' /\ StoreInv' /\ AckedIsStored'
  BY DEF DeliveryInv, BrokerInv, Brokers, StoreInv, AckedIsStored
<1>2. Onward
  BY DEF DeliveryInv, BrokerInv, Brokers, Onward, Live
<1>3. Closed(StoredTags', UpFrames', Jobs')
  BY SetsAreClosed
<1>4. Here.object \in Nat /\ (Here.live <=> conn = "up")
  BY DEF DeliveryInv, StoreInv, Here, Wire
<1>. QED
  BY <1>1, <1>2, <1>3, <1>4, SetsGrow

\* A calm step of the event loop keeps the invariant.
LEMMA CalmStep ==
  ASSUME DeliveryInv, UNCHANGED <<conn, epoch, broker, store, ackedRow>>,
         Within(app', StoredTags', UpFrames', Jobs', Results'),
         Calm(app, app', Here), down' = down
  PROVE  DeliveryInv'
<1>1. /\ BrokerInv' /\ StoreInv' /\ AckedIsStored' /\ down \in Seq(DownFrames')
      /\ (Here.live <=> conn = "up")
  BY LoopStep
<1>2. DownIsQuiet'
  BY <1>1 DEF DeliveryInv, DownIsQuiet, Calm
<1>. QED
  BY <1>1, <1>2 DEF DeliveryInv, AppInv

\* Clearing the pause box acknowledges committed deliveries only.
LEMMA TogglePauseKeeps ==
  ASSUME DeliveryInv, TogglePause PROVE DeliveryInv'
<1>1. /\ Within(app, StoredTags', UpFrames', Jobs', Results')
      /\ Closed(StoredTags', UpFrames', Jobs') /\ Here.object \in Nat
  BY LoopStep DEF TogglePause
<1>2. Within(app', StoredTags', UpFrames', Jobs', Results') /\ Calm(app, app', Here)
  BY <1>1, TogglePauseStays
<1>. QED
  BY <1>2, CalmStep DEF TogglePause

\* A published envelope has no tag.
LEMMA PublishKeeps ==
  ASSUME DeliveryInv, NEW m \in Local, Publish(m) PROVE DeliveryInv'
<1>1. /\ Within(app, StoredTags', UpFrames', Jobs', Results')
      /\ Here.object \in Nat
      /\ BrokerInv' /\ StoreInv' /\ AckedIsStored' /\ down \in Seq(DownFrames')
  BY LoopStep DEF Publish
<1>2. Frame("publish", 0, m) \in UpFrames'
  BY DEF UpFrames, Frame, Frames, FrameKinds, Messages
<1>3. Frame("insertSent", 0, m) \in Jobs'
  BY DEF Jobs, Frame, Frames, FrameKinds, Messages
<1>4. Within(app', StoredTags', UpFrames', Jobs', Results')
  BY <1>1, <1>2, <1>3, PublishStays
<1>5. DownIsQuiet'
  BY DEF Publish, DownIsQuiet
<1>. QED
  BY <1>1, <1>4, <1>5 DEF DeliveryInv, AppInv, Publish

\* A row is stored before its result is posted.
LEMMA InsertDoneKeeps ==
  ASSUME DeliveryInv, InsertDone PROVE DeliveryInv'
<1>1. /\ Within(app, StoredTags', UpFrames', Jobs', Results')
      /\ Closed(StoredTags', UpFrames', Jobs')
  BY LoopStep DEF InsertDone
<1>2. \A j \in Results' : j.tag \in StoredTags' /\ j.msg \in Messages
  BY DEF Results
<1>3. Within(app', StoredTags', UpFrames', Jobs', Results') /\ Calm(app, app', Here)
  BY <1>1, <1>2, InsertDoneStays
<1>. QED
  BY <1>3, CalmStep DEF InsertDone

\* The worker stores a row at most once and removes none.
LEMMA WorkerStepKeeps ==
  ASSUME DeliveryInv, WorkerStep
  PROVE  /\ DeliveryInv'
         /\ broker' = broker
         /\ store' = store \/ \E m \in Messages :
              store[m] = "absent" /\ \E d \in {"sent", "received"} :
                                       store' = [store EXCEPT ![m] = d]
<1>a. PICK j : j = Head(app.jobs)
  OBVIOUS
<1>0. app \in Apps(StoredTags, UpFrames, Jobs, Results)
  BY DEF DeliveryInv, AppInv, Within
<1>1. j \in Jobs /\ j \in Frames /\ j.msg \in Messages /\ j.tag \in Nat
  <2>1. app.jobs \in Seq(Jobs) /\ app.jobs # <<>>
    BY <1>0 DEF Apps, WorkerStep
  <2>2. j \in Jobs
    BY <2>1, <1>a, HeadTailProperties
  <2>. QED
    BY <2>2 DEF Jobs, Frames
<1>2. store' = IF j.kind # "markAcked" /\ store[j.msg] = "absent"
               THEN [store EXCEPT ![j.msg] = IF j.kind = "insertSent" THEN "sent"
                                             ELSE "received"]
               ELSE store
  BY <1>a DEF WorkerStep
<1>3. store \in [Messages -> {"absent", "sent", "received"}]
  BY DEF DeliveryInv, StoreInv
<1>4. /\ store' \in [Messages -> {"absent", "sent", "received"}]
      /\ \A m \in Messages : store[m] # "absent" => store'[m] # "absent"
      /\ j.kind = "insert" => store'[j.msg] # "absent"
  BY <1>1, <1>2, <1>3
<1>5. store' = store \/ \E m \in Messages :
        store[m] = "absent" /\ \E d \in {"sent", "received"} :
                                 store' = [store EXCEPT ![m] = d]
  BY <1>1, <1>2
<1>6. UNCHANGED <<conn, epoch, down, broker>>
  BY DEF WorkerStep
<1>7. BrokerInv' /\ broker.nextTag \in Nat /\ broker.acked \subseteq Messages
  BY <1>6 DEF DeliveryInv, BrokerInv, Brokers, Deliveries
<1>8. Onward
  BY <1>4, <1>6, <1>7 DEF Onward, Live
<1>9. /\ Within(app, StoredTags', UpFrames', Jobs', Results')
      /\ down \in Seq(DownFrames')
  BY <1>7, <1>8, SetsGrow
<1>10. j.kind = "insert" => j \in Results'
  <2>. SUFFICES ASSUME j.kind = "insert" PROVE j \in Results'
    OBVIOUS
  <2>1. Tagged(j.tag, j.msg)
    BY <1>1 DEF Jobs
  <2>2. j.tag \in StoredTags'
    BY <1>1, <1>4, <1>6, <2>1 DEF Tagged, StoredTags, Live
  <2>. QED
    BY <1>1, <2>2 DEF Results
<1>11. /\ Within(app', StoredTags', UpFrames', Jobs', Results')
       /\ app'.up = app.up /\ app'.pending = app.pending
  BY <1>9, <1>10, <1>a, WorkerStepStays
<1>12. StoreInv' /\ DownIsQuiet' /\ AckedIsStored'
  <2>1. ackedRow' \subseteq Messages
    BY <1>1, <1>a DEF WorkerStep, DeliveryInv, StoreInv
  <2>2. StoreInv'
    BY <1>4, <1>6, <2>1 DEF DeliveryInv, StoreInv
  <2>3. DownIsQuiet'
    BY <1>6, <1>11 DEF DeliveryInv, DownIsQuiet
  <2>4. AckedIsStored'
    BY <1>4, <1>6, <1>7 DEF DeliveryInv, AckedIsStored
  <2>. QED
    BY <2>2, <2>3, <2>4
<1>. QED
  BY <1>5, <1>6, <1>7, <1>9, <1>11, <1>12 DEF DeliveryInv, AppInv

\* A delivery becomes a job for its own message, or is refused.
LEMMA ReceiveFrameKeeps ==
  ASSUME DeliveryInv, ReceiveFrame PROVE DeliveryInv'
<1>1. /\ Within(app, StoredTags', UpFrames', Jobs', Results')
      /\ Closed(StoredTags', UpFrames', Jobs') /\ Here.object \in Nat
      /\ BrokerInv' /\ StoreInv' /\ AckedIsStored' /\ down \in Seq(DownFrames')
  BY LoopStep DEF ReceiveFrame
<1>a. PICK f : f = Head(down)
  OBVIOUS
<1>2. f \in DownFrames' /\ down' \in Seq(DownFrames')
  BY <1>1, <1>a, HeadTailProperties DEF ReceiveFrame
<1>3. DownIsQuiet'
  BY DEF DeliveryInv, DownIsQuiet, ReceiveFrame
<1>4. /\ f.kind \in {"consumeOk", "cancelOk", "cancelled", "closed", "deliver"}
      /\ f.tag \in Nat
      /\ f.kind = "deliver" => f.msg \in Messages /\ Tagged(f.tag, f.msg)'
  BY <1>2 DEF DownFrames, Frames
<1>5. ASSUME f.kind = "deliver", f.msg \in Undecodable
      PROVE  Frame("reject", f.tag, NoMessage) \in UpFrames'
  <2>1. f.tag \in RefusedTags'
    BY <1>4, <1>5 DEF Tagged, RefusedTags
  <2>. QED
    BY <1>4, <2>1 DEF UpFrames, Frame, Frames, FrameKinds
<1>6. ASSUME f.kind = "deliver"
      PROVE  Frame("insert", f.tag, f.msg) \in Jobs'
  <2>a. PICK g : g = Frame("insert", f.tag, f.msg)
    OBVIOUS
  <2>1. g \in Frames /\ g.msg = f.msg /\ g.tag = f.tag
    BY <1>4, <1>6, <2>a DEF Frame, Frames, FrameKinds
  <2>2. g \in Jobs'
    BY <1>4, <1>6, <2>1 DEF Jobs
  <2>. QED
    BY <2>a, <2>2
<1>7. Within(app', StoredTags', UpFrames', Jobs', Results')
  BY <1>1, <1>4, <1>5, <1>6, <1>a, ReceiveFrameStays
<1>. QED
  BY <1>1, <1>2, <1>3, <1>7 DEF DeliveryInv, AppInv

\* What the broker answers on its wire.
LEMMA AnswerFacts ==
  ASSUME NEW kind \in {"consumeOk", "cancelOk", "cancelled", "closed"},
         down \in Seq(DownFrames'), Answer(kind)
  PROVE  down' \in Seq(DownFrames')
<1>1. Frame(kind, 0, NoMessage) \in DownFrames'
  BY DEF Frame, DownFrames, Frames, FrameKinds
<1>. QED
  BY <1>1, AppendProperties DEF Answer

\* A step of the broker that leaves the process alone.
LEMMA BrokerStep ==
  ASSUME DeliveryInv, BrokerInv', Onward, UNCHANGED <<app, epoch, conn, store, ackedRow>>,
         broker'.acked = broker.acked, conn # "down",
         down' \in Seq(DownFrames')
  PROVE  DeliveryInv'
<1>1. Within(app', StoredTags', UpFrames', Jobs', Results')
  BY SetsGrow
<1>2. StoreInv' /\ DownIsQuiet' /\ AckedIsStored'
  BY DEF DeliveryInv, StoreInv, DownIsQuiet, AckedIsStored
<1>. QED
  BY <1>1, <1>2 DEF DeliveryInv, AppInv

\* The tag of a delivery is new on its channel.
LEMMA DeliverKeeps ==
  ASSUME DeliveryInv, NEW m \in Messages, Deliver(m) PROVE DeliveryInv'
<1>0. BrokerInv
  BY DEF DeliveryInv
<1>a. PICK n : n = broker.nextTag
  OBVIOUS
<1>1. /\ n \in Nat /\ broker'.nextTag = n + 1
      /\ broker'.unacked = broker.unacked \cup {<<n, m>>}
      /\ broker'.acked = broker.acked /\ broker'.open = broker.open
  BY <1>0, <1>a DEF Deliver, BrokerInv, Brokers, Deliveries
<1>2. \A p \in broker.unacked : p[1] \in Nat /\ p[1] < n
  BY <1>0, <1>a DEF BrokerInv, Brokers, Deliveries
<1>3. BrokerInv'
  <2>1. broker' \in Brokers
    BY <1>0, DeliverFacts DEF BrokerInv
  <2>2. \A p \in broker'.unacked : p[1] < broker'.nextTag
    BY <1>1, <1>2
  <2>3. \A p, q \in broker'.unacked : p[1] = q[1] => p = q
    BY <1>0, <1>1, <1>2 DEF BrokerInv, Brokers, Deliveries
  <2>. QED
    BY <2>1, <2>2, <2>3 DEF BrokerInv, Brokers, Deliveries
<1>4. Onward
  BY <1>1, <1>a DEF Onward, Live, Deliver
<1>5. down \in Seq(DownFrames')
  BY <1>3, <1>4, SetsGrow
<1>6. Frame("deliver", n, m) \in DownFrames'
  <2>a. PICK g : g = Frame("deliver", n, m)
    OBVIOUS
  <2>1. g \in Frames /\ g.kind = "deliver" /\ g.msg = m /\ g.tag = n
    BY <1>1, <2>a DEF Frame, Frames, FrameKinds
  <2>2. \A p \in broker'.unacked : p[1] = n => p[2] = m
    BY <1>1, <1>2
  <2>3. Tagged(n, m)'
    BY <1>1, <2>2 DEF Tagged
  <2>4. g \in DownFrames'
    BY <2>1, <2>3 DEF DownFrames
  <2>. QED
    BY <2>a, <2>4
<1>7. down' \in Seq(DownFrames')
  BY <1>5, <1>6, <1>a, AppendProperties DEF Deliver
<1>. QED
  BY <1>1, <1>3, <1>4, <1>7, BrokerStep DEF Deliver

\* A cancelled consumer leaves the deliveries unacknowledged.
LEMMA BrokerCancelsKeeps ==
  ASSUME DeliveryInv, BrokerCancels PROVE DeliveryInv'
<1>1. BrokerInv' /\ Onward /\ broker'.acked = broker.acked
  BY DEF DeliveryInv, BrokerInv, Brokers, BrokerCancels, Onward, Live
<1>2. down' \in Seq(DownFrames')
  BY <1>1, SetsGrow, AnswerFacts DEF BrokerCancels
<1>. QED
  BY <1>1, <1>2, BrokerStep DEF BrokerCancels

\* A closed channel reads no tag any more.
LEMMA ChannelClosesKeeps ==
  ASSUME DeliveryInv, ChannelCloses PROVE DeliveryInv'
<1>1. BrokerInv
  BY DEF DeliveryInv
<1>2. BrokerInv' /\ broker'.acked = broker.acked /\ broker'.open = FALSE
  BY <1>1, RequeuedFacts DEF BrokerInv, ChannelCloses
<1>3. Onward
  BY <1>2 DEF Onward, Live, ChannelCloses
<1>4. down' \in Seq(DownFrames')
  BY <1>2, <1>3, SetsGrow, AnswerFacts DEF ChannelCloses
<1>. QED
  BY <1>2, <1>3, <1>4, BrokerStep DEF ChannelCloses

\* Nor does a broken link.
LEMMA LinkBreaksKeeps ==
  ASSUME DeliveryInv, LinkBreaks PROVE DeliveryInv'
<1>1. BrokerInv
  BY DEF DeliveryInv
<1>2. broker' = [Requeued EXCEPT !.open = TRUE]
  BY <1>1 DEF BrokerInv, Brokers, Requeued, LinkBreaks
<1>3. BrokerInv' /\ broker'.acked = broker.acked
  BY <1>1, <1>2, RequeuedFacts DEF BrokerInv
<1>4. Onward
  BY DEF Onward, Live, LinkBreaks
<1>5. /\ Within(app, StoredTags', UpFrames', Jobs', Results')
      /\ down' \in Seq(DownFrames')
  BY <1>3, <1>4, SetsGrow DEF LinkBreaks
<1>6. Within(app', StoredTags', UpFrames', Jobs', Results')
  BY <1>5, LinkBreaksStays
<1>7. StoreInv' /\ DownIsQuiet' /\ AckedIsStored'
  BY <1>3 DEF DeliveryInv, StoreInv, DownIsQuiet, AckedIsStored, LinkBreaks
<1>. QED
  BY <1>3, <1>5, <1>6, <1>7 DEF DeliveryInv, AppInv

\* The store and the broker survive the process, the tags do not.
LEMMA CrashKeeps ==
  ASSUME DeliveryInv, Crash PROVE DeliveryInv'
<1>1. BrokerInv
  BY DEF DeliveryInv
<1>2. broker' = [Requeued EXCEPT !.open = TRUE]
  BY <1>1 DEF BrokerInv, Brokers, Requeued, Crash
<1>3. BrokerInv' /\ broker'.acked = broker.acked
  BY <1>1, <1>2, RequeuedFacts DEF BrokerInv
<1>4. /\ Within(app', StoredTags', UpFrames', Jobs', Results')
      /\ app'.up = <<>> /\ app'.pending = {}
  BY CrashStays
<1>5. StoreInv' /\ DownIsQuiet' /\ AckedIsStored'
  BY <1>3, <1>4 DEF DeliveryInv, StoreInv, DownIsQuiet, AckedIsStored, Crash
<1>6. down' \in Seq(DownFrames')
  BY EmptySeq DEF Crash
<1>. QED
  BY <1>3, <1>4, <1>5, <1>6 DEF DeliveryInv, AppInv

\* The loss empties the service's sets of tags.
LEMMA LossNoticedKeeps ==
  ASSUME DeliveryInv, LossNoticed PROVE DeliveryInv'
<1>1. BrokerInv'
  BY DEF DeliveryInv, BrokerInv, Brokers, LossNoticed
<1>2. Onward
  BY DEF Onward, Live, LossNoticed
<1>3. Within(app, StoredTags', UpFrames', Jobs', Results')
  BY <1>1, <1>2, SetsGrow
<1>4. /\ Within(app', StoredTags', UpFrames', Jobs', Results')
      /\ app'.up = <<>> /\ app'.pending = {}
  BY <1>3, ResetFacts DEF LossNoticed
<1>5. StoreInv' /\ DownIsQuiet' /\ AckedIsStored'
  BY <1>4 DEF DeliveryInv, StoreInv, DownIsQuiet, AckedIsStored, LossNoticed
<1>6. down' \in Seq(DownFrames')
  BY EmptySeq DEF LossNoticed
<1>. QED
  BY <1>1, <1>4, <1>5, <1>6 DEF DeliveryInv, AppInv

\* The tags of the new channel start again at 1: that no old one is left is what
\* the idle worker and the noticed loss give.
LEMMA ReconnectedKeeps ==
  ASSUME DrainFirst, DeliveryInv, Reconnected PROVE DeliveryInv'
<1>1. BrokerInv' /\ StoreInv' /\ AckedIsStored' /\ epoch \in Nat
  BY DEF DeliveryInv, BrokerInv, Brokers, StoreInv, AckedIsStored, Reconnected
<1>2. /\ app.jobs = <<>> /\ app.done = <<>> /\ app.up = <<>> /\ down' = <<>>
      /\ app.committed = {}
  BY DEF Reconnected, DeliveryInv, DownIsQuiet, AppInv, Within
<1>3. Within(app, StoredTags', UpFrames', Jobs', Results')
  <2>1. \E T0, U0, J0, D0 : Within(app, T0, U0, J0, D0)
    BY DEF DeliveryInv, AppInv
  <2>. QED
    BY <1>2, <2>1, IdleFacts
<1>4. Closed(StoredTags', UpFrames', Jobs')
  BY SetsAreClosed
<1>5. Within(app', StoredTags', UpFrames', Jobs', Results')
  BY <1>1, <1>3, <1>4, ReconnectedStays
<1>6. DownIsQuiet' /\ down' \in Seq(DownFrames')
  BY <1>2, EmptySeq DEF DownIsQuiet, Reconnected
<1>. QED
  BY <1>1, <1>5, <1>6 DEF DeliveryInv, AppInv

\* What one frame read by the broker changes of what it owes.
Settles(tag) ==
  /\ broker'.unacked = broker.unacked \ Unacked(tag)
  /\ \/ /\ broker'.acked = broker.acked \cup {p[2] : p \in Unacked(tag)}
        /\ broker'.rejected = broker.rejected
        /\ \A p \in Unacked(tag) : store[p[2]] # "absent"
     \/ /\ broker'.rejected = broker.rejected \cup {p[2] : p \in Unacked(tag)}
        /\ broker'.acked = broker.acked
        /\ \A p \in Unacked(tag) : p[2] \in Undecodable

\* An acknowledgement the broker reads names a delivery whose message is stored.
LEMMA BrokerReadsFrameKeeps ==
  ASSUME DeliveryInv, BrokerReadsFrame
  PROVE  /\ DeliveryInv'
         /\ \/ broker'.acked = broker.acked /\ broker'.rejected = broker.rejected
            \/ \E tag \in Nat : Settles(tag)
<1>0. BrokerInv /\ app \in Apps(StoredTags, UpFrames, Jobs, Results)
  BY DEF DeliveryInv, AppInv, Within
<1>a. PICK f : f = Head(app.up)
  OBVIOUS
<1>1. f \in UpFrames /\ f \in Frames /\ f.tag \in Nat
  <2>1. app.up \in Seq(UpFrames) /\ app.up # <<>>
    BY <1>0 DEF Apps, BrokerReadsFrame
  <2>2. f \in UpFrames
    BY <2>1, <1>a, HeadTailProperties
  <2>. QED
    BY <2>2 DEF UpFrames, Frames
<1>b. PICK mine : mine = Unacked(f.tag)
  OBVIOUS
<1>2. /\ Reads(f, mine)
      /\ mine \subseteq broker.unacked /\ \A p \in mine : p[1] = f.tag
      /\ \A p \in broker.unacked : p[1] = f.tag => p \in mine
      /\ {p[2] : p \in mine} \subseteq Messages
      /\ broker'.open = broker.open /\ broker'.nextTag = broker.nextTag
      /\ broker'.unacked \subseteq broker.unacked
      /\ broker' \in Brokers
  <2>1. broker \in Brokers /\ (f.kind = "publish" => f.msg \in Messages)
    BY <1>0, <1>1 DEF BrokerInv, UpFrames
  <2>. QED
    BY <1>a, <1>b, <2>1, ReadsFacts
<1>4. /\ conn = "up" /\ conn' = conn /\ store' = store
      /\ epoch' = epoch /\ ackedRow' = ackedRow
      /\ app' = [app EXCEPT !.up = Tail(@)]
  BY DEF BrokerReadsFrame
<1>7. BrokerInv'
  BY <1>0, <1>2 DEF BrokerInv
<1>8. Onward
  <2>1. broker.nextTag \in Nat
    BY <1>0 DEF BrokerInv, Brokers
  <2>. QED
    BY <1>2, <1>4, <2>1 DEF Onward, Live
<1>9. /\ Within(app, StoredTags', UpFrames', Jobs', Results')
      /\ down \in Seq(DownFrames')
  BY <1>7, <1>8, SetsGrow
<1>10. down' \in Seq(DownFrames')
  <2>1. CASE down' = down
    BY <1>9, <2>1
  <2>2. CASE Answer("consumeOk")
    BY <1>9, <2>2, AnswerFacts
  <2>3. CASE Answer("cancelOk")
    BY <1>9, <2>3, AnswerFacts
  <2>. QED
    BY <1>2, <2>1, <2>2, <2>3 DEF Reads
<1>11. Within(app', StoredTags', UpFrames', Jobs', Results')
  BY <1>9, BrokerReadsFrameStays
\* What is settled is stored or cannot be decoded.
<1>12. \/ broker'.acked = broker.acked /\ broker'.rejected = broker.rejected
       \/ Settles(f.tag)
  <2>0. broker \in Brokers
    BY <1>0 DEF BrokerInv
  <2>1. CASE /\ f.kind = "ack" /\ broker.open
             /\ broker' = [broker EXCEPT !.unacked = @ \ mine,
                                         !.acked = @ \cup {p[2] : p \in mine}]
    <3>1. f.tag \in StoredTags /\ Live
      BY <1>1, <1>4, <2>1 DEF UpFrames, Live
    <3>2. \A p \in mine : store[p[2]] # "absent"
      BY <1>2, <3>1 DEF StoredTags
    <3>3. /\ broker'.unacked = broker.unacked \ mine
          /\ broker'.acked = broker.acked \cup {p[2] : p \in mine}
          /\ broker'.rejected = broker.rejected
      BY <2>0, <2>1 DEF Brokers
    <3>. QED
      BY <3>2, <3>3, <1>b DEF Settles
  <2>2. CASE /\ f.kind = "reject" /\ broker.open
             /\ broker' = [broker EXCEPT !.unacked = @ \ mine,
                                         !.rejected = @ \cup {p[2] : p \in mine}]
    <3>1. f.tag \in RefusedTags /\ Live
      BY <1>1, <1>4, <2>2 DEF UpFrames, Live
    <3>2. \A p \in mine : p[2] \in Undecodable
      BY <1>2, <3>1 DEF RefusedTags
    <3>3. /\ broker'.unacked = broker.unacked \ mine
          /\ broker'.rejected = broker.rejected \cup {p[2] : p \in mine}
          /\ broker'.acked = broker.acked
      BY <2>0, <2>2 DEF Brokers
    <3>. QED
      BY <3>2, <3>3, <1>b DEF Settles
  <2>3. CASE broker'.acked = broker.acked /\ broker'.rejected = broker.rejected
    BY <2>3
  <2>. QED
    BY <1>2, <2>0, <2>1, <2>2, <2>3 DEF Reads, Brokers
<1>13. StoreInv' /\ DownIsQuiet' /\ AckedIsStored'
  <2>1. StoreInv' /\ DownIsQuiet'
    BY <1>4 DEF DeliveryInv, StoreInv, DownIsQuiet
  <2>2. AckedIsStored'
    BY <1>2, <1>4, <1>12, <1>b DEF DeliveryInv, AckedIsStored, Settles
  <2>. QED
    BY <2>1, <2>2
<1>14. DeliveryInv'
  BY <1>7, <1>10, <1>11, <1>13 DEF DeliveryInv, AppInv
<1>. QED
  BY <1>1, <1>12, <1>14

\* Every step keeps the invariant when the worker is idle at each reconnect.
LEMMA StepPreservesDeliveryInv ==
  ASSUME DrainFirst, DeliveryInv, [Next]_vars
  PROVE  DeliveryInv'
<1>1. CASE TogglePause
  BY <1>1, TogglePauseKeeps
<1>2. CASE \E m \in Local : Publish(m)
  BY <1>2, PublishKeeps
<1>3. CASE WorkerStep
  BY <1>3, WorkerStepKeeps
<1>4. CASE InsertDone
  BY <1>4, InsertDoneKeeps
<1>5. CASE ReceiveFrame
  BY <1>5, ReceiveFrameKeeps
<1>6. CASE BrokerReadsFrame
  BY <1>6, BrokerReadsFrameKeeps
<1>7. CASE \E m \in Remote \cup Local : Deliver(m)
  BY <1>7, DeliverKeeps DEF Messages
<1>8. CASE BrokerCancels
  BY <1>8, BrokerCancelsKeeps
<1>9. CASE ChannelCloses
  BY <1>9, ChannelClosesKeeps
<1>10. CASE LinkBreaks
  BY <1>10, LinkBreaksKeeps
<1>11. CASE Crash
  BY <1>11, CrashKeeps
<1>12. CASE LossNoticed
  BY <1>12, LossNoticedKeeps
<1>13. CASE Reconnected
  BY <1>13, ReconnectedKeeps
<1>14. CASE UNCHANGED vars
  <2>1. /\ Within(app, StoredTags', UpFrames', Jobs', Results')
        /\ BrokerInv' /\ StoreInv' /\ AckedIsStored' /\ down \in Seq(DownFrames')
    BY <1>14, LoopStep DEF vars
  <2>2. DownIsQuiet'
    BY <1>14 DEF vars, DeliveryInv, DownIsQuiet
  <2>. QED
    BY <1>14, <2>1, <2>2 DEF vars, DeliveryInv, AppInv
<1>. QED
  BY <1>1, <1>2, <1>3, <1>4, <1>5, <1>6, <1>7, <1>8, <1>9, <1>10, <1>11, <1>12,
     <1>13, <1>14 DEF Next

\* Nothing that any place of the process or any wire knows about a delivery tag
\* goes stale, provided the worker is idle whenever a connection is replaced.
THEOREM DeliveryInvariance == DrainFirst => (Spec => []DeliveryInv)
<1>. SUFFICES ASSUME DrainFirst PROVE Spec => []DeliveryInv
  OBVIOUS
<1>1. Init => DeliveryInv
  BY InitDeliveryInv
<1>2. DeliveryInv /\ [Next]_vars => DeliveryInv'
  BY StepPreservesDeliveryInv
<1>. QED
  BY <1>1, <1>2, PTL DEF Spec

\* A message the broker was told to forget has a row in the store, whatever
\* crashes, lost connections, redeliveries and pauses came between the insert and
\* the acknowledgement, provided the worker is idle whenever a connection is replaced.
THEOREM AckedAlwaysStored == DrainFirst => (Spec => []AckedIsStored)
<1>. SUFFICES ASSUME DrainFirst PROVE Spec => []AckedIsStored
  OBVIOUS
<1>1. DeliveryInv => AckedIsStored
  BY DEF DeliveryInv
<1>. QED
  BY <1>1, DeliveryInvariance, PTL

-----------------------------------------------------------------------------
(* Consumption implements the at-least-once promise. *)

Kept == {m \in Messages : store[m] # "absent"}

Settled == broker.acked \cup broker.rejected

\* Every step keeps one message, settles one that is kept or cannot be decoded, or
\* is invisible to the promise.
LEMMA StepIsPromised ==
  ASSUME DeliveryInv, [Next]_vars
  PROVE  \/ Kept' = Kept /\ Settled' = Settled
         \/ \E m \in Messages : Kept' = Kept \cup {m} /\ Settled' = Settled
         \/ \E m \in Messages : /\ m \in Kept \cup Undecodable
                                /\ Settled' = Settled \cup {m} /\ Kept' = Kept
<1>0. BrokerInv /\ broker \in Brokers
  BY DEF DeliveryInv, BrokerInv
<1>1. CASE WorkerStep
  <2>1. broker' = broker
    BY <1>1, WorkerStepKeeps
  <2>2. CASE store' = store
    BY <2>1, <2>2 DEF Kept, Settled
  <2>3. CASE \E m \in Messages :
               store[m] = "absent" /\ \E d \in {"sent", "received"} :
                                        store' = [store EXCEPT ![m] = d]
    <3>1. PICK m \in Messages, d \in {"sent", "received"} :
                 store' = [store EXCEPT ![m] = d]
      BY <2>3
    <3>2. store \in [Messages -> {"absent", "sent", "received"}]
      BY DEF DeliveryInv, StoreInv
    <3>3. Kept' = Kept \cup {m}
      BY <3>1, <3>2 DEF Kept
    <3>4. Settled' = Settled
      BY <2>1 DEF Settled
    <3>. QED
      BY <3>3, <3>4
  <2>. QED
    BY <1>1, <2>2, <2>3, WorkerStepKeeps
<1>2. CASE BrokerReadsFrame
  <2>1. Kept' = Kept
    BY <1>2 DEF BrokerReadsFrame, Kept
  <2>2. CASE broker'.acked = broker.acked /\ broker'.rejected = broker.rejected
    BY <2>1, <2>2 DEF Settled
  <2>3. CASE \E tag \in Nat : Settles(tag)
    <3>1. PICK tag \in Nat : Settles(tag)
      BY <2>3
    <3>a. PICK mine : mine = Unacked(tag)
      OBVIOUS
    <3>2. /\ \A p, q \in mine : p = q
          /\ \A p \in mine : p[2] \in Messages
      BY <1>0, <3>a DEF Unacked, BrokerInv, Brokers, Deliveries
    <3>3. /\ Settled' = Settled \cup {p[2] : p \in mine}
          /\ \A p \in mine : p[2] \in Messages => p[2] \in Kept \cup Undecodable
      BY <3>1, <3>a DEF Settles, Settled, Kept
    <3>4. CASE mine = {}
      BY <2>1, <3>3, <3>4
    <3>5. CASE mine # {}
      <4>1. PICK p : p \in mine
        BY <3>5
      <4>2. {q[2] : q \in mine} = {p[2]}
        BY <3>2, <4>1
      <4>. QED
        BY <2>1, <3>2, <3>3, <4>1, <4>2
    <3>. QED
      BY <3>4, <3>5
  <2>. QED
    BY <1>2, <2>2, <2>3, BrokerReadsFrameKeeps
<1>3. CASE /\ store' = store
           /\ broker'.acked = broker.acked /\ broker'.rejected = broker.rejected
  BY <1>3 DEF Kept, Settled
<1>4. CASE ChannelCloses
  <2>1. broker'.acked = broker.acked /\ broker'.rejected = broker.rejected
    BY <1>0, <1>4, RequeuedFacts DEF ChannelCloses
  <2>. QED
    BY <1>3, <1>4, <2>1 DEF ChannelCloses
<1>5. CASE LinkBreaks \/ Crash
  <2>1. broker' = [Requeued EXCEPT !.open = TRUE] /\ store' = store
    BY <1>0, <1>5 DEF Brokers, Requeued, LinkBreaks, Crash
  <2>2. broker'.acked = broker.acked /\ broker'.rejected = broker.rejected
    BY <1>0, <2>1, RequeuedFacts
  <2>. QED
    BY <1>3, <2>1, <2>2
<1>6. CASE BrokerCancels \/ \E m \in Remote \cup Local : Deliver(m)
  BY <1>0, <1>3, <1>6 DEF BrokerCancels, Deliver, Brokers
<1>7. CASE \/ TogglePause \/ InsertDone \/ ReceiveFrame \/ LossNoticed \/ Reconnected
           \/ \E m \in Local : Publish(m)
  BY <1>3, <1>7 DEF TogglePause, InsertDone, ReceiveFrame, LossNoticed, Reconnected,
                    Publish
<1>8. CASE UNCHANGED vars
  BY <1>3, <1>8 DEF vars
<1>. QED
  BY <1>1, <1>2, <1>4, <1>5, <1>6, <1>7, <1>8 DEF Next

\* The at-least-once promise: a message leaves the broker only when it is in the
\* store or cannot be decoded, one message at a time, and neither the store nor the
\* broker takes anything back, provided the worker is idle whenever a connection is
\* replaced.
THEOREM PromiseAlwaysKept == DrainFirst => (Spec => KeepsPromise)
<1>. SUFFICES ASSUME DrainFirst PROVE Spec => KeepsPromise
  OBVIOUS
<1>1. Init => Promise!PromiseInit
  BY DEF Init, Promise!PromiseInit
<1>2. DeliveryInv /\ [Next]_vars =>
        [Promise!PromiseNext]_<<Kept, Settled>>
  <2>. SUFFICES ASSUME DeliveryInv, [Next]_vars
                PROVE  [Promise!PromiseNext]_<<Kept, Settled>>
    OBVIOUS
  <2>. QED
    BY StepIsPromised DEF Promise!PromiseNext, Promise!Keep, Promise!Settle, Kept, Settled
<1>. QED
  BY <1>1, <1>2, DeliveryInvariance, PTL
     DEF Spec, KeepsPromise, Promise!PromiseSpec, Kept, Settled

-----------------------------------------------------------------------------
(* The consumer: the service's flags against the broker's. *)

\* Frames of a kind on a wire: whether there is one, at most one, and that those
\* of one kind are ahead of those of another.
Has(s, kind) == \E i \in DOMAIN s : s[i].kind = kind

Once(s, kind) == \A i, j \in DOMAIN s : s[i].kind = kind /\ s[j].kind = kind => i = j

Before(s, first, second) ==
  \A i, j \in DOMAIN s : s[i].kind = first /\ s[j].kind = second => i < j

\* A frame behind the others.
LEMMA KindsAfterAppend ==
  ASSUME NEW S, NEW s \in Seq(S), NEW f \in S, NEW t, t = Append(s, f)
  PROVE  /\ \A k : Has(t, k) <=> Has(s, k) \/ f.kind = k
         /\ \A k : Once(s, k) /\ (f.kind = k => ~Has(s, k)) => Once(t, k)
         /\ \A k, l : Before(s, k, l) /\ k # l /\ (f.kind = k => ~Has(s, l)) => Before(t, k, l)
<1>1. PICK n \in Nat : n = Len(s) /\ DOMAIN s = 1 .. n
  BY LenProperties
<1>2. /\ DOMAIN t = 1 .. n + 1 /\ t[n + 1] = f
      /\ \A i \in 1 .. n : t[i] = s[i]
  BY <1>1, AppendProperties, LenProperties
<1>3. \A i \in DOMAIN t : i \in DOMAIN s \/ i = n + 1
  BY <1>1, <1>2
<1>4. \A k : Has(t, k) <=> Has(s, k) \/ f.kind = k
  BY <1>1, <1>2, <1>3 DEF Has
<1>5. \A k : Once(s, k) /\ (f.kind = k => ~Has(s, k)) => Once(t, k)
  BY <1>1, <1>2, <1>3 DEF Has, Once
<1>6. \A k, l : Before(s, k, l) /\ k # l /\ (f.kind = k => ~Has(s, l)) => Before(t, k, l)
  BY <1>1, <1>2, <1>3 DEF Has, Before
<1>. QED
  BY <1>4, <1>5, <1>6

\* The first frame is taken.
LEMMA KindsAfterTail ==
  ASSUME NEW S, NEW s \in Seq(S), s # <<>>, NEW t, t = Tail(s),
         NEW f, f = Head(s)
  PROVE  /\ \A k : Has(s, k) <=> Has(t, k) \/ f.kind = k
         /\ \A k : Once(s, k) => Once(t, k) /\ (f.kind = k => ~Has(t, k))
         /\ \A k, l : Before(s, k, l) => Before(t, k, l)
         /\ \A k, l : Before(s, k, l) /\ f.kind = l => ~Has(s, k)
<1>1. PICK n \in Nat : n = Len(s) /\ DOMAIN s = 1 .. n /\ n # 0
  BY LenProperties, EmptySeq
<1>2. /\ DOMAIN t = 1 .. n - 1 /\ f = s[1]
      /\ \A i \in 1 .. n - 1 : t[i] = s[i + 1]
  BY <1>1, HeadTailProperties, LenProperties
<1>3. /\ \A i \in DOMAIN s : i = 1 \/ (i - 1 \in DOMAIN t /\ t[i - 1] = s[i])
      /\ \A i \in DOMAIN t : i + 1 \in DOMAIN s /\ s[i + 1] = t[i]
      /\ 1 \in DOMAIN s
  BY <1>1, <1>2
<1>4. \A k : Has(s, k) <=> Has(t, k) \/ f.kind = k
  BY <1>2, <1>3 DEF Has
<1>5. \A k : Once(s, k) => Once(t, k) /\ (f.kind = k => ~Has(t, k))
  BY <1>1, <1>2, <1>3 DEF Has, Once
<1>6. \A k, l : Before(s, k, l) => Before(t, k, l)
  BY <1>1, <1>2, <1>3 DEF Before
<1>7. \A k, l : Before(s, k, l) /\ f.kind = l => ~Has(s, k)
  BY <1>1, <1>2, <1>3 DEF Has, Before
<1>. QED
  BY <1>4, <1>5, <1>6, <1>7

\* Nothing on the wire.
LEMMA KindsOfEmpty ==
  /\ \A k : ~Has(<<>>, k) /\ Once(<<>>, k)
  /\ \A k, l : Before(<<>>, k, l)
  BY DEF Has, Once, Before

\* v differs from u by frames that are not about the consumer.
Noise(u, v) ==
  /\ \A k \in {"consume", "cancel"} : /\ Has(v, k) <=> Has(u, k)
                                      /\ Once(u, k) => Once(v, k)
  /\ Before(u, "cancel", "consume") => Before(v, "cancel", "consume")

\* A frame about something else is noise.
LEMMA NoiseAppend ==
  ASSUME NEW S, NEW u \in Seq(S), NEW f \in S, f.kind \notin {"consume", "cancel"},
         NEW v, v = Append(u, f)
  PROVE  Noise(u, v)
  BY KindsAfterAppend DEF Noise

\* And so are several.
LEMMA NoiseConcat ==
  ASSUME NEW S, NEW u \in Seq(S), NEW x \in Seq(S),
         \A i \in DOMAIN x : x[i].kind \notin {"consume", "cancel"},
         NEW v, v = u \o x
  PROVE  Noise(u, v)
<1>1. PICK n \in Nat, m \in Nat : /\ n = Len(u) /\ DOMAIN u = 1 .. n
                                 /\ m = Len(x) /\ DOMAIN x = 1 .. m
  BY LenProperties
<1>2. /\ DOMAIN v = 1 .. n + m
      /\ \A i \in 1 .. n + m : v[i] = IF i <= n THEN u[i] ELSE x[i - n]
  BY <1>1, ConcatProperties, LenProperties
<1>3. /\ \A i \in DOMAIN u : i \in DOMAIN v /\ v[i] = u[i]
      /\ \A i \in DOMAIN v : \/ i \in DOMAIN u /\ v[i] = u[i]
                             \/ v[i].kind \notin {"consume", "cancel"}
  <2>1. \A i \in 1 .. n + m : i <= n \/ i - n \in 1 .. m
    OBVIOUS
  <2>. QED
    BY <1>1, <1>2, <2>1
<1>4. \A k \in {"consume", "cancel"} : Has(v, k) <=> Has(u, k)
  BY <1>3 DEF Has
<1>5. \A k \in {"consume", "cancel"} : Once(u, k) => Once(v, k)
  BY <1>3 DEF Once
<1>6. Before(u, "cancel", "consume") => Before(v, "cancel", "consume")
  BY <1>3 DEF Before
<1>. QED
  BY <1>4, <1>5, <1>6 DEF Noise

\* The flags of a and b agree.
Same(a, b) ==
  /\ b.chan = a.chan /\ (b.open <=> a.open) /\ (b.paused <=> a.paused)
  /\ (b.consuming <=> a.consuming) /\ (b.starting <=> a.starting)
  /\ (b.cancelPending <=> a.cancelPending) /\ (b.tagged <=> a.tagged)

\* A call that is not about the consumer: the flags stay, and at most some other
\* frames are written, on a live wire and on a channel.
Unrelated(a, b, w) ==
  /\ Same(a, b) /\ Noise(a.up, b.up)
  /\ ~w.live \/ a.chan = 0 => b.up = a.up

Typed(a) == Within(a, Nat, OutFrames, Rows, Rows)

\* Writing a frame.
LEMMA SendFlags ==
  ASSUME NEW a, Typed(a), NEW w, NEW f, NEW b, b = Send(a, w, f)
  PROVE  /\ Same(a, b)
         /\ b.up = IF w.live /\ a.chan = w.object THEN Append(a.up, f) ELSE a.up
  BY DEF Typed, Within, Apps, Send, Same

\* And nothing at all.
LEMMA NoiseRefl ==
  ASSUME NEW u PROVE Noise(u, u)
  BY DEF Noise

\* confirmInserted().
LEMMA ConfirmInsertedFlags ==
  ASSUME NEW a, Typed(a), NEW w, NEW tag \in Nat, NEW b, b = ConfirmInserted(a, w, tag)
  PROVE  Unrelated(a, b, w)
<1>0. a \in Apps(Nat, OutFrames, Rows, Rows)
  BY DEF Typed, Within
<1>a. PICK f : f = Frame("ack", tag, NoMessage)
  OBVIOUS
<1>b. PICK s : s = Send(a, w, f)
  OBVIOUS
<1>c. PICK c : c = [s EXCEPT !.committed = @ \ {tag}, !.pending = @ \ {tag}]
  OBVIOUS
<1>1. CASE b = a \/ b = [a EXCEPT !.committed = @ \cup {tag}]
  <2>1. Same(a, b) /\ b.up = a.up
    BY <1>0, <1>1 DEF Apps, Same
  <2>. QED
    BY <2>1, NoiseRefl DEF Unrelated
<1>2. CASE a.chan # 0 /\ b = OnDeliveryAcked(c, tag)
  <2>1. f \in OutFrames /\ f.kind = "ack"
    BY <1>a DEF Frame, Frames, FrameKinds, OutFrames
  <2>2. s \in Apps(Nat, OutFrames, Rows, Rows)
    BY <1>b, <2>1, SendFacts DEF Typed, Within
  <2>3. /\ Same(a, s)
        /\ s.up = IF w.live /\ a.chan = w.object THEN Append(a.up, f) ELSE a.up
    BY <1>b, SendFlags
  <2>4. c \in Apps(Nat, OutFrames, Rows, Rows) /\ Same(s, c) /\ c.up = s.up
    BY <1>c, <2>2 DEF Apps, Same
  <2>5. Same(c, b) /\ b.up = c.up
    BY <1>2, <2>4 DEF OnDeliveryAcked, Enqueue, Apps, Same
  <2>6. Same(a, b)
    BY <2>3, <2>4, <2>5 DEF Same
  <2>7. a.up \in Seq(OutFrames)
    BY <1>0 DEF Apps
  <2>8. Noise(a.up, b.up)
    <3>1. CASE b.up = a.up
      BY <3>1, NoiseRefl
    <3>2. CASE b.up = Append(a.up, f)
      BY <2>1, <2>7, <3>2, NoiseAppend
    <3>. QED
      BY <2>3, <2>4, <2>5, <3>1, <3>2
  <2>9. ~w.live => b.up = a.up
    BY <2>3, <2>4, <2>5
  <2>. QED
    BY <1>2, <2>6, <2>8, <2>9 DEF Unrelated
<1>. QED
  BY <1>1, <1>2, <1>a, <1>b, <1>c DEF ConfirmInserted

\* The loop of pauseConsuming().
LEMMA ConfirmCommittedFlags ==
  ASSUME NEW a, Typed(a), NEW w, NEW order \in Seq(a.committed),
         NEW b, b = ConfirmCommitted(a, w, order)
  PROVE  Unrelated(a, b, w)
<1>0. a \in Apps(Nat, OutFrames, Rows, Rows)
  BY DEF Typed, Within
<1>a. PICK acks, marks : acks = Acks(order) /\ marks = Marks(a, order)
  OBVIOUS
<1>1. CASE b = a
  <2>1. Same(a, b) /\ b.up = a.up
    BY <1>1 DEF Same
  <2>. QED
    BY <2>1, NoiseRefl DEF Unrelated
<1>2. CASE a.chan # 0 /\ b # a
  <2>1. acks \in Seq(OutFrames)
    BY <1>a, LoopFrames, TypesAreClosed DEF Typed
  <2>2. \A i \in DOMAIN acks : acks[i].kind \notin {"consume", "cancel"}
    BY <1>a DEF Acks, Frame
  <2>a. PICK tags : tags = Range(order)
    OBVIOUS
  <2>b. PICK u : u = IF w.live /\ a.chan = w.object THEN a.up \o acks ELSE a.up
    OBVIOUS
  <2>c. PICK k, j : k = {p \in a.ackId : p[1] \notin tags} /\ j = a.jobs \o marks
    OBVIOUS
  <2>3. b = [a EXCEPT !.up = u, !.committed = @ \ tags, !.pending = @ \ tags,
                      !.ackId = k, !.jobs = j]
    BY <1>2, <1>a, <2>a, <2>b, <2>c DEF ConfirmCommitted, Acks, Marks
  <2>4. Same(a, b) /\ b.up = u
    BY <1>0, <2>3 DEF Apps, Same
  <2>5. a.up \in Seq(OutFrames)
    BY <1>0 DEF Apps
  <2>6. Noise(a.up, u)
    BY <2>1, <2>2, <2>5, <2>b, NoiseConcat, NoiseRefl
  <2>. QED
    BY <1>2, <2>4, <2>6, <2>b DEF Unrelated
<1>. QED
  BY <1>1, <1>2 DEF ConfirmCommitted

\* onReceived().
LEMMA OnReceivedFlags ==
  ASSUME NEW a, Typed(a), NEW w, NEW tag \in Nat, NEW m, NEW b, b = OnReceived(a, w, tag, m)
  PROVE  Unrelated(a, b, w)
<1>0. a \in Apps(Nat, OutFrames, Rows, Rows) /\ a.up \in Seq(OutFrames)
  BY DEF Typed, Within, Apps
<1>a. PICK f : f = Frame("reject", tag, NoMessage)
  OBVIOUS
<1>b. PICK s : s = Send(a, w, f)
  OBVIOUS
<1>1. CASE b = a \/ b = Enqueue([a EXCEPT !.pending = @ \cup {tag}], "insert", tag, m)
  <2>1. Same(a, b) /\ b.up = a.up
    BY <1>0, <1>1 DEF Apps, Same, Enqueue
  <2>. QED
    BY <2>1, NoiseRefl DEF Unrelated
<1>2. CASE /\ a.chan # 0
           /\ b = [s EXCEPT !.pending = @ \ {tag}, !.committed = @ \ {tag}]
  <2>1. f \in OutFrames /\ f.kind = "reject"
    BY <1>a DEF Frame, Frames, FrameKinds, OutFrames
  <2>2. s \in Apps(Nat, OutFrames, Rows, Rows)
    BY <1>b, <2>1, SendFacts DEF Typed, Within
  <2>3. /\ Same(a, s)
        /\ s.up = IF w.live /\ a.chan = w.object THEN Append(a.up, f) ELSE a.up
    BY <1>b, SendFlags
  <2>4. Same(s, b) /\ b.up = s.up
    BY <1>2, <2>2 DEF Apps, Same
  <2>5. Same(a, b)
    BY <2>3, <2>4 DEF Same
  <2>6. Noise(a.up, b.up)
    <3>1. CASE b.up = a.up
      BY <3>1, NoiseRefl
    <3>2. CASE b.up = Append(a.up, f)
      BY <1>0, <2>1, <3>2, NoiseAppend
    <3>. QED
      BY <2>3, <2>4, <3>1, <3>2
  <2>. QED
    BY <1>2, <2>3, <2>4, <2>5, <2>6 DEF Unrelated
<1>. QED
  BY <1>1, <1>2, <1>a, <1>b DEF OnReceived, RejectDelivery

\* The frames about the consumer on both wires: at most one of a kind, and in the
\* order in which one is the reason for the next.
Queues(u, d) ==
  /\ Once(u, "consume") /\ Once(u, "cancel") /\ Before(u, "cancel", "consume")
  /\ Once(d, "consumeOk") /\ Once(d, "cancelOk") /\ Once(d, "cancelled")
  /\ Before(d, "cancelOk", "consumeOk") /\ Before(d, "consumeOk", "cancelled")

Asked(a, d) == Has(a.up, "consume") \/ Has(d, "consumeOk")

Ending(a, d) == Has(a.up, "cancel") \/ Has(d, "cancelOk")

\* What the service believes of its consumer, with d on the wire from a broker that
\* has n consumers.  A cancel may have been overtaken by the broker's own: its
\* answer then comes while no consumer, or a new one, is on its way.
Flags(a, d, n) ==
  /\ ~(Has(a.up, "consume") /\ Has(d, "consumeOk"))
  /\ ~(Has(a.up, "cancel") /\ Has(d, "cancelOk"))
  /\ ~(Has(a.up, "cancel") /\ Has(d, "consumeOk"))
  /\ a.starting <=> Asked(a, d)
  /\ a.starting => ~a.consuming
  /\ a.tagged <=> a.consuming
  /\ a.cancelPending <=> a.consuming /\ Ending(a, d)
  /\ Has(d, "cancelled") => a.consuming \/ Has(d, "consumeOk")
  /\ a.consuming => Before(d, "cancelled", "cancelOk")
  /\ n = IF /\ ~Has(d, "cancelled")
            /\ Has(d, "consumeOk") \/ (a.consuming /\ ~Has(d, "cancelOk"))
         THEN 1 ELSE 0
  /\ ~a.starting /\ ~a.consuming => a.paused
  /\ a.consuming /\ a.paused => a.cancelPending

Agree(a, d, n) == Queues(a.up, d) /\ Flags(a, d, n)

\* Frames about something else make no difference.
LEMMA NoiseAgrees ==
  ASSUME NEW a, NEW d, NEW n, Agree(a, d, n), NEW b, Same(a, b), Noise(a.up, b.up)
  PROVE  Agree(b, d, n)
<1>1. Queues(b.up, d)
  BY DEF Agree, Queues, Noise
<1>2. Flags(b, d, n)
  BY DEF Agree, Flags, Same, Noise, Asked, Ending
<1>. QED
  BY <1>1, <1>2 DEF Agree

\* No consumer is there or on its way, although a cancel may still be answered.
Vacant(a, d, n) ==
  /\ Queues(a.up, d) /\ ~Asked(a, d) /\ ~Has(d, "cancelled")
  /\ ~(Has(a.up, "cancel") /\ Has(d, "cancelOk"))
  /\ ~a.starting /\ ~a.consuming /\ ~a.cancelPending /\ ~a.tagged /\ n = 0

\* startConsuming() without a consumer asks for one, on the channel of the wire.
LEMMA StartAgrees ==
  ASSUME NEW a, Typed(a), NEW d, NEW n, Vacant(a, d, n), ~a.paused, a.open,
         NEW w, w.live, w.object # 0, a.chan \in {0, w.object},
         NEW b, b = StartConsuming(a, w)
  PROVE  Agree(b, d, n) /\ b.open /\ b.chan = w.object
<1>0. a \in Apps(Nat, OutFrames, Rows, Rows) /\ a.up \in Seq(OutFrames)
  BY DEF Typed, Within, Apps
<1>a. PICK f : f = Frame("consume", 0, NoMessage)
  OBVIOUS
<1>b. PICK u : u = Append(a.up, f)
  OBVIOUS
<1>1. f \in OutFrames /\ f.kind = "consume"
  BY <1>a DEF Frame, Frames, FrameKinds, OutFrames
<1>2. b = Send([EnsureChannel(a, w) EXCEPT !.starting = TRUE], w, f)
  BY <1>a DEF StartConsuming, Vacant
<1>3. /\ b.chan = w.object /\ b.open /\ b.starting /\ b.up = u
      /\ (b.consuming <=> a.consuming) /\ (b.cancelPending <=> a.cancelPending)
      /\ (b.tagged <=> a.tagged) /\ (b.paused <=> a.paused)
  BY <1>0, <1>2, <1>b DEF EnsureChannel, Send, Apps
<1>4. /\ \A k : Has(u, k) <=> Has(a.up, k) \/ "consume" = k
      /\ \A k : Once(a.up, k) /\ ("consume" = k => ~Has(a.up, k)) => Once(u, k)
      /\ Before(a.up, "cancel", "consume") => Before(u, "cancel", "consume")
  <2>a. PICK x \in Seq(OutFrames) : x = a.up
    BY <1>0
  <2>1. /\ \A k : Has(u, k) <=> Has(x, k) \/ f.kind = k
        /\ \A k : Once(x, k) /\ (f.kind = k => ~Has(x, k)) => Once(u, k)
        /\ \A k, l : Before(x, k, l) /\ k # l /\ (f.kind = k => ~Has(x, l))
                       => Before(u, k, l)
    <3>1. u = Append(x, f)
      BY <1>b, <2>a
    <3>. QED
      BY <1>1, <3>1, KindsAfterAppend
  <2>. QED
    BY <1>1, <2>1, <2>a
<1>5. Queues(b.up, d)
  BY <1>3, <1>4 DEF Vacant, Queues, Asked
<1>6. Flags(b, d, n)
  BY <1>3, <1>4 DEF Vacant, Flags, Asked, Ending
<1>. QED
  BY <1>3, <1>5, <1>6 DEF Agree

\* cancelConsumer() with a consumer and a pause asks for its end.
LEMMA CancelAgrees ==
  ASSUME NEW a, Typed(a), NEW d, NEW n, Queues(a.up, d), ~Asked(a, d), ~Ending(a, d),
         a.consuming, a.tagged, ~a.starting, ~a.cancelPending, a.paused, a.open,
         n = IF Has(d, "cancelled") THEN 0 ELSE 1,
         NEW w, w.live, w.object # 0, a.chan = w.object,
         NEW b, b = CancelConsumer(a, w)
  PROVE  Agree(b, d, n) /\ b.open /\ b.chan = w.object
<1>0. a \in Apps(Nat, OutFrames, Rows, Rows) /\ a.up \in Seq(OutFrames)
  BY DEF Typed, Within, Apps
<1>a. PICK f : f = Frame("cancel", 0, NoMessage)
  OBVIOUS
<1>b. PICK u : u = Append(a.up, f)
  OBVIOUS
<1>1. f \in OutFrames /\ f.kind = "cancel"
  BY <1>a DEF Frame, Frames, FrameKinds, OutFrames
<1>2. b = Send([a EXCEPT !.cancelPending = TRUE], w, f)
  BY <1>a DEF CancelConsumer
<1>3. /\ b.chan = w.object /\ b.open /\ b.cancelPending /\ b.up = u
      /\ (b.consuming <=> a.consuming) /\ (b.starting <=> a.starting)
      /\ (b.tagged <=> a.tagged) /\ (b.paused <=> a.paused)
  BY <1>0, <1>2, <1>b DEF Send, Apps
<1>4. /\ \A k : Has(u, k) <=> Has(a.up, k) \/ "cancel" = k
      /\ \A k : Once(a.up, k) /\ ("cancel" = k => ~Has(a.up, k)) => Once(u, k)
      /\ Before(a.up, "cancel", "consume") /\ ~Has(a.up, "consume")
           => Before(u, "cancel", "consume")
  <2>a. PICK x \in Seq(OutFrames) : x = a.up
    BY <1>0
  <2>1. /\ \A k : Has(u, k) <=> Has(x, k) \/ f.kind = k
        /\ \A k : Once(x, k) /\ (f.kind = k => ~Has(x, k)) => Once(u, k)
        /\ \A k, l : Before(x, k, l) /\ k # l /\ (f.kind = k => ~Has(x, l))
                       => Before(u, k, l)
    <3>1. u = Append(x, f)
      BY <1>b, <2>a
    <3>. QED
      BY <1>1, <3>1, KindsAfterAppend
  <2>. QED
    BY <1>1, <2>1, <2>a
<1>5. Queues(b.up, d)
  BY <1>3, <1>4 DEF Queues, Asked, Ending
<1>6. Before(d, "cancelled", "cancelOk")
  BY DEF Ending, Has, Before
<1>7. Flags(b, d, n)
  BY <1>3, <1>4, <1>6 DEF Flags, Asked, Ending
<1>. QED
  BY <1>3, <1>5, <1>7 DEF Agree

\* pauseConsuming(), on the wire of the channel.
LEMMA PauseAgrees ==
  ASSUME NEW a, Typed(a), NEW d, NEW n, Agree(a, d, n), a.open,
         NEW w, w.live, w.object # 0, w.object \in Nat,
         \/ a.chan = w.object
         \/ a.chan = 0 /\ Vacant(a, d, n),
         NEW order \in SetToSeqs(a.committed),
         NEW b, b = PauseConsuming(a, w, ~a.paused, order)
  PROVE  /\ Agree(b, d, n) /\ b.open
         /\ b.chan = w.object \/ (b.chan = 0 /\ b.up = a.up)
<1>0. a \in Apps(Nat, OutFrames, Rows, Rows)
  BY DEF Typed, Within
<1>1. CASE ~a.paused
  <2>a. PICK c : c = [a EXCEPT !.paused = TRUE]
    OBVIOUS
  <2>1. b = CancelConsumer(c, w)
    BY <1>1, <2>a DEF PauseConsuming
  <2>2. /\ Typed(c) /\ c.chan = a.chan /\ c.open /\ c.paused /\ c.up = a.up
        /\ (c.consuming <=> a.consuming) /\ (c.starting <=> a.starting)
        /\ (c.cancelPending <=> a.cancelPending) /\ (c.tagged <=> a.tagged)
    BY <1>0, <2>a DEF Typed, Within, Apps
  <2>3. CASE a.consuming /\ ~a.cancelPending
    <3>1. a.chan = w.object
      BY <2>3 DEF Vacant
    <3>2. /\ Queues(c.up, d) /\ ~Asked(c, d) /\ ~Ending(c, d)
          /\ c.tagged /\ ~c.starting
          /\ n = IF Has(d, "cancelled") THEN 0 ELSE 1
      BY <2>2, <2>3 DEF Agree, Flags, Asked, Ending
    <3>3. c.consuming /\ ~c.cancelPending /\ c.chan = w.object
      BY <2>2, <2>3, <3>1
    <3>4. Agree(b, d, n) /\ b.open /\ b.chan = w.object
      BY <2>1, <2>2, <3>2, <3>3, CancelAgrees
    <3>. QED
      BY <3>4
  <2>4. CASE ~(a.consuming /\ ~a.cancelPending)
    <3>1. b = c
      BY <2>1, <2>2, <2>4 DEF CancelConsumer, Agree, Flags
    <3>2. Queues(c.up, d) /\ Flags(c, d, n)
      BY <2>2, <2>4 DEF Agree, Flags, Asked, Ending
    <3>. QED
      BY <2>2, <3>1, <3>2 DEF Agree
  <2>. QED
    BY <2>3, <2>4
<1>2. CASE a.paused
  <2>a. PICK c : c = [a EXCEPT !.paused = FALSE]
    OBVIOUS
  <2>b. PICK e : e = ConfirmCommitted(c, w, order)
    OBVIOUS
  <2>1. /\ Typed(c) /\ c.chan = a.chan /\ c.open /\ ~c.paused /\ c.up = a.up
        /\ (c.consuming <=> a.consuming) /\ (c.starting <=> a.starting)
        /\ (c.cancelPending <=> a.cancelPending) /\ (c.tagged <=> a.tagged)
        /\ c.committed = a.committed
    BY <1>0, <2>a DEF Typed, Within, Apps
  <2>2. order \in Seq(c.committed)
    BY <2>1, OrderIsSeq DEF Typed, Within
  <2>3. Typed(e) /\ Unrelated(c, e, w)
    BY <2>1, <2>2, <2>b, TypesAreClosed, ConfirmCommittedFacts, ConfirmCommittedFlags
       DEF Typed
  <2>4. b = IF ~e.consuming /\ ~e.cancelPending THEN StartConsuming(e, w) ELSE e
    BY <1>2, <2>a, <2>b DEF PauseConsuming
  <2>5. /\ e.chan = a.chan /\ e.open /\ ~e.paused /\ Noise(a.up, e.up)
        /\ (e.consuming <=> a.consuming) /\ (e.starting <=> a.starting)
        /\ (e.cancelPending <=> a.cancelPending) /\ (e.tagged <=> a.tagged)
        /\ a.chan = 0 => e.up = a.up
    BY <2>1, <2>3 DEF Unrelated, Same
  <2>6. Queues(e.up, d)
    BY <2>5 DEF Agree, Queues, Noise
  <2>7. CASE a.consuming \/ a.starting
    <3>1. b = e
      BY <2>4, <2>5, <2>7 DEF Agree, Flags, StartConsuming
    <3>2. Flags(e, d, n)
      BY <2>5, <2>7 DEF Agree, Flags, Noise, Asked, Ending
    <3>3. a.chan = w.object
      BY <2>7 DEF Vacant
    <3>4. e.open /\ e.chan = w.object
      BY <2>5, <3>3
    <3>5. Agree(e, d, n)
      BY <2>6, <3>2 DEF Agree
    <3>. QED
      BY <3>1, <3>4, <3>5
  <2>8. CASE ~a.consuming /\ ~a.starting
    <3>1. Vacant(e, d, n)
      BY <2>5, <2>6, <2>8 DEF Vacant, Agree, Flags, Noise, Asked, Ending
    <3>2. b = StartConsuming(e, w)
      BY <2>4, <3>1 DEF Vacant
    <3>3. e.chan \in {0, w.object}
      BY <2>5
    <3>4. Agree(b, d, n) /\ b.open /\ b.chan = w.object
      BY <2>3, <2>5, <3>1, <3>2, <3>3, StartAgrees
    <3>. QED
      BY <3>4
  <2>. QED
    BY <2>7, <2>8
<1>. QED
  BY <1>1, <1>2

\* A frame from the broker is taken off the wire d, which leaves t.
Takes(d, t, kind) ==
  /\ \A k : Has(d, k) <=> Has(t, k) \/ kind = k
  /\ \A k : Once(d, k) => Once(t, k) /\ (kind = k => ~Has(t, k))
  /\ \A k, l : Before(d, k, l) => Before(t, k, l)
  /\ \A k, l : Before(d, k, l) /\ kind = l => ~Has(d, k)

\* Reading the first frame of a wire.
LEMMA TakesFacts ==
  ASSUME NEW S, NEW d \in Seq(S), d # <<>>
  PROVE  Takes(d, Tail(d), Head(d).kind)
<1>a. PICK t, f : t = Tail(d) /\ f = Head(d)
  OBVIOUS
<1>1. Takes(d, t, f.kind)
  BY <1>a, KindsAfterTail DEF Takes
<1>. QED
  BY <1>1, <1>a

\* What is left is in the same order.
LEMMA TakesQueues ==
  ASSUME NEW u, NEW d, NEW t, NEW kind, Queues(u, d), Takes(d, t, kind)
  PROVE  Queues(u, t)
  BY DEF Queues, Takes

\* The consumer is there.
LEMMA ConsumeOkAgrees ==
  ASSUME NEW a, Typed(a), NEW d, NEW t, NEW n, Agree(a, d, n), Takes(d, t, "consumeOk"),
         a.open, NEW w, w.live, w.object # 0, a.chan = w.object,
         NEW b, b = OnConsumeSuccess(a, w)
  PROVE  Agree(b, t, n) /\ b.open /\ b.chan = w.object
<1>a. PICK c : c = [a EXCEPT !.starting = FALSE, !.consuming = TRUE, !.tagged = TRUE]
  OBVIOUS
<1>0. /\ Typed(c) /\ c.chan = a.chan /\ c.open /\ (c.paused <=> a.paused) /\ c.up = a.up
      /\ c.consuming /\ ~c.starting /\ c.tagged
      /\ (c.cancelPending <=> a.cancelPending)
  BY <1>a DEF Typed, Within, Apps
<1>1. /\ Has(d, "consumeOk") /\ ~Has(t, "consumeOk") /\ ~Has(d, "cancelOk")
      /\ (Has(t, "cancelled") <=> Has(d, "cancelled"))
      /\ ~Has(t, "cancelOk")
  BY DEF Agree, Queues, Takes
<1>2. /\ ~Has(c.up, "consume") /\ ~Has(c.up, "cancel") /\ ~c.cancelPending
      /\ n = IF Has(t, "cancelled") THEN 0 ELSE 1
  BY <1>0, <1>1 DEF Agree, Flags, Asked
<1>3. Queues(c.up, t)
  BY <1>0, TakesQueues DEF Agree
<1>4. CASE c.paused
  <2>1. b = CancelConsumer(c, w)
    BY <1>4, <1>a DEF OnConsumeSuccess
  <2>2. ~Asked(c, t) /\ ~Ending(c, t)
    BY <1>1, <1>2 DEF Asked, Ending
  <2>. QED
    BY <1>0, <1>2, <1>3, <1>4, <2>1, <2>2, CancelAgrees
<1>5. CASE ~c.paused
  <2>1. b = c
    BY <1>5, <1>a DEF OnConsumeSuccess
  <2>2. Before(t, "cancelled", "cancelOk")
    BY <1>1 DEF Has, Before
  <2>3. Flags(c, t, n)
    BY <1>0, <1>1, <1>2, <1>5, <2>2 DEF Flags, Asked, Ending
  <2>. QED
    BY <1>0, <1>3, <2>1, <2>3 DEF Agree
<1>. QED
  BY <1>4, <1>5

\* The consumer is gone, because it was cancelled by the service or by the broker.
LEMMA GoneAgrees ==
  ASSUME NEW a, Typed(a), NEW d, NEW t, NEW n, Agree(a, d, n),
         NEW byBroker \in BOOLEAN,
         Takes(d, t, IF byBroker THEN "cancelled" ELSE "cancelOk"),
         a.open, NEW w, w.live, w.object # 0, a.chan = w.object,
         NEW b, b = OnConsumerGone(a, w, byBroker)
  PROVE  Agree(b, t, n) /\ b.open /\ b.chan = w.object
<1>a. PICK c : c = [a EXCEPT !.starting = @ /\ ~byBroker, !.consuming = FALSE,
                             !.cancelPending = FALSE, !.tagged = FALSE]
  OBVIOUS
<1>0. /\ Typed(c) /\ c.chan = a.chan /\ c.open /\ (c.paused <=> a.paused) /\ c.up = a.up
      /\ ~c.consuming /\ ~c.tagged /\ ~c.cancelPending
      /\ (c.starting <=> a.starting /\ ~byBroker)
  BY <1>a DEF Typed, Within, Apps
<1>1. Queues(c.up, t)
  BY <1>0, TakesQueues DEF Agree
<1>2. \/ Vacant(c, t, n)
      \/ c.starting /\ Flags(c, t, n)
  <2>1. CASE byBroker = TRUE
    <3>0. Takes(d, t, "cancelled")
      BY <2>1
    <3>1. Has(d, "cancelled") /\ ~Has(t, "cancelled") /\ ~Has(d, "consumeOk")
      BY <3>0 DEF Agree, Queues, Takes
    <3>2. /\ a.consuming /\ ~a.starting /\ n = 0 /\ ~Has(a.up, "consume")
          /\ ~(Has(a.up, "cancel") /\ Has(d, "cancelOk"))
      BY <3>1 DEF Agree, Flags, Asked
    <3>3. ~Has(t, "consumeOk") /\ (Has(t, "cancelOk") => Has(d, "cancelOk"))
      BY <3>0, <3>1 DEF Takes
    <3>4. ~c.starting
      BY <1>0, <2>1
    <3>. QED
      BY <1>0, <1>1, <3>1, <3>2, <3>3, <3>4 DEF Vacant, Asked
  <2>2. CASE byBroker = FALSE
    <3>0. Takes(d, t, "cancelOk")
      BY <2>2
    <3>1. /\ Has(d, "cancelOk") /\ ~Has(t, "cancelOk") /\ ~Has(a.up, "cancel")
          /\ (Has(t, "consumeOk") <=> Has(d, "consumeOk"))
          /\ (Has(t, "cancelled") <=> Has(d, "cancelled"))
          /\ (c.starting <=> a.starting)
      BY <1>0, <2>2, <3>0 DEF Agree, Queues, Takes, Flags
    <3>2. CASE a.consuming
      <4>1. ~Has(d, "cancelled")
        BY <3>0, <3>2 DEF Agree, Flags, Takes
      <4>2. ~a.starting /\ ~Has(d, "consumeOk") /\ n = 0 /\ ~Has(a.up, "consume")
        BY <3>1, <3>2 DEF Agree, Flags, Asked
      <4>. QED
        BY <1>0, <1>1, <3>1, <4>1, <4>2 DEF Vacant, Asked
    <3>3. CASE ~a.consuming /\ ~a.starting
      <4>1. ~Has(d, "consumeOk") /\ ~Has(d, "cancelled") /\ n = 0 /\ ~Has(a.up, "consume")
        BY <3>3 DEF Agree, Flags, Asked
      <4>. QED
        BY <1>0, <1>1, <3>1, <3>3, <4>1 DEF Vacant, Asked
    <3>4. CASE ~a.consuming /\ a.starting
      <4>1. Flags(c, t, n)
        BY <1>0, <3>1, <3>4 DEF Agree, Flags, Asked, Ending
      <4>. QED
        BY <3>1, <3>4, <4>1
    <3>. QED
      BY <3>2, <3>3, <3>4
  <2>. QED
    BY <2>1, <2>2
<1>3. b = IF c.paused THEN c ELSE StartConsuming(c, w)
  BY <1>a DEF OnConsumerGone
<1>4. CASE c.starting /\ Flags(c, t, n)
  <2>1. b = c
    BY <1>3, <1>4 DEF StartConsuming
  <2>. QED
    BY <1>0, <1>1, <1>4, <2>1 DEF Agree
<1>5. CASE Vacant(c, t, n) /\ c.paused
  <2>1. b = c
    BY <1>3, <1>5
  <2>2. Flags(c, t, n)
    BY <1>0, <1>5 DEF Vacant, Flags, Asked, Ending
  <2>. QED
    BY <1>0, <1>1, <2>1, <2>2 DEF Agree
<1>6. CASE Vacant(c, t, n) /\ ~c.paused
  <2>1. b = StartConsuming(c, w) /\ c.chan \in {0, w.object}
    BY <1>0, <1>3, <1>6
  <2>. QED
    BY <1>0, <1>6, <2>1, StartAgrees
<1>. QED
  BY <1>2, <1>4, <1>5, <1>6

\* A delivery.
LEMMA DeliveryAgrees ==
  ASSUME NEW a, NEW d, NEW t, NEW n, Agree(a, d, n), Takes(d, t, "deliver"),
         NEW b, Same(a, b), Noise(a.up, b.up)
  PROVE  Agree(b, t, n)
<1>1. Queues(a.up, t)
  BY TakesQueues DEF Agree
<1>2. Flags(a, t, n)
  <2>1. \A k \in {"consumeOk", "cancelOk", "cancelled"} : Has(t, k) <=> Has(d, k)
    BY DEF Takes
  <2>2. a.consuming => Before(t, "cancelled", "cancelOk")
    BY DEF Agree, Flags, Takes
  <2>. QED
    BY <2>1, <2>2 DEF Agree, Flags, Asked, Ending
<1>. QED
  BY <1>1, <1>2, NoiseAgrees DEF Agree

\* A frame from the broker is put on the wire d, which makes it e.
Adds(d, e, kind) ==
  /\ \A k : Has(e, k) <=> Has(d, k) \/ kind = k
  /\ \A k : Once(d, k) /\ (kind = k => ~Has(d, k)) => Once(e, k)
  /\ \A k, l : Before(d, k, l) /\ k # l /\ (kind = k => ~Has(d, l)) => Before(e, k, l)

\* Writing a frame behind the others.
LEMMA AddsFacts ==
  ASSUME NEW S, NEW d \in Seq(S), NEW f \in S, NEW e, e = Append(d, f)
  PROVE  Adds(d, e, f.kind)
  BY KindsAfterAppend DEF Adds

\* The broker starts the consumer and answers.
LEMMA ConsumeReadAgrees ==
  ASSUME NEW a, NEW d, NEW n, Agree(a, d, n), NEW b, Same(a, b),
         Takes(a.up, b.up, "consume"), NEW e, Adds(d, e, "consumeOk")
  PROVE  Agree(b, e, n + 1)
<1>1. /\ Has(a.up, "consume") /\ ~Has(b.up, "consume") /\ ~Has(a.up, "cancel")
      /\ ~Has(b.up, "cancel")
  BY DEF Agree, Queues, Takes
<1>2. /\ a.starting /\ ~a.consuming /\ ~Has(d, "consumeOk") /\ ~Has(d, "cancelled")
      /\ n = 0
  BY <1>1 DEF Agree, Flags, Asked
<1>3. /\ Has(e, "consumeOk") /\ ~Has(e, "cancelled")
      /\ (Has(e, "cancelOk") <=> Has(d, "cancelOk"))
  BY <1>2 DEF Adds
<1>4. /\ Once(b.up, "consume") /\ Once(b.up, "cancel") /\ Before(b.up, "cancel", "consume")
  BY DEF Agree, Queues, Takes
<1>5. /\ Once(e, "consumeOk") /\ Once(e, "cancelOk") /\ Once(e, "cancelled")
      /\ Before(e, "cancelOk", "consumeOk") /\ Before(e, "consumeOk", "cancelled")
  BY <1>2 DEF Agree, Queues, Adds
<1>6. n + 1 = 1
  BY <1>2
<1>7. Flags(b, e, 1)
  BY <1>1, <1>2, <1>3 DEF Agree, Flags, Same, Asked, Ending
<1>. QED
  BY <1>4, <1>5, <1>6, <1>7 DEF Agree, Queues

\* The broker ends the consumer, if there still is one, and answers.
LEMMA CancelReadAgrees ==
  ASSUME NEW a, NEW d, NEW n, Agree(a, d, n), NEW b, Same(a, b),
         Takes(a.up, b.up, "cancel"), NEW e, Adds(d, e, "cancelOk")
  PROVE  Agree(b, e, IF n > 0 THEN n - 1 ELSE n)
<1>1. /\ Has(a.up, "cancel") /\ ~Has(b.up, "cancel")
      /\ (Has(b.up, "consume") <=> Has(a.up, "consume"))
  BY DEF Agree, Queues, Takes
<1>2. ~Has(d, "cancelOk") /\ ~Has(d, "consumeOk") /\ n \in {0, 1}
  BY <1>1 DEF Agree, Flags
<1>3. /\ Has(e, "cancelOk") /\ ~Has(e, "consumeOk")
      /\ (Has(e, "cancelled") <=> Has(d, "cancelled"))
  BY <1>2 DEF Adds
<1>4. /\ Once(b.up, "consume") /\ Once(b.up, "cancel") /\ Before(b.up, "cancel", "consume")
  BY DEF Agree, Queues, Takes
<1>5. /\ Once(e, "consumeOk") /\ Once(e, "cancelOk") /\ Once(e, "cancelled")
      /\ Before(e, "cancelOk", "consumeOk") /\ Before(e, "consumeOk", "cancelled")
  BY <1>2 DEF Agree, Queues, Adds
<1>6. (IF n > 0 THEN n - 1 ELSE n) = 0
  BY <1>2
<1>7. a.consuming => Before(e, "cancelled", "cancelOk")
  BY DEF Agree, Flags, Adds
<1>8. Flags(b, e, 0)
  BY <1>1, <1>2, <1>3, <1>7 DEF Agree, Flags, Same, Asked, Ending
<1>. QED
  BY <1>4, <1>5, <1>6, <1>8 DEF Agree, Queues

\* The broker sends a message.
LEMMA DeliverAgrees ==
  ASSUME NEW a, NEW d, NEW n, Agree(a, d, n), NEW e, Adds(d, e, "deliver")
  PROVE  Agree(a, e, n)
<1>1. \A k \in {"consumeOk", "cancelOk", "cancelled"} : Has(e, k) <=> Has(d, k)
  BY DEF Adds
<1>2. Queues(a.up, e)
  BY DEF Agree, Queues, Adds
<1>3. a.consuming => Before(e, "cancelled", "cancelOk")
  BY DEF Agree, Flags, Adds
<1>4. Flags(a, e, n)
  BY <1>1, <1>3 DEF Agree, Flags, Asked, Ending
<1>. QED
  BY <1>2, <1>4 DEF Agree

\* The broker ends the consumer by itself.
LEMMA CancelledAgrees ==
  ASSUME NEW a, NEW d, NEW n, Agree(a, d, n), n > 0, NEW e, Adds(d, e, "cancelled")
  PROVE  Agree(a, e, n - 1)
<1>1. /\ n = 1 /\ ~Has(d, "cancelled")
      /\ Has(d, "consumeOk") \/ (a.consuming /\ ~Has(d, "cancelOk"))
  BY DEF Agree, Flags
<1>2. /\ Has(e, "cancelled") /\ (Has(e, "consumeOk") <=> Has(d, "consumeOk"))
      /\ (Has(e, "cancelOk") <=> Has(d, "cancelOk"))
  BY DEF Adds
<1>3. Queues(a.up, e)
  BY <1>1 DEF Agree, Queues, Adds
<1>4. a.consuming => Before(e, "cancelled", "cancelOk")
  BY <1>1 DEF Agree, Flags, Adds, Asked
<1>5. n - 1 = 0
  BY <1>1
<1>6. Flags(a, e, 0)
  BY <1>1, <1>2, <1>4 DEF Agree, Flags, Asked, Ending
<1>. QED
  BY <1>3, <1>5, <1>6 DEF Agree

\* With nothing on either wire the flags say what the broker has.
LEMMA QuietFlags ==
  ASSUME NEW a, NEW n, a.up = <<>>, Agree(a, <<>>, n)
  PROVE  /\ ~a.starting /\ ~a.cancelPending /\ (a.tagged <=> a.consuming)
         /\ a.consuming <=> n = 1
         /\ a.consuming <=> ~a.paused
  BY KindsOfEmpty DEF Agree, Flags, Asked, Ending

-----------------------------------------------------------------------------
(* The invariant about the consumer. *)

Off(a) == ~a.starting /\ ~a.consuming /\ ~a.cancelPending /\ ~a.tagged

\* Nothing of the last connection is left when the next one comes up.
WhenDown == app.chan = 0 /\ app.open /\ Off(app) /\ app.up = <<>> /\ down = <<>>

\* A channel is of this connection; before there is one nothing was asked for, and
\* the service learns of its end.
WhenUp ==
  /\ epoch # 0 /\ app.chan \in {0, epoch}
  /\ app.chan = 0 => broker.open /\ Off(app) /\ app.up = <<>> /\ down = <<>>
  /\ broker.open => app.open /\ ~Has(down, "closed") /\ Agree(app, down, broker.consumers)
  /\ ~broker.open => broker.consumers = 0 /\ (app.open => Has(down, "closed"))

ConsumerInv ==
  /\ conn = "down" => WhenDown
  /\ conn # "up" => broker.open /\ broker.consumers = 0
  /\ conn = "up" => WhenUp

\* The process starts disconnected and without a consumer.
LEMMA InitConsumerInv ==
  Init => ConsumerInv
  BY DEF Init, FreshApp, ConsumerInv, WhenDown, Off

\* A call keeps the channel there is, and does not close it.
Keeps(a, b) == a.chan # 0 => b.chan = a.chan /\ (b.open <=> a.open)

\* startConsuming() creates a channel only when there is none.
LEMMA StartKeeps ==
  ASSUME NEW a, Typed(a), NEW w, NEW b, b = StartConsuming(a, w)
  PROVE  Keeps(a, b)
  BY DEF Typed, Within, Apps, StartConsuming, EnsureChannel, Send, Keeps

\* cancelConsumer() writes on the channel it has.
LEMMA CancelKeeps ==
  ASSUME NEW a, Typed(a), NEW w, NEW b, b = CancelConsumer(a, w)
  PROVE  Keeps(a, b)
  BY DEF Typed, Within, Apps, CancelConsumer, Send, Keeps

\* pauseConsuming(), in either direction.
LEMMA PauseKeeps ==
  ASSUME NEW a, Typed(a), NEW w, NEW order \in SetToSeqs(a.committed),
         NEW b, b = PauseConsuming(a, w, ~a.paused, order)
  PROVE  Keeps(a, b)
<1>0. a \in Apps(Nat, OutFrames, Rows, Rows)
  BY DEF Typed, Within
<1>1. CASE ~a.paused
  <2>a. PICK c : c = [a EXCEPT !.paused = TRUE]
    OBVIOUS
  <2>1. Typed(c) /\ c.chan = a.chan /\ (c.open <=> a.open)
    BY <1>0, <2>a DEF Typed, Within, Apps
  <2>2. Keeps(c, b)
    BY <1>1, <2>1, <2>a, CancelKeeps DEF PauseConsuming
  <2>. QED
    BY <2>1, <2>2 DEF Keeps
<1>2. CASE a.paused
  <2>a. PICK c : c = [a EXCEPT !.paused = FALSE]
    OBVIOUS
  <2>b. PICK e : e = ConfirmCommitted(c, w, order)
    OBVIOUS
  <2>1. /\ Typed(c) /\ c.chan = a.chan /\ (c.open <=> a.open)
        /\ c.committed = a.committed
    BY <1>0, <2>a DEF Typed, Within, Apps
  <2>2. order \in Seq(c.committed)
    BY <2>1, OrderIsSeq DEF Typed, Within
  <2>3. Typed(e) /\ Unrelated(c, e, w)
    BY <2>1, <2>2, <2>b, TypesAreClosed, ConfirmCommittedFacts, ConfirmCommittedFlags
       DEF Typed
  <2>4. b = StartConsuming(e, w) \/ b = e
    BY <1>2, <2>a, <2>b DEF PauseConsuming
  <2>5. Keeps(e, b)
    BY <2>3, <2>4, StartKeeps DEF Keeps
  <2>. QED
    BY <2>1, <2>3, <2>5 DEF Keeps, Unrelated, Same
<1>. QED
  BY <1>1, <1>2

\* The answer to consume.
LEMMA ConsumeSuccessKeeps ==
  ASSUME NEW a, Typed(a), NEW w, NEW b, b = OnConsumeSuccess(a, w)
  PROVE  Keeps(a, b)
<1>a. PICK c : c = [a EXCEPT !.starting = FALSE, !.consuming = TRUE, !.tagged = TRUE]
  OBVIOUS
<1>1. Typed(c) /\ c.chan = a.chan /\ (c.open <=> a.open)
  BY <1>a DEF Typed, Within, Apps
<1>2. b = CancelConsumer(c, w) \/ b = c
  BY <1>a DEF OnConsumeSuccess
<1>. QED
  BY <1>1, <1>2, CancelKeeps DEF Keeps

\* The end of the consumer, asked for or not.
LEMMA ConsumerGoneKeeps ==
  ASSUME NEW a, Typed(a), NEW w, NEW byBroker \in BOOLEAN,
         NEW b, b = OnConsumerGone(a, w, byBroker)
  PROVE  Keeps(a, b)
<1>a. PICK c : c = [a EXCEPT !.starting = @ /\ ~byBroker, !.consuming = FALSE,
                             !.cancelPending = FALSE, !.tagged = FALSE]
  OBVIOUS
<1>1. Typed(c) /\ c.chan = a.chan /\ (c.open <=> a.open)
  BY <1>a DEF Typed, Within, Apps
<1>2. b = StartConsuming(c, w) \/ b = c
  BY <1>a DEF OnConsumerGone
<1>. QED
  BY <1>1, <1>2, StartKeeps DEF Keeps

\* A call of the event loop that is not about the consumer.
LEMMA UnrelatedStep ==
  ASSUME ConsumerInv, Unrelated(app, app', Here), conn \in {"up", "broken", "down"},
         UNCHANGED <<conn, epoch, down, broker>>
  PROVE  ConsumerInv'
<1>1. /\ Same(app, app') /\ Noise(app.up, app'.up)
      /\ (conn # "up" \/ app.chan = 0 => app'.up = app.up)
  BY DEF Unrelated, Here, Wire
<1>2. WhenDown => WhenDown'
  BY <1>1 DEF WhenDown, Same, Off, Unrelated
<1>3. ASSUME conn = "up", WhenUp PROVE WhenUp'
  <2>1. broker.open => Agree(app', down, broker.consumers)
    BY <1>1, <1>3, NoiseAgrees DEF WhenUp
  <2>. QED
    BY <1>1, <1>3, <2>1 DEF WhenUp, Same, Off
<1>. QED
  BY <1>2, <1>3 DEF ConsumerInv

\* The pause box: on the channel, before there is one, and while disconnected.
LEMMA TogglePauseAgrees ==
  ASSUME ~UnpauseOffline, TypesInv, ConsumerInv, TogglePause
  PROVE  ConsumerInv'
<1>a. PICK w : w = Here
  OBVIOUS
<1>0. /\ Typed(app) /\ app \in Apps(Nat, OutFrames, Rows, Rows) /\ epoch \in Nat
      /\ w.object = epoch /\ (w.live <=> conn = "up") /\ broker.consumers \in Nat
  BY <1>a DEF TypesInv, Typed, Within, StoreInv, Here, Wire, Brokers
<1>1. PICK order \in SetToSeqs(app.committed) :
        app' = PauseConsuming(app, w, ~app.paused, order)
  BY <1>a DEF TogglePause
<1>2. UNCHANGED <<conn, epoch, down, broker>>
  BY DEF TogglePause
<1>3. CASE conn = "down"
  <2>1. ~app.paused /\ WhenDown
    BY <1>3 DEF TogglePause, ConsumerInv
  <2>2. app' = [app EXCEPT !.paused = TRUE]
    BY <1>0, <1>1, <2>1 DEF PauseConsuming, CancelConsumer, WhenDown, Apps
  <2>3. WhenDown'
    BY <1>0, <1>2, <2>1, <2>2 DEF WhenDown, Off, Apps
  <2>. QED
    BY <1>2, <1>3, <2>3 DEF ConsumerInv
<1>4. CASE conn = "up" /\ broker.open
  <2>0. WhenUp
    BY <1>4 DEF ConsumerInv
  <2>1. app.open /\ Agree(app, down, broker.consumers) /\ ~Has(down, "closed")
    BY <1>4, <2>0 DEF WhenUp
  <2>2. CASE app.chan = 0
    <3>1. Off(app) /\ app.up = <<>> /\ down = <<>> /\ broker.consumers = 0
      <4>1. Off(app) /\ app.up = <<>> /\ down = <<>>
        BY <2>0, <2>2 DEF WhenUp
      <4>. QED
        BY <2>1, <4>1, KindsOfEmpty DEF Off, Agree, Flags
    <3>2. Vacant(app, down, broker.consumers)
      BY <3>1, KindsOfEmpty DEF Vacant, Queues, Asked, Off
    <3>3. /\ Agree(app', down, broker.consumers) /\ app'.open
          /\ app'.chan = w.object \/ (app'.chan = 0 /\ app'.up = app.up)
      <4>1. w.live /\ w.object # 0 /\ w.object \in Nat
        BY <1>0, <1>4, <2>0 DEF WhenUp
      <4>. QED
        BY <1>0, <1>1, <2>1, <2>2, <3>2, <4>1, PauseAgrees
    <3>4. app'.chan = 0 => Off(app')
      BY <2>0, <3>1, <3>3, <1>0, QuietFlags DEF WhenUp, Off
    <3>5. WhenUp'
      BY <1>0, <1>2, <1>4, <2>0, <2>1, <3>1, <3>3, <3>4 DEF WhenUp
    <3>. QED
      BY <1>2, <1>4, <3>5 DEF ConsumerInv
  <2>3. CASE app.chan # 0
    <3>1. app.chan = w.object /\ w.object # 0
      BY <1>0, <2>0, <2>3 DEF WhenUp
    <3>2. Agree(app', down, broker.consumers) /\ app'.open
      BY <1>0, <1>1, <1>4, <2>1, <3>1, PauseAgrees
    <3>3. Keeps(app, app')
      BY <1>0, <1>1, PauseKeeps
    <3>4. WhenUp'
      BY <1>0, <1>2, <1>4, <2>0, <2>1, <2>3, <3>2, <3>3 DEF WhenUp, Keeps
    <3>. QED
      BY <1>2, <1>4, <3>4 DEF ConsumerInv
  <2>. QED
    BY <2>2, <2>3
<1>5. CASE conn = "up" /\ ~broker.open
  <2>0. WhenUp /\ Keeps(app, app')
    BY <1>0, <1>1, <1>5, PauseKeeps DEF ConsumerInv
  <2>1. WhenUp'
    BY <1>2, <1>5, <2>0 DEF WhenUp, Keeps
  <2>. QED
    BY <1>2, <1>5, <2>1 DEF ConsumerInv
<1>6. CASE conn = "broken"
  BY <1>2, <1>6 DEF ConsumerInv
<1>. QED
  BY <1>3, <1>4, <1>5, <1>6 DEF TypesInv, StoreInv

\* A publish may create the channel without a consumer.
LEMMA PublishAgrees ==
  ASSUME TypesInv, ConsumerInv, NEW m \in Local, Publish(m)
  PROVE  ConsumerInv'
<1>a. PICK w, f : w = Here /\ f = Frame("publish", 0, m)
  OBVIOUS
<1>b. PICK a : a = EnsureChannel(app, w)
  OBVIOUS
<1>c. PICK b : b = Send(a, w, f)
  OBVIOUS
<1>0. /\ Typed(app) /\ app \in Apps(Nat, OutFrames, Rows, Rows) /\ epoch \in Nat
      /\ w.object = epoch /\ (w.live <=> conn = "up")
  BY <1>a DEF TypesInv, Typed, Within, StoreInv, Here, Wire
<1>1. a.open /\ app' = Enqueue(b, "insertSent", 0, m)
  BY <1>a, <1>b, <1>c DEF Publish
<1>2. UNCHANGED <<conn, epoch, down, broker>> /\ conn # "down"
  BY DEF Publish
<1>3. /\ Typed(a) /\ a.chan = (IF app.chan # 0 THEN app.chan ELSE epoch)
      /\ a.up = app.up /\ (app.chan # 0 => a = app)
      /\ (a.paused <=> app.paused) /\ (a.consuming <=> app.consuming)
      /\ (a.starting <=> app.starting) /\ (a.cancelPending <=> app.cancelPending)
      /\ (a.tagged <=> app.tagged)
  BY <1>0, <1>b DEF EnsureChannel, Typed, Within, Apps
<1>4. f \in OutFrames /\ f.kind \notin {"consume", "cancel"}
  BY <1>a DEF Frame, Frames, FrameKinds, OutFrames, Messages
<1>5. Same(a, b) /\ Noise(a.up, b.up)
  <2>1. a.up \in Seq(OutFrames)
    BY <1>3 DEF Typed, Within, Apps
  <2>2. Same(a, b) /\ b.up = IF w.live /\ a.chan = w.object THEN Append(a.up, f) ELSE a.up
    BY <1>3, <1>c, SendFlags
  <2>3. CASE b.up = a.up
    BY <2>2, <2>3, NoiseRefl
  <2>4. CASE b.up = Append(a.up, f)
    BY <1>4, <2>1, <2>2, <2>4, NoiseAppend
  <2>. QED
    BY <2>2, <2>3, <2>4
<1>6. Same(b, app') /\ app'.up = b.up
  <2>1. b \in Apps(Nat, OutFrames, Rows, Rows)
    BY <1>3, <1>4, <1>c, SendFacts DEF Typed, Within
  <2>. QED
    BY <1>1, <2>1 DEF Enqueue, Apps, Same
<1>7. Same(a, app') /\ Noise(a.up, app'.up)
  BY <1>5, <1>6 DEF Same
<1>8. ASSUME conn = "up", WhenUp PROVE WhenUp'
  <2>1. a.chan = epoch /\ epoch # 0 /\ app'.chan = epoch
    BY <1>3, <1>7, <1>8 DEF WhenUp, Same
  <2>2. ASSUME broker.open PROVE Agree(app', down, broker.consumers)
    <3>1. Agree(app, down, broker.consumers)
      BY <1>8, <2>2 DEF WhenUp
    <3>2. Agree(a, down, broker.consumers)
      BY <1>3, <3>1 DEF Agree, Flags, Asked, Ending
    <3>. QED
      BY <1>7, <3>2, NoiseAgrees
  <2>3. app'.open
    BY <1>1, <1>7 DEF Same
  <2>4. ASSUME ~broker.open PROVE Has(down, "closed")
    BY <1>1, <1>3, <1>8, <2>4 DEF WhenUp
  <2>. QED
    BY <1>2, <1>8, <2>1, <2>2, <2>3, <2>4 DEF WhenUp
<1>. QED
  BY <1>2, <1>8 DEF ConsumerInv

\* The worker knows nothing of the consumer.
LEMMA WorkerStepAgrees ==
  ASSUME TypesInv, ConsumerInv, WorkerStep PROVE ConsumerInv'
<1>1. app \in Apps(Nat, OutFrames, Rows, Rows) /\ conn \in {"up", "broken", "down"}
  BY DEF TypesInv, Within, StoreInv
<1>2. Same(app, app') /\ app'.up = app.up
  BY <1>1 DEF WorkerStep, Apps, Same
<1>3. Unrelated(app, app', Here)
  BY <1>2, NoiseRefl DEF Unrelated
<1>. QED
  BY <1>1, <1>3, UnrelatedStep DEF WorkerStep

\* A confirmed delivery is an acknowledgement on the wire.
LEMMA InsertDoneAgrees ==
  ASSUME TypesInv, ConsumerInv, InsertDone PROVE ConsumerInv'
<1>a. PICK j : j = Head(app.done)
  OBVIOUS
<1>b. PICK k : k = {p \in app.ackId : p[1] # j.tag} \cup {<<j.tag, j.msg>>}
  OBVIOUS
<1>c. PICK a : a = [app EXCEPT !.done = Tail(@), !.ackId = k]
  OBVIOUS
<1>1. /\ app \in Apps(Nat, OutFrames, Rows, Rows) /\ app.done # <<>>
      /\ conn \in {"up", "broken", "down"}
      /\ Within(app, Nat, OutFrames, Rows, Rows)
  BY DEF TypesInv, Within, StoreInv, InsertDone
<1>2. j.tag \in Nat /\ j.msg \in Messages /\ Tail(app.done) \in Seq(Rows)
  <2>1. j \in Rows /\ Tail(app.done) \in Seq(Rows)
    BY <1>1, <1>a, HeadTailProperties DEF Apps
  <2>. QED
    BY <2>1, TypesAreClosed
<1>3. k \in SUBSET (Nat \X Messages)
  BY <1>1, <1>2, <1>b DEF Apps
<1>4. /\ a \in Apps(Nat, OutFrames, Rows, Rows) /\ a.ackId = k
      /\ a.committed = app.committed /\ a.pending = app.pending
  BY <1>1, <1>2, <1>3, <1>c DEF Apps
<1>5. Typed(a)
  <2>a. PICK e : e = <<j.tag, j.msg>> /\ e[1] = j.tag /\ e \in k
    BY <1>b
  <2>0. \A p \in app.ackId : p[1] # j.tag => p \in k
    BY <1>b
  <2>1. \A t \in a.committed : \E p \in a.ackId : p[1] = t
    BY <1>1, <1>4, <2>a, <2>0 DEF Within
  <2>2. \A p, q \in a.ackId : p[1] = q[1] => p = q
    BY <1>1, <1>4, <1>b DEF Within
  <2>. QED
    BY <1>1, <1>4, <2>1, <2>2 DEF Typed, Within
<1>6. Same(app, a) /\ a.up = app.up
  BY <1>1, <1>c DEF Apps, Same
<1>7. app' = ConfirmInserted(a, Here, j.tag)
  BY <1>a, <1>b, <1>c DEF InsertDone
<1>8. Unrelated(a, app', Here)
  BY <1>2, <1>5, <1>7, ConfirmInsertedFlags
<1>9. Unrelated(app, app', Here)
  BY <1>6, <1>8 DEF Unrelated, Same
<1>. QED
  BY <1>1, <1>9, UnrelatedStep DEF InsertDone

\* The service reacts to the oldest frame, whatever has happened since it was sent.
LEMMA ReceiveFrameAgrees ==
  ASSUME TypesInv, ConsumerInv, ReceiveFrame
  PROVE  ConsumerInv'
<1>a. PICK w, f : w = Here /\ f = Head(down)
  OBVIOUS
<1>0. /\ Typed(app) /\ app \in Apps(Nat, OutFrames, Rows, Rows) /\ epoch \in Nat
      /\ w.object = epoch /\ (w.live <=> conn = "up") /\ w.object \in Nat
      /\ down \in Seq(InFrames) /\ down # <<>>
      /\ conn \in {"up", "broken", "down"}
  BY <1>a DEF TypesInv, Typed, Within, StoreInv, Here, Wire, ReceiveFrame
<1>1. UNCHANGED <<conn, epoch, broker>>
  BY DEF ReceiveFrame
<1>2. /\ f.kind \in {"consumeOk", "cancelOk", "cancelled", "closed", "deliver"}
      /\ f.tag \in Nat
  <2>1. f \in InFrames
    BY <1>0, <1>a, HeadTailProperties
  <2>. QED
    BY <2>1 DEF InFrames, Frames
<1>3. Takes(down, down', f.kind)
  BY <1>0, <1>a, TakesFacts DEF ReceiveFrame
<1>4. /\ f.kind = "consumeOk" => app' = OnConsumeSuccess(app, w)
      /\ f.kind = "cancelOk" => app' = OnConsumerGone(app, w, FALSE)
      /\ f.kind = "cancelled" => app' = OnConsumerGone(app, w, TRUE)
      /\ f.kind = "closed" => app' = [app EXCEPT !.open = FALSE, !.starting = FALSE,
                                                 !.cancelPending = FALSE]
      /\ f.kind = "deliver" => app' = OnReceived(app, w, f.tag, f.msg)
  BY <1>a DEF ReceiveFrame
<1>5. CASE conn = "up"
  <2>0. WhenUp /\ app.chan = epoch /\ epoch # 0
    BY <1>0, <1>5 DEF ConsumerInv, WhenUp
  <2>1. CASE broker.open
    <3>1. /\ app.open /\ Agree(app, down, broker.consumers) /\ f.kind # "closed"
          /\ ~Has(down', "closed")
      BY <1>3, <2>0, <2>1 DEF WhenUp, Takes
    <3>2. Agree(app', down', broker.consumers) /\ app'.open /\ app'.chan = epoch
      <4>0. w.live /\ w.object # 0 /\ app.chan = w.object
        BY <1>0, <1>5, <2>0
      <4>1. CASE f.kind = "consumeOk"
        <5>1. app' = OnConsumeSuccess(app, w) /\ Takes(down, down', "consumeOk")
          BY <1>3, <1>4, <4>1
        <5>2. Agree(app', down', broker.consumers) /\ app'.open /\ app'.chan = w.object
          BY <1>0, <3>1, <4>0, <5>1, ConsumeOkAgrees
        <5>. QED
          BY <1>0, <5>2
      <4>2. ASSUME NEW byBroker \in BOOLEAN,
                   f.kind = IF byBroker THEN "cancelled" ELSE "cancelOk"
            PROVE  Agree(app', down', broker.consumers) /\ app'.open /\ app'.chan = epoch
        <5>1. app' = OnConsumerGone(app, w, byBroker)
          BY <1>4, <4>2
        <5>2. Takes(down, down', IF byBroker THEN "cancelled" ELSE "cancelOk")
          BY <1>3, <4>2
        <5>3. Agree(app', down', broker.consumers) /\ app'.open /\ app'.chan = w.object
          BY <1>0, <3>1, <4>0, <5>1, <5>2, GoneAgrees
        <5>. QED
          BY <1>0, <5>3
      <4>3. CASE f.kind = "deliver"
        <5>1. Unrelated(app, app', w)
          BY <1>0, <1>2, <1>4, <4>3, OnReceivedFlags
        <5>2. Same(app, app') /\ Noise(app.up, app'.up) /\ Takes(down, down', "deliver")
          BY <1>3, <4>3, <5>1 DEF Unrelated
        <5>3. Agree(app', down', broker.consumers)
          BY <3>1, <5>2, DeliveryAgrees
        <5>. QED
          BY <2>0, <3>1, <5>2, <5>3 DEF Same
      <4>4. CASE f.kind \in {"cancelOk", "cancelled"}
        <5>1. \E byBroker \in BOOLEAN : f.kind = IF byBroker THEN "cancelled" ELSE "cancelOk"
          BY <4>4
        <5>. QED
          BY <4>2, <5>1
      <4>. QED
        BY <1>2, <3>1, <4>1, <4>3, <4>4
    <3>3. WhenUp'
      BY <1>1, <2>0, <2>1, <3>1, <3>2 DEF WhenUp
    <3>. QED
      BY <1>1, <1>5, <3>3 DEF ConsumerInv
  <2>2. CASE ~broker.open
    <3>1. broker.consumers = 0 /\ (app.open => Has(down, "closed"))
      BY <2>0, <2>2 DEF WhenUp
    <3>2. CASE f.kind = "closed"
      <4>1. ~app'.open /\ app'.chan = app.chan
        BY <1>0, <1>4, <3>2 DEF Apps
      <4>. QED
        BY <1>1, <1>5, <2>0, <2>2, <3>1, <4>1 DEF ConsumerInv, WhenUp
    <3>3. CASE f.kind # "closed"
      <4>1. Keeps(app, app')
        <5>1. CASE f.kind = "deliver"
          <6>1. Unrelated(app, app', w)
            BY <1>0, <1>2, <1>4, <5>1, OnReceivedFlags
          <6>. QED
            BY <6>1 DEF Unrelated, Same, Keeps
        <5>2. CASE f.kind = "consumeOk"
          <6>1. app' = OnConsumeSuccess(app, w)
            BY <1>4, <5>2
          <6>. QED
            BY <1>0, <6>1, ConsumeSuccessKeeps
        <5>3. CASE f.kind \in {"cancelOk", "cancelled"}
          <6>1. \E byBroker \in BOOLEAN : app' = OnConsumerGone(app, w, byBroker)
            BY <1>4, <5>3
          <6>. QED
            BY <1>0, <6>1, ConsumerGoneKeeps
        <5>. QED
          BY <1>2, <3>3, <5>1, <5>2, <5>3
      <4>2. app'.open => Has(down', "closed")
        BY <1>3, <2>0, <3>1, <3>3, <4>1 DEF Keeps, Takes
      <4>3. app'.chan = epoch
        BY <2>0, <4>1 DEF Keeps
      <4>. QED
        BY <1>1, <1>5, <2>0, <2>2, <3>1, <4>2, <4>3 DEF ConsumerInv, WhenUp
    <3>. QED
      BY <3>2, <3>3
  <2>. QED
    BY <2>1, <2>2
<1>6. CASE conn = "broken"
  BY <1>1, <1>6 DEF ConsumerInv
<1>7. CASE conn = "down"
  BY <1>0, <1>7 DEF ConsumerInv, WhenDown
<1>. QED
  BY <1>0, <1>5, <1>6, <1>7

\* The broker starts or ends the consumer when it reads the request.
LEMMA BrokerReadsFrameAgrees ==
  ASSUME TypesInv, ConsumerInv, BrokerReadsFrame
  PROVE  ConsumerInv'
<1>a. PICK f, n : f = Head(app.up) /\ n = broker.consumers
  OBVIOUS
<1>0. /\ app \in Apps(Nat, OutFrames, Rows, Rows) /\ down \in Seq(InFrames)
      /\ broker \in Brokers /\ n \in Nat /\ conn = "up" /\ WhenUp
      /\ app.up \in Seq(OutFrames) /\ app.up # <<>>
  BY <1>a DEF TypesInv, Within, Brokers, BrokerReadsFrame, ConsumerInv, Apps
<1>1. UNCHANGED <<conn, epoch>> /\ app' = [app EXCEPT !.up = Tail(@)]
  BY DEF BrokerReadsFrame
<1>2. Same(app, app') /\ app'.up = Tail(app.up)
  BY <1>0, <1>1 DEF Apps, Same
<1>3. Takes(app.up, app'.up, f.kind)
  BY <1>0, <1>2, <1>a, TakesFacts
<1>4. app.chan = epoch /\ epoch # 0 /\ app'.chan = epoch
  BY <1>0, <1>2 DEF WhenUp, Same
<1>5. CASE ~broker.open
  <2>1. UNCHANGED <<broker, down>>
    BY <1>5 DEF BrokerReadsFrame
  <2>2. WhenUp'
    BY <1>0, <1>1, <1>2, <1>4, <1>5, <2>1 DEF WhenUp, Same
  <2>. QED
    BY <1>0, <1>1, <2>2 DEF ConsumerInv
<1>6. CASE broker.open
  <2>0. app.open /\ app'.open /\ ~Has(down, "closed") /\ Agree(app, down, n)
    BY <1>0, <1>2, <1>6, <1>a DEF WhenUp, Same
  <2>1. ASSUME broker'.open, ~Has(down', "closed"), Agree(app', down', broker'.consumers)
        PROVE  ConsumerInv'
    <3>1. WhenUp'
      BY <1>1, <1>4, <2>0, <2>1 DEF WhenUp
    <3>. QED
      BY <1>0, <1>1, <3>1 DEF ConsumerInv
  <2>2. CASE /\ f.kind = "consume" /\ broker' = [broker EXCEPT !.consumers = @ + 1]
             /\ Answer("consumeOk")
    <3>a. PICK g : g = Frame("consumeOk", 0, NoMessage)
      OBVIOUS
    <3>1. g \in InFrames /\ g.kind = "consumeOk"
      BY <3>a, InFrameFacts DEF Frame
    <3>2. Adds(down, down', "consumeOk")
      BY <1>0, <2>2, <3>1, <3>a, AddsFacts DEF Answer
    <3>3. Takes(app.up, app'.up, "consume")
      BY <1>3, <2>2
    <3>4. Agree(app', down', n + 1)
      BY <1>2, <2>0, <3>2, <3>3, ConsumeReadAgrees
    <3>5. broker'.open /\ broker'.consumers = n + 1
      BY <1>0, <1>6, <1>a, <2>2 DEF Brokers
    <3>6. ~Has(down', "closed")
      BY <2>0, <3>2 DEF Adds
    <3>. QED
      BY <2>1, <3>4, <3>5, <3>6
  <2>3. CASE /\ f.kind = "cancel" /\ Answer("cancelOk")
             /\ broker' = [broker EXCEPT !.consumers = IF @ > 0 THEN @ - 1 ELSE @]
    <3>a. PICK g : g = Frame("cancelOk", 0, NoMessage)
      OBVIOUS
    <3>1. g \in InFrames /\ g.kind = "cancelOk"
      BY <3>a, InFrameFacts DEF Frame
    <3>2. Adds(down, down', "cancelOk")
      BY <1>0, <2>3, <3>1, <3>a, AddsFacts DEF Answer
    <3>3. Takes(app.up, app'.up, "cancel")
      BY <1>3, <2>3
    <3>4. Agree(app', down', IF n > 0 THEN n - 1 ELSE n)
      BY <1>2, <2>0, <3>2, <3>3, CancelReadAgrees
    <3>5. broker'.open /\ broker'.consumers = IF n > 0 THEN n - 1 ELSE n
      BY <1>0, <1>6, <1>a, <2>3 DEF Brokers
    <3>6. ~Has(down', "closed")
      BY <2>0, <3>2 DEF Adds
    <3>. QED
      BY <2>1, <3>4, <3>5, <3>6
  <2>4. CASE f.kind \in {"ack", "reject", "publish"} /\ down' = down
    <3>1. broker'.open /\ broker'.consumers = n
      <4>a. PICK u, p, g, r : /\ u = broker.unacked \ Unacked(f.tag)
                              /\ p = broker.acked \cup {q[2] : q \in Unacked(f.tag)}
                              /\ g = broker.rejected \cup {q[2] : q \in Unacked(f.tag)}
                              /\ r = broker.ready \cup {f.msg}
        OBVIOUS
      <4>1. \/ broker' = [broker EXCEPT !.unacked = u, !.acked = p]
            \/ broker' = [broker EXCEPT !.unacked = u, !.rejected = g]
            \/ broker' = [broker EXCEPT !.ready = r]
        BY <1>6, <1>a, <2>4, <4>a DEF BrokerReadsFrame
      <4>. QED
        BY <1>0, <1>6, <1>a, <4>1 DEF Brokers
    <3>2. Noise(app.up, app'.up)
      BY <1>3, <2>4 DEF Takes, Noise
    <3>3. Agree(app', down', n)
      BY <1>2, <2>0, <2>4, <3>2, NoiseAgrees
    <3>. QED
      BY <2>0, <2>1, <2>4, <3>1, <3>3
  <2>. QED
    BY <1>6, <1>a, <2>2, <2>3, <2>4 DEF BrokerReadsFrame
<1>. QED
  BY <1>5, <1>6

\* A delivery says nothing of the consumer.
LEMMA DeliverStepAgrees ==
  ASSUME TypesInv, ConsumerInv, NEW m \in Messages, Deliver(m)
  PROVE  ConsumerInv'
<1>a. PICK g, n : g = Frame("deliver", broker.nextTag, m) /\ n = broker.consumers
  OBVIOUS
<1>0. /\ down \in Seq(InFrames) /\ broker \in Brokers /\ n \in Nat /\ n > 0
      /\ broker.nextTag \in Nat /\ conn = "up" /\ WhenUp
  BY <1>a DEF TypesInv, Brokers, Deliver, ConsumerInv
<1>1. UNCHANGED <<app, conn, epoch>> /\ down' = Append(down, g)
  BY <1>a DEF Deliver
<1>2. broker'.open = broker.open /\ broker'.consumers = n
  BY <1>0, <1>a DEF Deliver, Brokers
<1>3. broker.open /\ app.open /\ ~Has(down, "closed") /\ Agree(app, down, n)
  BY <1>0, <1>a DEF WhenUp
<1>4. app.chan # 0
  BY <1>0, <1>3, KindsOfEmpty DEF WhenUp, Off, Agree, Flags
<1>5. g \in InFrames /\ g.kind = "deliver"
  BY <1>0, <1>a, InFrameFacts DEF Frame
<1>6. Adds(down, down', "deliver")
  BY <1>0, <1>1, <1>5, AddsFacts
<1>7. Agree(app, down', n)
  BY <1>3, <1>6, DeliverAgrees
<1>8. ~Has(down', "closed")
  BY <1>3, <1>6 DEF Adds
<1>9. WhenUp'
  BY <1>0, <1>1, <1>2, <1>3, <1>4, <1>7, <1>8 DEF WhenUp
<1>. QED
  BY <1>0, <1>1, <1>9 DEF ConsumerInv

\* The broker's own cancel may cross the service's.
LEMMA BrokerCancelsAgrees ==
  ASSUME TypesInv, ConsumerInv, BrokerCancels
  PROVE  ConsumerInv'
<1>a. PICK g, n : g = Frame("cancelled", 0, NoMessage) /\ n = broker.consumers
  OBVIOUS
<1>0. /\ down \in Seq(InFrames) /\ broker \in Brokers /\ n \in Nat /\ n > 0
      /\ conn = "up" /\ WhenUp
  BY <1>a DEF TypesInv, Brokers, BrokerCancels, ConsumerInv
<1>1. UNCHANGED <<app, conn, epoch>> /\ down' = Append(down, g)
  BY <1>a DEF BrokerCancels, Answer
<1>2. broker'.open = broker.open /\ broker'.consumers = n - 1
  BY <1>0, <1>a DEF BrokerCancels, Brokers
<1>3. broker.open /\ app.open /\ ~Has(down, "closed") /\ Agree(app, down, n)
  BY <1>0, <1>a DEF WhenUp
<1>4. app.chan # 0
  BY <1>0, <1>3, KindsOfEmpty DEF WhenUp, Off, Agree, Flags
<1>5. g \in InFrames /\ g.kind = "cancelled"
  BY <1>0, <1>a, InFrameFacts DEF Frame
<1>6. Adds(down, down', "cancelled")
  BY <1>0, <1>1, <1>5, AddsFacts
<1>7. Agree(app, down', n - 1)
  BY <1>0, <1>3, <1>6, CancelledAgrees
<1>8. ~Has(down', "closed")
  BY <1>3, <1>6 DEF Adds
<1>9. WhenUp'
  BY <1>0, <1>1, <1>2, <1>3, <1>4, <1>7, <1>8 DEF WhenUp
<1>. QED
  BY <1>0, <1>1, <1>9 DEF ConsumerInv

\* The news of a closed channel is on its way.
LEMMA ChannelClosesAgrees ==
  ASSUME TypesInv, ConsumerInv, ChannelCloses
  PROVE  ConsumerInv'
<1>a. PICK g : g = Frame("closed", 0, NoMessage)
  OBVIOUS
<1>0. /\ down \in Seq(InFrames) /\ broker \in Brokers
      /\ conn = "up" /\ WhenUp /\ app.chan = epoch
  BY DEF TypesInv, ChannelCloses, ConsumerInv
<1>1. UNCHANGED <<app, conn, epoch>> /\ down' = Append(down, g)
  BY <1>a DEF ChannelCloses, Answer
<1>2. ~broker'.open /\ broker'.consumers = 0
  BY <1>0 DEF ChannelCloses, Requeued, Brokers
<1>3. g \in InFrames /\ g.kind = "closed"
  BY <1>a, InFrameFacts DEF Frame
<1>4. Adds(down, down', "closed")
  BY <1>0, <1>1, <1>3, AddsFacts
<1>5. Has(down', "closed")
  BY <1>4 DEF Adds
<1>6. WhenUp'
  BY <1>0, <1>1, <1>2, <1>5 DEF WhenUp
<1>. QED
  BY <1>0, <1>1, <1>6 DEF ConsumerInv

\* A new connection starts without a consumer and asks for one unless paused.
LEMMA ReconnectedAgrees ==
  ASSUME TypesInv, ConsumerInv, Reconnected
  PROVE  ConsumerInv'
<1>a. PICK w : w = Wire(epoch + 1, TRUE)
  OBVIOUS
<1>0. /\ Typed(app) /\ epoch \in Nat /\ WhenDown /\ conn' = "up"
      /\ broker.open /\ broker.consumers = 0 /\ UNCHANGED <<down, broker>>
  BY DEF TypesInv, Typed, StoreInv, Reconnected, ConsumerInv
<1>1. w.live /\ w.object = epoch' /\ w.object # 0 /\ app' = StartConsuming(app, w)
  BY <1>0, <1>a DEF Wire, Reconnected
<1>2. /\ app.chan = 0 /\ app.open /\ Off(app) /\ app.up = <<>> /\ down = <<>>
  BY <1>0 DEF WhenDown
<1>3. Queues(app.up, down) /\ ~Asked(app, down) /\ ~Ending(app, down)
  BY <1>2, KindsOfEmpty DEF Queues, Asked, Ending
<1>4. ~Has(down, "closed") /\ ~Has(down, "cancelled") /\ ~Has(down, "cancelOk")
  BY <1>2, KindsOfEmpty
<1>5. CASE app.paused
  <2>1. app' = app
    BY <1>1, <1>5 DEF StartConsuming
  <2>2. Agree(app, down, broker.consumers)
    BY <1>0, <1>2, <1>3, <1>4, <1>5 DEF Agree, Flags, Off, Asked, Ending
  <2>3. WhenUp'
    BY <1>0, <1>1, <1>2, <1>4, <2>1, <2>2 DEF WhenUp
  <2>. QED
    BY <1>0, <2>3 DEF ConsumerInv
<1>6. CASE ~app.paused
  <2>1. Vacant(app, down, broker.consumers)
    BY <1>0, <1>2, <1>3, <1>4 DEF Vacant, Off
  <2>2. app.chan \in {0, w.object}
    BY <1>2
  <2>3. Agree(app', down, broker.consumers) /\ app'.open /\ app'.chan = w.object
    BY <1>0, <1>1, <1>2, <1>6, <2>1, <2>2, StartAgrees
  <2>4. WhenUp'
    BY <1>0, <1>1, <1>4, <2>3 DEF WhenUp
  <2>. QED
    BY <1>0, <2>4 DEF ConsumerInv
<1>. QED
  BY <1>5, <1>6

\* Every step keeps the invariant when the pause box is cleared only while connected.
LEMMA StepPreservesConsumerInv ==
  ASSUME ~UnpauseOffline, TypesInv, ConsumerInv, [Next]_vars
  PROVE  ConsumerInv'
<1>0. app \in Apps(Nat, OutFrames, Rows, Rows) /\ broker \in Brokers
  BY DEF TypesInv, Within
<1>1. CASE LinkBreaks
  BY <1>0, <1>1 DEF LinkBreaks, Requeued, Brokers, ConsumerInv
<1>2. CASE Crash
  <2>1. broker'.open /\ broker'.consumers = 0
    BY <1>0, <1>2 DEF Crash, Requeued, Brokers
  <2>2. WhenDown'
    BY <1>2 DEF Crash, FreshApp, WhenDown, Off
  <2>. QED
    BY <1>2, <2>1, <2>2 DEF ConsumerInv, Crash
<1>3. CASE LossNoticed
  <2>1. WhenDown'
    BY <1>0, <1>3 DEF LossNoticed, ResetConnectionState, WhenDown, Off, Apps
  <2>. QED
    BY <1>3, <2>1 DEF ConsumerInv, LossNoticed
<1>4. CASE UNCHANGED vars
  BY <1>4 DEF vars, ConsumerInv, WhenDown, WhenUp
<1>. QED
  BY <1>1, <1>2, <1>3, <1>4, TogglePauseAgrees, PublishAgrees, WorkerStepAgrees,
     InsertDoneAgrees, ReceiveFrameAgrees, BrokerReadsFrameAgrees, DeliverStepAgrees,
     BrokerCancelsAgrees, ChannelClosesAgrees, ReconnectedAgrees DEF Next, Messages

\* While the pause box is only cleared when connected, pausing, unpausing, cancels,
\* lost channels and reconnects never leave two consumers on the queue nor a channel
\* of a replaced connection in use, and whenever nothing is in flight on a healthy
\* channel the service's flags are the broker's.
THEOREM ServiceAlwaysAgrees == ~UnpauseOffline => (Spec => []ServiceAgreesWithBroker)
<1>. SUFFICES ASSUME ~UnpauseOffline PROVE Spec => []ServiceAgreesWithBroker
  OBVIOUS
<1>1. TypesInv /\ ConsumerInv /\ [Next]_vars => ConsumerInv'
  BY StepPreservesConsumerInv
<1>2. ASSUME TypesInv, ConsumerInv PROVE ServiceAgreesWithBroker
  <2>1. broker.consumers <= 1
    BY <1>2 DEF ConsumerInv, WhenUp, Agree, Flags
  <2>2. conn = "up" => app.chan \in {0, epoch}
    BY <1>2 DEF ConsumerInv, WhenUp
  <2>3. ASSUME conn = "up", app.open, app.up = <<>>, down = <<>>
        PROVE  /\ ~app.starting /\ ~app.cancelPending
               /\ app.consuming <=> broker.consumers = 1
               /\ app.consuming <=> ~app.paused
    <3>1. ~Has(down, "closed")
      BY <2>3, KindsOfEmpty
    <3>2. Agree(app, <<>>, broker.consumers)
      BY <1>2, <2>3, <3>1 DEF ConsumerInv, WhenUp
    <3>. QED
      BY <2>3, <3>2, QuietFlags
  <2>. QED
    BY <2>1, <2>2, <2>3 DEF ServiceAgreesWithBroker
<1>. QED
  BY <1>1, <1>2, InitConsumerInv, TypesInvariance, PTL DEF Spec

=============================================================================
