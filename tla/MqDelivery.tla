------------------------------ MODULE MqDelivery ------------------------------
(***************************************************************************)
(* One message from the broker's queue to an acknowledged row of the       *)
(* durable store: MqService (features/mq/mq_service.cpp), the MqTab slots  *)
(* that connect it to the database worker (mq_tab.cpp), MqStore            *)
(* (mq_store.cpp), and the broker they talk to (external).                 *)
(*                                                                         *)
(* Three threads of control interleave: the GUI event loop (every action   *)
(* on app), the database worker (WorkerStep), and the broker, which is     *)
(* reached over two FIFO wires, app.up and down.  app is everything the    *)
(* process loses when it dies; the store and the broker survive.           *)
(*                                                                         *)
(* A wire has a generation: epoch numbers the AMQP::Connection objects of  *)
(* one process, and app.chan is the epoch of the connection the current    *)
(* AMQP::Channel was built on (0: channel_ is null).  Delivery tags count  *)
(* from 1 on every channel.                                                *)
(***************************************************************************)
EXTENDS Integers, SequencesExt

CONSTANTS
  Remote,         \* envelopes waiting in the queue hsf.card.issued
  Local,          \* envelopes this application may publish
  Undecodable,    \* the remote ones MqCodec::decode refuses
  Prefetch,       \* unacknowledged deliveries the broker allows (10 in the code)
  MaxFaults,      \* bound: crashes, lost connections, broker-side closes
  DrainFirst,     \* TRUE: the worker is idle whenever a connection is replaced
  UnpauseOffline  \* TRUE: the pause box may be cleared while disconnected

Messages == Remote \cup Local

ASSUME DeliveryAssumption ==
  /\ Remote \cap Local = {}
  /\ Undecodable \subseteq Remote
  /\ Prefetch \in Nat \ {0} /\ MaxFaults \in Nat
  /\ DrainFirst \in BOOLEAN /\ UnpauseOffline \in BOOLEAN

VARIABLES
  app,      \* the process: MqService, MqTab, the worker's two queues, app.up
  conn,     \* "up", "broken" (dead but not yet noticed) or "down"
  epoch,    \* number of the AMQP::Connection object, 0 before the first
  down,     \* frames from the broker
  broker,   \* the queue, the consumer and the unacknowledged deliveries
  store,    \* the direction column of each stored envelope, or "absent"
  ackedRow, \* the rows with acked = 1
  faults

vars == <<app, conn, epoch, down, broker, store, ackedRow, faults>>

FreshApp ==
  [chan |-> 0, open |-> TRUE, paused |-> FALSE, consuming |-> FALSE,
   starting |-> FALSE, cancelPending |-> FALSE, tagged |-> FALSE,
   pending |-> {}, committed |-> {}, ackId |-> {},
   jobs |-> <<>>, done |-> <<>>, up |-> <<>>]

Init ==
  /\ app = FreshApp
  /\ conn = "down"
  /\ epoch = 0
  /\ down = <<>>
  /\ broker = [ready |-> Remote, unacked |-> {}, consumers |-> 0, open |-> TRUE,
               nextTag |-> 1, acked |-> {}, rejected |-> {}]
  /\ store = [m \in Messages |-> "absent"]
  /\ ackedRow = {}
  /\ faults = 0

-----------------------------------------------------------------------------
(* Frames, jobs, and the wire a call is made on: the current AMQP          *)
(* connection object and whether its socket is alive.                      *)

Frame(kind, tag, m) == [kind |-> kind, tag |-> tag, msg |-> m]

Wire(object, live) == [object |-> object, live |-> live]

Here == Wire(epoch, conn = "up")

NoMessage == "none"

\* A frame written to a dead socket, or on the channel of a connection that was
\* replaced, reaches nobody.
Send(a, w, f) ==
  IF w.live /\ a.chan = w.object THEN [a EXCEPT !.up = Append(@, f)] ELSE a

Enqueue(a, kind, tag, m) ==
  [a EXCEPT !.jobs = Append(@, Frame(kind, tag, m))]

-----------------------------------------------------------------------------
(* MqService and the MqTab slots it signals, as operators on app: they     *)
(* call each other.                                                        *)

\* ensureChannel() of a connection object that exists.
EnsureChannel(a, w) ==
  IF a.chan # 0 THEN a ELSE [a EXCEPT !.chan = w.object, !.open = TRUE]

\* On a closed channel consume() fails at once and onError undoes "starting".
StartConsuming(a, w) ==
  IF \/ a.paused \/ a.consuming \/ a.starting
     \/ a.chan = 0 /\ w.object = 0
     \/ a.chan # 0 /\ ~a.open
  THEN a
  ELSE Send([EnsureChannel(a, w) EXCEPT !.starting = TRUE], w,
            Frame("consume", 0, NoMessage))

CancelConsumer(a, w) ==
  IF a.chan = 0 \/ ~a.tagged \/ a.cancelPending \/ ~a.open THEN a
  ELSE Send([a EXCEPT !.cancelPending = TRUE], w,
            Frame("cancel", 0, NoMessage))

\* pendingAckEnvelopeIds_[tag].
EnvelopeOf(a, tag) == (CHOOSE p \in a.ackId : p[1] = tag)[2]

\* MqTab::onDeliveryAcked, the slot of the deliveryAcked signal.
OnDeliveryAcked(a, tag) ==
  LET mine == {p \in a.ackId : p[1] = tag}
  IN  IF mine = {} THEN a
      ELSE Enqueue([a EXCEPT !.ackId = @ \ mine], "markAcked", 0, EnvelopeOf(a, tag))

ConfirmInserted(a, w, tag) ==
  IF tag \notin a.pending THEN a
  ELSE IF a.paused THEN [a EXCEPT !.committed = @ \cup {tag}]
  ELSE IF a.chan = 0 \/ ~a.open THEN a
  ELSE OnDeliveryAcked(
         [Send(a, w, Frame("ack", tag, NoMessage)) EXCEPT
            !.committed = @ \ {tag}, !.pending = @ \ {tag}],
         tag)

\* The loop of pauseConsuming(): confirmInserted() for each tag of "order", in
\* which the QSet yields the committed deliveries.  All of them are pending and
\* have their envelope in ackId.
ConfirmCommitted(a, w, order) ==
  LET tags == Range(order)
  IN  IF a.chan = 0 \/ ~a.open THEN a
      ELSE [a EXCEPT
              !.up = IF w.live /\ a.chan = w.object
                     THEN @ \o [i \in DOMAIN order |-> Frame("ack", order[i], NoMessage)]
                     ELSE @,
              !.committed = @ \ tags, !.pending = @ \ tags,
              !.ackId = {p \in @ : p[1] \notin tags},
              !.jobs = @ \o [i \in DOMAIN order |->
                               Frame("markAcked", 0, EnvelopeOf(a, order[i]))]]

PauseConsuming(a, w, paused, order) ==
  IF paused THEN CancelConsumer([a EXCEPT !.paused = TRUE], w)
  ELSE LET b == ConfirmCommitted([a EXCEPT !.paused = FALSE], w, order)
       IN  IF ~b.consuming /\ ~b.cancelPending THEN StartConsuming(b, w) ELSE b

\* Mutant: a pause that came before the consumer's tag is forgotten.
BadOnConsumeSuccess(a, w) ==
  [a EXCEPT !.starting = FALSE, !.consuming = TRUE, !.tagged = TRUE]

OnConsumeSuccess(a, w) ==
  LET b == [a EXCEPT !.starting = FALSE, !.consuming = TRUE, !.tagged = TRUE]
  IN  IF b.paused THEN CancelConsumer(b, w) ELSE b

RejectDelivery(a, w, tag) ==
  IF a.chan = 0 \/ ~a.open THEN a
  ELSE [Send(a, w, Frame("reject", tag, NoMessage)) EXCEPT
          !.pending = @ \ {tag}, !.committed = @ \ {tag}]

\* onReceived, and the messageReceived slot that hands the row to the worker.
OnReceived(a, w, tag, m) ==
  IF m \in Undecodable THEN RejectDelivery(a, w, tag)
  ELSE Enqueue([a EXCEPT !.pending = @ \cup {tag}], "insert", tag, m)

\* Mutant: the consumer ended by a cancellation is not started again.
BadOnConsumerGone(a, w, byBroker) ==
  [a EXCEPT !.starting = @ /\ ~byBroker, !.consuming = FALSE,
            !.cancelPending = FALSE, !.tagged = FALSE]

\* cancel()'s onSuccess, and onCancelled when the broker ended the consumer.
OnConsumerGone(a, w, byBroker) ==
  LET b == [a EXCEPT !.starting = @ /\ ~byBroker, !.consuming = FALSE,
                     !.cancelPending = FALSE, !.tagged = FALSE]
  IN  IF b.paused THEN b ELSE StartConsuming(b, w)

\* Mutant: deliveries of the lost channel stay open for confirmation.
BadResetConnectionState(a) ==
  [a EXCEPT !.chan = 0, !.open = TRUE, !.tagged = FALSE, !.consuming = FALSE,
            !.starting = FALSE, !.cancelPending = FALSE, !.up = <<>>]

ResetConnectionState(a) ==
  [a EXCEPT !.chan = 0, !.open = TRUE, !.tagged = FALSE, !.consuming = FALSE,
            !.starting = FALSE, !.cancelPending = FALSE, !.pending = {},
            !.committed = {}, !.up = <<>>]

-----------------------------------------------------------------------------
(* The user. *)

\* The pause check box (MqTab connects its toggled signal to the service).
TogglePause ==
  /\ app.paused /\ conn = "down" => UnpauseOffline
  /\ \E order \in SetToSeqs(app.committed) :
       app' = PauseConsuming(app, Here, ~app.paused, order)
  /\ UNCHANGED <<conn, epoch, down, broker, store, ackedRow, faults>>

\* MqCodec::encode draws a fresh UUID: nobody has seen the envelope.
Fresh(m) ==
  /\ store[m] = "absent"
  /\ m \notin broker.ready \cup broker.acked \cup {p[2] : p \in broker.unacked}
  /\ \A i \in DOMAIN app.jobs : app.jobs[i].msg # m
  /\ \A i \in DOMAIN app.up : app.up[i].msg # m

\* sendCurrentBody(), publish() and the published slot.
Publish(m) ==
  /\ conn # "down"
  /\ Fresh(m)
  /\ LET a == EnsureChannel(app, Here)
     IN  /\ a.open
         /\ app' = Enqueue(Send(a, Here, Frame("publish", 0, m)), "insertSent", 0, m)
  /\ UNCHANGED <<conn, epoch, down, broker, store, ackedRow, faults>>

-----------------------------------------------------------------------------
(* The database worker, and its results back on the GUI thread. *)

\* Mutant: the result is posted before the row is written.
BadWorkerStep ==
  /\ app.jobs # <<>>
  /\ LET j == Head(app.jobs) IN
     /\ app' = [app EXCEPT !.jobs = Tail(@),
                           !.done = IF j.kind = "insert" THEN Append(@, j) ELSE @]
     /\ store' = [store EXCEPT ![j.msg] = IF j.kind = "insertSent" THEN "sent" ELSE @]
     /\ UNCHANGED ackedRow
  /\ UNCHANGED <<conn, epoch, down, broker, faults>>

\* MqStore::insert is INSERT OR IGNORE: the first direction stays.
WorkerStep ==
  /\ app.jobs # <<>>
  /\ LET j == Head(app.jobs)
         direction == IF j.kind = "insertSent" THEN "sent" ELSE "received"
     IN  /\ app' = [app EXCEPT !.jobs = Tail(@),
                               !.done = IF j.kind = "insert" THEN Append(@, j) ELSE @]
         /\ store' = IF j.kind # "markAcked" /\ store[j.msg] = "absent"
                     THEN [store EXCEPT ![j.msg] = direction] ELSE store
         /\ ackedRow' = IF j.kind = "markAcked" /\ store[j.msg] # "absent"
                        THEN ackedRow \cup {j.msg} ELSE ackedRow
  /\ UNCHANGED <<conn, epoch, down, broker, faults>>

\* The onDone of a received row: remember whose tag it is, then confirm.
InsertDone ==
  /\ app.done # <<>>
  /\ LET j == Head(app.done)
         a == [app EXCEPT !.done = Tail(@),
                          !.ackId = {p \in @ : p[1] # j.tag} \cup {<<j.tag, j.msg>>}]
     IN  app' = ConfirmInserted(a, Here, j.tag)
  /\ UNCHANGED <<conn, epoch, down, broker, store, ackedRow, faults>>

-----------------------------------------------------------------------------
(* Frames from the broker.  Bytes already received are still parsed after  *)
(* the socket died, until the loss is noticed.                             *)

ReceiveFrame ==
  /\ down # <<>>
  /\ LET f == Head(down)
     IN  app' = CASE f.kind = "consumeOk"  -> OnConsumeSuccess(app, Here)
                  [] f.kind = "cancelOk"   -> OnConsumerGone(app, Here, FALSE)
                  [] f.kind = "cancelled"  -> OnConsumerGone(app, Here, TRUE)
                  [] f.kind = "closed"     -> [app EXCEPT !.open = FALSE,
                                                 !.starting = FALSE,
                                                 !.cancelPending = FALSE]
                  [] f.kind = "deliver"    -> OnReceived(app, Here, f.tag, f.msg)
  /\ down' = Tail(down)
  /\ UNCHANGED <<conn, epoch, broker, store, ackedRow, faults>>

-----------------------------------------------------------------------------
(* The broker (external). *)

Answer(kind) == down' = Append(down, Frame(kind, 0, NoMessage))

Unacked(tag) == {p \in broker.unacked : p[1] = tag}

BrokerReadsFrame ==
  /\ conn = "up" /\ app.up # <<>>
  /\ LET f == Head(app.up) IN
     \/ /\ ~broker.open
        /\ UNCHANGED <<broker, down>>
     \/ /\ f.kind = "consume" /\ broker.open
        /\ broker' = [broker EXCEPT !.consumers = @ + 1]
        /\ Answer("consumeOk")
     \/ /\ f.kind = "cancel" /\ broker.open
        /\ broker' = [broker EXCEPT !.consumers = IF @ > 0 THEN @ - 1 ELSE @]
        /\ Answer("cancelOk")
     \/ /\ f.kind = "ack" /\ broker.open
        /\ broker' = [broker EXCEPT !.unacked = @ \ Unacked(f.tag),
                        !.acked = @ \cup {p[2] : p \in Unacked(f.tag)}]
        /\ UNCHANGED down
     \/ /\ f.kind = "reject" /\ broker.open
        /\ broker' = [broker EXCEPT !.unacked = @ \ Unacked(f.tag),
                        !.rejected = @ \cup {p[2] : p \in Unacked(f.tag)}]
        /\ UNCHANGED down
     \/ /\ f.kind = "publish" /\ broker.open
        /\ broker' = [broker EXCEPT !.ready = @ \cup {f.msg}]
        /\ UNCHANGED down
  /\ app' = [app EXCEPT !.up = Tail(@)]
  /\ UNCHANGED <<conn, epoch, store, ackedRow, faults>>

Deliver(m) ==
  /\ conn = "up" /\ broker.consumers > 0
  /\ m \in broker.ready
  /\ Cardinality(broker.unacked) < Prefetch
  /\ broker' = [broker EXCEPT !.ready = @ \ {m}, !.nextTag = @ + 1,
                  !.unacked = @ \cup {<<broker.nextTag, m>>}]
  /\ down' = Append(down, Frame("deliver", broker.nextTag, m))
  /\ UNCHANGED <<app, conn, epoch, store, ackedRow, faults>>

\* What a broker does with a channel that ends: requeue what was not settled.
Requeued ==
  [broker EXCEPT !.ready = @ \cup {p[2] : p \in broker.unacked},
                 !.unacked = {}, !.consumers = 0, !.open = TRUE,
                 !.nextTag = 1]

-----------------------------------------------------------------------------
(* Faults, bounded by MaxFaults, and recovery from them. *)

Fault == faults < MaxFaults /\ faults' = faults + 1

BrokerCancels ==
  /\ Fault
  /\ conn = "up" /\ broker.consumers > 0
  /\ broker' = [broker EXCEPT !.consumers = @ - 1]
  /\ Answer("cancelled")
  /\ UNCHANGED <<app, conn, epoch, store, ackedRow>>

\* The broker closes the channel and ignores what still comes in on it.
ChannelCloses ==
  /\ Fault
  /\ conn = "up" /\ app.chan = epoch /\ broker.open
  /\ broker' = [Requeued EXCEPT !.open = FALSE]
  /\ Answer("closed")
  /\ UNCHANGED <<app, conn, epoch, store, ackedRow>>

LinkBreaks ==
  /\ Fault
  /\ conn = "up"
  /\ conn' = "broken"
  /\ broker' = Requeued
  /\ app' = [app EXCEPT !.up = <<>>]
  /\ UNCHANGED <<epoch, down, store, ackedRow>>

\* The process dies and is started again: the pause box starts unchecked.
Crash ==
  /\ Fault
  /\ app' = FreshApp
  /\ conn' = "down" /\ epoch' = 0 /\ down' = <<>>
  /\ broker' = Requeued
  /\ UNCHANGED <<store, ackedRow>>

\* connectionStateChanged(false).
LossNoticed ==
  /\ conn = "broken"
  /\ conn' = "down" /\ down' = <<>>
  /\ app' = ResetConnectionState(app)
  /\ UNCHANGED <<epoch, broker, store, ackedRow, faults>>

\* connectionStateChanged(true): MqTab::refreshConnectionState consumes.
Reconnected ==
  /\ conn = "down"
  /\ DrainFirst => app.jobs = <<>> /\ app.done = <<>>
  /\ conn' = "up" /\ epoch' = epoch + 1
  /\ app' = StartConsuming(app, Wire(epoch + 1, TRUE))
  /\ UNCHANGED <<down, broker, store, ackedRow, faults>>

-----------------------------------------------------------------------------
Next ==
  \/ TogglePause
  \/ \E m \in Local : Publish(m)
  \/ WorkerStep \/ InsertDone \/ ReceiveFrame \/ BrokerReadsFrame
  \/ \E m \in Remote \cup Local : Deliver(m)
  \/ BrokerCancels \/ ChannelCloses \/ LinkBreaks \/ Crash
  \/ LossNoticed \/ Reconnected

\* The worker thread and the event loop run, the broker serves, and the
\* reconnect loop of ConnectionState ends (ConnectionState!LoopEnds).
Fairness ==
  /\ WF_vars(WorkerStep) /\ WF_vars(InsertDone) /\ WF_vars(ReceiveFrame)
  /\ WF_vars(BrokerReadsFrame)
  /\ \A m \in Remote \cup Local : WF_vars(Deliver(m))
  /\ WF_vars(LossNoticed) /\ WF_vars(Reconnected)

Spec == Init /\ [][Next]_vars /\ Fairness

-----------------------------------------------------------------------------
FrameKinds ==
  {"consume", "cancel", "ack", "reject", "publish", "consumeOk", "cancelOk",
   "cancelled", "closed", "deliver", "insert", "insertSent", "markAcked"}

Frames == [kind : FrameKinds, tag : Nat, msg : Messages \cup {NoMessage}]

\* Every member, frame and row keeps its type.
TypeOK ==
  /\ app.chan \in Nat /\ app.pending \subseteq Nat
  /\ app.committed \subseteq app.pending
  /\ app.ackId \subseteq Nat \X Messages
  /\ app.jobs \in Seq(Frames) /\ app.done \in Seq(Frames)
  /\ app.up \in Seq(Frames) /\ down \in Seq(Frames)
  /\ conn \in {"up", "broken", "down"} /\ epoch \in Nat
  /\ broker.unacked \subseteq Nat \X Messages
  /\ store \in [Messages -> {"absent", "sent", "received"}]
  /\ ackedRow \subseteq Messages

\* An acknowledged message is in the durable store: neither a crash between
\* the insert and the acknowledgement, nor a redelivery, nor a pause that holds
\* acknowledgements back lets the broker forget a message that has no row.
AckedIsStored == \A m \in broker.acked : store[m] # "absent"

\* Pausing, unpausing, cancels and reconnects never leave two consumers on the
\* queue nor a channel of another connection in use, and with no frame in flight on
\* a healthy channel the service's consumer flags agree with the broker: a missed or
\* doubled callback would leave the box unchecked and nothing consumed, or checked
\* and deliveries still arriving.
ServiceAgreesWithBroker ==
  /\ broker.consumers <= 1
  /\ conn = "up" => app.chan \in {0, epoch}
  /\ conn = "up" /\ app.open /\ app.up = <<>> /\ down = <<>> =>
       /\ ~app.starting /\ ~app.cancelPending
       /\ app.consuming <=> broker.consumers = 1
       /\ app.consuming <=> ~app.paused

Promise == INSTANCE MqPromise WITH
  kept    <- {m \in Messages : store[m] # "absent"},
  settled <- broker.acked \cup broker.rejected

\* Consumption implements the durable at-least-once promise of MqPromise.
KeepsPromise == Promise!PromiseSpec

\* A lasting position of the pause box takes effect.  Once it stays checked the
\* consumer ends up cancelled, even when the pause came while it was starting; once
\* it stays clear and the channel usable, the queue is stored and settled.
PauseBoxTakesEffect ==
  /\ <>[]app.paused => <>[](broker.consumers = 0)
  /\ <>[](~app.paused /\ app.open) => <>(broker.ready = {} /\ broker.unacked = {})

=============================================================================
