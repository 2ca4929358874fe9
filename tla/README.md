# qt-app-base in TLA+

A verification project kept beside `qt-app-base`, a base for Qt desktop
applications that talk to devices: a reconnecting connection state machine, three
protocol drivers on top of it (Modbus TCP, the C3/InBio access panel, RabbitMQ), a
background database worker, a single-instance guard and a self-updater. The
modules below are translated from the C++ sources; `PROJECT.json` maps every
definition to the lines it stands for.

## The system

| Part | State it keeps | Operations | Talks to |
|---|---|---|---|
| `ConnectionState` (`src/core`) | connected, reconnecting, awaiting, autoRetry, failure count, two timers | beginAutoConnect, connectNow, disconnectNow, reportConnectResult, setHeartbeatInterval, heartbeat and reconnect ticks | the handlers its driver installs |
| `ModbusConnection` | one pending request, request timer, read buffer, transaction counter | connect, disconnect, six request methods, socket slots, timeout | a QTcpSocket, its ConnectionState |
| `C3Connection` | attempt flag, handshake step, session, six query flags and timers, big-data transfer, log mode, read buffer | connect, disconnect, queries, socket slots, timeouts | a QTcpSocket, its ConnectionState |
| `MqConnection`, `MqBuffer` | attempt flag, AMQP connection, heartbeat timer, input buffer | connect, socket slots, AMQP callbacks, feed | a QTcpSocket, the AMQP parser, its ConnectionState |
| `MqService` | channel, consumer flags, pending and committed tags | publish, consume, pause, confirm, reject, reset | the broker, `MqTab` |
| `MqTab`, `MqStore` | rows with an acked flag, tags whose insert is under way | insert, mark acked, record sent | the store, on the worker thread |
| `Worker` | a thread, a queue of jobs, the process-wide pending count | call, post, pending, destruction | the contexts it posts results to |
| `SingleInstance` | a local server, isPrimary | constructor, signalPrimaryToRaise | other processes, by a path in the file system |
| `ModbusCodec`, `C3Codec` | none | encoders, decoders, checksum | the two drivers |
| Update (checker, installer, curl, `startSelfInstall`) | running curls, verified flag, open questions; the downloaded, the staged and the installed file | check, compare versions, download, verify, install, relaunch | GitHub, the file system, `SingleInstance` through the process it starts |

The drivers run on the GUI event loop. What makes them hard is that a slot runs
between any two others: a heartbeat between a click and its result, a timeout
between the two halves of a frame, a loss between a delivery and its acknowledgement.
Only the database worker is a thread of its own. The broker, the devices, curl and other
copies of the application are other processes, and curl outlives a crash. `PROJECT.json` lists the hazards this
causes, each at its line, with the properties that cover it.

What makes each part correct:

* ConnectionState: a reconnect loop never goes quiet; its delays follow the ladder;
  a connection shown as up is monitored; an attempt is awaited exactly while it runs.
* Modbus and C3: an answer goes to the request it answers (the code ensures it neither for a
  late Modbus reply nor for overlapping C3 queries); no request and no handshake
  is left without its clock; a dial always resolves; the driver and its state object
  agree about the attempt.
* The codecs: a reply is decided only when its last byte is there, means what the peer
  meant, and is refused when garbled; a request is what the peer expects.
* MQ: a message is acknowledged only when it is stored, and stored once; one consumer;
  channel and connection belong together.
* MqConnection: connected means logged in on this very connection; the driver gets back
  from a fault at any point of the login.
* Worker: a result reaches its context or nobody; the count of pending jobs is what the
  process has accepted and not finished; a shutdown ends.
* SingleInstance: one primary, which owns the pipe, also after crashes; starting the
  application leads to a primary.
* Update: the executable is always a whole release, never an older one than the one that
  runs; a newer release keeps being offered, and one that is accepted arrives in the end.

## Modules

**`ConnectionStateCore`** holds the transitions of a `ConnectionState` object as
operators on a record of its members. There is no VARIABLE, because a driver chains
several of them inside one slot, as the C++ calls nest. The timers are modelled by what
is pending: `heartbeat` (running or not) and `rearm` (the delay of the single-shot
reconnect timer, 0 when stopped).

**`ConnectionState`** is one such object with a client and a transport (`link`).
A client may use a synchronous or an asynchronous ConnectFn. Every public call is an
action; so are the two timer slots, the asynchronous result, the loss of the link, and the
report that is not the running attempt's: a stray one, or a late one of an attempt that was
given up. It may come at any time, also during the next attempt, for whose result it is then
taken; `misled` is history and records that.

**`ModbusConnection`** composes the core with the driver, its socket and a device. A
frame travels as two pieces, so that a reply can be split. `asked` and `answer` are
history: which request the driver believes answered, and which the device answered.

**`C3Connection`** composes the core with the panel driver: the handshake with its
session-less fallback, six kinds of query that share one buffer, the big-data transfer
(prepare, chunks, free), the two log modes, all timers. A second `connectToHost` on a
busy QTcpSocket emits an error from inside the ConnectFn; `Impatient` allows it. A reply
names no request, so a frame is only the step it answers: which query takes it is up to the
pending flags. The caller is free: the 2 s log poll of the demo window starts a query over
whatever the user has started.

**`ModbusCodec`** and **`C3Codec`** are the encoders and decoders as operators on
sequences of bytes. The eight Modbus decoders repeat one frame check, which is `Frame`
here; the C3 ones share `decodeFrameGeneric`. C3 replies that are text (table
configuration, parameters, key/value log) are not looked into.

**`CodecStream`** puts them on a line with the peers: a request is read by a device or a
panel, a reply arrives byte by byte and is decoded after every byte, and one byte of a
panel's reply to a count may change, by any of `Changes`. The requests are `RequestWord`, `RequestBlock` and
`RequestOfPanel`; a device answers with registers, bits, echoes or exceptions
(`Answer...`), a panel with one of seven kinds of reply (`Panel...`). The peers are
written from the protocols and share no definition with the codecs. The panel's checksum
is the remainder of the message modulo x^16 + x^15 + x^2 + 1: polynomials over GF(2) are
sets of exponents (`Fed`, `Remainder`), not a register that is shifted as in `crc16`.

**`MqDelivery`** follows a message from the broker's queue to an acknowledged row:
`MqService`, the `MqTab` slots, the worker's job and completion queues, the store, the
broker, and a FIFO wire each way. `app` is what a crash loses. Connections are numbered
(`epoch`), a channel remembers the one it was built on, tags restart on every channel.

**`MqPromise`** is the abstract specification of consumption: a message is settled at
the broker only after it was kept, or because it cannot be decoded. `MqDelivery`
implements it (`KeepsPromise`) with kept = rows stored and settled = messages that have
left the broker.

**`MqConnection`** composes the core with the AMQP driver. A login is the frames `tune`
and `openOk`; a delivery is a frame in pieces. `Feed` is `MqBuffer::feed`: append,
parse the head until the parser takes no more, which is as many turns (`FeedTurns`) as
there are pieces at most. `keeps` is chosen once: whether the parser,
which is not in the repository, keeps or drops what it cannot parse. `onClosed` cannot be
reached, since nothing calls `AMQP::Connection::close()`.

**`Worker`** is one Worker as `MqTab` owns it; of the second one, `DemoWindow`'s own, it
has what the two share: `others` jobs in the process-wide count, which go up and down
(`OtherWorker`) until it ends and leaves what it has not run (`lost`). `call`, `post` and the destructors are
steps of the main thread; the lambda on the worker thread is four steps (begin, return and
count down, test the guard, post the result), because the main thread may destroy a
context between any two. `pass` is Qt's rule that one pass of the event loop sends the
events that were queued when it began: those jobs still run after `quit()`, later ones are
dropped. `mailbox` is the set of jobs whose result waits for the main thread: one thread
runs and posts them, so they come in the order of their numbers and `Deliver` takes the
least. `raced` is history.

**`Update`** is the self-update on Linux. A file is a release and whether it is whole; a
digest matches when both do. `startSelfInstall` is one action per system call, each of
which may fail or be the last before a crash. The result of removing a leftover staged file
is ignored, so it may stay (`RemoveFails`), and then the copy fails. The question is a nested event loop, so
`questions` is a stack. A crash orphans a running curl, which goes on writing to the one
installer path; `meddled` records that it wrote to a verified file.

**`SingleInstance`** is the guard as `main()` uses it. The constructor is four steps
(probe, listen, remove, listen), since each is a system call between which another
process runs. `HandOver` is the self-update's start of the new binary followed by quit.

**`ConnectionStateProofs`**, **`ModbusConnectionProofs`**, **`C3ConnectionProofs`**,
**`MqDeliveryProofs`** and **`MqConnectionProofs`** hold the theorems about the module
they are named after; **`ApplicationProofs`** those about `Worker`, `SingleInstance` and
`Update`, which share no state, in a section each; **`CodecProofs`** those about
`CodecStream` and the two codecs. **`SharedFacts`** holds the lemmas that several of them
use: about the operators of `ConnectionStateCore`, about frames of two pieces, and
induction over numbers. The `MC...` modules only extend a
module for model checking; each `.cfg` gives the constants.

External behaviour, modelled from how the code uses it: QTcpSocket (a second dial on a
busy socket is refused with an error; abort is silent), QLocalServer (bind fails when the
path exists, a crash leaves the path, closing unlinks it; bind-and-listen and close are
each one step), AMQP-CPP and the broker (FIFO per direction, requeue in any order on
channel loss), SQLite (a statement is atomic and durable), the devices.

## Runs

### Passing

| Run | Question | Bounds |
|---|---|---|
| `connection_state` | Does any interleaving of calls, ticks, results and losses strand the loop, leave a connection unmonitored or climb the ladder wrongly? Does an outage that ends lead to a connection? | `MaxFailures` = 8: all seven rungs and one more, where the ladder is held |
| `modbus` | Do replies reach their own requests across split frames, timeouts, losses and reconnects, and does every dial and request end? | two functions, two hosts, 4 requests (a reply, a timeout, a loss and a next request), 3 failures |
| `codecs` | Do the Modbus and C3 codecs agree with the peers on every frame, whole, in part and garbled? | ids and words with zero, low and high bytes; blocks of 1, 2 and 123 registers, 1 to 1968 coils (what the demo's dialog allows, so that no byte count overflows); every prefix of every reply; every byte of a panel's reply to a count changed in four ways |
| `c3_queries` | With overlapping queries, stale sessions, losses and timeouts that overtake their reply: is a flag ever left without its timer, an attempt not awaited, a connection without its own session, and does every attempt and every query end? | a table transfer and the log poll (the query of several steps and the one that changes the driver's mode), 2 queries, 2 chunks, a panel with the key/value log; the log's timeout and the handshake's may overtake the reply |
| `mq_delivery` | Can a crash, loss, channel close, broker-side cancel or pause acknowledge a message that is not stored, double the consumer, or use a dead channel? Does a lasting pause cancel the consumer, and an unpaused client drain the queue? | two remote messages, one undecodable, one local, prefetch 2, two faults |
| `mq_connection` | Does a refusal, drop, close or silence at any point of a login or a split delivery make a bare TCP connection look logged in, strand an attempt or keep the driver from logging in again? | a frame of three pieces, three faults |
| `worker` | With contexts destroyed and the Worker shut down between any two steps of its thread: is a result posted to an owner that has ended, is the count right, is every call answered, does the join end? | an owner, two dialogs, three jobs, one job of the other Worker |
| `update` | Across crashes, failed calls, bad and orphaned downloads, withdrawn releases and stacked questions: is the executable whole and never older, is a new release offered, and does one that is accepted again and again arrive? | versions 1.9, 1.10, 1.11 (unusable) and 2, two open questions, three faults |
| `single_instance` | Do crashes, stale sockets, exits and hand-overs leave one primary that owns its pipe, when copies are started one at a time? Once nothing but starts happens, does a primary remain? | three processes: an old one, its replacement and a bystander |

The bounds are enough because each hazard needs a fixed, small cast: one request to go
stale and one to be confused with it; one message in flight at a fault and one that takes
its tag; two faults so that a recovery is itself interrupted; three processes so that a
third sees the path two others fought over; a version of two components before one of
one, and one that passes 9. Failure counts matter only up to the end of
the ladder. No symmetry is used: no instance needs it, and liveness forbids it.

Six switches say which environment a passing run assumes, and two of the violation runs
below turn one: `LateReplies` (a Modbus device may answer after the timeout),
`Impatient` (Connect is clicked again while the panel is being dialled), `DrainFirst` (the
worker is idle when a connection is replaced), `UnpauseOffline` (the pause box is cleared
while disconnected), `Serialised` (copies are not started at the same moment),
`SilentBroker` (a broker may accept and never go on with a login). None of them is
guaranteed by the code. `Overtaken`, `InUse` and `PanelModes` of `C3Connection` only keep its
run small: the theorems hold for all of their values. Deadlock is
not checked in `worker`, which ends, and in `update`, where a binary that is not whole
(`meddled`) cannot be started again.

### Disagreements found

Each of these runs checks one property, which states what a comment of the repository
says, and TLC finds it violated; `PROJECT.json` quotes the line.

| Run | What the code does |
|---|---|
| `modbus_late_reply` | A reply after its timeout is delivered as the answer to the next request of the same function: transaction ids are sent and never compared. |
| `c3_log_mode` | The reply to a count that is still out when the log poll asks is taken by the log handler as the panel's refusal of the binary log, and the driver leaves that mode for good. |
| `mq_stale_tag` | An insert that outlives its connection acknowledges, by its old tag, another message that is not stored yet. |

The same models show more of this kind to whoever turns a switch of a passing run or
adds a property that it leaves out:

* `ConnectionState`, property `FailedManualAttemptKeepsLoop`: connectNow() ends the
  reconnect loop before its own result is known; `connection_state.h:59` says a failed
  manual attempt does not.
* `C3Connection`, property `ReadyMeansSession`: isReady() is true before the handshake of a
  second connection, since the old session id is kept; `c3_connection.h:18` says it only
  becomes true once CONNECT_SESSION has completed.
* `SingleInstance` without `Serialised`: two copies started together are both primary
  (`PrimaryOwnsPipe`). The second probed before the first had bound the path, takes its own
  failed `listen()` for a stale socket and removes the first one's fresh one.
* `ModbusConnection`, property `HostIsWanted`: Connect with a new address during a dial
  leaves the driver connected to the old one, because `connectToHost`
  does not abort the attempt under way and takes its result for the new one's.
* `C3Connection` with `Impatient`: a second Connect click makes the busy socket report an
  error from inside the ConnectFn, before the attempt is awaited; the attempt is then
  awaited and never reported, and no retry is armed (`AttemptIsAwaited`,
  `NeverStuckDialing`).
* `MqDelivery` with `UnpauseOffline`: clearing the pause box while disconnected builds the
  channel on the connection about to be replaced (`ServiceAgreesWithBroker`).
* `ConnectionState`, `misled`: `connection_state.h:51` says that stray or late reports are
  ignored. They are while nothing is awaited; during the next attempt one is taken for its
  result. `AttemptIsAwaited` and `NoOrphanLink` without `misled` are violated.
* `ConnectionState`, property `ManualFailureStartsNoRetry` (what the self test says):
  connectNow() over a live connection leaves the old heartbeat running; after a failure
  its tick starts automatic retries. The self test never had a connection before.
* `SingleInstance`, property `HandOverLeavesInstance`: the updated binary finds the old
  process still listening, takes itself for a second copy and ends; then the old one
  ends, and no copy is left.
* `MqConnection`: a retry does not clear `inputBuffer_`. If a connection was lost inside a
  frame and the parser keeps what it cannot parse, no later login gets past the old bytes;
  `ReturnsUnlessPoisoned` excludes exactly this.
* `MqConnection` with `SilentBroker`: nothing limits the login, so a broker that accepts and
  stays silent is awaited for ever (`ReturnsUnlessPoisoned`).
* `Worker`, property `JobsFindStore`: `DemoWindow` destroys its member `m_mqStore` before
  its child `m_mqTab`, whose Worker is joined only then. Jobs queued or running at exit use
  a destroyed store; `database.h:9` asks for access through exactly one Worker.
* `Worker`, `raced`: a context that does not own the Worker can be destroyed between the
  guard's test and the posting. No context of the application is of that kind.
* `worker.h:40` calls pending() "Jobs queued but not yet started". It counts the running one
  too, the jobs of the other Worker, and, for the rest of the process, what quit() dropped;
  `PendingIsOfProcess` says what it does count.
* `platform_unix.cpp:53` ignores whether the leftover was removed. One that cannot be
  removed makes every installation fail at the copy, and the message names the copy.
* `Update`, property `InstallsWhatWasAsked`: an older question answered after a newer
  download installs the newer version under the older one's name.
* `Update`, `ExecutableIsWhole` without `meddled`: a curl orphaned by a crash can write to
  the installer file between its verification and the copy by the next process.
* `Update`: after a failed relaunch and a withdrawn release the file on disk may go back to
  a lower version than the one already installed, never to one that is not newer than the
  running one.

## Fairness

Weak fairness only, and only of steps the program or its environment cannot put off for
ever: a running QTimer fires while the event loop runs; a TCP connect resolves, at the
latest by the operating system's timeout; bytes that have arrived are read; the worker
thread takes its next job; the broker serves frames and deliveries. A device is never
obliged to answer: staying silent is a step of its own, after which only the timeout
is left. Clicks, requests, losses, crashes, pauses and exits have no fairness. Where a
liveness property needs an outage to end or a pause to last, it says so in its
hypothesis. The faults of `mq_delivery`, `mq_connection` and `update` are bounded, so "no
more faults" is eventually true there; `LoopEnds` and `ReturnsUnlessPoisoned` are why
`Reconnected` may be taken as fair in `MqDelivery`. In `Worker` jobs are fair, the other Worker's too, because each
is a finite statement or query; in `Update` a check and a download end by curl's
`--max-time`, the check timer fires every six hours, and nobody has to answer a question.
`AcceptedUpdateArrives` is the one property with a user who keeps accepting: its hypothesis is
strong fairness of the Install button on a verified file, since the question closes and comes
back. `StartingBringsPrimary` supposes that from some time on copies are only started, and
again and again.

## Proofs

`ConnectionStateProofs` proves the safety properties of `ConnectionState` for every
value of `MaxFailures`, from `MaxFailuresAssumption` (it is a natural number).

None of the invariants is inductive alone. That a loop always has a next event, after a
failed result, needs that the result was awaited by an asynchronous handler inside the
loop (`AttemptIsAwaited`, or it belonged to another attempt); that a link which is up is shown or about to be torn down
needs that the timer is armed only inside a loop (`ArmedAtCurrentRung`). Both except what follows after a late
report was taken for a running attempt's (`misled`); that the loop has a next event and that
the ladder is kept holds then too. `IInv` is therefore their conjunction with the type invariant and two facts no run states:
`ConnectedEndsLoop` (a connected object is not in its loop) and `Configured`: before handlers are installed nothing is connected, awaited or up, and
only asynchronous handlers leave a result to wait for. `InitEstablishesIInv` and
`StepPreservesIInv` (one step per action) give `Invariance`. From it:

* `TypeCorrect`, `LoopNeverStranded`, `TimerFollowsLadder`, `ConnectionIsMonitored`,
  `LoopAndConnectionExclude`, `AwaitsRunningAttempt`, `OrphanIsTornDown`: the invariants;
* `FailuresOnlyClimb`, `LoopEndsInConnection`: the action properties.

`LadderTotal` is the lemma about the delay ladder they rest on: for every failure count
the delay is one of the four in the table.

About `Worker`, `ApplicationProofs` proves, for every set of dialogs and every `MaxJobs` (from
`WorkerAssumption`: owner, dialogs and the absence of a context are told apart), that the
count is, beside what the other Worker has and left, the jobs this one accepted and has not
finished (`PendingIsExact`) and that the thread ends before the owner does
(`OwnerOutlivesThread`). Both need where the thread can end: `ThreadLife` says between two
passes, with no job at hand and only once it was told to; `OwnerLives` says that the
owner's guard holds until the last step of its destruction, which the join precedes.
`DestroyedContextIsNotCalled` adds the mailbox: no result waits there for a context that
is gone (`MailboxInv`), because destroying a context takes its results away and a result is
added only behind the guard or for an owner the thread cannot outlive.

About `Update` it proves, for every list of releases and every bound:

* `ExecutableStaysWhole`: the executable is as good as the staged file when it is renamed
  (`StagedIsWhole`), that one as the downloaded file when it is copied, and that one as
  the verdict on it (`VerdictStands`): an installation has a verdict, and while there is a
  verdict this process downloads nothing;
* `NeverDowngrades`: `OnlyNewer` says that what is being downloaded, was verified or is staged is
  a release that `isNewerVersion` puts above the running one. That a newer version is a
  later release needs that versions grow with the releases (`VersionsAscend`, true of the
  list TLC uses) and that `isNewerVersion`, a loop over components with missing ones read
  as 0, never holds both ways (`NewerIsAsymmetric`). Without `VersionsAscend`
  `ReplacedByNewer` still holds: what is installed has the newer version.

About `SingleInstance` it proves, for every set of processes, that when copies are started one
at a time (`Serialised`) a primary owns the pipe (`OnePrimary`).
`ProbeStands` is the reason: what the probe found stays true until the path is
bound, because only one constructor runs.

`ModbusConnectionProofs` proves, for all sets of functions and hosts and all bounds:

* `PendingAlwaysTimed`, `SocketAlwaysTracked`, in every environment. `LinkInv` adds that
  the state object only ever waits with its handlers installed and that a retry is armed only while
  nothing is connected;
* `AnswerAlwaysMatches`, when no device answers after the timeout (`~LateReplies`).
  `WireInv` says where the one frame can be: with the device, or coming back with at most
  its first piece in the buffer, or nowhere. It is not true with late replies; the run
  `modbus_late_reply` is the counterexample.

`C3ConnectionProofs` proves, for all kinds of query in use, logs of the panel, waits that may be
overtaken, and numbers of queries, chunks and failures:

* `WaitsAlwaysTimed`, in every environment: impatient clicks, overlapping queries, stale
  sessions, late replies;
* `AttemptAlwaysAwaited`, `SessionAlwaysCurrent`, if Connect is not clicked during a dial
  (`~Impatient`). `LinkInv` says what a current session implies about socket, timers
  and state object.

Nothing is proved about which query takes a reply: with queries that overlap the code does not
keep them apart (`c3_log_mode`).

`MqDeliveryProofs` proves, for every set of messages, prefetch window and number of
faults:

* `DeliveryTypes`, in every environment;
* `AckedAlwaysStored` and `PromiseAlwaysKept`, the refinement of `MqPromise`, if the worker
  is idle when a connection is replaced (`DrainFirst`). A tag is only a number, so
  `DeliveryInv` says of every place that holds one (the queued jobs and completions, the
  set held back while paused, the acknowledgements on the wire) that the message the
  broker has under this tag is the one meant, and is stored where an acknowledgement
  follows. The refinement is by step: each action keeps one message, settles one that is
  kept or undecodable, or does neither. Without `DrainFirst` both are false: the run
  `mq_stale_tag`;
* `ServiceAlwaysAgrees`, unless the pause box is cleared while disconnected
  (`~UnpauseOffline`), with no condition on the worker. `ConsumerInv` lists, for each
  position of the flags `starting`, `consuming`, `cancelPending` and `paused`, which
  consume and cancel frames and which answers are in flight and how many consumers the
  broker has; the agreement with nothing in flight is one line of it;
* `LoopUnrolls`: `pauseConsuming()` calls `confirmInserted()` for each held tag in the
  order of a QSet, which is arbitrary. The model takes the result in closed form, and the
  theorem says that one more tag in the order is one more call.

`MqConnectionProofs` proves, for frames of any size, any number of faults and with or
without a broker that stays silent in a login (`SilentBroker`):

* `FeedTakesAll`: the loop of `MqBuffer::feed` ends and leaves a buffer from which the
  parser would take no more, so the bounded loop of the model is the code's unbounded one.
  By induction on the turns: each one that takes something makes the buffer shorter or is
  the last;
* `AttemptAlwaysAwaited`, `ConnectedAlwaysLoggedIn`. How far a login has come is told by
  what is in the buffer and on the wire, which `LinkInv` relates to the driver's members:
  `AttemptInv` (the driver's and the state object's record of an attempt agree),
  `LoginInv` (a link that is shown as connected, sends heartbeats or has armed a retry has
  come so far), `StreamInv` (the frames of the login lie in their order in the buffer and
  on the wire, behind what an earlier link left) and `OpenIsNext` (the last frame of the
  login finds a parser that has taken all before it). What `Feed` keeps of them is proved
  for one turn and carried over all of them by induction.

`CodecProofs` proves all that `codecs` checks, for all 16-bit ids, words and addresses,
and for all longest blocks of registers and of coils whose bytes one byte can count
(`CodecAssumption`; the dialog's 123 and 1968 are such). `LineInv` says of what is on the
line: a request is read by its peer as it was meant; a reply is a frame of the protocol
that as a whole is decoded to what was meant; a garbled reply differs in one byte from
one; and no more has arrived than was sent. That each sender establishes it is a lemma
per kind of frame.

* `PartsAreAwaited`: every decoder compares the length that the frame announces with the
  bytes it has before it looks at anything else; a part of a frame is too short for it;
* `ModbusUnderstood`: header, byte count, registers and coils read back from the bytes the
  encoder made, and the decoders from those a device makes. For coils it needs that a byte
  is the sum of its bits (`Packed`, `BitsHoldCoils`);
* `PanelUnderstood`: likewise, with the session block and without it. The values of a
  table are found behind each other, so what is read from an offset depends on what is read
  from later ones: `ValuesIsRun` proves that the recursive definition has a solution, and
  the rows are then read from the last to the first;
* `ChecksumIsRemainder`, for every message of any length: one step of the register of
  `crc16` is one step of the remainder with the bits in opposite order, after a byte has
  been mixed in (`MixedStep`); so for eight steps, so for all bytes. The loop of `crc16`
  is a recursive function; that it has its values is again an induction (`CrcIsRun`);
* `SameFrames` and `FrameRoundTrip`: the panel's frame, built from the protocol, is the
  codec's, and decoding what was encoded gives command and payload back, for every payload
  the 16-bit length can count;
* `GarbledRefused`, for the reply to a count of every session and word and for every other
  value of any one of its bytes: two messages that differ in one byte have different checksums, because
  a step of the register loses nothing (`CrcByteDiffers`, carried to the end of the message
  by induction); that covers version, command and payload. A changed marker is seen at
  once; a changed length either asks for more than there is or leaves no payload of the
  four bytes a count needs; a changed checksum is not the one of the rest.

Apart from `VersionsAscend`, the hypotheses are the switches under which the passing runs
check the same properties, and none is hidden in an `ASSUME`: each stands in the statement of the theorem that needs
it.

Only model-checked: the liveness properties. Fairness is out of the prover's reach.
Every invariant and every action property of the passing runs is proved.

Induction over data is done without the library's induction theorems, whose parameter is
an operator the provers cannot instantiate: `SharedFacts` has it for sets. A set of
numbers that is not empty has a least one (`LeastNumber`), so a set that holds 0 and with
each number the next holds them all (`Induction`). A recursive function is a `CHOOSE`, of
which nothing is known until a function with that property is shown to exist; the
`...RunExists` lemmas do that by induction on its domain.

The `TypeOK` of the driver and delivery modules is stated by no run; the proofs use it.

## Not modelled

* Byte layouts of AMQP frames, `MqCodec` (JSON) and of the C3 replies that are text. The
  connection modules use only the outcome of decoding; the codec modules say what it is.
* In the codecs, values of 32 bits and more are kept below 2^31, TLC's largest integer.
* C3 request numbers (sent, never compared on reply), a panel that grants session 0 or
  sends empty chunks, and a 16-bit transaction id that wraps (65 536 requests; the driver
  never compares it).
* Publisher confirms, which the code does not use, and the closing frame that the AMQP
  library may send when its connection object is destroyed.
* `MqStore::purge`, `search` and `recent`: they trim or read rows for the table. A purged
  message that is delivered again is stored again, as intended.
* The Windows installer, which is a script run by another process, and dev builds, which
  never check for updates.
* The queue, contexts and thread of the second Worker: only its share of the pending count.
* Modbus blocks longer than the dialog allows, whose byte count would be truncated, and a C3
  table payload that ends inside a record.
* Settings, log files (one append per line, rotation at start), database wrapper, theme,
  widgets and window: I/O and presentation, without an interleaving to check.
* SQLite is vendored: its amalgamation is 237 000 of the repository's 246 000 lines of
  implementation, so any share of covered lines is a share of what is left.

## Plan

1. The C3 text replies against a reference definition, with TLC.
2. For `GarbledRefused`, the other replies of a panel: for a count the length of the
   payload is known, for a table it is not, and there a changed length is caught by the
   checksum only if the bytes it then covers do not happen to match.
