-------------------------------- MODULE Worker --------------------------------
(***************************************************************************)
(* core/async/worker.cpp, as MqTab owns one: the main thread calls, closes *)
(* widgets and shuts down, the worker thread runs jobs on the store.       *)
(*                                                                         *)
(* Qt is external.  Its event loop sends, in one pass, the events that     *)
(* were queued when the pass began; quit() is seen between passes, and the *)
(* events of an object die with it.  DemoWindow has no destructor of its   *)
(* own: its member m_mqStore goes first, its child m_mqTab and the Worker  *)
(* inside it with ~QWidget().  DemoWindow has a Worker of its own, with a  *)
(* thread of its own, that shares g_pending with this one; of it only the  *)
(* number of jobs is kept.                                                 *)
(***************************************************************************)
EXTENDS Naturals, Sequences

CONSTANTS
  Owner,     \* the object that the Worker is a member of
  Dialogs,   \* contexts that may be destroyed while the Worker lives on
  NoContext, \* of a post(), or of a call() without onDone
  MaxJobs,   \* bound: jobs accepted
  MaxOthers  \* bound: jobs that the window's own Worker has at one time

ASSUME WorkerAssumption ==
  /\ Owner \notin Dialogs /\ NoContext \notin Dialogs \cup {Owner}
  /\ MaxJobs \in Nat /\ MaxOthers \in Nat

VARIABLES
  life,     \* of the owner: "up", "storeless", "joining", "joined" or "gone"
  alive,    \* the contexts that are not destroyed
  accepted, \* the context of every accepted job, in the order of the calls
  mailbox,  \* the jobs whose result is posted to the main thread, not delivered yet
  done,     \* the jobs whose onDone has run
  thread,   \* "up", "told" to quit, or "gone"
  queue,    \* the jobs posted to m_runner
  pass,     \* how many of them the current pass of the event loop still sends
  job,      \* the job at hand, or 0
  at,       \* where the thread is in it: "none", "job", "returned" or "posting"
  others,   \* the unfinished jobs of DemoWindow::m_worker
  pending,  \* g_pending
  lost,     \* history: how many jobs a quit() has dropped
  raced     \* history: contexts that a result was posted to after their end

owner == <<life, alive, accepted, mailbox, done>>
runner == <<thread, queue, pass, job, at>>
count == <<others, pending, lost>>
workerVars == <<owner, runner, count, raced>>

Contexts == Dialogs \cup {Owner}

WorkerInit ==
  /\ life = "up" /\ alive = Contexts /\ accepted = <<>> /\ mailbox = {} /\ done = {}
  /\ thread = "up" /\ queue = <<>> /\ pass = 0 /\ job = 0 /\ at = "none"
  /\ others = 0 /\ pending = 0 /\ lost = 0 /\ raced = {}

-----------------------------------------------------------------------------
(* The main thread. *)

Accept(c) ==
  /\ life = "up" /\ Len(accepted) < MaxJobs
  /\ accepted' = Append(accepted, c)
  /\ queue' = Append(queue, Len(accepted) + 1)
  /\ pending' = pending + 1
  /\ UNCHANGED <<life, alive, mailbox, done, thread, pass, job, at, others, lost, raced>>

call(c) == c \in alive /\ Accept(c)

post == Accept(NoContext)

\* The main loop runs the oldest onDone: one thread runs and posts the jobs, so the
\* results come in their order.
Deliver ==
  /\ life = "up"
  /\ \E j \in mailbox :
       /\ \A k \in mailbox : j <= k
       /\ mailbox' = mailbox \ {j} /\ done' = done \cup {j}
  /\ UNCHANGED <<life, alive, accepted, runner, count, raced>>

\* ~QObject() of a context: its guards read null and its events are gone.
Destroyed(c) ==
  /\ alive' = alive \ {c}
  /\ mailbox' = {j \in mailbox : accepted[j] # c}

CloseDialog(c) ==
  /\ life = "up" /\ c \in alive \ {Owner}
  /\ Destroyed(c)
  /\ UNCHANGED <<life, accepted, done, runner, count, raced>>

\* ~DemoWindow() destroys its members, m_mqStore among them.
DestroyStore ==
  /\ life = "up" /\ life' = "storeless"
  /\ UNCHANGED <<alive, accepted, mailbox, done, runner, count, raced>>

\* Mutant: the thread is told to quit and not waited for.
BadDestroyWorker ==
  /\ life = "storeless" /\ others = 0 /\ life' = "joined"
  /\ thread' = "told"
  /\ UNCHANGED <<alive, accepted, mailbox, done, queue, pass, job, at, count, raced>>

\* Mutant: quit() is forgotten.
BadWaitOnly ==
  /\ life = "storeless" /\ others = 0 /\ life' = "joining"
  /\ UNCHANGED <<alive, accepted, mailbox, done, runner, count, raced>>

\* ~Worker(): m_runner->deleteLater(), quit(), and into wait().
DestroyWorker ==
  /\ life = "storeless" /\ others = 0 /\ life' = "joining"
  /\ thread' = "told"
  /\ UNCHANGED <<alive, accepted, mailbox, done, queue, pass, job, at, count, raced>>

WaitReturns ==
  /\ life = "joining" /\ thread = "gone" /\ life' = "joined"
  /\ UNCHANGED <<alive, accepted, mailbox, done, runner, count, raced>>

\* The rest of the owner's destruction, down to ~QObject().
DestroyOwner ==
  /\ life = "joined" /\ life' = "gone"
  /\ Destroyed(Owner)
  /\ UNCHANGED <<accepted, done, runner, count, raced>>

-----------------------------------------------------------------------------
(* The worker thread. *)

BeginPass ==
  /\ thread # "gone" /\ at = "none" /\ pass = 0 /\ queue # <<>>
  /\ pass' = Len(queue)
  /\ UNCHANGED <<owner, thread, queue, job, at, count, raced>>

BeginJob ==
  /\ at = "none" /\ pass > 0
  /\ job' = Head(queue) /\ at' = "job"
  /\ queue' = Tail(queue) /\ pass' = pass - 1
  /\ UNCHANGED <<owner, thread, count, raced>>

JobReturns ==
  /\ at = "job" /\ at' = "returned"
  /\ pending' = pending - 1
  /\ UNCHANGED <<owner, thread, queue, pass, job, others, lost, raced>>

\* Mutant: as TestGuard, with the count of an undeliverable job left as it was.
BadTestGuard ==
  /\ at = "returned"
  /\ IF accepted[job] \in alive
     THEN at' = "posting" /\ UNCHANGED <<job, pending>>
     ELSE at' = "none" /\ job' = 0 /\ pending' = pending + 1
  /\ UNCHANGED <<owner, thread, queue, pass, others, lost, raced>>

\* guard.isNull() || !onDone
TestGuard ==
  /\ at = "returned"
  /\ IF accepted[job] \in alive
     THEN at' = "posting" /\ UNCHANGED job
     ELSE at' = "none" /\ job' = 0
  /\ UNCHANGED <<owner, thread, queue, pass, count, raced>>

\* The queued onDone.  To a context that ended after the test this is undefined;
\* here the result is lost, a crash being the end of the behaviour.
PostResult ==
  /\ at = "posting" /\ at' = "none" /\ job' = 0
  /\ IF accepted[job] \in alive
     THEN mailbox' = mailbox \cup {job} /\ UNCHANGED raced
     ELSE raced' = raced \cup {accepted[job]} /\ UNCHANGED mailbox
  /\ UNCHANGED <<life, alive, accepted, done, thread, queue, pass, count>>

\* Between two passes the loop sees quit(); m_runner goes, and its events.
ThreadEnds ==
  /\ thread = "told" /\ at = "none" /\ pass = 0
  /\ thread' = "gone" /\ queue' = <<>>
  /\ lost' = lost + Len(queue)
  /\ UNCHANGED <<owner, pass, job, at, others, pending, raced>>

-----------------------------------------------------------------------------
(* The window's own Worker. *)

OtherAccepts ==
  /\ life = "up" /\ others < MaxOthers
  /\ others' = others + 1 /\ pending' = pending + 1
  /\ UNCHANGED <<owner, runner, lost, raced>>

OtherFinishes ==
  /\ others > 0
  /\ others' = others - 1 /\ pending' = pending - 1
  /\ UNCHANGED <<owner, runner, lost, raced>>

\* It is destroyed after m_mqStore and before the child m_mqTab, and is joined then:
\* a job that has not begun is dropped, and is counted for good.
OtherEnds ==
  /\ life = "storeless" /\ others > 0
  /\ others' = 0 /\ lost' = lost + others
  /\ UNCHANGED <<owner, runner, pending, raced>>

-----------------------------------------------------------------------------
MainThread ==
  \/ \E c \in Contexts : call(c)
  \/ post \/ Deliver
  \/ \E c \in Dialogs : CloseDialog(c)
  \/ DestroyStore \/ DestroyWorker \/ WaitReturns \/ DestroyOwner

WorkerThread ==
  BeginPass \/ BeginJob \/ JobReturns \/ TestGuard \/ PostResult \/ ThreadEnds

OtherWorker == OtherAccepts \/ OtherFinishes \/ OtherEnds

WorkerNext == MainThread \/ WorkerThread \/ OtherWorker

\* The threads are scheduled and jobs end; nobody has to call or to close.
WorkerFairness ==
  /\ WF_workerVars(WorkerThread) /\ WF_workerVars(Deliver)
  /\ WF_workerVars(OtherFinishes)
  /\ WF_workerVars(DestroyWorker \/ WaitReturns \/ DestroyOwner)

WorkerSpec == WorkerInit /\ [][WorkerNext]_workerVars /\ WorkerFairness

-----------------------------------------------------------------------------
Unfinished == Len(queue) + (IF at = "job" THEN 1 ELSE 0)

\* "Counts jobs accepted but not yet finished": g_pending is the number of jobs,
\* queued or running, of all the Workers of the process, however contexts come and
\* go between the threads' steps, and of the jobs that a quit() has dropped, which it
\* never gives up.  So pending() of one Worker is neither that Worker's count nor
\* "jobs queued but not yet started", as worker.h:40 has it.
PendingIsOfProcess == pending = Unfinished + others + lost

\* The owner joins the thread before it ends, so the thread never posts to it later.
OwnerIsJoined ==
  /\ Owner \notin raced
  /\ life \in {"joined", "gone"} => thread = "gone"

\* "If context is destroyed first, onDone is never called": no result waits for a
\* destroyed context, and none is posted to an owner that has ended, although the
\* guard's test and the posting are two steps of another thread.  A dialog has no
\* such protection.
OwnerIsNeverRaced ==
  /\ OwnerIsJoined
  /\ \A j \in mailbox : accepted[j] \in alive

\* Every accepted call gets its onDone, unless its context or the Worker is
\* destroyed, and a destruction always gets through wait().
Answered(j) ==
  \/ j \in done \/ life # "up"
  \/ j \in DOMAIN accepted /\ accepted[j] \notin alive

EveryCallIsAnswered ==
  /\ \A j \in 1 .. MaxJobs : j \in DOMAIN accepted ~> Answered(j)
  /\ life = "storeless" ~> life = "gone"

\* A job has its store while it runs.
JobsFindStore == at = "job" => life = "up"

=============================================================================
