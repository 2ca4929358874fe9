-------------------------- MODULE ApplicationProofs --------------------------
(***************************************************************************)
(* What the parts of the application beside its drivers keep: the Worker   *)
(* of a widget, the guard against a second copy, and the updater.  They    *)
(* share no state; the names of each begin with the part they are about    *)
(* where two of them would have the same.                                  *)
(***************************************************************************)
EXTENDS Worker, SingleInstance, Update, TLAPS

(***************************************************************************)
(* The pending count, the join and the mailbox, for every set of dialogs   *)
(* and any number of jobs.                                                 *)
(*                                                                         *)
(* That the count is right rests on where the thread is when it ends: with *)
(* nothing at hand.  That the owner is not posted to rests on the same     *)
(* fact and on the owner's being alive until its last step.  That no       *)
(* result waits for a destroyed context needs besides that every job in    *)
(* any hand is an accepted one, whose context is settled.                  *)
(***************************************************************************)

WorkerTypeOK ==
  /\ life \in {"up", "storeless", "joining", "joined", "gone"}
  /\ thread \in {"up", "told", "gone"}
  /\ at \in {"none", "job", "returned", "posting"}
  /\ accepted \in Seq(Contexts \cup {NoContext})
  /\ queue \in Seq(Nat) /\ pass \in Nat /\ pass <= Len(queue)
  /\ pending \in Nat /\ others \in Nat /\ lost \in Nat

\* The thread ends between two passes, and only once it was told to; its queue
\* goes with it.
ThreadLife ==
  /\ thread = "gone" => at = "none" /\ pass = 0 /\ queue = <<>>
  /\ thread # "up" => life \in {"joining", "joined", "gone"}

OwnerLives == life # "gone" => Owner \in alive

WorkerIInv ==
  WorkerTypeOK /\ ThreadLife /\ OwnerLives /\ PendingIsOfProcess /\ OwnerIsJoined

\* A job that is queued, at hand or answered was accepted.
JobsAreAccepted ==
  /\ \A i \in DOMAIN queue : queue[i] \in DOMAIN accepted
  /\ at # "none" => job \in DOMAIN accepted
  /\ mailbox \subseteq DOMAIN accepted

MailboxInv ==
  JobsAreAccepted /\ \A j \in mailbox : accepted[j] \in alive

-----------------------------------------------------------------------------
\* A Worker that was just constructed satisfies the invariant.
LEMMA InitEstablishesWorkerIInv == WorkerInit => WorkerIInv
  BY DEF WorkerInit, WorkerIInv, WorkerTypeOK, ThreadLife, OwnerLives,
         PendingIsOfProcess, Unfinished,
         OwnerIsJoined, Contexts

\* Every step of either thread preserves it.
LEMMA StepPreservesWorkerIInv == WorkerIInv /\ [WorkerNext]_workerVars => WorkerIInv'
<1>. SUFFICES ASSUME WorkerIInv, [WorkerNext]_workerVars PROVE WorkerIInv'
  OBVIOUS
<1>. USE DEF WorkerIInv, WorkerTypeOK, ThreadLife, OwnerLives, PendingIsOfProcess, Unfinished,
             OwnerIsJoined, owner, runner, count
<1>1. ASSUME NEW c \in Contexts \cup {NoContext}, Accept(c) PROVE WorkerIInv'
  <2>1. /\ Len(accepted) + 1 \in Nat
        /\ accepted' \in Seq(Contexts \cup {NoContext})
    BY <1>1 DEF Accept
  <2>2. queue' \in Seq(Nat) /\ Len(queue') = Len(queue) + 1
    BY <1>1, <2>1 DEF Accept
  <2>. QED
    BY <1>1, <2>1, <2>2 DEF Accept
<1>2. CASE Deliver
  BY <1>2 DEF Deliver
<1>3. ASSUME NEW c \in Dialogs, CloseDialog(c) PROVE WorkerIInv'
  BY <1>3, WorkerAssumption DEF CloseDialog, Destroyed
<1>4. CASE DestroyStore
  BY <1>4 DEF DestroyStore
<1>5. CASE DestroyWorker
  BY <1>5 DEF DestroyWorker
<1>6. CASE WaitReturns
  BY <1>6 DEF WaitReturns
<1>7. CASE DestroyOwner
  BY <1>7 DEF DestroyOwner, Destroyed
<1>8. CASE BeginPass
  BY <1>8 DEF BeginPass
<1>9. CASE BeginJob
  <2>1. queue # <<>>
    BY <1>9 DEF BeginJob
  <2>2. queue' \in Seq(Nat) /\ Len(queue') = Len(queue) - 1
    BY <1>9, <2>1 DEF BeginJob
  <2>3. thread # "gone" /\ pass' \in Nat /\ pass' <= Len(queue')
    <3>1. thread # "gone" /\ pass' = pass - 1 /\ pass > 0
      BY <1>9 DEF BeginJob
    <3>2. Len(queue) \in Nat
      OBVIOUS
    <3>. QED
      BY <2>2, <3>1, <3>2
  <2>4. WorkerTypeOK' /\ ThreadLife'
    BY <1>9, <2>2, <2>3 DEF BeginJob
  <2>5. PendingIsOfProcess'
    BY <1>9, <2>2, <2>3 DEF BeginJob
  <2>. QED
    BY <1>9, <2>4, <2>5 DEF BeginJob
<1>10. CASE JobReturns
  BY <1>10 DEF JobReturns
<1>11. CASE TestGuard
  BY <1>11 DEF TestGuard
<1>12. CASE PostResult
  <2>1. Owner \in alive
    BY <1>12 DEF PostResult
  <2>2. Owner \notin raced'
    BY <1>12, <2>1 DEF PostResult
  <2>. QED
    BY <1>12, <2>2 DEF PostResult
<1>13. CASE ThreadEnds
  BY <1>13 DEF ThreadEnds
<1>14. CASE OtherWorker
  <2>1. UNCHANGED <<owner, runner, raced>>
    BY <1>14 DEF OtherWorker, OtherAccepts, OtherFinishes, OtherEnds
  <2>2. PICK n \in Nat : n = Unfinished /\ n = Unfinished'
    BY <2>1
  <2>3. /\ pending = n + others + lost
        /\ pending \in Nat /\ others \in Nat /\ lost \in Nat
    BY <2>2
  <2>4. /\ pending' = n + others' + lost'
        /\ pending' \in Nat /\ others' \in Nat /\ lost' \in Nat
    <3>1. CASE OtherAccepts
      BY <2>3, <3>1 DEF OtherAccepts
    <3>2. CASE OtherFinishes
      BY <2>3, <3>2 DEF OtherFinishes
    <3>3. CASE OtherEnds
      BY <2>3, <3>3 DEF OtherEnds
    <3>. QED
      BY <1>14, <3>1, <3>2, <3>3 DEF OtherWorker
  <2>5. PendingIsOfProcess'
    BY <2>2, <2>4
  <2>. QED
    BY <2>1, <2>4, <2>5
<1>15. CASE UNCHANGED workerVars
  BY <1>15 DEF workerVars
<1>. QED
  BY <1>1, <1>2, <1>3, <1>4, <1>5, <1>6, <1>7, <1>8, <1>9, <1>10, <1>11, <1>12, <1>13,
     <1>14, <1>15 DEF WorkerNext, MainThread, WorkerThread, call, post

\* A result that waits in the mailbox waits for a context that lives: the test of the
\* guard is repeated when the event is posted, and the end of a context takes its
\* events along.
LEMMA StepPreservesMailboxInv == WorkerIInv /\ MailboxInv /\ [WorkerNext]_workerVars => MailboxInv'
<1>. SUFFICES ASSUME WorkerIInv, MailboxInv, [WorkerNext]_workerVars PROVE MailboxInv'
  OBVIOUS
<1>0. queue \in Seq(Nat) /\ accepted \in Seq(Contexts \cup {NoContext})
  BY DEF WorkerIInv, WorkerTypeOK
<1>. USE DEF MailboxInv, JobsAreAccepted, owner, runner
<1>1. ASSUME NEW c \in Contexts \cup {NoContext}, Accept(c) PROVE MailboxInv'
  <2>a. PICK n \in Nat : n = Len(accepted) /\ DOMAIN accepted = 1 .. n
    BY <1>0
  <2>1. /\ DOMAIN accepted' = 1 .. n + 1
        /\ \A j \in 1 .. n : accepted'[j] = accepted[j]
    BY <1>0, <1>1, <2>a DEF Accept
  <2>2. DOMAIN accepted \subseteq DOMAIN accepted' /\ n + 1 \in DOMAIN accepted'
    BY <2>a, <2>1
  <2>3. ASSUME NEW i \in DOMAIN queue' PROVE queue'[i] \in DOMAIN accepted'
    <3>1. n + 1 \in Nat /\ queue' = Append(queue, n + 1)
      BY <1>1, <2>a DEF Accept
    <3>2. \/ i \in DOMAIN queue /\ queue'[i] = queue[i]
          \/ queue'[i] = n + 1
      BY <1>0, <2>3, <3>1
    <3>. QED
      BY <2>2, <3>2
  <2>4. UNCHANGED <<mailbox, alive, at, job>>
    BY <1>1 DEF Accept
  <2>. QED
    BY <2>a, <2>1, <2>2, <2>3, <2>4
<1>2. CASE Deliver
  BY <1>2 DEF Deliver
<1>3. ASSUME NEW c, CloseDialog(c) PROVE MailboxInv'
  BY <1>3 DEF CloseDialog, Destroyed
<1>4. CASE DestroyStore \/ DestroyWorker \/ WaitReturns
  BY <1>4 DEF DestroyStore, DestroyWorker, WaitReturns
<1>5. CASE DestroyOwner
  BY <1>5 DEF DestroyOwner, Destroyed
<1>6. CASE BeginPass
  BY <1>6 DEF BeginPass
<1>7. CASE BeginJob
  <2>1. queue # <<>>
    BY <1>7 DEF BeginJob, WorkerIInv, WorkerTypeOK
  <2>2. job' \in DOMAIN accepted
    BY <1>0, <1>7, <2>1 DEF BeginJob
  <2>3. \A i \in DOMAIN queue' : queue'[i] \in DOMAIN accepted
    <3>1. \A i \in DOMAIN queue' : i + 1 \in DOMAIN queue /\ queue'[i] = queue[i + 1]
      BY <1>0, <1>7, <2>1 DEF BeginJob
    <3>. QED
      BY <3>1
  <2>4. UNCHANGED <<mailbox, alive, accepted>>
    BY <1>7 DEF BeginJob
  <2>. QED
    BY <2>2, <2>3, <2>4
<1>8. CASE JobReturns
  BY <1>8 DEF JobReturns
<1>9. CASE TestGuard
  BY <1>9 DEF TestGuard
<1>10. CASE PostResult
  BY <1>10 DEF PostResult
<1>11. CASE ThreadEnds
  BY <1>11 DEF ThreadEnds
<1>12. CASE OtherWorker
  BY <1>12 DEF OtherWorker, OtherAccepts, OtherFinishes, OtherEnds
<1>13. CASE UNCHANGED workerVars
  BY <1>13 DEF workerVars
<1>. QED
  BY <1>1, <1>2, <1>3, <1>4, <1>5, <1>6, <1>7, <1>8, <1>9, <1>10, <1>11, <1>12, <1>13
     DEF WorkerNext, MainThread, WorkerThread, call, post

-----------------------------------------------------------------------------
\* The strengthened invariant holds in every reachable state.
THEOREM WorkerInvariance == WorkerSpec => []WorkerIInv
  BY InitEstablishesWorkerIInv, StepPreservesWorkerIInv, PTL DEF WorkerSpec

\* g_pending is the number of jobs queued or running in all Workers of the process,
\* and of those a quit() has dropped, whichever contexts are destroyed between the
\* steps of the threads.
THEOREM PendingIsExact == WorkerSpec => []PendingIsOfProcess
  BY WorkerInvariance, PTL DEF WorkerIInv

\* ~Worker() joins the thread before its owner ends, so the guard that was tested on
\* the worker thread still stands when the result is posted to the owner.
THEOREM OwnerOutlivesThread == WorkerSpec => []OwnerIsJoined
  BY WorkerInvariance, PTL DEF WorkerIInv

\* "If context is destroyed first, onDone is never called": whichever dialogs are
\* closed between the steps of the two threads, no result waits for a destroyed
\* context, and none is posted to an owner that has ended.
THEOREM DestroyedContextIsNotCalled == WorkerSpec => []OwnerIsNeverRaced
<1>1. WorkerInit => MailboxInv
  BY DEF WorkerInit, MailboxInv, JobsAreAccepted
<1>2. WorkerIInv /\ MailboxInv => OwnerIsNeverRaced
  BY DEF WorkerIInv, MailboxInv, OwnerIsNeverRaced
<1>. QED
  BY <1>1, <1>2, StepPreservesMailboxInv, WorkerInvariance, PTL DEF WorkerSpec

-----------------------------------------------------------------------------
(***************************************************************************)
(* One primary at a time, for any number of processes and crashes, when    *)
(* copies are started one after the other.                                 *)
(*                                                                         *)
(* PrimaryOwnsPipe is not inductive: listen() and removeServer() act on    *)
(* what the probe saw two system calls earlier.  What keeps that true is   *)
(* that only a constructor makes a primary and only one constructor runs.  *)
(***************************************************************************)

InstanceTypeOK ==
  /\ pc \in [Procs -> Starting \cup Primary \cup {"off", "secondary"}]
  /\ path \in Procs \cup {NoOne}

\* Two constructors never run side by side.
OneStarts ==
  \A p, q \in Procs : pc[p] \in Starting /\ pc[q] \in Starting => p = q

\* A constructor past its probe found nobody, and nobody has come since.
ProbeStands ==
  (\E p \in Procs : pc[p] \in Starting \ {"probe"}) =>
    \A q \in Procs : pc[q] \notin Primary

InstanceIInv == InstanceTypeOK /\ OneStarts /\ ProbeStands /\ PrimaryOwnsPipe

-----------------------------------------------------------------------------
\* Every launch, system call, exit, crash and hand-over keeps the types.
LEMMA StepPreservesInstanceTypeOK ==
  InstanceTypeOK /\ [InstanceNext]_instanceVars => InstanceTypeOK'
<1>. SUFFICES ASSUME InstanceTypeOK, [InstanceNext]_instanceVars PROVE InstanceTypeOK'
  OBVIOUS
<1>. USE DEF InstanceTypeOK, Starting, Primary, Goto
<1>1. ASSUME NEW p \in Procs, Launch(p) PROVE InstanceTypeOK'
  BY <1>1 DEF Launch
<1>2. ASSUME NEW p \in Procs, Construct(p) PROVE InstanceTypeOK'
  BY <1>2 DEF Construct, Probe, Listen, RemoveServer, ListenAgain, Bind
<1>3. ASSUME NEW p \in Procs, NEW b \in BOOLEAN, SignalPrimary(p, b)
      PROVE  InstanceTypeOK'
  BY <1>3 DEF SignalPrimary
<1>4. ASSUME NEW p \in Procs, Finish(p) PROVE InstanceTypeOK'
  BY <1>4 DEF Finish
<1>5. ASSUME NEW p \in Procs, Die(p) PROVE InstanceTypeOK'
  BY <1>5 DEF Die
<1>6. ASSUME NEW p \in Procs, NEW q \in Procs, HandOver(p, q) PROVE InstanceTypeOK'
  BY <1>6 DEF HandOver
<1>7. CASE UNCHANGED instanceVars
  BY <1>7 DEF instanceVars
<1>. QED
  BY <1>1, <1>2, <1>3, <1>4, <1>5, <1>6, <1>7 DEF InstanceNext, StartOnly, Proceed

\* When copies are started one at a time, every step preserves the invariant.
LEMMA StepPreservesInstanceIInv ==
  ASSUME Serialised, InstanceIInv, [InstanceNext]_instanceVars
  PROVE  InstanceIInv'
<1>. USE DEF InstanceIInv, InstanceTypeOK, OneStarts, ProbeStands, PrimaryOwnsPipe,
       Starting, Primary, Goto
<1>0. InstanceTypeOK'
  BY StepPreservesInstanceTypeOK
<1>1. ASSUME NEW p \in Procs, Launch(p) PROVE InstanceIInv'
  BY <1>0, <1>1 DEF Launch
<1>2. ASSUME NEW p \in Procs, Probe(p) PROVE InstanceIInv'
  <2>1. CASE Listening
    BY <1>0, <1>2, <2>1 DEF Probe
  <2>2. CASE ~Listening
    <3>1. \A q \in Procs : pc[q] \notin Primary
      BY <2>2, SingleInstanceAssumption DEF Listening
    <3>. QED
      BY <1>0, <1>2, <2>2, <3>1 DEF Probe
  <2>. QED
    BY <2>1, <2>2
<1>3. ASSUME NEW p \in Procs, Listen(p) PROVE InstanceIInv'
  BY <1>0, <1>3 DEF Listen, Bind
<1>4. ASSUME NEW p \in Procs, RemoveServer(p) PROVE InstanceIInv'
  BY <1>0, <1>4 DEF RemoveServer
<1>5. ASSUME NEW p \in Procs, ListenAgain(p) PROVE InstanceIInv'
  BY <1>0, <1>5 DEF ListenAgain, Bind
<1>6. ASSUME NEW p \in Procs, NEW b \in BOOLEAN, SignalPrimary(p, b)
      PROVE  InstanceIInv'
  BY <1>0, <1>6 DEF SignalPrimary
<1>7. ASSUME NEW p \in Procs, Finish(p) PROVE InstanceIInv'
  BY <1>0, <1>7 DEF Finish
<1>8. ASSUME NEW p \in Procs, Die(p) PROVE InstanceIInv'
  BY <1>0, <1>8 DEF Die
<1>9. ASSUME NEW p \in Procs, NEW q \in Procs, HandOver(p, q) PROVE InstanceIInv'
  BY <1>0, <1>9 DEF HandOver
<1>10. CASE UNCHANGED instanceVars
  BY <1>10 DEF instanceVars
<1>. QED
  BY <1>1, <1>2, <1>3, <1>4, <1>5, <1>6, <1>7, <1>8, <1>9, <1>10
     DEF InstanceNext, StartOnly, Proceed, Construct

-----------------------------------------------------------------------------
\* A process that becomes primary owns the pipe until it ends: of copies
\* started one after the other at most one is primary, over any crashes.
THEOREM OnePrimary == Serialised => (InstanceSpec => []PrimaryOwnsPipe)
<1>. SUFFICES ASSUME Serialised PROVE InstanceSpec => []PrimaryOwnsPipe
  OBVIOUS
<1>1. InstanceInit => InstanceIInv
  BY DEF InstanceInit, InstanceIInv, InstanceTypeOK, OneStarts, ProbeStands, PrimaryOwnsPipe,
         Starting, Primary
<1>2. InstanceIInv /\ [InstanceNext]_instanceVars => InstanceIInv'
  BY StepPreservesInstanceIInv
<1>3. InstanceIInv => PrimaryOwnsPipe
  BY DEF InstanceIInv
<1>. QED
  BY <1>1, <1>2, <1>3, PTL DEF InstanceSpec

-----------------------------------------------------------------------------
(***************************************************************************)
(* The executable stays whole and moves forward, for every list of         *)
(* releases and every number of questions and faults.                      *)
(*                                                                         *)
(* The properties alone are not inductive: Rename takes its word from the  *)
(* staged file, CopyEnds from the downloaded one, and that one from the    *)
(* verdict, which is worth something only while nothing is downloaded.     *)
(* What was newer than the running release when it was offered is still    *)
(* newer when it is renamed, because the process that was offered it is    *)
(* the one that installs it.                                               *)
(***************************************************************************)

Numbers == 0 .. Len(Releases)

\* A whole file is of some release.
FileSet == {f \in [release : Numbers, whole : BOOLEAN] : f.whole => f.release # 0}

Steps == {"none", "remove", "copy", "copying", "chmod", "rename", "launch"}

UpdateTypeOK ==
  /\ published \in DOMAIN Releases /\ running \in Numbers
  /\ loading \in Numbers /\ orphan \in Numbers /\ faults \in Nat
  /\ verified \in BOOLEAN /\ meddled \in BOOLEAN /\ step \in Steps
  /\ temp \in FileSet /\ staged \in FileSet /\ exe \in FileSet

\* An installation under way works on a verdict, and a verdict on a file that no
\* download of this process is writing.
VerdictStands ==
  /\ step # "none" => verified
  /\ verified => loading = 0
  /\ verified => temp.whole \/ meddled

\* What is about to be renamed has been copied in full.
StagedIsWhole == step \in {"chmod", "rename"} => staged.whole \/ meddled

\* Release r is an update of release q.
Newer(r, q) == isNewerVersion(Releases[r], Releases[q])

\* What is downloaded, verified or staged is newer than what is running; without a
\* process there is nothing of it.
OnlyNewer ==
  /\ loading # 0 => Newer(loading, running)
  /\ verified => Newer(temp.release, running) \/ meddled
  /\ step \in {"copying", "chmod", "rename"} => Newer(staged.release, running) \/ meddled
  /\ running = 0 => loading = 0 /\ ~verified /\ step = "none"

UpdateIInv ==
  /\ UpdateTypeOK /\ VerdictStands /\ StagedIsWhole /\ ExecutableIsWhole
  /\ OnlyNewer

-----------------------------------------------------------------------------
\* Releases are numbered from 1; 0 is none.
LEMMA NumberFacts ==
  /\ 0 \in Numbers /\ DOMAIN Releases \subseteq Numbers /\ 1 \in DOMAIN Releases
  /\ \A r \in Numbers : r # 0 => r \in DOMAIN Releases
  /\ \A r \in DOMAIN Releases : r # 0
<1>1. PICK n \in Nat : n = Len(Releases) /\ n > 0 /\ DOMAIN Releases = 1 .. n
  BY UpdateAssumption
<1>. QED
  BY <1>1 DEF Numbers

\* What File() makes is a file, and a whole one when it says so.
LEMMA FileIsFile ==
  ASSUME NEW r \in Numbers
  PROVE  /\ r # 0 => File(r, TRUE) \in FileSet /\ File(r, TRUE).whole
         /\ File(r, FALSE) \in FileSet
         /\ \A w : File(r, w).release = r
  BY DEF File, FileSet

\* So is the absence of one.
LEMMA NoFileIsFile == NoFile \in FileSet
  BY NumberFacts, FileIsFile DEF NoFile

\* A newly installed application satisfies the invariant.
LEMMA InitEstablishesUpdateIInv == Init => UpdateIInv
<1>. SUFFICES ASSUME Init PROVE UpdateIInv
  OBVIOUS
<1>1. exe \in FileSet /\ exe.whole /\ running = 1 /\ running \in Numbers
  BY NumberFacts, FileIsFile DEF Init
<1>2. UpdateTypeOK
  BY <1>1, NumberFacts, NoFileIsFile DEF Init, UpdateTypeOK, Steps
<1>3. VerdictStands /\ StagedIsWhole /\ OnlyNewer
  BY DEF Init, VerdictStands, StagedIsWhole, OnlyNewer
<1>. QED
  BY <1>1, <1>2, <1>3 DEF UpdateIInv, ExecutableIsWhole

\* Every step keeps the types: a file is still of some release.
LEMMA StepPreservesUpdateTypes == UpdateTypeOK /\ [Next]_vars => UpdateTypeOK'
<1>. SUFFICES ASSUME UpdateTypeOK, [Next]_vars PROVE UpdateTypeOK'
  OBVIOUS
<1>0. /\ temp.release \in Numbers /\ staged.release \in Numbers
      /\ (exe.whole => exe.release \in Numbers) /\ exe.release \in Numbers
  BY DEF UpdateTypeOK, FileSet
<1>a. Blame => faults' \in Nat
  BY DEF UpdateTypeOK, Blame
<1>. USE DEF UpdateTypeOK, Steps, process, files, env
<1>1. CASE checkNow \/ FetchFails \/ FetchDone
  <2>1. loading' \in Numbers /\ verified' \in BOOLEAN
    BY <1>1, NumberFacts DEF checkNow, FetchFails, FetchDone, Download
  <2>. QED
    BY <1>1, <1>a, <2>1 DEF checkNow, FetchFails, FetchDone
<1>2. CASE CurlWrites
  BY <1>2, FileIsFile DEF CurlWrites
<1>3. CASE DownloadSucceeds \/ DownloadFails
  <2>1. temp' \in FileSet /\ verified' \in BOOLEAN /\ loading' \in Numbers
    BY <1>3, NumberFacts, FileIsFile, NoFileIsFile
       DEF DownloadSucceeds, DownloadFails, DownloadDone
  <2>. QED
    BY <1>3, <1>a, <2>1 DEF DownloadSucceeds, DownloadFails, DownloadDone
<1>4. CASE ClickLater \/ ClickInstall
  BY <1>4 DEF ClickLater, ClickInstall
<1>5. CASE InstallStep
  <2>. USE DEF Call
  <2>1. CASE RemoveStale
    BY <2>1, NoFileIsFile DEF RemoveStale
  <2>2. CASE CopyBegins
    BY <1>0, <2>2, FileIsFile DEF CopyBegins
  <2>3. CASE CopyEnds \/ SetPermissions \/ Rename
    BY <2>3, NoFileIsFile DEF CopyEnds, SetPermissions, Rename
  <2>4. CASE Relaunch
    BY <1>0, <2>4, NumberFacts DEF Relaunch, Replaced
  <2>5. CASE RelaunchFails
    BY <1>a, <2>5 DEF RelaunchFails
  <2>. QED
    BY <1>5, <2>1, <2>2, <2>3, <2>4, <2>5 DEF InstallStep
<1>6. CASE RemoveFails \/ StepFails
  BY <1>6, <1>a, NoFileIsFile DEF RemoveFails, StepFails, Call
<1>7. CASE Publish \/ Withdraw
  <2>1. published' \in DOMAIN Releases
    <3>1. PICK n \in Nat : n = Len(Releases) /\ DOMAIN Releases = 1 .. n
      BY UpdateAssumption
    <3>. QED
      BY <1>7, <3>1 DEF Publish, Withdraw
  <2>. QED
    BY <1>7, <1>a, <2>1 DEF Publish, Withdraw
<1>8. CASE Start
  BY <1>0, <1>8 DEF Start
<1>9. CASE Exit \/ Crash
  <2>1. orphan' \in Numbers /\ faults' \in Nat
    BY <1>9, <1>a DEF Exit, Crash
  <2>. QED
    BY <1>9, <2>1, NumberFacts DEF Exit, Crash, Replaced
<1>10. CASE OrphanWrites \/ OrphanEnds
  <2>1. temp' \in FileSet /\ meddled' \in BOOLEAN /\ orphan' \in Numbers
    BY <1>10, NumberFacts, FileIsFile DEF OrphanWrites, OrphanEnds
  <2>. QED
    BY <1>10, <2>1 DEF OrphanWrites, OrphanEnds
<1>11. CASE UNCHANGED vars
  BY <1>11 DEF vars
<1>. QED
  BY <1>1, <1>2, <1>3, <1>4, <1>5, <1>6, <1>7, <1>8, <1>9, <1>10, <1>11 DEF Next

\* Every check, download, answer, system call, crash and orphaned write keeps the
\* verdict true and what is staged newer.
LEMMA StepPreservesUpdateIInv == UpdateIInv /\ [Next]_vars => UpdateIInv'
<1>. SUFFICES ASSUME UpdateIInv, [Next]_vars PROVE UpdateIInv'
  OBVIOUS
<1>0. /\ UpdateTypeOK' /\ meddled \in BOOLEAN /\ verified \in BOOLEAN
      /\ loading \in Numbers /\ orphan \in Numbers /\ temp.release \in Numbers
  BY StepPreservesUpdateTypes DEF UpdateIInv, UpdateTypeOK, FileSet
<1>. USE DEF UpdateIInv, VerdictStands, StagedIsWhole, ExecutableIsWhole, OnlyNewer,
             process, files, env
<1>1. CASE checkNow \/ FetchFails
  BY <1>0, <1>1 DEF checkNow, FetchFails, Blame
<1>2. CASE FetchDone
  BY <1>0, <1>2 DEF FetchDone, Download, Offers, Newer, Idle
<1>3. CASE CurlWrites
  BY <1>0, <1>3, FileIsFile DEF CurlWrites
<1>4. CASE DownloadSucceeds
  BY <1>0, <1>4, FileIsFile DEF DownloadSucceeds, DownloadDone, Idle
<1>5. CASE DownloadFails
  BY <1>0, <1>5 DEF DownloadFails, DownloadDone, Idle
<1>6. CASE ClickLater
  BY <1>0, <1>6 DEF ClickLater, Idle
<1>7. CASE ClickInstall
  BY <1>0, <1>7 DEF ClickInstall, Idle
<1>8. CASE InstallStep
  <2>. USE DEF Call
  <2>1. CASE RemoveStale
    BY <1>0, <2>1 DEF RemoveStale
  <2>2. CASE CopyBegins
    BY <1>0, <2>2, FileIsFile DEF CopyBegins
  <2>3. CASE CopyEnds
    BY <1>0, <2>3 DEF CopyEnds
  <2>4. CASE SetPermissions
    BY <1>0, <2>4 DEF SetPermissions
  <2>5. CASE Rename
    BY <1>0, <2>5 DEF Rename
  <2>6. CASE Relaunch
    BY <1>0, <2>6 DEF Relaunch, Replaced
  <2>7. CASE RelaunchFails
    BY <1>0, <2>7 DEF RelaunchFails
  <2>. QED
    BY <1>8, <2>1, <2>2, <2>3, <2>4, <2>5, <2>6, <2>7 DEF InstallStep
<1>9. CASE RemoveFails \/ StepFails
  BY <1>0, <1>9 DEF RemoveFails, StepFails, Call
<1>10. CASE Publish \/ Withdraw
  BY <1>0, <1>10 DEF Publish, Withdraw
<1>11. CASE Start
  BY <1>0, <1>11 DEF Start
<1>12. CASE Exit \/ Crash
  <2>1. /\ verified' = FALSE /\ step' = "none" /\ loading' = 0
        /\ UNCHANGED <<temp, staged, exe, meddled>>
    BY <1>12 DEF Exit, Crash, Replaced
  <2>. QED
    BY <1>0, <2>1
<1>13. CASE OrphanWrites
  <2>1. (verified => meddled') /\ (meddled => meddled')
    BY <1>0, <1>13 DEF OrphanWrites
  <2>2. UNCHANGED <<process, staged, exe>>
    BY <1>13 DEF OrphanWrites
  <2>. QED
    BY <1>0, <2>1, <2>2
<1>14. CASE OrphanEnds
  BY <1>0, <1>14 DEF OrphanEnds
<1>15. CASE UNCHANGED vars
  BY <1>0, <1>15 DEF vars
<1>. QED
  BY <1>1, <1>2, <1>3, <1>4, <1>5, <1>6, <1>7, <1>8, <1>9, <1>10, <1>11, <1>12, <1>13,
     <1>14, <1>15 DEF Next

-----------------------------------------------------------------------------
(* The order of versions. *)

\* The component that decides for one version decides against the other.
LEMMA NewerIsAsymmetric ==
  ASSUME NEW v \in Seq(Nat), NEW w \in Seq(Nat), isNewerVersion(v, w)
  PROVE  ~isNewerVersion(w, v)
<1>1. \A i \in Nat \ {0} : Part(v, i) \in Nat /\ Part(w, i) \in Nat
  BY DEF Part
<1>2. ComponentCount(v, w) \in Nat /\ ComponentCount(w, v) \in Nat
  BY DEF ComponentCount
<1>3. PICK i \in Nat : /\ i >= 1 /\ Part(v, i) > Part(w, i)
                       /\ \A j \in 1 .. i - 1 : Part(v, j) = Part(w, j)
  BY <1>2 DEF isNewerVersion
<1>4. SUFFICES ASSUME isNewerVersion(w, v) PROVE FALSE
  OBVIOUS
<1>5. PICK k \in Nat : /\ k >= 1 /\ Part(w, k) > Part(v, k)
                       /\ \A j \in 1 .. k - 1 : Part(w, j) = Part(v, j)
  BY <1>2, <1>4 DEF isNewerVersion
<1>6. CASE i < k
  BY <1>1, <1>3, <1>5, <1>6
<1>7. CASE k < i
  BY <1>1, <1>3, <1>5, <1>7
<1>8. CASE i = k
  BY <1>1, <1>3, <1>5, <1>8
<1>. QED
  BY <1>3, <1>5, <1>6, <1>7, <1>8

\* Versions grow from each release to the later ones.
VersionsAscend ==
  \A i, j \in DOMAIN Releases : i < j => Newer(j, i)

\* Then the newer of two versions is the later of two releases.
LEMMA NewerIsLater ==
  ASSUME VersionsAscend, NEW r \in DOMAIN Releases, NEW q \in DOMAIN Releases, Newer(r, q)
  PROVE  r > q
<1>1. Releases[r] \in Seq(Nat) /\ Releases[q] \in Seq(Nat) /\ r \in Nat /\ q \in Nat
  BY UpdateAssumption
<1>2. ~Newer(q, r)
  BY <1>1, NewerIsAsymmetric DEF Newer
<1>. QED
  BY <1>1, <1>2 DEF VersionsAscend

-----------------------------------------------------------------------------
\* The strengthened invariant holds in every reachable state.
THEOREM UpdateInvariance == Spec => []UpdateIInv
  BY InitEstablishesUpdateIInv, StepPreservesUpdateIInv, PTL DEF Spec

\* Whatever is published and withdrawn, whichever call of startSelfInstall() fails
\* or is cut short by a crash, the path of the executable names a whole release
\* unless an orphaned download wrote to a verified file.
THEOREM ExecutableStaysWhole == Spec => []ExecutableIsWhole
  BY UpdateInvariance, PTL DEF UpdateIInv

\* Only the rename of an installation replaces the executable, by a release whose
\* version isNewerVersion() put before the running one.
LEMMA ReplacedByNewer ==
  ASSUME UpdateIInv, [Next]_vars, exe' # exe, ~meddled
  PROVE  /\ Newer(exe'.release, running)
         /\ exe'.release \in DOMAIN Releases /\ running \in DOMAIN Releases
<1>1. Rename
  BY DEF Next, InstallStep, vars, process, files, env, checkNow, FetchDone, FetchFails,
         CurlWrites, DownloadSucceeds, DownloadFails, DownloadDone, ClickLater,
         ClickInstall, RemoveStale, CopyBegins, CopyEnds, SetPermissions, Relaunch,
         RelaunchFails, RemoveFails, StepFails, Publish, Withdraw, Start, Exit, Crash, OrphanWrites,
         OrphanEnds
<1>2. exe' = staged /\ step = "rename"
  BY <1>1 DEF Rename, Call
<1>3. Newer(staged.release, running) /\ staged.whole /\ running # 0
  BY <1>2 DEF UpdateIInv, OnlyNewer, StagedIsWhole
<1>4. /\ staged.release \in Numbers /\ staged.release # 0 /\ running \in Numbers
  BY <1>3 DEF UpdateIInv, UpdateTypeOK, FileSet
<1>. QED
  BY <1>2, <1>3, <1>4, NumberFacts

\* An update never installs an older release, whichever question was answered and
\* whatever was published, withdrawn or downloaded meanwhile, as long as versions
\* grow with the releases and no orphaned download wrote to a verified file.
THEOREM NeverDowngrades == VersionsAscend => (Spec => ExecutableMovesForward)
<1>1. ASSUME VersionsAscend, UpdateIInv, [Next]_vars
      PROVE  [exe' # exe => exe'.release > running \/ meddled]_vars
  BY <1>1, ReplacedByNewer, NewerIsLater
<1>. SUFFICES ASSUME VersionsAscend PROVE Spec => ExecutableMovesForward
  OBVIOUS
<1>2. UpdateIInv /\ [Next]_vars => [exe' # exe => exe'.release > running \/ meddled]_vars
  BY <1>1
<1>. QED
  BY <1>2, UpdateInvariance, PTL DEF Spec, ExecutableMovesForward

=============================================================================
