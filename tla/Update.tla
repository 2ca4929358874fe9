-------------------------------- MODULE Update --------------------------------
(***************************************************************************)
(* The self-update on Linux: UpdateChecker, UpdateInstaller and CurlClient *)
(* (infra/update), Platform::startSelfInstall() (platform_unix.cpp), and   *)
(* the question the demo window asks, with a process that crashes and is   *)
(* started again.  Files outlive the process, and so does a curl that a    *)
(* crash has orphaned: both downloads then write to the one fixed path.    *)
(*                                                                         *)
(* A file is the release it belongs to and whether it is whole; a SHA-256  *)
(* matches when both agree.  A check is six hours after the last, and curl *)
(* gives up after 30 and 600 seconds, so a process never runs two.  The    *)
(* question is a nested event loop: checks go on while it is open, and a   *)
(* new question opens on top of it.                                        *)
(***************************************************************************)
EXTENDS Naturals, Sequences

CONSTANTS
  Releases,      \* their versions, in the order in which they are published
  Unusable,      \* prereleases, and those without tag, asset or digest
  MaxQuestions,  \* bound: questions left open on top of each other
  MaxFaults      \* bound: crashes, failed calls and bad transfers

ASSUME UpdateAssumption ==
  /\ Releases \in Seq(Seq(Nat)) /\ Len(Releases) > 0
  /\ Unusable \subseteq DOMAIN Releases /\ 1 \notin Unusable
  /\ MaxQuestions \in Nat \ {0} /\ MaxFaults \in Nat

VARIABLES
  published,  \* the release that releases/latest names
  running,    \* the release this process was built from, 0 when none runs
  fetching,   \* a curl asks for releases/latest
  loading,    \* the release a curl downloads, or 0
  verified,   \* m_verified; m_installerPath is set and cleared with it
  questions,  \* the versions the open questions name, the newest last
  step,       \* where startSelfInstall() is, or "none"
  temp,       \* the file at the installer path
  staged,     \* the file at <executable>.new
  exe,        \* the file at the executable's path
  orphan,     \* the release an orphaned curl still downloads, or 0
  meddled,    \* history: an orphan has written to a file already verified
  faults

process == <<running, fetching, loading, verified, questions, step>>
files   == <<temp, staged, exe>>
env     == <<published, orphan, meddled, faults>>
vars    == <<process, files, env>>

File(r, w) == [release |-> r, whole |-> w]
NoFile     == File(0, FALSE)

Init ==
  /\ published = 1 /\ running = 1
  /\ fetching = FALSE /\ loading = 0 /\ verified = FALSE /\ questions = <<>>
  /\ step = "none"
  /\ temp = NoFile /\ staged = NoFile /\ exe = File(1, TRUE)
  /\ orphan = 0 /\ meddled = FALSE /\ faults = 0

Blame == faults < MaxFaults /\ faults' = faults + 1

\* The main thread is in its event loop.
Idle == running # 0 /\ step = "none"

-----------------------------------------------------------------------------
(* UpdateChecker. *)

\* A component, 0 when the version is shorter.
Part(v, i) == IF i <= Len(v) THEN v[i] ELSE 0

ComponentCount(v, w) == IF Len(v) > Len(w) THEN Len(v) ELSE Len(w)

\* Mutant: some larger component is enough.
BadIsNewerVersion(remote, local) ==
  \E i \in 1 .. ComponentCount(remote, local) : Part(remote, i) > Part(local, i)

\* The first component that differs decides.
isNewerVersion(remote, local) ==
  \E i \in 1 .. ComponentCount(remote, local) :
    /\ Part(remote, i) > Part(local, i)
    /\ \A j \in 1 .. i - 1 : Part(remote, j) = Part(local, j)

\* Mutant: no check while a verified download waits to be installed.
BadCheckNow ==
  /\ Idle /\ ~fetching /\ loading = 0 /\ ~verified
  /\ Len(questions) < MaxQuestions
  /\ fetching' = TRUE
  /\ UNCHANGED <<running, loading, verified, questions, step, files, env>>

checkNow ==
  /\ Idle /\ ~fetching /\ loading = 0
  /\ Len(questions) < MaxQuestions
  /\ fetching' = TRUE
  /\ UNCHANGED <<running, loading, verified, questions, step, files, env>>

Offers(r) == r \notin Unusable /\ isNewerVersion(Releases[r], Releases[running])

\* Mutant: a new download leaves the verdict on the last one standing.
BadDownload(r) == loading' = r /\ UNCHANGED verified

\* UpdateInstaller::download(), called by updateAvailable().
Download(r) == loading' = r /\ verified' = FALSE

\* The answer to a check: an update, or nothing to do.
FetchDone ==
  /\ Idle /\ fetching
  /\ fetching' = FALSE
  /\ IF Offers(published) THEN Download(published) ELSE UNCHANGED <<loading, verified>>
  /\ UNCHANGED <<running, questions, step, files, env>>

FetchFails ==
  /\ Idle /\ fetching
  /\ Blame /\ fetching' = FALSE
  /\ UNCHANGED <<running, loading, verified, questions, step, files, published,
                 orphan, meddled>>

-----------------------------------------------------------------------------
(* UpdateInstaller::download(), from the start of curl to its callback. *)

\* curl empties the file and writes the first bytes (external).
CurlWrites ==
  /\ loading # 0 /\ temp # File(loading, FALSE)
  /\ temp' = File(loading, FALSE)
  /\ UNCHANGED <<process, staged, exe, env>>

\* The file is hashed where it lies, and the user is asked.
DownloadDone(whole) ==
  /\ Idle /\ loading # 0
  /\ loading' = 0
  /\ IF whole
     THEN /\ temp' = File(loading, TRUE)
          /\ verified' = TRUE
          /\ questions' = Append(questions, loading)
     ELSE /\ temp' = NoFile
          /\ UNCHANGED <<verified, questions>>
  /\ UNCHANGED <<running, fetching, step, staged, exe, published, orphan, meddled>>

\* An error of curl, or a digest that differs; another writer may be why.
DownloadFails ==
  /\ DownloadDone(FALSE)
  /\ Blame \/ (orphan # 0 /\ UNCHANGED faults)

DownloadSucceeds == DownloadDone(TRUE) /\ UNCHANGED faults

-----------------------------------------------------------------------------
(* The question, applyAndRestart() and startSelfInstall(). *)

\* Only the question on top can be answered; the last one may stay.
ClickLater ==
  /\ Idle /\ questions # <<>>
  /\ questions' = SubSeq(questions, 1, Len(questions) - 1)
  /\ UNCHANGED <<running, fetching, loading, verified, step, files, env>>

\* Without a verified installer applyAndRestart() only writes to the log.
ClickInstall ==
  /\ Idle /\ questions # <<>>
  /\ questions' = SubSeq(questions, 1, Len(questions) - 1)
  /\ step' = IF verified THEN "remove" ELSE "none"
  /\ UNCHANGED <<running, fetching, loading, verified, files, env>>

\* One system call of startSelfInstall(): the process is otherwise unchanged.
Call(from, to) ==
  /\ step = from /\ step' = to
  /\ UNCHANGED <<running, fetching, loading, verified, questions, temp,
                 published, orphan, meddled>>

\* Mutant: whatever an earlier attempt left is not removed.
BadRemoveStale == Call("remove", "copy") /\ UNCHANGED <<staged, exe, faults>>

RemoveStale ==
  /\ Call("remove", "copy")
  /\ staged' = NoFile /\ UNCHANGED <<exe, faults>>

\* The result of remove() is ignored: the copy will find the file in its way.
RemoveFails ==
  /\ Call("remove", "copy") /\ staged # NoFile
  /\ Blame /\ UNCHANGED <<staged, exe>>

\* QFile::copy() never overwrites: a file in the way is a failure.
CopyBegins ==
  /\ IF staged = NoFile
     THEN Call("copy", "copying") /\ staged' = File(temp.release, FALSE)
     ELSE Call("copy", "none") /\ UNCHANGED staged
  /\ UNCHANGED <<exe, faults>>

CopyEnds ==
  /\ Call("copying", "chmod")
  /\ staged' = temp /\ UNCHANGED <<exe, faults>>

SetPermissions == Call("chmod", "rename") /\ UNCHANGED <<staged, exe, faults>>

Rename ==
  /\ Call("rename", "launch")
  /\ exe' = staged /\ staged' = NoFile /\ UNCHANGED faults

\* Each failure leaves the application running.  A copy that fails has created no
\* file, or leaves or cleans up what it wrote (external); after the other two the
\* staged file is removed, and the result of that is ignored again.
StepFails ==
  /\ Blame
  /\ \/ Call("copy", "none") /\ UNCHANGED staged
     \/ /\ \E from \in {"copying", "chmod", "rename"} : Call(from, "none")
        /\ staged' \in {NoFile, staged}
  /\ UNCHANGED exe

\* The new binary is in place and cannot be started: the old one stays up.
RelaunchFails ==
  /\ Call("launch", "none")
  /\ Blame \/ (~exe.whole /\ UNCHANGED faults)
  /\ UNCHANGED <<staged, exe>>

\* Process r, or none, has taken the place of this one.
Replaced(r) ==
  /\ running' = r /\ fetching' = FALSE /\ loading' = 0 /\ verified' = FALSE
  /\ questions' = <<>> /\ step' = "none"

\* The new binary was started, then quit() ends this one; SingleInstance is about
\* whether the new one survives that.
Relaunch ==
  /\ step = "launch" /\ exe.whole
  /\ \E r \in {0, exe.release} : Replaced(r)
  /\ UNCHANGED <<files, env>>

InstallStep ==
  RemoveStale \/ CopyBegins \/ CopyEnds \/ SetPermissions \/ Rename \/ Relaunch
  \/ RelaunchFails

-----------------------------------------------------------------------------
(* The environment. *)

Publish ==
  /\ published < Len(Releases)
  /\ published' = published + 1
  /\ UNCHANGED <<process, files, orphan, meddled, faults>>

\* A release is taken back, and the one before it is the latest again.
Withdraw ==
  /\ published > 1 /\ Blame
  /\ published' = published - 1
  /\ UNCHANGED <<process, files, orphan, meddled>>

Start ==
  /\ running = 0 /\ exe.whole
  /\ running' = exe.release
  /\ UNCHANGED <<fetching, loading, verified, questions, step, files, env>>

\* A normal end kills a running curl, a crash does not.
Exit == Idle /\ Replaced(0) /\ UNCHANGED <<files, env>>

Crash ==
  /\ running # 0 /\ Blame
  /\ Replaced(0)
  /\ orphan' = IF loading # 0 THEN loading ELSE orphan
  /\ UNCHANGED <<files, published, meddled>>

OrphanWrites ==
  /\ orphan # 0 /\ temp # NoFile
  /\ temp' = File(orphan, FALSE)
  /\ meddled' = (meddled \/ verified)
  /\ UNCHANGED <<process, staged, exe, published, orphan, faults>>

OrphanEnds ==
  /\ orphan # 0 /\ orphan' = 0
  /\ UNCHANGED <<process, files, published, meddled, faults>>

-----------------------------------------------------------------------------
Next ==
  \/ checkNow \/ FetchDone \/ FetchFails
  \/ CurlWrites \/ DownloadSucceeds \/ DownloadFails
  \/ ClickLater \/ ClickInstall \/ InstallStep \/ RemoveFails \/ StepFails
  \/ Publish \/ Withdraw \/ Start \/ Exit \/ Crash \/ OrphanWrites \/ OrphanEnds

\* The timer fires, curl ends within its --max-time, system calls return.
Fairness ==
  /\ WF_vars(checkNow) /\ WF_vars(FetchDone)
  /\ WF_vars(DownloadSucceeds) /\ WF_vars(InstallStep) /\ WF_vars(OrphanEnds)

Spec == Init /\ [][Next]_vars /\ Fairness

-----------------------------------------------------------------------------
\* "The real path only ever points to a fully-written file": across every crash,
\* failed call and half-written download the executable is a whole, verified
\* release, unless an orphan wrote between the verdict and the copy.
ExecutableIsWhole == exe.whole \/ meddled

\* Whichever question was answered and whatever was published, withdrawn or
\* downloaded meanwhile, the executable is only ever replaced by a release that
\* came out after the one that is running: an update is never a downgrade.
ExecutableMovesForward ==
  [][exe' # exe => exe'.release > running \/ meddled]_vars

\* A running application that a usable newer release exists for offers that
\* release, again and again, whatever failed before; unless nobody answers.
Wanted == running # 0 /\ published > running /\ published \notin Unusable

NewReleaseIsOffered ==
  []<>(\/ ~Wanted \/ Len(questions) = MaxQuestions
       \/ \E i \in DOMAIN questions : questions[i] = published)

\* A user who does not refuse for ever what is offered gets it: the newer release is
\* at last in the executable's place, whatever crashes, failed calls and failed
\* removals left beside the executable in the attempts before.
AcceptedUpdateArrives ==
  SF_vars(ClickInstall /\ verified) => []<>(~Wanted \/ exe.release = published)

\* What is installed is the version that the answered question named.
InstallsWhatWasAsked ==
  [][step = "none" /\ step' = "remove" => temp.release = questions[Len(questions)]]_vars

=============================================================================
