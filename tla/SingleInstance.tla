---------------------------- MODULE SingleInstance ----------------------------
(***************************************************************************)
(* The guard against a second copy of the application                      *)
(* (infra/singleinstance/single_instance.cpp) as its main() uses it, with  *)
(* processes that start, finish, crash, and replace themselves after an    *)
(* update.  The constructor is four steps, since each is a system call     *)
(* that another process may run between: probe, listen, remove, listen.    *)
(*                                                                         *)
(* The pipe is a path in the file system: "path" is the process that bound *)
(* it last, or NoOne.  A crash leaves it behind; a normal end unlinks it,  *)
(* whoever bound it meanwhile (external: QLocalServer on Unix).            *)
(***************************************************************************)
EXTENDS Naturals, FiniteSets

CONSTANTS
  Procs,      \* processes of this application
  NoOne,
  Serialised, \* TRUE: the user starts one copy at a time
  Crashes     \* TRUE: a process may crash

ASSUME SingleInstanceAssumption ==
  /\ Procs # {} /\ NoOne \notin Procs
  /\ Serialised \in BOOLEAN /\ Crashes \in BOOLEAN

VARIABLES
  pc,    \* where each process is
  path   \* who bound the pipe's path

instanceVars == <<pc, path>>

Starting == {"probe", "listen", "remove", "listenAgain"}
Primary  == {"primary", "quitting"}

InstanceInit == pc = [p \in Procs |-> "off"] /\ path = NoOne

Goto(p, l) == pc' = [pc EXCEPT ![p] = l]

\* A server is listening on the path (external).
Listening == path # NoOne /\ pc[path] \in Primary

\* QLocalServer::listen(): binding fails when the path exists (external).
Bind(p, otherwise) ==
  IF path = NoOne THEN path' = p /\ Goto(p, "primary")
                  ELSE Goto(p, otherwise) /\ UNCHANGED path

Launch(p) ==
  /\ pc[p] = "off"
  /\ Serialised => \A q \in Procs : pc[q] \notin Starting
  /\ Goto(p, "probe")
  /\ UNCHANGED path

-----------------------------------------------------------------------------
(* The constructor. *)

\* Mutant: the probe trusts the path alone.
BadProbe(p) ==
  /\ pc[p] = "probe"
  /\ Goto(p, IF path # NoOne THEN "secondary" ELSE "listen")
  /\ UNCHANGED path

Probe(p) ==
  /\ pc[p] = "probe"
  /\ Goto(p, IF Listening THEN "secondary" ELSE "listen")
  /\ UNCHANGED path

Listen(p) ==
  /\ pc[p] = "listen"
  /\ Bind(p, "remove")

RemoveServer(p) ==
  /\ pc[p] = "remove"
  /\ path' = NoOne
  /\ Goto(p, "listenAgain")

ListenAgain(p) ==
  /\ pc[p] = "listenAgain"
  /\ Bind(p, "secondary")

-----------------------------------------------------------------------------
(* main(). *)

\* A secondary asks the primary to raise its window, and ends either way.
SignalPrimary(p, reached) ==
  /\ pc[p] = "secondary"
  /\ reached = Listening
  /\ Goto(p, "off")
  /\ UNCHANGED path

Finish(p) ==
  /\ pc[p] \in Primary
  /\ path' = NoOne
  /\ Goto(p, "off")

Die(p) ==
  /\ Crashes /\ pc[p] # "off"
  /\ Goto(p, "off")
  /\ UNCHANGED path

\* Mutant: the pipe is released before the event loop is left.
BadHandOver(p, q) ==
  /\ pc[p] = "primary" /\ pc[q] = "off"
  /\ Serialised => \A r \in Procs : pc[r] \notin Starting
  /\ pc' = [pc EXCEPT ![p] = "quitting", ![q] = "probe"]
  /\ path' = NoOne

\* applyAndRestart(): the new binary q is started, then the event loop is left.
HandOver(p, q) ==
  /\ pc[p] = "primary" /\ pc[q] = "off"
  /\ Serialised => \A r \in Procs : pc[r] \notin Starting
  /\ pc' = [pc EXCEPT ![p] = "quitting", ![q] = "probe"]
  /\ UNCHANGED path

Construct(p) == Probe(p) \/ Listen(p) \/ RemoveServer(p) \/ ListenAgain(p)

Proceed(p) ==
  Construct(p) \/ (\E b \in BOOLEAN : SignalPrimary(p, b))
               \/ (pc[p] = "quitting" /\ Finish(p))

StartOnly == \E p \in Procs : Launch(p) \/ Proceed(p)

InstanceNext ==
  \/ StartOnly
  \/ \E p \in Procs : Finish(p) \/ Die(p) \/ (\E q \in Procs : HandOver(p, q))

\* A process that is not waiting for its user goes on.
InstanceFairness == \A p \in Procs : WF_instanceVars(Proceed(p))

InstanceSpec == InstanceInit /\ [][InstanceNext]_instanceVars /\ InstanceFairness

-----------------------------------------------------------------------------
\* isPrimary() means owning the pipe, and so at most one process is primary: a
\* primary that others cannot reach would let every later launch be primary too.
PrimaryOwnsPipe == \A p \in Procs : pc[p] \in Primary => path = p

\* Whatever crashes, exits and hand-overs have left in the file system, a user who
\* goes on starting the application gets it: once copies are only started, one of
\* them is primary from some time on, and every later one finds it.
StartingBringsPrimary ==
  <>[][StartOnly]_instanceVars /\ []<>(\E p \in Procs : pc[p] \in Starting)
    => <>[](\E p \in Procs : pc[p] = "primary")

\* When a primary hands over to the binary it has just installed, a copy that is
\* not itself quitting runs afterwards.
HandOverLeavesInstance ==
  (\E p \in Procs : pc[p] = "quitting") ~> (\E p \in Procs : pc[p] = "primary")

=============================================================================
