------------------------------ MODULE MqPromise ------------------------------
(***************************************************************************)
(* What message consumption promises: a message leaves the broker only     *)
(* after it was kept in the durable store, or because it cannot be decoded;*)
(* nothing kept is forgotten and nothing settled comes back.  Crashes,     *)
(* redeliveries, reconnects and pauses are all invisible at this level.    *)
(***************************************************************************)
CONSTANTS Messages, Undecodable

VARIABLES kept, settled

PromiseInit == kept = {} /\ settled = {}

Keep(m) == kept' = kept \cup {m} /\ UNCHANGED settled

Settle(m) ==
  /\ m \in kept \cup Undecodable
  /\ settled' = settled \cup {m}
  /\ UNCHANGED kept

PromiseNext == \E m \in Messages : Keep(m) \/ Settle(m)

PromiseSpec == PromiseInit /\ [][PromiseNext]_<<kept, settled>>

=============================================================================
