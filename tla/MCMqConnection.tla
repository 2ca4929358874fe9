---------------------------- MODULE MCMqConnection ----------------------------
(* MqConnection for TLC: three faults strike a login, a delivery and a retry.  *)
EXTENDS MqConnection
=============================================================================
