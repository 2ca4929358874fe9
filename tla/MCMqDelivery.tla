---------------------------- MODULE MCMqDelivery ----------------------------
(* MqDelivery for TLC.  Two messages are the least that tell one delivery   *)
(* tag from another.                                                        *)
EXTENDS MqDelivery
=============================================================================
