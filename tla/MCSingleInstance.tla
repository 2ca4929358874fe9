--------------------------- MODULE MCSingleInstance ---------------------------
(* SingleInstance for TLC: two processes can race, a third sees the result.    *)
EXTENDS SingleInstance
=============================================================================
