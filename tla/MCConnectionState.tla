-------------------------- MODULE MCConnectionState --------------------------
(* ConnectionState for TLC: MaxFailures = 8 walks the whole ladder and one  *)
(* attempt past its last rung.                                              *)
EXTENDS ConnectionState
=============================================================================
