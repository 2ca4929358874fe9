---------------------------- MODULE MCC3Connection ----------------------------
(* C3Connection for TLC: two queries, which may overlap on one wire.           *)
EXTENDS C3Connection
=============================================================================
