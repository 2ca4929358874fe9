------------------------- MODULE MCModbusConnection -------------------------
(* ModbusConnection for TLC.  Two functions tell a matching reply from one   *)
(* of another kind; two requests are the least that can be confused.         *)
EXTENDS ModbusConnection
=============================================================================
