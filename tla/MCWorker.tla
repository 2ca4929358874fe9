------------------------------- MODULE MCWorker -------------------------------
(* Worker for TLC: the owner and two dialogs share three jobs, so that one is  *)
(* queued while another runs and a third waits to be delivered.               *)
EXTENDS Worker
=============================================================================
