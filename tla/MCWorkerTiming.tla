--------------------------- MODULE MCWorkerTiming ---------------------------
(* Model values for WorkerTiming. *)
EXTENDS WorkerTiming
=============================================================================
