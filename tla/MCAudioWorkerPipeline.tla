----------------------- MODULE MCAudioWorkerPipeline -----------------------
(* Model values for AudioWorkerPipeline. *)
EXTENDS AudioWorkerPipeline
=============================================================================
