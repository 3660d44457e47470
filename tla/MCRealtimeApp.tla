---------------------------- MODULE MCRealtimeApp ----------------------------
(* Model values for RealtimeApp. *)
EXTENDS RealtimeApp
=============================================================================
