---------------------------- MODULE MCHealthCheck ----------------------------
(* The health check alone, for TLC. *)
EXTENDS HealthCheck

Incompatible == {"incompatible", "ready"}
=============================================================================
