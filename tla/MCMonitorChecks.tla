--------------------------- MODULE MCMonitorChecks ---------------------------
(* A small instance of MonitorChecks. *)
EXTENDS MonitorChecks

=============================================================================
