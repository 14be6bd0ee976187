-------------------------- MODULE MCMaintenanceRuns --------------------------
(* A small instance of MaintenanceRuns: two tasks and one worker. *)
EXTENDS MaintenanceRuns

=============================================================================
