------------------------------ MODULE MCJobRuns ------------------------------
(* A small instance of JobRuns. *)
EXTENDS JobRuns

=============================================================================
