---------------------------- MODULE MCEventStream ----------------------------
(* A small instance of EventStream: a publisher in the server's process    *)
(* and one in a worker's, and a stream whose channel is soon full.         *)
EXTENDS EventStream

=============================================================================
