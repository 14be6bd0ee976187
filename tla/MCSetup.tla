------------------------------- MODULE MCSetup -------------------------------
(* A small instance of Setup: three setups of any releases of two          *)
(* migrations, one of which creates nothing.                               *)
EXTENDS Setup

=============================================================================
