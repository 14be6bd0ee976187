----------------------------- MODULE MCDueChecks -----------------------------
(***************************************************************************)
(* A small instance of DueChecks: two schedulers whose ticks list two of   *)
(* three monitors, so that a batch has a rest to give up and one that is   *)
(* due may be left out; both have a batch at a time.                       *)
(***************************************************************************)
EXTENDS DueChecks

=============================================================================
