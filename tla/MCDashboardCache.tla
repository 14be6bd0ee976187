--------------------------- MODULE MCDashboardCache ---------------------------
(* Small instances of DashboardCache. *)
EXTENDS DashboardCache, TLC

Symmetric == Permutations(Reader) \cup Permutations(Writer)

=============================================================================
