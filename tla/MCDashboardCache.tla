-------------------------- MODULE MCDashboardCache --------------------------
(* DashboardCache on small instances.                                      *)
EXTENDS DashboardCache, TLC

Symmetry == Permutations(Job) \cup Permutations(Drawing)

=============================================================================
