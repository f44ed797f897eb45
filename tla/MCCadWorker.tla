---------------------------- MODULE MCCadWorker ----------------------------
(* CadWorker on small instances.                                           *)
EXTENDS CadWorker, TLC

Symmetry == Permutations(Request)

=============================================================================
