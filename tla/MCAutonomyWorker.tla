--------------------------- MODULE MCAutonomyWorker ---------------------------
(* Symmetry for checking AutonomyWorker with TLC. *)
EXTENDS AutonomyWorker, TLC

SessionSymmetry == Permutations(Session)
===============================================================================
