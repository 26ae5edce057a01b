------------------------------ MODULE MCJobLease ------------------------------
(* Model values and symmetry for checking JobLease with TLC. *)
EXTENDS JobLease, TLC

Symmetry == Permutations(Job) \cup Permutations(Session)
            \cup Permutations(Handler)
===============================================================================
