---------------------------- MODULE MCJobManager ----------------------------
(* JobManager on small instances: job ids and killer threads are            *)
(* interchangeable, which the safety run uses.                              *)
EXTENDS JobManager, TLC

JobSymmetry == Permutations(Jobs) \cup Permutations(Killers)
=============================================================================
