---------------------------- MODULE MCJobManager ----------------------------
(* Model-checking instance of JobManager.                                  *)
EXTENDS JobManager, TLC

\* Safety runs only: jobs, workers and requests are interchangeable.
Symmetry == Permutations(Jobs) \cup Permutations(Workers) \cup Permutations(Requests)
=============================================================================
