------------------------- MODULE MCBatchCoordinator -------------------------
(* Model-checking instance of BatchCoordinator.                            *)
EXTENDS BatchCoordinator, TLC

\* Safety runs only: the batched keys are interchangeable, as are threads.
Symmetry == Permutations(Threads) \cup Permutations(Batched)
=============================================================================
