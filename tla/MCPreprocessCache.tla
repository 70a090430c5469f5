-------------------------- MODULE MCPreprocessCache --------------------------
(* Model-checking instance of PreprocessCache.                             *)
EXTENDS PreprocessCache, TLC

\* Renders are interchangeable; used by safety runs only.
Symmetry == Permutations(Renders)
=============================================================================
