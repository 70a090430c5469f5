-------------------------- MODULE MCModelResources --------------------------
(* Model-checking instance of ModelResources.                              *)
EXTENDS ModelResources
=============================================================================
