--------------------------- MODULE MCRenderService ---------------------------
(* Model-checking instance of RenderService.                               *)
EXTENDS RenderService, TLC

\* Safety runs only.
Symmetry ==
    Permutations(Jobs) \cup Permutations(Workers) \cup Permutations(Clients)
        \cup Permutations(Requests)
=============================================================================
