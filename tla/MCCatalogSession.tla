-------------------------- MODULE MCCatalogSession --------------------------
(* Bounds for model checking CatalogSession and its refinement.             *)
EXTENDS CatalogRefinement, TLC

\* One retention request, inside the history.
MCOneRequest == {[ver |-> 1, before |-> 1]}

\* Writers are interchangeable in the model.
MCSymmetry == Permutations(Writers)
=============================================================================
