---------------------------- MODULE MCReclaimer ----------------------------
(* Bounds for model checking Reclaimer.                                     *)
EXTENDS Reclaimer

\* Workers are interchangeable in the model.
MCSymmetry == Permutations(Workers)
=============================================================================
