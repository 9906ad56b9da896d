--------------------------- MODULE MCScaleHistory ----------------------------
(* The instances of MCReconciler, with the history of effects.              *)
EXTENDS MCReconciler, ScaleHistory
=============================================================================
