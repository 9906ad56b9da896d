---------------------------- MODULE MCECSAdapter ----------------------------
(* A small instance of module ECSAdapter: every list of up to five          *)
(* identifiers, repeated ones included, in batches of two.                  *)
EXTENDS ECSAdapter, SequencesExt

AroundTheRange == {-1, 0, 1, 2, 4}

UpToFive == BoundedSeq(Names, 5)
=============================================================================
