--------------------------- MODULE MCHealthServer ---------------------------
(* A small instance of module HealthServer. *)
EXTENDS HealthServer
=============================================================================
