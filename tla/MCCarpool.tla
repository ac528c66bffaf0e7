------------------------------ MODULE MCCarpool ------------------------------
(* TLC instances of Carpool. *)
EXTENDS Carpool, TLC
=============================================================================
