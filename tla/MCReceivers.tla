----------------------------- MODULE MCReceivers -----------------------------
(* Instances of Receivers for TLC. *)
EXTENDS Receivers

CONSTANT c1
=============================================================================
