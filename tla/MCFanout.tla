------------------------------ MODULE MCFanout ------------------------------
(* A small instance of Fanout for TLC. *)
EXTENDS Fanout

CONSTANTS w1, w2, w3
=============================================================================
