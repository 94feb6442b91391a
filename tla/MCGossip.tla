------------------------------ MODULE MCGossip ------------------------------
(* A small instance of Gossip for TLC. *)
EXTENDS Gossip

CONSTANTS n1, n2
=============================================================================
