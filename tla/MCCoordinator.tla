--------------------------- MODULE MCCoordinator ----------------------------
(* A small instance of Coordinator for TLC. *)
EXTENDS Coordinator, TLC

CONSTANTS c1, c2

At(h, t) == [host |-> h, eokr |-> t]

(* Three nodes, one that asks for a token in use, and the nodes that a     *)
(* removal of the last one leaves with its token.                          *)
Named3 == {At("a", 3), At("b", 1), At("c", 2), At("c", 1), At("b", 3)}

Sym == Permutations(Clients)
=============================================================================
