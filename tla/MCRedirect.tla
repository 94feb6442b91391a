----------------------------- MODULE MCRedirect -----------------------------
(* Small instances of Redirect for TLC. *)
EXTENDS Redirect

CONSTANTS n1, n2, n3

(* The seed has the largest token, as the makefile starts it. *)
Quarters == n1 :> 4 @@ n2 :> 3 @@ n3 :> 1

(* What its machine makes of a float64 that is too large: n2 may read the  *)
(* seed's token wrong.                                                     *)
Readings == n1 :> {4} @@ n2 :> {2, 4} @@ n3 :> {4}

AllRight == n1 :> {4} @@ n2 :> {4} @@ n3 :> {4}
=============================================================================
