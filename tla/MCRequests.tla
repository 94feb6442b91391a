----------------------------- MODULE MCRequests -----------------------------
(* Small instances of Requests for TLC. *)
EXTENDS Requests

CONSTANTS n1, n2, n3, r1

(* The key belongs to n3, else to n2, else to n1. *)
Eokrs == n1 :> 4 @@ n2 :> 2 @@ n3 :> 1

Cluster(s1, s2, s3, k1, k2, k3, behind) ==
  [state |-> n1 :> s1 @@ n2 :> s2 @@ n3 :> s3,
   seen |-> n1 :> k1 @@ n2 :> k2 @@ n3 :> k3, behind |-> behind]

A == "AVAILABLE"
J == "JOINING"

(* From the owner, from the node itself, from one or both replicas, from   *)
(* more than there are.                                                    *)
AnyRead == -1..3

(* Any number of replicas, more than there are. *)
AnyWrite == {0, 3}

(* Everybody is available and known; n3 has just become available and n2,  *)
(* the owner until then, does not know yet; nobody knows of n3; only the   *)
(* seed is available and known.                                            *)
Various ==
  {Cluster(A, A, A, A, A, A, {}), Cluster(A, A, A, A, A, "BOOTSTRAPPING", {n2}),
   Cluster(A, A, J, A, A, Unknown, Ids), Cluster(A, J, J, A, Unknown, Unknown, Ids)}
=============================================================================
