-------------------------------- MODULE Ring --------------------------------
(***************************************************************************)
(* The token ring: which of the nodes a node knows owns a token and which  *)
(* hold its replicas (src/helper/helper.go).  The code takes the nodes out *)
(* of a map, in any order, and sorts them by token with a sort that leaves *)
(* nodes of equal token in any order; so an operator that stands for a     *)
(* lookup of the code takes the list, and the lists it may be given are    *)
(* MapToArr(S), or Sorted(S).                                              *)
(***************************************************************************)
EXTENDS Naturals, SequencesExt

CONSTANTS Ids, TotalSlots,
          None                \* no node found

ASSUME TotalSlotsAssumption == TotalSlots \in Nat \ {0}
ASSUME IdsAssumption == IsFiniteSet(Ids)

States == {"JOINING", "BOOTSTRAPPING", "AVAILABLE"}

(* What routing reads of a gossip entry. *)
Node == [id : Ids, eokr : 0..TotalSlots, state : States]

ASSUME NoneAssumption == None \notin Ids \cup Node \cup Seq(Node)

(* HashKey reduces modulo TOTAL_SLOTS, the largest uint64: the largest     *)
(* token itself is never hashed to.                                        *)
Tokens == 0..(TotalSlots - 1)

MapToArr(S) == SetToSeqs(S)

Increasing(nodes) == \A i, j \in DOMAIN nodes : i < j => nodes[i].eokr <= nodes[j].eokr

(* Mutant of Sorted: the list is used as it comes out of the map. *)
Sorted_not(S) == MapToArr(S)

Sorted(S) == {nodes \in MapToArr(S) : Increasing(nodes)}

(* Mutant of Serves: the range ends one token too early. *)
Serves_offByOne(node, token) == node.state = "AVAILABLE" /\ token + 1 < node.eokr

Serves(node, token) == node.state = "AVAILABLE" /\ token < node.eokr

(* The indices at which a scan from the front may stop, and its first one. *)
First(is) == CHOOSE i \in is : \A j \in is : i <= j

(* Mutant of GetNode: the scan does not stop at the first match. *)
GetNode_last(nodes, token) ==
  LET found == {i \in DOMAIN nodes : Serves(nodes[i], token)}
  IN  IF found = {} THEN None ELSE nodes[CHOOSE i \in found : \A j \in found : j <= i]

GetNode(nodes, token) ==
  LET found == {i \in DOMAIN nodes : Serves(nodes[i], token)}
  IN  IF found = {} THEN None ELSE nodes[First(found)]

(* Mutant of GetNNode: the nodes after the owner, without it. *)
GetNNode_afterOwner(nodes, token, N) ==
  LET found == {i \in DOMAIN nodes : Serves(nodes[i], token)}
  IN  IF N > Len(nodes) \/ found = {} THEN None
      ELSE [c \in 1..N |-> nodes[((First(found) - 1 + c) % Len(nodes)) + 1]]

(* The owner and the nodes that follow it around the ring, available or    *)
(* not; None when there are not enough nodes or no owner.                  *)
GetNNode(nodes, token, N) ==
  LET found == {i \in DOMAIN nodes : Serves(nodes[i], token)}
  IN  IF N > Len(nodes) \/ found = {} THEN None
      ELSE [c \in 1..N |-> nodes[((First(found) - 1 + (c - 1)) % Len(nodes)) + 1]]

(* Mutant of GetNodeByToken: a node's own token is left out. *)
GetNodeByToken_offByOne(nodes, token) ==
  LET found == {i \in DOMAIN nodes : nodes[i].state = "AVAILABLE" /\ token < nodes[i].eokr}
  IN  IF found = {} THEN None ELSE nodes[First(found)]

(* Used for the source of a bootstrap; a node's own token is included. *)
GetNodeByToken(nodes, token) ==
  LET found == {i \in DOMAIN nodes : nodes[i].state = "AVAILABLE" /\ token <= nodes[i].eokr}
  IN  IF found = {} THEN None ELSE nodes[First(found)]

-----------------------------------------------------------------------------
(* Reference definitions, on the set of nodes. *)

(* The available node with the lowest token above the given one. *)
IsOwner(S, token, node) ==
  /\ node \in S
  /\ Serves(node, token)
  /\ \A other \in S : Serves(other, token) => node.eokr <= other.eokr

(* Going up from a node and around, how many nodes come before another. *)
Distance(S, from, to) ==
  IF from.eokr <= to.eokr
  THEN Cardinality({n \in S : from.eokr <= n.eokr /\ n.eokr < to.eokr})
  ELSE Cardinality({n \in S : from.eokr <= n.eokr \/ n.eokr < to.eokr})
=============================================================================
