----------------------------- MODULE Coordinator ----------------------------
(***************************************************************************)
(* The deprecated coordinator (src/cluster): a process that keeps the list *)
(* of storage nodes, sorted by token, and tells the nodes about a new one. *)
(*                                                                         *)
(* gin runs every request in a goroutine of its own and nothing locks the  *)
(* list, so each statement that writes the list is a step here, and an     *)
(* append is two: the value and the assignment.  The list is a Go slice:   *)
(* insertion and removal move elements within an array that broadcasts of  *)
(* other requests are still reading.                                       *)
(***************************************************************************)
EXTENDS Naturals, Sequences

CONSTANTS
  Clients,            \* goroutines that serve requests
  Nodes,              \* what requests name: [host, eokr]
  NoHost,             \* the host of a zero StorageNode, the empty string
  Top,                \* Total_Slots
  TopReads,           \* what uint64(float64(Top)) may be in a build
  MaxRequests         \* bound: how many requests in all

ASSUME TopAssumption == Top \in Nat \ {0} /\ TopReads \subseteq 1..Top
ASSUME NodesAssumption == \A n \in Nodes : n \in [host : STRING \ {NoHost}, eokr : 1..Top]
ASSUME MaxRequestsAssumption == MaxRequests \in Nat

VARIABLES
  heap,       \* the arrays; an array is as long as its capacity
  nodes,      \* Cluster.nodes, a slice [arr, len]
  req,        \* the request each client serves
  count,      \* how many requests there were
  topRead,    \* the build
  members,    \* history: the nodes the calls made so far add up to
  serial      \* history: no two calls that change the list have overlapped

vars == <<heap, nodes, req, count, topRead, members, serial>>
history == <<members, serial>>

-----------------------------------------------------------------------------
(* Slices; indices start at 1. *)

Blank == [host |-> NoHost, eokr |-> 0]

Elements(slice) == SubSeq(heap[slice.arr], 1, slice.len)

Capacity(slice) == Len(heap[slice.arr])

(* What append leaves in memory and returns: it reuses the array if there  *)
(* is room, and otherwise moves to one of twice the size.                  *)
Appended(slice, node) ==
  IF slice.len < Capacity(slice)
  THEN [heap |-> [heap EXCEPT ![slice.arr][slice.len + 1] = node],
        slice |-> [slice EXCEPT !.len = @ + 1]]
  ELSE LET size == IF slice.len = 0 THEN 1 ELSE 2 * slice.len
           room == [i \in 1..(size - slice.len - 1) |-> Blank]
       IN  [heap |-> Append(heap, Append(Elements(slice), node) \o room),
            slice |-> [arr |-> Len(heap) + 1, len |-> slice.len + 1]]

-----------------------------------------------------------------------------
Slice == [arr : Nat, len : Nat]

Hosts == {n.host : n \in Nodes}

Cell == [host : Hosts \cup {NoHost}, eokr : 0..Top]

Named == [host : Hosts, eokr : 1..Top]

Request == [pc : {"idle", "add", "append", "grow", "shift", "place", "init", "cast",
                  "remove", "cut", "extend", "splice", "shrink"},
            node : Named \cup {Blank}, index : Nat, slice : Slice,
            told : SUBSET (Hosts \cup {NoHost}), quiet : BOOLEAN]

TypeOK ==
  /\ heap \in Seq(Seq(Cell))
  /\ nodes \in Slice /\ nodes.arr \in DOMAIN heap /\ nodes.len \in 0..Capacity(nodes)
  /\ req \in [Clients -> Request]
  /\ count \in 0..MaxRequests
  /\ topRead \in TopReads
  /\ serial \in BOOLEAN

NoRequest == [pc |-> "idle", node |-> Blank, index |-> 0,
              slice |-> [arr |-> 1, len |-> 0], told |-> {}, quiet |-> TRUE]

Init ==
  /\ heap = << <<>> >>
  /\ nodes = [arr |-> 1, len |-> 0]
  /\ req = [c \in Clients |-> NoRequest]
  /\ count = 0
  /\ topRead \in TopReads
  /\ members = {}
  /\ serial = TRUE

Goto(c, place) == req' = [req EXCEPT ![c].pc = place]

(* The handler answers, or panics and gin answers. *)
Done(c) == req' = [req EXCEPT ![c] = NoRequest]

(* The list is written: a broadcast that is under way is not quiet. *)
Wrote(r) == [d \in Clients |-> [r[d] EXCEPT !.quiet = (r[d].pc # "cast")]]

-----------------------------------------------------------------------------
(* The history: what a call means, whatever the memory does. *)

Changing(c) == req[c].pc \notin {"idle", "init", "cast"}

Accepts(S, node) ==
  IF S = {} THEN node.eokr = Top
  ELSE /\ \A m \in S : m.eokr # node.eokr
       /\ \E m \in S : node.eokr < m.eokr

With(S, node) == IF Accepts(S, node) THEN S \cup {node} ELSE S

IsLast(S, node) == \A n \in S : n.eokr <= node.eokr

(* The last node's range falls to the one before it. *)
Without(S, node) ==
  LET rest == S \ {node}
  IN  IF node \notin S \/ ~IsLast(S, node) THEN rest
      ELSE {IF IsLast(rest, m) THEN [m EXCEPT !.eokr = node.eokr] ELSE m : m \in rest}

-----------------------------------------------------------------------------
(* addnode, removenode: the token arrives as a float64. *)

Converted(node) == IF node.eokr = Top THEN [node EXCEPT !.eokr = topRead] ELSE node

Receive(c, place, node) ==
  /\ req[c].pc = "idle"
  /\ count < MaxRequests
  /\ count' = count + 1
  /\ req' = [req EXCEPT ![c].pc = place, ![c].node = node]
  /\ serial' = (serial /\ \A d \in Clients : ~Changing(d))
  /\ UNCHANGED <<heap, nodes, topRead>>

PostNode(c, node) ==
  /\ Receive(c, "add", node)
  /\ members' = With(members, node)

DeleteNode(c, node) ==
  /\ Receive(c, "remove", node)
  /\ members' = Without(members, node)

-----------------------------------------------------------------------------
(* AddNode *)

(* The place of the first node that is not below the token; none, 0, if    *)
(* that has the same one.                                                  *)
FindInsertIndex(list, token) ==
  LET stops == {i \in DOMAIN list : token <= list[i].eokr}
      first == CHOOSE i \in stops : \A j \in stops : i <= j
  IN  IF stops = {} \/ list[first].eokr = token THEN 0 ELSE first

(* The first node must have the largest token. *)
AddLook(c) ==
  LET token == req[c].node.eokr
      index == FindInsertIndex(Elements(nodes), token)
      ok == IF nodes.len = 0 THEN token = Top ELSE index # 0
  IN  /\ req[c].pc = "add"
      /\ IF ok THEN req' = [req EXCEPT ![c].pc = "append", ![c].index = index] ELSE Done(c)
      /\ UNCHANGED <<heap, nodes, count, topRead, history>>

(* Index 0: the list was empty, the node itself is appended. *)
AddAppend(c) ==
  LET first == req[c].index = 0
      result == Appended(nodes, IF first THEN req[c].node ELSE Blank)
  IN  /\ req[c].pc = "append"
      /\ heap' = result.heap
      /\ req' = Wrote([req EXCEPT ![c].pc = "grow", ![c].slice = result.slice])
      /\ UNCHANGED <<nodes, count, topRead, history>>

AddGrow(c) ==
  /\ req[c].pc = "grow"
  /\ nodes' = req[c].slice
  /\ Goto(c, IF req[c].index = 0 THEN "init" ELSE "shift")
  /\ UNCHANGED <<heap, count, topRead, history>>

(* Mutant of AddShift: one element too few is moved. *)
AddShift_short(c) ==
  /\ req[c].pc = "shift"
  /\ heap' = [heap EXCEPT ![nodes.arr] =
                [i \in DOMAIN @ |-> IF req[c].index + 1 < i /\ i <= nodes.len THEN @[i - 1] ELSE @[i]]]
  /\ req' = Wrote([req EXCEPT ![c].pc = "place"])
  /\ UNCHANGED <<nodes, count, topRead, history>>

(* copy; a slice bound beyond the list panics. *)
AddShift(c) ==
  /\ req[c].pc = "shift"
  /\ IF req[c].index > nodes.len
     THEN Done(c) /\ UNCHANGED heap
     ELSE /\ heap' = [heap EXCEPT ![nodes.arr] =
                        [i \in DOMAIN @ |-> IF req[c].index < i /\ i <= nodes.len
                                            THEN @[i - 1] ELSE @[i]]]
          /\ req' = Wrote([req EXCEPT ![c].pc = "place"])
  /\ UNCHANGED <<nodes, count, topRead, history>>

AddPlace(c) ==
  /\ req[c].pc = "place"
  /\ IF req[c].index > nodes.len
     THEN Done(c) /\ UNCHANGED heap
     ELSE /\ heap' = [heap EXCEPT ![nodes.arr][req[c].index] = req[c].node]
          /\ req' = Wrote([req EXCEPT ![c].pc = "init"])
  /\ UNCHANGED <<nodes, count, topRead, history>>

-----------------------------------------------------------------------------
(* InitNode and BroadCastNode *)

(* Mutant of InitNode: the broadcast leaves out the last node. *)
InitNode_short(c) ==
  /\ req[c].pc = "init"
  /\ req' = [req EXCEPT ![c].pc = "cast", ![c].slice = [nodes EXCEPT !.len = @ - 1],
                        ![c].index = 1, ![c].quiet = \A d \in Clients : ~Changing(d)]
  /\ UNCHANGED <<heap, nodes, count, topRead, history>>

(* The post to the new node is over, whatever came of it, and BroadCastNode*)
(* takes the slice it will go through.                                     *)
InitNode(c) ==
  /\ req[c].pc = "init"
  /\ req' = [req EXCEPT ![c].pc = "cast", ![c].slice = nodes, ![c].index = 1,
                        ![c].quiet = \A d \in Clients : ~Changing(d)]
  /\ UNCHANGED <<heap, nodes, count, topRead, history>>

(* sendGossip to the node that is at the position by now.  told are the    *)
(* nodes posted to: a post that fails is logged and the walk goes on.      *)
SendGossip(c) ==
  LET i == req[c].index
  IN  /\ req[c].pc = "cast"
      /\ i <= req[c].slice.len
      /\ req' = [req EXCEPT ![c].index = i + 1, ![c].told = @ \cup {heap[req[c].slice.arr][i].host}]
      /\ UNCHANGED <<heap, nodes, count, topRead, history>>

BroadCastEnds(c) ==
  /\ req[c].pc = "cast"
  /\ req[c].index > req[c].slice.len
  /\ Done(c)
  /\ UNCHANGED <<heap, nodes, count, topRead, history>>

-----------------------------------------------------------------------------
(* RemoveNode *)

RemoveLook(c) ==
  LET found == {i \in 1..nodes.len : Elements(nodes)[i] = req[c].node}
      index == CHOOSE i \in found : \A j \in found : i <= j
  IN  /\ req[c].pc = "remove"
      /\ IF found = {} THEN Done(c)
         ELSE req' = [req EXCEPT ![c].index = index,
                                 ![c].pc = IF index = nodes.len THEN "cut" ELSE "splice"]
      /\ UNCHANGED <<heap, nodes, count, topRead, history>>

(* The last node goes; a bound beyond the capacity panics. *)
RemoveCut(c) ==
  /\ req[c].pc = "cut"
  /\ IF req[c].index - 1 > Capacity(nodes)
     THEN Done(c) /\ UNCHANGED nodes
     ELSE /\ nodes' = [nodes EXCEPT !.len = req[c].index - 1]
          /\ req' = Wrote([req EXCEPT ![c].pc = "extend"])
  /\ UNCHANGED <<heap, count, topRead, history>>

(* Mutant of RemoveExtend: the last node's range is left to nobody. *)
RemoveExtend_not(c) ==
  /\ req[c].pc = "extend"
  /\ Done(c)
  /\ UNCHANGED <<heap, nodes, count, topRead, history>>

(* The one before it takes its token; without one the access panics, the   *)
(* list being empty already.                                               *)
RemoveExtend(c) ==
  LET before == req[c].index - 1
  IN  /\ req[c].pc = "extend"
      /\ req' = Wrote([req EXCEPT ![c] = NoRequest])
      /\ heap' = IF before \in 1..nodes.len
                 THEN [heap EXCEPT ![nodes.arr][before].eokr = req[c].node.eokr]
                 ELSE heap
      /\ UNCHANGED <<nodes, count, topRead, history>>

(* append(nodes[:index], nodes[index+1:]...) closes the gap in place. *)
RemoveSplice(c) ==
  LET index == req[c].index
  IN  /\ req[c].pc = "splice"
      /\ IF index > nodes.len
         THEN Done(c) /\ UNCHANGED heap
         ELSE /\ heap' = [heap EXCEPT ![nodes.arr] =
                            [i \in DOMAIN @ |-> IF index <= i /\ i < nodes.len THEN @[i + 1] ELSE @[i]]]
              /\ req' = Wrote([req EXCEPT ![c].pc = "shrink",
                                          ![c].slice = [nodes EXCEPT !.len = @ - 1]])
      /\ UNCHANGED <<nodes, count, topRead, history>>

RemoveShrink(c) ==
  /\ req[c].pc = "shrink"
  /\ nodes' = req[c].slice
  /\ Done(c)
  /\ UNCHANGED <<heap, count, topRead, history>>

-----------------------------------------------------------------------------
Add(c) == AddLook(c) \/ AddAppend(c) \/ AddGrow(c) \/ AddShift(c) \/ AddPlace(c)
BroadCast(c) == InitNode(c) \/ SendGossip(c) \/ BroadCastEnds(c)
Remove(c) == RemoveLook(c) \/ RemoveCut(c) \/ RemoveExtend(c) \/ RemoveSplice(c) \/ RemoveShrink(c)

Next ==
  \E c \in Clients :
    \/ \E n \in Nodes : PostNode(c, Converted(n)) \/ DeleteNode(c, Converted(n))
    \/ Add(c) \/ BroadCast(c) \/ Remove(c)

Spec == Init /\ [][Next]_vars

-----------------------------------------------------------------------------
AtRest == serial /\ \A c \in Clients : ~Changing(c)

(* coordinator.go:30-31, "in asc order of node.endOfKeyRange", and its     *)
(* consequence for lookups: the last node has the largest token, so every  *)
(* key is below some token.  Insertions in the middle, and removals of the *)
(* last and of the only node, keep it, though a broadcast may be reading   *)
(* the array.  Calls that overlap do not; see README.                      *)
AscendingToTop ==
  AtRest =>
    /\ \A i, j \in 1..nodes.len : i < j => Elements(nodes)[i].eokr < Elements(nodes)[j].eokr
    /\ nodes.len > 0 => Elements(nodes)[nodes.len].eokr = Top

(* No node is lost or listed twice by the moves within the array, whether  *)
(* append reuses it or not: the list holds the nodes that the calls add up *)
(* to, read as operations on a set.                                        *)
ListAsRequested ==
  AtRest => {Elements(nodes)[i] : i \in 1..nodes.len} = members

(* coordinator.go:114-115, "informs all known nodes that new node is now   *)
(* available": a broadcast that no call of another request disturbs reaches*)
(* every listed node, the new one included.                                *)
BroadcastInforms ==
  \A c \in Clients :
    AtRest /\ req[c].pc = "cast" /\ req[c].index > req[c].slice.len /\ req[c].quiet =>
      req[c].told = {m.host : m \in members}
=============================================================================
