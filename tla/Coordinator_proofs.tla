-------------------------- MODULE Coordinator_proofs -------------------------
(***************************************************************************)
(* The coordinator's list of nodes, for any nodes and any number of        *)
(* clients: as long as no two changes of it have overlapped, it is what    *)
(* the requests add up to, whether append reuses the array or not.         *)
(***************************************************************************)
EXTENDS Coordinator, FiniteSetTheorems, SequenceTheorems, TLAPS

(* What the slices of requests are, however these are interleaved: an array*)
(* is never given up and never changes its size, so a slice stays within   *)
(* it.                                                                     *)
Within(slice) == slice.arr \in DOMAIN heap /\ slice.len <= Capacity(slice)

Fine(r) ==
  /\ r.pc # "idle" => r.node \in Named
  /\ r.pc \in {"grow", "cast", "shrink"} => Within(r.slice)
  /\ r.pc \in {"shift", "place", "cast", "cut", "extend", "splice"} => r.index > 0
  /\ r.pc # "cast" => r.told = {}

TypeInv == TypeOK /\ \A c \in Clients : Fine(req[c])

-----------------------------------------------------------------------------
(* The first n elements of an array. *)

Cells(arr, n) == {arr[i] : i \in 1..n}

Ordered(arr, n) == \A i, j \in 1..n : i < j => arr[i].eokr < arr[j].eokr

Good(arr, n) == Ordered(arr, n) /\ (n > 0 => arr[n].eokr = Top)

Array == heap[nodes.arr]

(* The list is as it should be. *)
Listed == Good(Array, nodes.len) /\ members = Cells(Array, nodes.len)

(* An accepted node belongs at the index. *)
Belongs(node, index, arr, n) ==
  \/ n = 0 /\ index = 0 /\ node.eokr = Top
  \/ /\ index \in 1..n
     /\ \A i \in 1..n : i < index => arr[i].eokr < node.eokr
     /\ node.eokr < arr[index].eokr

(* The list is good, and with the node it will be what was asked for. *)
Adding(c, n) ==
  /\ Good(Array, n)
  /\ Belongs(req[c].node, req[c].index, Array, n)
  /\ members = Cells(Array, n) \cup {req[c].node}

(* The array append has returned holds the list and, if that was empty, the*)
(* node; there is room for one more.                                       *)
Copied(c) ==
  LET slice == req[c].slice
  IN  /\ slice.len = nodes.len + 1
      /\ \A i \in 1..nodes.len : heap[slice.arr][i] = Array[i]
      /\ req[c].index = 0 => heap[slice.arr][1] = req[c].node

(* All but the element at the index are in order, and the node is between  *)
(* those before and those after it.                                        *)
Gap(c) ==
  LET n == nodes.len
      index == req[c].index
      node == req[c].node
  IN  /\ index \in 1..(n - 1)
      /\ \A i, j \in 1..n \ {index} : i < j => Array[i].eokr < Array[j].eokr
      /\ \A i \in 1..n : (i < index => Array[i].eokr < node.eokr)
                         /\ (i > index => node.eokr < Array[i].eokr)
      /\ Array[n].eokr = Top
      /\ members = {Array[i] : i \in 1..n \ {index}} \cup {node}

(* The last node is cut off; the one before it is still to be extended.    *)
Cut(c) ==
  LET n == nodes.len
  IN  /\ req[c].index = n + 1
      /\ req[c].node.eokr = Top
      /\ Ordered(Array, n)
      /\ \A i \in 1..n : Array[i].eokr < Top
      /\ members = {IF i = n THEN [Array[i] EXCEPT !.eokr = Top] ELSE Array[i] : i \in 1..n}

(* What holds at each place of a call that is alone in changing the list.  *)
Progress(c) ==
  LET n == nodes.len
      r == req[c]
  IN  /\ r.pc = "add" => Good(Array, n) /\ members = With(Cells(Array, n), r.node)
      /\ r.pc = "append" => Adding(c, n)
      /\ r.pc = "grow" => Adding(c, n) /\ Copied(c)
      /\ r.pc = "shift" => n > 1 /\ r.index > 0 /\ Adding(c, n - 1)
      /\ r.pc = "place" => Gap(c)
      /\ r.pc = "remove" => Good(Array, n) /\ members = Without(Cells(Array, n), r.node)
      /\ r.pc = "cut" => /\ Good(Array, n) /\ n > 0 /\ r.index = n /\ Array[n] = r.node
                         /\ members = Without(Cells(Array, n), r.node)
      /\ r.pc = "extend" => Cut(c)
      /\ r.pc = "splice" => /\ Good(Array, n) /\ r.index \in 1..(n - 1)
                            /\ Array[r.index] = r.node
                            /\ members = Cells(Array, n) \ {r.node}
      /\ r.pc = "shrink" => /\ n > 0 /\ r.slice = [nodes EXCEPT !.len = n - 1]
                            /\ Good(Array, n - 1) /\ members = Cells(Array, n - 1)

SerialInv ==
  serial =>
    /\ \A c, d \in Clients : Changing(c) /\ Changing(d) => c = d
    /\ (\A c \in Clients : ~Changing(c)) => Listed
    /\ \A c \in Clients : Changing(c) => Progress(c)

(* A broadcast that is quiet goes through the present list, and no call is *)
(* in the middle of a change.                                              *)
Midway(c) == req[c].pc \in {"grow", "shift", "place", "extend", "shrink"}

Reached(c) ==
  /\ req[c].slice = nodes
  /\ req[c].index \in 1..(nodes.len + 1)
  /\ req[c].told = {Array[i].host : i \in 1..(req[c].index - 1)}

CastInv ==
  \A c \in Clients :
    req[c].pc = "cast" /\ req[c].quiet => Reached(c) /\ \A d \in Clients : ~Midway(d)

IInv == TypeInv /\ SerialInv /\ CastInv

-----------------------------------------------------------------------------
(* Arrays *)

(* A write within an array leaves the size of every array.                 *)
Kept ==
  /\ heap' \in Seq(Seq(Cell))
  /\ \A a \in DOMAIN heap : a \in DOMAIN heap' /\ Len(heap'[a]) = Len(heap[a])

LEMMA ArrayWritten ==
  ASSUME heap \in Seq(Seq(Cell)), NEW a \in DOMAIN heap, NEW arr \in Seq(Cell),
         Len(arr) = Len(heap[a]), heap' = [heap EXCEPT ![a] = arr]
  PROVE  Kept /\ heap'[a] = arr
<1>1. a \in 1..Len(heap) /\ DOMAIN heap = 1..Len(heap)
  OBVIOUS
<1>2. heap' \in Seq(Seq(Cell)) /\ DOMAIN heap' = DOMAIN heap
  BY <1>1, ExceptSeq
<1> QED BY <1>1, <1>2 DEF Kept

LEMMA BlankCell == Blank \in Cell
<1>1. 0 \in 0..Top
  BY TopAssumption
<1> QED BY <1>1 DEF Blank, Cell

LEMMA Unwritten ==
  ASSUME heap \in Seq(Seq(Cell)), UNCHANGED heap
  PROVE  Kept
BY DEF Kept

(* What append returns: the old list and the node after it, in the old     *)
(* array or in a new one.                                                  *)
LEMMA ArrayAppended ==
  ASSUME TypeOK, NEW x \in Cell, heap' = Appended(nodes, x).heap
  PROVE  LET slice == Appended(nodes, x).slice
         IN  /\ Kept
             /\ slice \in Slice /\ slice.len = nodes.len + 1
             /\ slice.arr \in DOMAIN heap' /\ slice.len <= Len(heap'[slice.arr])
             /\ \A i \in 1..nodes.len : heap'[slice.arr][i] = Array[i]
             /\ heap'[slice.arr][nodes.len + 1] = x
             /\ \A i \in 1..nodes.len : heap'[nodes.arr][i] = Array[i]
<1> DEFINE slice == Appended(nodes, x).slice
           n == nodes.len
<1>1. /\ heap \in Seq(Seq(Cell)) /\ nodes \in Slice /\ nodes.arr \in 1..Len(heap)
      /\ Array \in Seq(Cell) /\ n \in Nat /\ n <= Len(Array) /\ Len(Array) \in Nat
  BY DEF TypeOK, Capacity, Slice, Array
<1>2. CASE n < Capacity(nodes)
  <2> DEFINE new == [Array EXCEPT ![n + 1] = x]
  <2>1. heap' = [heap EXCEPT ![nodes.arr] = new] /\ slice = [nodes EXCEPT !.len = n + 1]
    BY <1>2 DEF Appended, Array
  <2> HIDE DEF slice
  <2>2. n + 1 \in 1..Len(Array)
    BY <1>1, <1>2 DEF Capacity, Array
  <2>3. new \in Seq(Cell) /\ Len(new) = Len(Array)
        /\ \A i \in 1..Len(Array) : new[i] = IF i = n + 1 THEN x ELSE Array[i]
    BY <1>1, <2>2, ExceptSeq
  <2>4. nodes.arr \in DOMAIN heap /\ Len(new) = Len(heap[nodes.arr])
    BY <1>1, <2>3 DEF Array
  <2> HIDE DEF new
  <2>5. Kept /\ heap'[nodes.arr] = new
    BY <1>1, <2>1, <2>3, <2>4, ArrayWritten
  <2>6. slice \in Slice /\ slice.arr = nodes.arr /\ slice.len = n + 1
    <3>1. nodes \in [arr : Nat, len : Nat] /\ slice = [nodes EXCEPT !.len = n + 1]
      BY <1>1, <2>1 DEF Slice
    <3> QED BY <3>1 DEF Slice
  <2>7. /\ \A i \in 1..n : new[i] = Array[i]
        /\ new[n + 1] = x
    BY <1>1, <2>2, <2>3
  <2>8. slice.arr \in DOMAIN heap' /\ slice.len <= Len(heap'[slice.arr])
    BY <1>1, <2>2, <2>3, <2>4, <2>5, <2>6 DEF Kept
  <2> QED BY <2>5, <2>6, <2>7, <2>8 DEF slice
<1>3. CASE ~(n < Capacity(nodes))
  <2> DEFINE size == IF n = 0 THEN 1 ELSE 2 * n
             room == [i \in 1..(size - n - 1) |-> Blank]
             old == Elements(nodes)
             new == Append(old, x) \o room
  <2>1. heap' = Append(heap, new) /\ slice = [arr |-> Len(heap) + 1, len |-> n + 1]
    BY <1>3 DEF Appended
  <2> HIDE DEF slice
  <2>2. old \in Seq(Cell) /\ Len(old) = n /\ \A i \in 1..n : old[i] = Array[i]
    BY <1>1 DEF Elements, Array
  <2>3. room \in Seq(Cell) /\ Len(room) \in Nat
    <3>1. Blank \in Cell
      BY BlankCell
    <3>2. size - n - 1 \in Nat
      BY <1>1
    <3> QED BY <3>1, <3>2, IsASeq
  <2> HIDE DEF room, old
  <2>4. /\ Append(old, x) \in Seq(Cell) /\ Len(Append(old, x)) = n + 1
        /\ \A i \in 1..n : Append(old, x)[i] = Array[i]
        /\ Append(old, x)[n + 1] = x
    BY <1>1, <2>2, AppendProperties
  <2> DEFINE front == Append(old, x)
  <2>front. front[n + 1] = x /\ \A i \in 1..n : front[i] = Array[i]
    BY <2>4
  <2> HIDE DEF front
  <2>5. /\ new \in Seq(Cell) /\ Len(new) = n + 1 + Len(room)
        /\ \A i \in 1..(n + 1) : new[i] = front[i]
    <3>1. front \in Seq(Cell) /\ Len(front) = n + 1
      BY <2>4 DEF front
    <3>2. /\ front \o room \in Seq(Cell)
          /\ Len(front \o room) = Len(front) + Len(room)
          /\ \A i \in 1..(Len(front) + Len(room)) :
               (front \o room)[i] = IF i <= Len(front) THEN front[i] ELSE room[i - Len(front)]
      BY <2>3, <3>1, ConcatProperties
    <3>3. new = front \o room
      BY DEF front
    <3> HIDE DEF new
    <3> QED BY <1>1, <2>3, <3>1, <3>2, <3>3
  <2> HIDE DEF new
  <2>6. /\ heap' \in Seq(Seq(Cell)) /\ DOMAIN heap' = 1..(Len(heap) + 1)
        /\ heap'[Len(heap) + 1] = new
        /\ \A a \in DOMAIN heap : a \in DOMAIN heap' /\ heap'[a] = heap[a]
    <3>1. heap \in Seq(Seq(Cell)) /\ new \in Seq(Cell) /\ heap' = Append(heap, new)
      BY <1>1, <2>1, <2>5
    <3> QED BY <3>1, AppendProperties
  <2>7. Kept
    BY <2>6 DEF Kept
  <2>8. slice \in Slice /\ slice.arr = Len(heap) + 1 /\ slice.len = n + 1
    BY <1>1, <2>1 DEF Slice
  <2>9. heap'[slice.arr] = new /\ slice.arr \in DOMAIN heap' /\ slice.len <= Len(new)
    <3>1. Len(heap) + 1 \in 1..(Len(heap) + 1) /\ n + 1 <= n + 1 + Len(room)
      BY <1>1, <2>3
    <3> QED BY <3>1, <2>5, <2>6, <2>8
  <2>10. \A i \in 1..n : new[i] = Array[i]
    BY <1>1, <2>5, <2>front
  <2>11. new[n + 1] = x
    <3>1. n + 1 \in 1..(n + 1)
      BY <1>1
    <3> QED BY <3>1, <2>5, <2>front
  <2>12. heap'[nodes.arr] = Array
    BY <1>1, <2>6 DEF Array
  <2>13. slice.len <= Len(heap'[slice.arr])
    BY <2>9
  <2> QED BY <2>7, <2>8, <2>9, <2>10, <2>11, <2>12, <2>13 DEF slice
<1> QED BY <1>2, <1>3

(* The elements of the list are those in the array.                        *)
LEMMA ListElements ==
  ASSUME TypeOK
  PROVE  /\ Array \in Seq(Cell) /\ nodes.len \in Nat /\ nodes.len <= Len(Array)
         /\ Elements(nodes) \in Seq(Cell) /\ Len(Elements(nodes)) = nodes.len
         /\ \A i \in 1..nodes.len : Elements(nodes)[i] = Array[i] /\ Array[i] \in Cell
<1>1. Array \in Seq(Cell) /\ nodes.len \in Nat /\ nodes.len <= Len(Array) /\ Len(Array) \in Nat
  BY DEF TypeOK, Capacity, Array
<1>2. /\ Elements(nodes) \in Seq(Cell) /\ Len(Elements(nodes)) = nodes.len
      /\ \A i \in 1..nodes.len : Elements(nodes)[i] = Array[i]
  BY <1>1 DEF Elements, Array
<1>3. \A i \in 1..nodes.len : Array[i] \in Cell
  BY <1>1
<1> QED BY <1>1, <1>2, <1>3
-----------------------------------------------------------------------------
(* Steps: one request changes, and the others' broadcasts stop being quiet *)
(* if the list was written.                                                *)

Same(p, q) ==
  p.pc = q.pc /\ p.node = q.node /\ p.index = q.index /\ p.slice = q.slice /\ p.told = q.told

Step(c, r) == req' = [req EXCEPT ![c] = r] \/ req' = Wrote([req EXCEPT ![c] = r])

Others(c) == \A d \in Clients : d # c => Same(req'[d], req[d])

LEMMA WroteFields ==
  ASSUME req \in [Clients -> Request], NEW c \in Clients, NEW r \in Request,
         req' = Wrote([req EXCEPT ![c] = r])
  PROVE  /\ req' \in [Clients -> Request]
         /\ Same(req'[c], r)
         /\ Others(c)
         /\ \A d \in Clients : req'[d].pc = "cast" => ~req'[d].quiet
<1> DEFINE q == [req EXCEPT ![c] = r]
<1>1. q \in [Clients -> Request] /\ q[c] = r /\ \A d \in Clients : d # c => q[d] = req[d]
  OBVIOUS
<1>2. req' = [d \in Clients |-> [q[d] EXCEPT !.quiet = (q[d].pc # "cast")]]
  BY DEF Wrote
<1> HIDE DEF q
<1>3. ASSUME NEW d \in Clients
      PROVE  /\ req'[d] \in Request /\ Same(req'[d], q[d])
             /\ req'[d].pc = "cast" => ~req'[d].quiet
  <2>1. q[d] \in Request /\ req'[d] = [q[d] EXCEPT !.quiet = (q[d].pc # "cast")]
    BY <1>1, <1>2
  <2>2. (q[d].pc # "cast") \in BOOLEAN
    OBVIOUS
  <2>3. req'[d] \in Request /\ Same(req'[d], q[d]) /\ req'[d].quiet = (q[d].pc # "cast")
    BY <2>1, <2>2 DEF Request, Same
  <2> QED BY <2>3 DEF Same
<1>4. req' \in [Clients -> Request]
  BY <1>2, <1>3
<1> QED BY <1>1, <1>3, <1>4 DEF Same, Others

LEMMA StepFields ==
  ASSUME req \in [Clients -> Request], NEW c \in Clients, NEW r \in Request, Step(c, r)
  PROVE  /\ req' \in [Clients -> Request]
         /\ Same(req'[c], r)
         /\ Others(c)
<1>1. CASE req' = [req EXCEPT ![c] = r]
  BY <1>1 DEF Same, Others
<1>2. CASE req' = Wrote([req EXCEPT ![c] = r])
  BY <1>2, WroteFields
<1> QED BY <1>1, <1>2 DEF Step

LEMMA TypeStep ==
  ASSUME TypeInv, NEW c \in Clients, NEW r \in Request, Step(c, r), Fine(r)',
         Kept, nodes' \in Slice, Within(nodes)', count' \in 0..MaxRequests,
         serial' \in BOOLEAN, UNCHANGED topRead
  PROVE  TypeInv' /\ Same(req'[c], r) /\ Others(c)
<1>1. /\ req' \in [Clients -> Request]
      /\ Same(req'[c], r)
      /\ Others(c)
  BY StepFields DEF TypeInv, TypeOK
<1>2. nodes'.len \in 0..Capacity(nodes)'
  <2>1. nodes'.len \in Nat /\ nodes'.len <= Capacity(nodes)'
    BY DEF Slice, Within
  <2>2. Capacity(nodes)' \in Nat
    BY DEF Kept, Within, Capacity
  <2> QED BY <2>1, <2>2
<1>3. TypeOK'
  BY <1>1, <1>2 DEF TypeInv, TypeOK, Kept, Within
<1>4. ASSUME NEW d \in Clients PROVE Fine(req[d])'
  <2>1. CASE d = c
    BY <1>1, <2>1 DEF Fine, Same, Within, Capacity
  <2>2. CASE d # c
    <3>1. Fine(req[d]) /\ Same(req'[d], req[d])
      BY <1>1, <2>2 DEF TypeInv, Others
    <3>2. Within(req[d].slice) => req[d].slice.arr \in DOMAIN heap'
                                  /\ req[d].slice.len <= Len(heap'[req[d].slice.arr])
      BY DEF Kept, Within, Capacity
    <3> QED BY <3>1, <3>2 DEF Fine, Same, Within, Capacity
  <2> QED BY <2>1, <2>2
<1> QED BY <1>1, <1>3, <1>4 DEF TypeInv

LEMMA NoRequestType ==
  /\ NoRequest \in Request /\ Fine(NoRequest) /\ Fine(NoRequest)'
  /\ NoRequest.pc = "idle" /\ NoRequest.told = {}
BY DEF NoRequest, Request, Slice, Fine, Blank
-----------------------------------------------------------------------------
(* The two lookups *)

(* A set of naturals has a least element: of the intervals that end in it, *)
(* one has no other inside.                                                *)
LEMMA Least ==
  ASSUME NEW S \in SUBSET Nat, S # {}
  PROVE  \E i \in S : \A j \in S : i <= j
<1> DEFINE T == {0..i : i \in S}
           R == StrictSubsetOrdering(Nat)
<1>1. T \subseteq FiniteSubsetsOf(Nat) /\ T # {}
  <2>1. \A i \in S : 0..i \in SUBSET Nat /\ IsFiniteSet(0..i)
    BY FS_Interval
  <2> QED BY <2>1 DEF FiniteSubsetsOf
<1>2. IsWellFoundedOn(R, FiniteSubsetsOf(Nat))
  BY FS_StrictSubsetOrderingWellFounded
<1>3. \E x \in T : \A y \in T : <<y, x>> \notin R
  <2> HIDE DEF T, R
  <2> QED BY <1>1, <1>2, WFMin, Zenon
<1>4. PICK i \in S : \A j \in S : <<0..j, 0..i>> \notin R
  BY <1>3
<1>5. ASSUME NEW j \in S, j < i PROVE FALSE
  <2>1. 0..j \subseteq 0..i /\ 0..j # 0..i /\ 0..j \in SUBSET Nat /\ 0..i \in SUBSET Nat
    <3>1. i \in 0..i /\ i \notin 0..j
      BY <1>5
    <3> QED BY <3>1, <1>5
  <2> QED BY <2>1, <1>4 DEF StrictSubsetOrdering
<1> QED BY <1>5

LEMMA FindsIndex ==
  ASSUME NEW list \in Seq(Cell), NEW token \in Nat
  PROVE  LET index == FindInsertIndex(list, token)
         IN  /\ index \in 0..Len(list)
             /\ index # 0 => /\ token < list[index].eokr
                             /\ \A i \in 1..Len(list) : i < index => list[i].eokr < token
             /\ index = 0 => \/ \A i \in 1..Len(list) : list[i].eokr < token
                             \/ \E i \in 1..Len(list) : list[i].eokr = token
<1> DEFINE stops == {i \in DOMAIN list : token <= list[i].eokr}
           first == CHOOSE i \in stops : \A j \in stops : i <= j
           index == FindInsertIndex(list, token)
<1>1. DOMAIN list = 1..Len(list) /\ Len(list) \in Nat
      /\ \A i \in 1..Len(list) : list[i].eokr \in Nat
  <2>1. \A x \in Cell : x.eokr \in Nat
    BY TopAssumption DEF Cell
  <2> QED BY <2>1
<1>2. index = IF stops = {} \/ list[first].eokr = token THEN 0 ELSE first
  BY DEF FindInsertIndex
<1> HIDE DEF index
<1>3. CASE stops = {}
  <2>1. index = 0
    BY <1>2, <1>3
  <2>2. \A i \in 1..Len(list) : list[i].eokr < token
    BY <1>1, <1>3
  <2> QED BY <1>1, <2>1, <2>2 DEF index
<1>4. CASE stops # {}
  <2>1. \E i \in stops : \A j \in stops : i <= j
    <3>1. stops \in SUBSET Nat
      BY <1>1
    <3> HIDE DEF stops
    <3> QED BY <3>1, <1>4, Least
  <2>2. first \in stops /\ \A j \in stops : first <= j
    <3> HIDE DEF stops
    <3> QED BY <2>1
  <2> HIDE DEF first
  <2>3. first \in 1..Len(list) /\ token <= list[first].eokr
    BY <1>1, <2>2
  <2>4. \A i \in 1..Len(list) : i < first => list[i].eokr < token
    BY <1>1, <2>2
  <2>5. index = IF list[first].eokr = token THEN 0 ELSE first
    BY <1>2, <1>4
  <2>6. CASE list[first].eokr = token
    BY <1>1, <2>3, <2>5, <2>6 DEF index
  <2>7. CASE list[first].eokr # token
    <3>1. index = first /\ token < list[first].eokr
      BY <1>1, <2>3, <2>5, <2>7
    <3> QED BY <1>1, <2>3, <2>4, <3>1 DEF index
  <2> QED BY <2>6, <2>7
<1> QED BY <1>3, <1>4 DEF index

(* RemoveNode's loop.                                                      *)
FirstFound(node) ==
  LET found == {i \in 1..nodes.len : Elements(nodes)[i] = node}
  IN  CHOOSE i \in found : \A j \in found : i <= j

LEMMA FindsNode ==
  ASSUME TypeOK, NEW node, {i \in 1..nodes.len : Elements(nodes)[i] = node} # {}
  PROVE  FirstFound(node) \in 1..nodes.len /\ Array[FirstFound(node)] = node
<1> DEFINE found == {i \in 1..nodes.len : Elements(nodes)[i] = node}
<1>1. found \in SUBSET Nat /\ found \subseteq 1..nodes.len
  BY ListElements
<1>2. FirstFound(node) = CHOOSE i \in found : \A j \in found : i <= j
  BY DEF FirstFound
<1>3. found # {}
  OBVIOUS
<1> HIDE DEF found
<1>4. FirstFound(node) \in found
  BY <1>1, <1>2, <1>3, Least
<1> USE DEF found
<1> QED BY <1>1, <1>4, ListElements
-----------------------------------------------------------------------------
(* Types *)

LEMMA TypeFacts ==
  ASSUME TypeInv, NEW c \in Clients
  PROVE  /\ heap \in Seq(Seq(Cell)) /\ req \in [Clients -> Request] /\ req[c] \in Request
         /\ Fine(req[c]) /\ nodes \in Slice /\ Within(nodes)
         /\ count \in 0..MaxRequests /\ serial \in BOOLEAN
BY DEF TypeInv, TypeOK, Within, Slice

LEMMA ConvertedNamed ==
  ASSUME TypeOK, NEW n \in Nodes
  PROVE  Converted(n) \in Named
<1>1. n.host \in Hosts /\ n \in [host : STRING \ {NoHost}, eokr : 1..Top] /\ topRead \in 1..Top
  BY NodesAssumption, TopAssumption DEF TypeOK, Hosts
<1>2. n \in Named
  BY <1>1 DEF Named
<1>3. [n EXCEPT !.eokr = topRead] \in Named
  BY <1>1, <1>2 DEF Named
<1> QED BY <1>2, <1>3 DEF Converted

LEMMA ReceiveType ==
  ASSUME TypeInv, NEW c \in Clients, NEW node \in Named, NEW place \in {"add", "remove"},
         Receive(c, place, node)
  PROVE  /\ TypeInv' /\ Others(c)
         /\ req'[c].pc = place /\ req'[c].node = node
<1>1. PICK r \in Request : r = [req[c] EXCEPT !.pc = place, !.node = node]
  BY TypeFacts DEF Request
<1>2. Step(c, r) /\ Kept
  BY <1>1, TypeFacts, Unwritten DEF Receive, Step
<1>3. Fine(r)'
  <2>1. req[c].told = {}
    BY TypeFacts DEF Receive, Fine
  <2>2. r.pc = place /\ r.node = node /\ r.told = {}
    BY <1>1, <2>1, TypeFacts DEF Request
  <2> QED BY <2>2 DEF Fine
<1>4. count' \in 0..MaxRequests /\ serial' \in BOOLEAN
  BY TypeFacts, MaxRequestsAssumption DEF Receive
<1>5. nodes' \in Slice /\ Within(nodes)' /\ UNCHANGED topRead
  BY TypeFacts DEF Receive, Within, Capacity
<1>6. TypeInv' /\ Same(req'[c], r) /\ Others(c)
  BY <1>2, <1>3, <1>4, <1>5, TypeStep
<1>7. r.pc = place /\ r.node = node
  BY <1>1, TypeFacts DEF Request
<1> QED BY <1>6, <1>7 DEF Same

(* A step that writes neither the list nor the history.                    *)
LEMMA PlainType ==
  ASSUME TypeInv, NEW c \in Clients, NEW r \in Request, Fine(r), Step(c, r),
         UNCHANGED <<heap, nodes, count, topRead, history>>
  PROVE  TypeInv' /\ Same(req'[c], r) /\ Others(c)
<1>1. Kept /\ nodes' \in Slice /\ Within(nodes)' /\ count' \in 0..MaxRequests
      /\ serial' \in BOOLEAN /\ UNCHANGED topRead
  BY TypeFacts, Unwritten DEF Within, Capacity, history
<1>2. Fine(r)'
  BY DEF Fine, Within, Capacity
<1> QED BY <1>1, <1>2, TypeStep
(* A request that ends without a write.                                    *)
LEMMA DoneType ==
  ASSUME TypeInv, NEW c \in Clients, Done(c), UNCHANGED <<heap, nodes, count, topRead, history>>
  PROVE  TypeInv' /\ req'[c].pc = "idle" /\ Others(c)
<1>1. Step(c, NoRequest)
  BY DEF Done, Step
<1>2. TypeInv' /\ Same(req'[c], NoRequest) /\ Others(c)
  BY <1>1, NoRequestType, PlainType
<1> QED BY <1>2, NoRequestType DEF Same

LEMMA AddLookType ==
  ASSUME TypeInv, NEW c \in Clients, AddLook(c)
  PROVE  LET index == FindInsertIndex(Elements(nodes), req[c].node.eokr)
             ok == IF nodes.len = 0 THEN req[c].node.eokr = Top ELSE index # 0
         IN  /\ TypeInv' /\ Others(c)
             /\ ok => req'[c].pc = "append" /\ req'[c].node = req[c].node /\ req'[c].index = index
             /\ ~ok => req'[c].pc = "idle"
<1> DEFINE index == FindInsertIndex(Elements(nodes), req[c].node.eokr)
           ok == IF nodes.len = 0 THEN req[c].node.eokr = Top ELSE index # 0
<1>1. req[c].pc = "add" /\ UNCHANGED <<heap, nodes, count, topRead, history>>
      /\ IF ok THEN req' = [req EXCEPT ![c].pc = "append", ![c].index = index] ELSE Done(c)
  BY DEF AddLook
<1>2. index \in Nat
  <2>1. req[c].node \in Named
    BY <1>1, TypeFacts DEF Fine
  <2>2. req[c].node.eokr \in Nat
    BY <2>1, TopAssumption DEF Named
  <2>3. Elements(nodes) \in Seq(Cell) /\ Len(Elements(nodes)) = nodes.len /\ nodes.len \in Nat
    BY ListElements DEF TypeInv
  <2> QED BY <2>2, <2>3, FindsIndex
<1> HIDE DEF index
<1>3. CASE ok
  <2>1. PICK r \in Request : r = [req[c] EXCEPT !.pc = "append", !.index = index]
    BY <1>2, TypeFacts DEF Request
  <2>2. Fine(r) /\ r.pc = "append" /\ r.index = index /\ r.node = req[c].node
    BY <1>1, <2>1, TypeFacts DEF Request, Fine
  <2>3. Step(c, r)
    BY <1>1, <1>3, <2>1, TypeFacts DEF Step
  <2>4. TypeInv' /\ Same(req'[c], r) /\ Others(c)
    BY <1>1, <2>2, <2>3, PlainType
  <2> QED BY <1>3, <2>2, <2>4 DEF Same, index
<1>4. CASE ~ok
  <2>1. TypeInv' /\ req'[c].pc = "idle" /\ Others(c)
    BY <1>1, <1>4, DoneType
  <2> QED BY <1>4, <2>1 DEF index
<1> QED BY <1>3, <1>4

LEMMA AddAppendType ==
  ASSUME TypeInv, NEW c \in Clients, AddAppend(c)
  PROVE  LET x == IF req[c].index = 0 THEN req[c].node ELSE Blank
         IN  /\ TypeInv' /\ Others(c)
             /\ heap' = Appended(nodes, x).heap /\ x \in Cell
             /\ req'[c].slice = Appended(nodes, x).slice
             /\ req'[c].pc = "grow" /\ req'[c].node = req[c].node /\ req'[c].index = req[c].index
             /\ \A d \in Clients : req'[d].pc = "cast" => ~req'[d].quiet
<1> DEFINE x == IF req[c].index = 0 THEN req[c].node ELSE Blank
           slice == Appended(nodes, x).slice
<1>1. /\ req[c].pc = "append" /\ UNCHANGED <<nodes, count, topRead, history>>
      /\ heap' = Appended(nodes, x).heap
      /\ req' = Wrote([req EXCEPT ![c].pc = "grow", ![c].slice = slice])
  BY DEF AddAppend
<1>2. x \in Cell
  <2>1. req[c].node \in Named
    BY <1>1, TypeFacts DEF Fine
  <2>2. Named \subseteq Cell
    BY TopAssumption DEF Named, Cell
  <2> QED BY <2>1, <2>2, BlankCell
<1> HIDE DEF x
<1>3. /\ Kept /\ slice \in Slice /\ slice.arr \in DOMAIN heap' /\ slice.len <= Len(heap'[slice.arr])
  BY <1>1, <1>2, ArrayAppended DEF TypeInv
<1> HIDE DEF slice
<1>4. PICK r \in Request : r = [req[c] EXCEPT !.pc = "grow", !.slice = slice]
  BY <1>3, TypeFacts DEF Request
<1>5. /\ r.pc = "grow" /\ r.node = req[c].node /\ r.index = req[c].index /\ r.slice = slice
      /\ r.told = req[c].told /\ req[c].told = {} /\ req[c].node \in Named
  BY <1>1, <1>4, TypeFacts DEF Request, Fine
<1>6. Fine(r)'
  BY <1>3, <1>5 DEF Fine, Within, Capacity
<1>7. req' = Wrote([req EXCEPT ![c] = r])
  BY <1>1, <1>4, TypeFacts
<1>8. TypeInv' /\ Same(req'[c], r) /\ Others(c)
  <2>1. Step(c, r)
    BY <1>7 DEF Step
  <2>2. nodes' \in Slice /\ Within(nodes)' /\ count' \in 0..MaxRequests
        /\ serial' \in BOOLEAN /\ UNCHANGED topRead
    BY <1>1, <1>3, TypeFacts DEF Kept, Within, Capacity, history
  <2> QED BY <1>3, <1>6, <2>1, <2>2, TypeStep
<1>9. \A d \in Clients : req'[d].pc = "cast" => ~req'[d].quiet
  BY <1>7, TypeFacts, WroteFields
<1> QED BY <1>1, <1>2, <1>5, <1>8, <1>9 DEF Same, x, slice
(* A step that writes within the array of the list.                        *)
LEMMA WriteType ==
  ASSUME TypeInv, NEW c \in Clients, NEW r \in Request, Fine(r), Step(c, r),
         NEW new \in Seq(Cell), Len(new) = Len(Array), heap' = [heap EXCEPT ![nodes.arr] = new],
         UNCHANGED <<nodes, count, topRead, history>>
  PROVE  TypeInv' /\ Same(req'[c], r) /\ Others(c) /\ Array' = new
<1>1. nodes.arr \in DOMAIN heap /\ Len(new) = Len(heap[nodes.arr])
  BY DEF TypeInv, TypeOK, Array
<1>2. Kept /\ heap'[nodes.arr] = new
  BY <1>1, TypeFacts, ArrayWritten
<1>3. Fine(r)'
  BY <1>2 DEF Fine, Kept, Within, Capacity
<1>4. nodes' \in Slice /\ Within(nodes)' /\ count' \in 0..MaxRequests
      /\ serial' \in BOOLEAN /\ UNCHANGED topRead
  BY <1>2, TypeFacts DEF Kept, Within, Capacity, history
<1> QED BY <1>2, <1>3, <1>4, TypeStep DEF Array

(* A step that gives the list another slice.                               *)
LEMMA SliceType ==
  ASSUME TypeInv, NEW c \in Clients, NEW r \in Request, Fine(r), Step(c, r),
         nodes' \in Slice, nodes'.arr \in DOMAIN heap, nodes'.len <= Len(heap[nodes'.arr]),
         UNCHANGED <<heap, count, topRead, history>>
  PROVE  TypeInv' /\ Same(req'[c], r) /\ Others(c)
<1>1. Kept
  BY TypeFacts, Unwritten
<1>2. Fine(r)'
  BY DEF Fine, Within, Capacity
<1>3. Within(nodes)' /\ count' \in 0..MaxRequests /\ serial' \in BOOLEAN /\ UNCHANGED topRead
  BY TypeFacts DEF Within, Capacity, history
<1> QED BY <1>1, <1>2, <1>3, TypeStep

LEMMA AddGrowType ==
  ASSUME TypeInv, NEW c \in Clients, AddGrow(c)
  PROVE  /\ TypeInv' /\ Others(c)
         /\ req'[c].pc = IF req[c].index = 0 THEN "init" ELSE "shift"
         /\ req'[c].node = req[c].node /\ req'[c].index = req[c].index
<1> DEFINE place == IF req[c].index = 0 THEN "init" ELSE "shift"
<1>1. PICK r \in Request : r = [req[c] EXCEPT !.pc = place]
  BY TypeFacts DEF Request
<1>2. /\ r.pc = place /\ r.node = req[c].node /\ r.index = req[c].index /\ r.told = req[c].told
  BY <1>1, TypeFacts DEF Request
<1>3. Fine(r)
  BY <1>2, TypeFacts DEF AddGrow, Fine, Request
<1>4. Step(c, r)
  BY <1>1, TypeFacts DEF AddGrow, Goto, Step
<1>5. nodes' \in Slice /\ nodes'.arr \in DOMAIN heap /\ nodes'.len <= Len(heap[nodes'.arr])
  BY TypeFacts DEF AddGrow, Fine, Within, Capacity, Request
<1>6. TypeInv' /\ Same(req'[c], r) /\ Others(c)
  BY <1>3, <1>4, <1>5, SliceType DEF AddGrow
<1> QED BY <1>2, <1>6 DEF Same

(* What copy leaves in the array.                                          *)
Shifted(arr, index, n) ==
  [i \in DOMAIN arr |-> IF index < i /\ i <= n THEN arr[i - 1] ELSE arr[i]]

LEMMA ShiftedArray ==
  ASSUME NEW arr \in Seq(Cell), NEW index \in Nat \ {0}, NEW n \in 0..Len(arr)
  PROVE  Shifted(arr, index, n) \in Seq(Cell) /\ Len(Shifted(arr, index, n)) = Len(arr)
<1>1. DOMAIN arr = 1..Len(arr) /\ Len(arr) \in Nat
  OBVIOUS
<1>2. \A i \in 1..Len(arr) : (IF index < i /\ i <= n THEN arr[i - 1] ELSE arr[i]) \in Cell
  <2> TAKE i \in 1..Len(arr)
  <2>1. CASE index < i
    <3>1. i - 1 \in 1..Len(arr)
      BY <2>1, <1>1
    <3> QED BY <3>1
  <2>2. CASE ~(index < i)
    BY <2>2
  <2> QED BY <2>1, <2>2
<1> QED BY <1>1, <1>2, IsASeq DEF Shifted

LEMMA AddShiftType ==
  ASSUME TypeInv, NEW c \in Clients, AddShift(c)
  PROVE  /\ TypeInv' /\ Others(c) /\ UNCHANGED nodes
         /\ req[c].index > nodes.len => UNCHANGED heap /\ req'[c].pc = "idle"
         /\ req[c].index <= nodes.len =>
              /\ Array' = Shifted(Array, req[c].index, nodes.len)
              /\ req'[c].pc = "place" /\ req'[c].node = req[c].node
              /\ req'[c].index = req[c].index
<1>1. /\ req[c].pc = "shift" /\ UNCHANGED <<nodes, count, topRead, history>>
      /\ req[c].index \in Nat \ {0} /\ nodes.len \in 0..Len(Array) /\ Array \in Seq(Cell)
  <2>1. req[c].pc = "shift" /\ UNCHANGED <<nodes, count, topRead, history>>
    BY DEF AddShift
  <2>2. req[c].index \in Nat \ {0}
    BY <2>1, TypeFacts DEF Fine, Request
  <2>3. nodes.len \in 0..Len(Array) /\ Array \in Seq(Cell)
    BY ListElements DEF TypeInv, TypeOK, Capacity, Array
  <2> QED BY <2>1, <2>2, <2>3
<1>2. CASE req[c].index > nodes.len
  <2>1. Done(c) /\ UNCHANGED heap
    BY <1>2 DEF AddShift
  <2>2. TypeInv' /\ req'[c].pc = "idle" /\ Others(c)
    BY <1>1, <2>1, DoneType
  <2> QED BY <1>1, <1>2, <2>1, <2>2
<1>3. CASE ~(req[c].index > nodes.len)
  <2> DEFINE new == Shifted(Array, req[c].index, nodes.len)
  <2>1. heap' = [heap EXCEPT ![nodes.arr] = new] /\ req' = Wrote([req EXCEPT ![c].pc = "place"])
    BY <1>3 DEF AddShift, Shifted, Array
  <2>2. new \in Seq(Cell) /\ Len(new) = Len(Array)
    BY <1>1, ShiftedArray
  <2> HIDE DEF new
  <2>3. PICK r \in Request : r = [req[c] EXCEPT !.pc = "place"]
    BY TypeFacts DEF Request
  <2>4. /\ r.pc = "place" /\ r.node = req[c].node /\ r.index = req[c].index /\ r.told = req[c].told
    BY <2>3, TypeFacts DEF Request
  <2>5. Fine(r)
    BY <1>1, <2>4, TypeFacts DEF Fine
  <2>6. Step(c, r)
    BY <2>1, <2>3, TypeFacts DEF Step
  <2>7. TypeInv' /\ Same(req'[c], r) /\ Others(c) /\ Array' = new
    BY <1>1, <2>1, <2>2, <2>5, <2>6, WriteType
  <2> QED BY <1>1, <1>3, <2>4, <2>7 DEF Same, new
<1> QED BY <1>2, <1>3
LEMMA AddPlaceType ==
  ASSUME TypeInv, NEW c \in Clients, AddPlace(c)
  PROVE  /\ TypeInv' /\ Others(c) /\ UNCHANGED nodes
         /\ req[c].index > nodes.len => UNCHANGED heap /\ req'[c].pc = "idle"
         /\ req[c].index <= nodes.len =>
              Array' = [Array EXCEPT ![req[c].index] = req[c].node] /\ req'[c].pc = "init"
<1>1. /\ req[c].pc = "place" /\ UNCHANGED <<nodes, count, topRead, history>>
      /\ req[c].index \in Nat \ {0} /\ req[c].node \in Cell
      /\ nodes.len \in 0..Len(Array) /\ Array \in Seq(Cell) /\ Len(Array) \in Nat
  <2>1. req[c].pc = "place" /\ UNCHANGED <<nodes, count, topRead, history>>
    BY DEF AddPlace
  <2>2. req[c].index \in Nat \ {0} /\ req[c].node \in Named
    BY <2>1, TypeFacts DEF Fine, Request
  <2>3. Named \subseteq Cell
    BY TopAssumption DEF Named, Cell
  <2>4. nodes.len \in 0..Len(Array) /\ Array \in Seq(Cell) /\ Len(Array) \in Nat
    BY ListElements DEF TypeInv, TypeOK, Capacity, Array
  <2> QED BY <2>1, <2>2, <2>3, <2>4
<1>2. CASE req[c].index > nodes.len
  <2>1. Done(c) /\ UNCHANGED heap
    BY <1>2 DEF AddPlace
  <2>2. TypeInv' /\ req'[c].pc = "idle" /\ Others(c)
    BY <1>1, <2>1, DoneType
  <2> QED BY <1>1, <1>2, <2>1, <2>2
<1>3. CASE ~(req[c].index > nodes.len)
  <2> DEFINE new == [Array EXCEPT ![req[c].index] = req[c].node]
  <2>1. heap' = [heap EXCEPT ![nodes.arr] = new] /\ req' = Wrote([req EXCEPT ![c].pc = "init"])
    BY <1>3 DEF AddPlace, Array
  <2>2. new \in Seq(Cell) /\ Len(new) = Len(Array)
    <3>1. req[c].index \in 1..Len(Array)
      BY <1>1, <1>3
    <3> QED BY <1>1, <3>1, ExceptSeq
  <2> HIDE DEF new
  <2>3. PICK r \in Request : r = [req[c] EXCEPT !.pc = "init"]
    BY TypeFacts DEF Request
  <2>4. /\ r.pc = "init" /\ r.node = req[c].node /\ r.told = req[c].told
    BY <2>3, TypeFacts DEF Request
  <2>5. Fine(r)
    BY <1>1, <2>4, TypeFacts DEF Fine
  <2>6. Step(c, r)
    BY <2>1, <2>3, TypeFacts DEF Step
  <2>7. TypeInv' /\ Same(req'[c], r) /\ Others(c) /\ Array' = new
    BY <1>1, <2>1, <2>2, <2>5, <2>6, WriteType
  <2> QED BY <1>1, <1>3, <2>4, <2>7 DEF Same, new
<1> QED BY <1>2, <1>3

(* The steps of a broadcast; what CastInv says of them comes below.        *)
LEMMA BroadCastType ==
  ASSUME TypeInv, NEW c \in Clients, BroadCast(c)
  PROVE  /\ TypeInv' /\ Others(c) /\ UNCHANGED <<heap, nodes, history>>
         /\ req[c].pc \in {"init", "cast"} /\ req'[c].pc \in {"idle", "cast"}
<1>1. CASE InitNode(c)
  <2>1. PICK r \in Request : r = [req[c] EXCEPT !.pc = "cast", !.slice = nodes, !.index = 1,
                                                !.quiet = \A d \in Clients : ~Changing(d)]
    <3>1. (\A d \in Clients : ~Changing(d)) \in BOOLEAN /\ nodes \in Slice
      BY TypeFacts
    <3> QED BY <3>1, TypeFacts DEF Request
  <2>2. r.pc = "cast" /\ r.node = req[c].node /\ r.slice = nodes /\ r.index = 1
    BY <2>1, TypeFacts DEF Request
  <2>3. Fine(r)
    BY <1>1, <2>2, TypeFacts DEF InitNode, Fine, Within, Capacity
  <2>4. Step(c, r) /\ req[c].pc = "init" /\ UNCHANGED <<heap, nodes, count, topRead, history>>
    BY <1>1, <2>1, TypeFacts DEF InitNode, Step
  <2>5. TypeInv' /\ Same(req'[c], r) /\ Others(c)
    BY <2>3, <2>4, PlainType
  <2> QED BY <2>2, <2>4, <2>5 DEF Same
<1>2. CASE SendGossip(c)
  <2> DEFINE i == req[c].index
             host == heap[req[c].slice.arr][i].host
  <2>1. /\ req[c].pc = "cast" /\ i <= req[c].slice.len
        /\ UNCHANGED <<heap, nodes, count, topRead, history>>
        /\ req' = [req EXCEPT ![c].index = i + 1, ![c].told = @ \cup {host}]
    BY <1>2 DEF SendGossip
  <2>2. i \in Nat /\ i > 0 /\ req[c].told \subseteq Hosts \cup {NoHost}
        /\ Within(req[c].slice) /\ req[c].slice.len \in Nat
    BY <2>1, TypeFacts DEF Fine, Request, Slice
  <2>3. host \in Hosts \cup {NoHost}
    <3>1. heap[req[c].slice.arr] \in Seq(Cell) /\ i <= Len(heap[req[c].slice.arr])
      BY <2>1, <2>2, TypeFacts DEF Within, Capacity
    <3>2. heap[req[c].slice.arr][i] \in Cell
      BY <2>2, <3>1
    <3> QED BY <3>2 DEF Cell
  <2> HIDE DEF host, i
  <2>4. PICK r \in Request : r = [req[c] EXCEPT !.index = i + 1, !.told = @ \cup {host}]
    <3>1. PICK told \in SUBSET (Hosts \cup {NoHost}) : told = req[c].told \cup {host}
      BY <2>2, <2>3
    <3>2. req[c] \in Request /\ i + 1 \in Nat
      BY <2>2, TypeFacts
    <3>3. PICK p \in Request : p = [req[c] EXCEPT !.index = i + 1]
      BY <3>2 DEF Request
    <3>4. PICK r \in Request : r = [p EXCEPT !.told = told]
      BY DEF Request
    <3>5. p.told = req[c].told
      BY <3>2, <3>3 DEF Request
    <3>6. r = [req[c] EXCEPT !.index = i + 1, !.told = told]
      BY <3>2, <3>3, <3>4 DEF Request
    <3> QED BY <3>1, <3>6
  <2>5. r.pc = "cast" /\ r.node = req[c].node /\ r.slice = req[c].slice /\ r.index = i + 1
    BY <2>1, <2>4, TypeFacts DEF Request
  <2>6. Fine(r)
    BY <2>1, <2>2, <2>5, TypeFacts DEF Fine
  <2>7. Step(c, r)
    BY <2>1, <2>4, TypeFacts DEF Step
  <2>8. TypeInv' /\ Same(req'[c], r) /\ Others(c)
    BY <2>1, <2>6, <2>7, PlainType
  <2> QED BY <2>1, <2>5, <2>8 DEF Same
<1>3. CASE BroadCastEnds(c)
  <2>1. Done(c) /\ req[c].pc = "cast" /\ UNCHANGED <<heap, nodes, count, topRead, history>>
    BY <1>3 DEF BroadCastEnds
  <2> QED BY <2>1, DoneType
<1> QED BY <1>1, <1>2, <1>3 DEF BroadCast

LEMMA RemoveLookType ==
  ASSUME TypeInv, NEW c \in Clients, RemoveLook(c)
  PROVE  LET found == {i \in 1..nodes.len : Elements(nodes)[i] = req[c].node}
             index == FirstFound(req[c].node)
         IN  /\ TypeInv' /\ Others(c)
             /\ found = {} => req'[c].pc = "idle"
             /\ found # {} => /\ index \in 1..nodes.len /\ Array[index] = req[c].node
                              /\ req'[c].pc = IF index = nodes.len THEN "cut" ELSE "splice"
                              /\ req'[c].node = req[c].node /\ req'[c].index = index
<1> DEFINE found == {i \in 1..nodes.len : Elements(nodes)[i] = req[c].node}
           index == FirstFound(req[c].node)
           place == IF index = nodes.len THEN "cut" ELSE "splice"
<1>1. /\ req[c].pc = "remove" /\ UNCHANGED <<heap, nodes, count, topRead, history>>
      /\ IF found = {} THEN Done(c)
         ELSE req' = [req EXCEPT ![c].index = index, ![c].pc = place]
  BY DEF RemoveLook, FirstFound
<1>2. CASE found = {}
  <2>1. TypeInv' /\ req'[c].pc = "idle" /\ Others(c)
    BY <1>1, <1>2, DoneType
  <2> QED BY <1>2, <2>1
<1>3. CASE found # {}
  <2>1. index \in 1..nodes.len /\ Array[index] = req[c].node
    BY <1>3, FindsNode DEF TypeInv
  <2>2. index \in Nat \ {0}
    BY <2>1
  <2> HIDE DEF index
  <2>3. PICK r \in Request : r = [req[c] EXCEPT !.index = index, !.pc = place]
    BY <2>2, TypeFacts DEF Request
  <2>4. r.pc = place /\ r.node = req[c].node /\ r.index = index /\ r.told = req[c].told
    BY <2>3, TypeFacts DEF Request
  <2>5. Fine(r)
    BY <1>1, <2>2, <2>4, TypeFacts DEF Fine
  <2>6. Step(c, r)
    BY <1>1, <1>3, <2>3, TypeFacts DEF Step
  <2>7. TypeInv' /\ Same(req'[c], r) /\ Others(c)
    BY <1>1, <2>5, <2>6, PlainType
  <2> QED BY <1>3, <2>1, <2>4, <2>7 DEF Same, index
<1> QED BY <1>2, <1>3
LEMMA RemoveCutType ==
  ASSUME TypeInv, NEW c \in Clients, RemoveCut(c)
  PROVE  /\ TypeInv' /\ Others(c) /\ UNCHANGED heap
         /\ \/ /\ req[c].index - 1 > Capacity(nodes)
               /\ UNCHANGED nodes /\ req'[c].pc = "idle"
            \/ /\ nodes' = [nodes EXCEPT !.len = req[c].index - 1]
               /\ req'[c].pc = "extend" /\ req'[c].node = req[c].node
               /\ req'[c].index = req[c].index
               /\ \A d \in Clients : req'[d].pc = "cast" => ~req'[d].quiet
<1>1. /\ req[c].pc = "cut" /\ UNCHANGED <<heap, count, topRead, history>>
      /\ req[c].index \in Nat \ {0} /\ Capacity(nodes) \in Nat /\ nodes \in Slice
      /\ nodes.arr \in DOMAIN heap
  <2>1. req[c].pc = "cut" /\ UNCHANGED <<heap, count, topRead, history>>
    BY DEF RemoveCut
  <2>2. req[c].index \in Nat \ {0}
    BY <2>1, TypeFacts DEF Fine, Request
  <2>3. Capacity(nodes) \in Nat
    BY ListElements DEF TypeInv, TypeOK, Capacity, Array
  <2> QED BY <2>1, <2>2, <2>3, TypeFacts DEF Within
<1>2. CASE req[c].index - 1 > Capacity(nodes)
  <2>1. Done(c) /\ UNCHANGED nodes
    BY <1>2 DEF RemoveCut
  <2>2. TypeInv' /\ req'[c].pc = "idle" /\ Others(c)
    BY <1>1, <2>1, DoneType
  <2> QED BY <1>1, <1>2, <2>1, <2>2
<1>3. CASE ~(req[c].index - 1 > Capacity(nodes))
  <2>1. nodes' = [nodes EXCEPT !.len = req[c].index - 1]
        /\ req' = Wrote([req EXCEPT ![c].pc = "extend"])
    BY <1>3 DEF RemoveCut
  <2>2. PICK r \in Request : r = [req[c] EXCEPT !.pc = "extend"]
    BY TypeFacts DEF Request
  <2>3. /\ r.pc = "extend" /\ r.node = req[c].node /\ r.index = req[c].index /\ r.told = req[c].told
    BY <2>2, TypeFacts DEF Request
  <2>4. Fine(r)
    BY <1>1, <2>3, TypeFacts DEF Fine
  <2>5. req' = Wrote([req EXCEPT ![c] = r])
    BY <2>1, <2>2, TypeFacts
  <2>6. nodes' \in Slice /\ nodes'.arr \in DOMAIN heap /\ nodes'.len <= Len(heap[nodes'.arr])
    <3>1. req[c].index - 1 \in Nat /\ req[c].index - 1 <= Capacity(nodes)
      BY <1>1, <1>3
    <3>2. nodes' \in Slice /\ nodes'.arr = nodes.arr /\ nodes'.len = req[c].index - 1
      BY <1>1, <2>1, <3>1 DEF Slice
    <3> QED BY <1>1, <3>1, <3>2 DEF Capacity
  <2>7. TypeInv' /\ Same(req'[c], r) /\ Others(c)
    BY <1>1, <2>4, <2>5, <2>6, SliceType DEF Step
  <2>8. \A d \in Clients : req'[d].pc = "cast" => ~req'[d].quiet
    BY <2>5, TypeFacts, WroteFields
  <2> QED BY <1>1, <2>1, <2>3, <2>7, <2>8 DEF Same
<1> QED BY <1>2, <1>3

LEMMA RemoveExtendType ==
  ASSUME TypeInv, NEW c \in Clients, RemoveExtend(c)
  PROVE  LET before == req[c].index - 1
         IN  /\ TypeInv' /\ Others(c) /\ UNCHANGED nodes /\ req'[c].pc = "idle"
             /\ IF before \in 1..nodes.len
                THEN Array' = [Array EXCEPT ![before].eokr = req[c].node.eokr]
                ELSE UNCHANGED heap
<1> DEFINE before == req[c].index - 1
<1>1. /\ req[c].pc = "extend" /\ UNCHANGED <<nodes, count, topRead, history>>
      /\ req' = Wrote([req EXCEPT ![c] = NoRequest])
      /\ heap' = IF before \in 1..nodes.len
                 THEN [heap EXCEPT ![nodes.arr][before].eokr = req[c].node.eokr]
                 ELSE heap
  BY DEF RemoveExtend
<1>2. /\ Step(c, NoRequest) /\ NoRequest \in Request /\ Fine(NoRequest)
      /\ NoRequest.pc = "idle"
  BY <1>1, NoRequestType DEF Step
<1> HIDE DEF before
<1>3. CASE before \in 1..nodes.len
  <2> DEFINE new == [Array EXCEPT ![before].eokr = req[c].node.eokr]
  <2>1. heap' = [heap EXCEPT ![nodes.arr] = new]
    BY <1>1, <1>3 DEF Array
  <2>2. new \in Seq(Cell) /\ Len(new) = Len(Array)
    <3>1. req[c].node \in Named
      BY <1>1, TypeFacts DEF Fine
    <3>2. req[c].node.eokr \in 0..Top
      BY <3>1, TopAssumption DEF Named
    <3>3. Array \in Seq(Cell) /\ before \in 1..Len(Array)
      BY <1>3, ListElements DEF TypeInv
    <3>4. Array[before] \in Cell
      BY <3>3
    <3>5. [Array[before] EXCEPT !.eokr = req[c].node.eokr] \in Cell
      BY <3>2, <3>4 DEF Cell
    <3>6. new = [Array EXCEPT ![before] = [Array[before] EXCEPT !.eokr = req[c].node.eokr]]
      BY <3>3
    <3> HIDE DEF new
    <3> QED BY <3>3, <3>5, <3>6, ExceptSeq
  <2> HIDE DEF new
  <2>3. TypeInv' /\ Same(req'[c], NoRequest) /\ Others(c) /\ Array' = new
    BY <1>1, <1>2, <2>1, <2>2, WriteType
  <2> QED BY <1>1, <1>2, <1>3, <2>3 DEF Same, new, before
<1>4. CASE before \notin 1..nodes.len
  <2>1. UNCHANGED heap
    BY <1>1, <1>4
  <2>2. TypeInv' /\ Same(req'[c], NoRequest) /\ Others(c)
    BY <1>1, <1>2, <2>1, PlainType
  <2> QED BY <1>1, <1>2, <1>4, <2>1, <2>2 DEF Same, before
<1> QED BY <1>3, <1>4

(* What append(nodes[:index], nodes[index+1:]...) leaves in the array.     *)
Spliced(arr, index, n) ==
  [i \in DOMAIN arr |-> IF index <= i /\ i < n THEN arr[i + 1] ELSE arr[i]]

LEMMA SplicedArray ==
  ASSUME NEW arr \in Seq(Cell), NEW index \in Nat, NEW n \in 0..Len(arr)
  PROVE  Spliced(arr, index, n) \in Seq(Cell) /\ Len(Spliced(arr, index, n)) = Len(arr)
<1>1. DOMAIN arr = 1..Len(arr) /\ Len(arr) \in Nat
  OBVIOUS
<1>2. \A i \in 1..Len(arr) : (IF index <= i /\ i < n THEN arr[i + 1] ELSE arr[i]) \in Cell
  <2> TAKE i \in 1..Len(arr)
  <2>1. CASE i < n
    <3>1. i + 1 \in 1..Len(arr)
      BY <2>1, <1>1
    <3> QED BY <3>1
  <2>2. CASE ~(i < n)
    BY <2>2
  <2> QED BY <2>1, <2>2
<1> QED BY <1>1, <1>2, IsASeq DEF Spliced

LEMMA RemoveSpliceType ==
  ASSUME TypeInv, NEW c \in Clients, RemoveSplice(c)
  PROVE  /\ TypeInv' /\ Others(c) /\ UNCHANGED nodes
         /\ \/ req[c].index > nodes.len /\ UNCHANGED heap /\ req'[c].pc = "idle"
            \/ /\ req[c].index <= nodes.len
               /\ Array' = Spliced(Array, req[c].index, nodes.len)
               /\ req'[c].pc = "shrink" /\ req'[c].node = req[c].node
               /\ req'[c].slice = [nodes EXCEPT !.len = @ - 1]
               /\ \A d \in Clients : req'[d].pc = "cast" => ~req'[d].quiet
<1>1. /\ req[c].pc = "splice" /\ UNCHANGED <<nodes, count, topRead, history>>
      /\ req[c].index \in Nat \ {0} /\ nodes.len \in 0..Len(Array) /\ Array \in Seq(Cell)
      /\ nodes \in Slice /\ nodes.arr \in DOMAIN heap
  <2>1. req[c].pc = "splice" /\ UNCHANGED <<nodes, count, topRead, history>>
    BY DEF RemoveSplice
  <2>2. req[c].index \in Nat \ {0}
    BY <2>1, TypeFacts DEF Fine, Request
  <2>3. nodes.len \in 0..Len(Array) /\ Array \in Seq(Cell)
    BY ListElements DEF TypeInv, TypeOK, Capacity, Array
  <2> QED BY <2>1, <2>2, <2>3, TypeFacts DEF Within
<1>2. CASE req[c].index > nodes.len
  <2>1. Done(c) /\ UNCHANGED heap
    BY <1>2 DEF RemoveSplice
  <2>2. TypeInv' /\ req'[c].pc = "idle" /\ Others(c)
    BY <1>1, <2>1, DoneType
  <2> QED BY <1>1, <1>2, <2>1, <2>2
<1>3. CASE ~(req[c].index > nodes.len)
  <2> DEFINE new == Spliced(Array, req[c].index, nodes.len)
             slice == [nodes EXCEPT !.len = @ - 1]
  <2>1. heap' = [heap EXCEPT ![nodes.arr] = new]
        /\ req' = Wrote([req EXCEPT ![c].pc = "shrink", ![c].slice = slice])
    BY <1>3 DEF RemoveSplice, Spliced, Array
  <2>2. new \in Seq(Cell) /\ Len(new) = Len(Array)
    BY <1>1, SplicedArray
  <2> HIDE DEF new
  <2>3. slice \in Slice /\ slice.arr = nodes.arr /\ slice.len <= Capacity(nodes)
    <3>1. nodes.len - 1 \in Nat /\ nodes.len - 1 <= Capacity(nodes)
      BY <1>1, <1>3 DEF Array, Capacity
    <3> QED BY <1>1, <3>1 DEF Slice
  <2>4. slice = [nodes EXCEPT !.len = @ - 1]
    OBVIOUS
  <2> HIDE DEF slice
  <2>5. PICK r \in Request : r = [req[c] EXCEPT !.pc = "shrink", !.slice = slice]
    BY <2>3, TypeFacts DEF Request
  <2>6. r.pc = "shrink" /\ r.node = req[c].node /\ r.slice = slice /\ r.told = req[c].told
    BY <2>5, TypeFacts DEF Request
  <2>7. Fine(r)
    BY <1>1, <2>3, <2>6, TypeFacts DEF Fine, Within, Capacity
  <2>8. req' = Wrote([req EXCEPT ![c] = r])
    BY <2>1, <2>5, TypeFacts
  <2>9. TypeInv' /\ Same(req'[c], r) /\ Others(c) /\ Array' = new
    <3>1. Step(c, r)
      BY <2>8 DEF Step
    <3> QED BY <1>1, <2>1, <2>2, <2>7, <3>1, WriteType
  <2>10. \A d \in Clients : req'[d].pc = "cast" => ~req'[d].quiet
    BY <2>8, TypeFacts, WroteFields
  <2>11. req[c].index <= nodes.len
    BY <1>1, <1>3
  <2> QED BY <1>1, <2>4, <2>6, <2>9, <2>10, <2>11 DEF Same, new
<1> QED BY <1>2, <1>3

LEMMA RemoveShrinkType ==
  ASSUME TypeInv, NEW c \in Clients, RemoveShrink(c)
  PROVE  TypeInv' /\ Others(c) /\ req'[c].pc = "idle"
<1>1. /\ req[c].pc = "shrink" /\ nodes' = req[c].slice
      /\ UNCHANGED <<heap, count, topRead, history>>
  BY DEF RemoveShrink
<1>2. Step(c, NoRequest)
  BY DEF RemoveShrink, Done, Step
<1>3. nodes' \in Slice /\ nodes'.arr \in DOMAIN heap /\ nodes'.len <= Len(heap[nodes'.arr])
  BY <1>1, TypeFacts DEF Fine, Within, Capacity, Request
<1>4. TypeInv' /\ Same(req'[c], NoRequest) /\ Others(c)
  BY <1>1, <1>2, <1>3, NoRequestType, SliceType
<1> QED BY <1>4, NoRequestType DEF Same

LEMMA TypeNext ==
  ASSUME TypeInv, Next
  PROVE  TypeInv'
<1>1. PICK c \in Clients : \/ \E n \in Nodes : PostNode(c, Converted(n)) \/ DeleteNode(c, Converted(n))
                           \/ Add(c) \/ BroadCast(c) \/ Remove(c)
  BY DEF Next
<1>2. ASSUME NEW n \in Nodes, PostNode(c, Converted(n)) \/ DeleteNode(c, Converted(n))
      PROVE  TypeInv'
  <2>1. Converted(n) \in Named
    BY ConvertedNamed DEF TypeInv
  <2> QED BY <1>2, <2>1, ReceiveType DEF PostNode, DeleteNode
<1>3. CASE Add(c)
  BY <1>3, AddLookType, AddAppendType, AddGrowType, AddShiftType, AddPlaceType DEF Add
<1>4. CASE BroadCast(c)
  BY <1>4, BroadCastType
<1>5. CASE Remove(c)
  BY <1>5, RemoveLookType, RemoveCutType, RemoveExtendType, RemoveSpliceType, RemoveShrinkType
     DEF Remove
<1> QED BY <1>1, <1>2, <1>3, <1>4, <1>5

LEMMA TypeStutters ==
  ASSUME TypeInv, UNCHANGED vars
  PROVE  TypeInv'
BY DEF vars, history, TypeInv, TypeOK, Fine, Within, Capacity

LEMMA TypeInit ==
  ASSUME Init
  PROVE  TypeInv
<1>1. heap \in Seq(Seq(Cell)) /\ heap[1] = << >> /\ Len(heap) = 1
  <2>1. << >> \in Seq(Cell)
    OBVIOUS
  <2> QED BY <2>1 DEF Init
<1>2. nodes \in Slice /\ nodes.arr \in DOMAIN heap /\ nodes.len \in 0..Capacity(nodes)
  BY <1>1 DEF Init, Slice, Capacity
<1>3. req \in [Clients -> Request] /\ \A c \in Clients : Fine(req[c])
  BY NoRequestType DEF Init
<1>4. count \in 0..MaxRequests /\ topRead \in TopReads /\ serial \in BOOLEAN
  BY MaxRequestsAssumption DEF Init
<1> QED BY <1>1, <1>2, <1>3, <1>4 DEF TypeInv, TypeOK

-----------------------------------------------------------------------------
(* The list *)

(* What is said of a list is said of its first n elements alone.           *)
LEMMA Alike ==
  ASSUME NEW n \in Nat, NEW p, NEW q, \A i \in 1..n : p[i] = q[i]
  PROVE  /\ Good(p, n) <=> Good(q, n)
         /\ Cells(p, n) = Cells(q, n)
         /\ \A node, index : Belongs(node, index, p, n) <=> Belongs(node, index, q, n)
<1>1. Ordered(p, n) <=> Ordered(q, n)
  BY DEF Ordered
<1>2. Good(p, n) <=> Good(q, n)
  BY <1>1 DEF Good
<1>3. Cells(p, n) = Cells(q, n)
  BY DEF Cells
<1>4. ASSUME NEW node, NEW index
      PROVE  Belongs(node, index, p, n) <=> Belongs(node, index, q, n)
  BY DEF Belongs
<1> QED BY <1>2, <1>3, <1>4

(* AddNode accepts a node just when the history does.                      *)
LEMMA LookAccepts ==
  ASSUME NEW list \in Seq(Cell), Good(list, Len(list)), NEW node \in Named
  PROVE  LET n == Len(list)
             index == FindInsertIndex(list, node.eokr)
             ok == IF n = 0 THEN node.eokr = Top ELSE index # 0
         IN  /\ ok => /\ Belongs(node, index, list, n)
                      /\ With(Cells(list, n), node) = Cells(list, n) \cup {node}
             /\ ~ok => With(Cells(list, n), node) = Cells(list, n)
<1> DEFINE n == Len(list)
           index == FindInsertIndex(list, node.eokr)
           ok == IF n = 0 THEN node.eokr = Top ELSE index # 0
<1>1. /\ node.eokr \in Nat /\ n \in Nat
      /\ \A i \in 1..n : list[i].eokr \in Nat
  <2>1. \A x \in Cell : x.eokr \in Nat
    BY TopAssumption DEF Cell
  <2>2. \A x \in Named : x.eokr \in Nat
    BY TopAssumption DEF Named
  <2> QED BY <2>1, <2>2
<1>2. /\ index \in 0..n
      /\ index # 0 => /\ node.eokr < list[index].eokr
                      /\ \A i \in 1..n : i < index => list[i].eokr < node.eokr
      /\ index = 0 => \/ \A i \in 1..n : list[i].eokr < node.eokr
                      \/ \E i \in 1..n : list[i].eokr = node.eokr
  BY <1>1, FindsIndex
<1> HIDE DEF index
<1>3. \A i, j \in 1..n : i < j => list[i].eokr < list[j].eokr
  BY DEF Good, Ordered
<1>4. CASE n = 0
  <2>1. Cells(list, n) = {}
    BY <1>4 DEF Cells
  <2>2. index = 0
    BY <1>2, <1>4
  <2> QED BY <1>4, <2>1, <2>2 DEF Belongs, With, Accepts, index
<1>5. CASE n # 0 /\ index # 0
  <2>1. index \in 1..n /\ node.eokr < list[index].eokr
        /\ \A i \in 1..n : i < index => list[i].eokr < node.eokr
    BY <1>2, <1>5
  <2>2. \A i \in 1..n : list[i].eokr # node.eokr
    <3> TAKE i \in 1..n
    <3>1. i < index \/ i = index \/ index < i
      BY <2>1
    <3>2. index < i => list[index].eokr < list[i].eokr
      BY <1>3, <2>1
    <3> QED BY <1>1, <2>1, <3>1, <3>2
  <2>3. Accepts(Cells(list, n), node)
    BY <2>1, <2>2 DEF Accepts, Cells
  <2> QED BY <1>5, <2>1, <2>3 DEF Belongs, With, index
<1>6. CASE n # 0 /\ index = 0
  <2>1. Cells(list, n) # {}
    <3>1. 1 \in 1..n
      BY <1>1, <1>6
    <3>2. list[1] \in Cells(list, n)
      BY <3>1 DEF Cells
    <3> QED BY <3>2
  <2>2. ~Accepts(Cells(list, n), node)
    <3>1. CASE \A i \in 1..n : list[i].eokr < node.eokr
      <4>1. \A i \in 1..n : ~(node.eokr < list[i].eokr)
        BY <1>1, <3>1
      <4> QED BY <2>1, <4>1 DEF Accepts, Cells
    <3>2. CASE \E i \in 1..n : list[i].eokr = node.eokr
      BY <2>1, <3>2 DEF Accepts, Cells
    <3> QED BY <1>2, <1>6, <3>1, <3>2
  <2> QED BY <1>6, <2>2 DEF With, index
<1> QED BY <1>4, <1>5, <1>6

(* Copying the elements from the index on one place up leaves a gap there. *)
LEMMA ShiftOpensGap ==
  ASSUME NEW arr \in Seq(Cell), NEW n \in 2..Len(arr), NEW node \in Named,
         NEW index \in Nat \ {0}, Good(arr, n - 1), Belongs(node, index, arr, n - 1)
  PROVE  LET new == Shifted(arr, index, n)
         IN  /\ index \in 1..(n - 1)
             /\ \A i, j \in 1..n \ {index} : i < j => new[i].eokr < new[j].eokr
             /\ \A i \in 1..n : (i < index => new[i].eokr < node.eokr)
                                /\ (i > index => node.eokr < new[i].eokr)
             /\ new[n].eokr = Top
             /\ Cells(arr, n - 1) = {new[i] : i \in 1..n \ {index}}
<1> DEFINE new == Shifted(arr, index, n)
<1>1. /\ n - 1 \in Nat /\ n \in Nat /\ n - 1 > 0
      /\ \A i \in 1..n : arr[i].eokr \in Nat /\ i \in DOMAIN arr
      /\ node.eokr \in Nat
  <2>1. \A x \in Cell : x.eokr \in Nat
    BY TopAssumption DEF Cell
  <2>2. \A x \in Named : x.eokr \in Nat
    BY TopAssumption DEF Named
  <2> QED BY <2>1, <2>2
<1>2. /\ \A i \in 1..n : i <= index => new[i] = arr[i]
      /\ \A i \in 1..n : index < i => new[i] = arr[i - 1]
  BY <1>1 DEF Shifted
<1> HIDE DEF new
<1>3. /\ index \in 1..(n - 1)
      /\ \A i \in 1..(n - 1) : i < index => arr[i].eokr < node.eokr
      /\ node.eokr < arr[index].eokr
      /\ \A i, j \in 1..(n - 1) : i < j => arr[i].eokr < arr[j].eokr
      /\ arr[n - 1].eokr = Top
  BY <1>1 DEF Belongs, Good, Ordered
<1>4. ASSUME NEW i \in 1..n, i > index PROVE node.eokr < new[i].eokr
  <2>1. new[i] = arr[i - 1] /\ i - 1 \in 1..(n - 1) /\ index <= i - 1
    BY <1>2, <1>3, <1>4
  <2>2. index = i - 1 \/ arr[index].eokr < arr[i - 1].eokr
    BY <1>3, <2>1
  <2>3. arr[i - 1].eokr \in Nat /\ arr[index].eokr \in Nat
    BY <1>1, <1>3, <2>1
  <2> QED BY <1>1, <1>3, <2>1, <2>2, <2>3
<1>5. ASSUME NEW i \in 1..n, i < index PROVE new[i].eokr < node.eokr
  BY <1>1, <1>2, <1>3, <1>5
<1>6. ASSUME NEW i \in 1..n \ {index}, NEW j \in 1..n \ {index}, i < j
      PROVE  new[i].eokr < new[j].eokr
  <2>1. CASE j < index
    BY <1>1, <1>2, <1>3, <1>6, <2>1
  <2>2. CASE index < i
    <3>1. new[i] = arr[i - 1] /\ new[j] = arr[j - 1] /\ index < j
      BY <1>2, <1>3, <1>6, <2>2
    <3>2. i - 1 \in 1..(n - 1) /\ j - 1 \in 1..(n - 1) /\ i - 1 < j - 1
      BY <1>1, <1>3, <1>6, <2>2
    <3> QED BY <1>3, <3>1, <3>2
  <2>3. CASE i < index /\ index < j
    <3>1. new[i].eokr < node.eokr /\ node.eokr < new[j].eokr
      BY <1>4, <1>5, <2>3
    <3>2. new[i].eokr \in Nat /\ new[j].eokr \in Nat
      <4>1. new[i] = arr[i] /\ new[j] = arr[j - 1] /\ j - 1 \in 1..n
        BY <1>2, <1>3, <2>3
      <4> QED BY <1>1, <4>1
    <3> QED BY <1>1, <3>1, <3>2
  <2> QED BY <1>3, <1>6, <2>1, <2>2, <2>3
<1>7. new[n].eokr = Top
  BY <1>1, <1>2, <1>3
<1>8. Cells(arr, n - 1) = {new[i] : i \in 1..n \ {index}}
  <2>1. ASSUME NEW j \in 1..(n - 1) PROVE \E i \in 1..n \ {index} : arr[j] = new[i]
    <3>1. CASE j < index
      BY <1>1, <1>2, <1>3, <3>1
    <3>2. CASE index <= j
      <4>1. j + 1 \in 1..n \ {index} /\ index < j + 1 /\ j + 1 - 1 = j
        BY <1>1, <1>3, <3>2
      <4>2. new[j + 1] = arr[j]
        BY <1>2, <4>1
      <4> QED BY <4>1, <4>2
    <3> QED BY <1>3, <3>1, <3>2
  <2>2. ASSUME NEW i \in 1..n \ {index} PROVE \E j \in 1..(n - 1) : new[i] = arr[j]
    <3>1. CASE i < index
      BY <1>1, <1>2, <1>3, <3>1
    <3>2. CASE index < i
      <4>1. i - 1 \in 1..(n - 1) /\ new[i] = arr[i - 1]
        BY <1>1, <1>2, <1>3, <3>2
      <4> QED BY <4>1
    <3> QED BY <1>3, <3>1, <3>2
  <2>3. Cells(arr, n - 1) \subseteq {new[i] : i \in 1..n \ {index}}
    BY <2>1 DEF Cells
  <2>4. {new[i] : i \in 1..n \ {index}} \subseteq Cells(arr, n - 1)
    BY <2>2 DEF Cells
  <2> QED BY <2>3, <2>4
<1> QED BY <1>3, <1>4, <1>5, <1>6, <1>7, <1>8 DEF new

(* The node closes the gap.                                                *)
LEMMA PlaceFillsGap ==
  ASSUME NEW arr \in Seq(Cell), NEW n \in 2..Len(arr), NEW node, NEW index \in 1..(n - 1),
         \A i, j \in 1..n \ {index} : i < j => arr[i].eokr < arr[j].eokr,
         \A i \in 1..n : (i < index => arr[i].eokr < node.eokr)
                         /\ (i > index => node.eokr < arr[i].eokr),
         arr[n].eokr = Top
  PROVE  LET new == [arr EXCEPT ![index] = node]
         IN  Good(new, n) /\ Cells(new, n) = {arr[i] : i \in 1..n \ {index}} \cup {node}
<1> DEFINE new == [arr EXCEPT ![index] = node]
<1>1. /\ new[index] = node
      /\ \A i \in 1..n \ {index} : new[i] = arr[i]
      /\ n \in Nat /\ index \in 1..n /\ n # index
  OBVIOUS
<1> HIDE DEF new
<1>2. ASSUME NEW i \in 1..n, NEW j \in 1..n, i < j PROVE new[i].eokr < new[j].eokr
  <2>1. CASE i = index
    BY <1>1, <1>2, <2>1
  <2>2. CASE j = index
    BY <1>1, <1>2, <2>2
  <2>3. CASE i # index /\ j # index
    BY <1>1, <1>2, <2>3
  <2> QED BY <2>1, <2>2, <2>3
<1>3. new[n].eokr = Top
  BY <1>1
<1>4. Cells(new, n) = {arr[i] : i \in 1..n \ {index}} \cup {node}
  <2>1. Cells(new, n) \subseteq {arr[i] : i \in 1..n \ {index}} \cup {node}
    BY <1>1 DEF Cells
  <2>2. {arr[i] : i \in 1..n \ {index}} \cup {node} \subseteq Cells(new, n)
    BY <1>1 DEF Cells
  <2> QED BY <2>1, <2>2
<1> QED BY <1>2, <1>3, <1>4 DEF Good, Ordered, new

(* Tokens tell the elements of a list apart.                               *)
LEMMA Apart ==
  ASSUME NEW arr \in Seq(Cell), NEW n \in 0..Len(arr), Ordered(arr, n),
         NEW i \in 1..n, NEW j \in 1..n, i # j
  PROVE  arr[i].eokr # arr[j].eokr
<1>1. arr[i].eokr \in Nat /\ arr[j].eokr \in Nat
  <2>1. \A x \in Cell : x.eokr \in Nat
    BY TopAssumption DEF Cell
  <2> QED BY <2>1
<1>2. i < j \/ j < i
  OBVIOUS
<1> QED BY <1>1, <1>2 DEF Ordered

LEMMA WithoutMiddle ==
  ASSUME NEW arr \in Seq(Cell), NEW n \in 0..Len(arr), Good(arr, n), NEW index \in 1..(n - 1)
  PROVE  Without(Cells(arr, n), arr[index]) = Cells(arr, n) \ {arr[index]}
<1>1. index \in 1..n /\ n \in 1..n /\ index < n
  OBVIOUS
<1>2. arr[n].eokr \in Nat /\ arr[index].eokr \in Nat /\ arr[index].eokr < arr[n].eokr
  <2>1. \A x \in Cell : x.eokr \in Nat
    BY TopAssumption DEF Cell
  <2> QED BY <1>1, <2>1 DEF Good, Ordered
<1>3. arr[n] \in Cells(arr, n)
  BY <1>1 DEF Cells
<1>4. ~IsLast(Cells(arr, n), arr[index])
  BY <1>2, <1>3 DEF IsLast
<1> QED BY <1>4 DEF Without

(* Without its last node a list has lost its top, and the new last one is  *)
(* to have it.                                                             *)
LEMMA WithoutLast ==
  ASSUME NEW arr \in Seq(Cell), NEW n \in 1..Len(arr), Good(arr, n)
  PROVE  /\ Ordered(arr, n - 1)
         /\ \A i \in 1..(n - 1) : arr[i].eokr < Top
         /\ Without(Cells(arr, n), arr[n])
              = {IF i = n - 1 THEN [arr[i] EXCEPT !.eokr = Top] ELSE arr[i] : i \in 1..(n - 1)}
<1> DEFINE rest == Cells(arr, n - 1)
           Raised(m) == IF IsLast(rest, m) THEN [m EXCEPT !.eokr = Top] ELSE m
<1>1. /\ n \in 1..n /\ n \in Nat /\ n - 1 \in Nat
      /\ \A i \in 1..n : arr[i].eokr \in Nat
      /\ \A i \in 1..(n - 1) : i \in 1..n /\ i < n
  <2>1. \A x \in Cell : x.eokr \in Nat
    BY TopAssumption DEF Cell
  <2> QED BY <2>1
<1>2. \A i, j \in 1..n : i < j => arr[i].eokr < arr[j].eokr
  BY DEF Good, Ordered
<1>3. arr[n].eokr = Top
  BY DEF Good
<1>4. \A i \in 1..(n - 1) : arr[i].eokr < Top
  BY <1>1, <1>2, <1>3
<1>5. Cells(arr, n) \ {arr[n]} = rest
  <2>1. \A i \in 1..(n - 1) : arr[i] # arr[n]
    BY <1>1, <1>3, <1>4, TopAssumption
  <2>2. \A i \in 1..n : i = n \/ i \in 1..(n - 1)
    OBVIOUS
  <2>3. rest \subseteq Cells(arr, n) \ {arr[n]}
    BY <1>1, <2>1 DEF Cells
  <2>4. Cells(arr, n) \ {arr[n]} \subseteq rest
    BY <2>2 DEF Cells
  <2> QED BY <2>3, <2>4
<1>6. arr[n] \in Cells(arr, n) /\ IsLast(Cells(arr, n), arr[n])
  <2>1. \A i \in 1..n : arr[i].eokr <= arr[n].eokr
    <3> TAKE i \in 1..n
    <3>1. i = n \/ i < n
      OBVIOUS
    <3> QED BY <1>1, <1>2, <3>1
  <2> QED BY <1>1, <2>1 DEF Cells, IsLast
<1>7. Without(Cells(arr, n), arr[n]) = {Raised(m) : m \in rest}
  BY <1>3, <1>5, <1>6 DEF Without
<1>8. \A i \in 1..(n - 1) : IsLast(rest, arr[i]) <=> i = n - 1
  <2> TAKE i \in 1..(n - 1)
  <2>1. CASE i = n - 1
    <3>1. \A j \in 1..(n - 1) : arr[j].eokr <= arr[i].eokr
      <4> TAKE j \in 1..(n - 1)
      <4>1. j = i \/ j < i
        BY <2>1
      <4> QED BY <1>1, <1>2, <4>1
    <3> QED BY <2>1, <3>1 DEF IsLast, Cells
  <2>2. CASE i # n - 1
    <3>1. n - 1 \in 1..(n - 1) /\ i < n - 1
      BY <1>1, <2>2
    <3>2. arr[i].eokr < arr[n - 1].eokr /\ arr[i].eokr \in Nat /\ arr[n - 1].eokr \in Nat
      BY <1>1, <1>2, <3>1
    <3>3. arr[n - 1] \in rest
      BY <3>1 DEF Cells
    <3>4. ~(arr[n - 1].eokr <= arr[i].eokr)
      BY <3>2
    <3> QED BY <2>2, <3>3, <3>4 DEF IsLast
  <2> QED BY <2>1, <2>2
<1>9. {Raised(m) : m \in rest} = {Raised(arr[i]) : i \in 1..(n - 1)}
  <2> HIDE DEF Raised
  <2> QED BY DEF Cells
<1>10. \A i \in 1..(n - 1) :
         Raised(arr[i]) = IF i = n - 1 THEN [arr[i] EXCEPT !.eokr = Top] ELSE arr[i]
  BY <1>8
<1>11. {Raised(arr[i]) : i \in 1..(n - 1)}
         = {IF i = n - 1 THEN [arr[i] EXCEPT !.eokr = Top] ELSE arr[i] : i \in 1..(n - 1)}
  <2> HIDE DEF Raised, rest
  <2> QED BY <1>10
<1>12. Ordered(arr, n - 1)
  BY <1>1, <1>2 DEF Ordered
<1> QED BY <1>4, <1>7, <1>9, <1>11, <1>12

(* The one before a removed last node takes its token.                     *)
LEMMA RaisesLast ==
  ASSUME NEW arr \in Seq(Cell), NEW n \in 0..Len(arr), Ordered(arr, n),
         \A i \in 1..n : arr[i].eokr < Top, n > 0
  PROVE  LET new == [arr EXCEPT ![n].eokr = Top]
         IN  /\ Good(new, n)
             /\ Cells(new, n)
                  = {IF i = n THEN [arr[i] EXCEPT !.eokr = Top] ELSE arr[i] : i \in 1..n}
<1> DEFINE new == [arr EXCEPT ![n].eokr = Top]
<1>1. /\ n \in 1..n /\ n \in DOMAIN arr /\ n \in Nat
      /\ \A i \in 1..n : arr[i] \in Cell /\ i \in DOMAIN arr
  OBVIOUS
<1>2. \A i \in 1..n : new[i] = IF i = n THEN [arr[i] EXCEPT !.eokr = Top] ELSE arr[i]
  BY <1>1
<1>3. [arr[n] EXCEPT !.eokr = Top].eokr = Top
  BY <1>1 DEF Cell
<1> HIDE DEF new
<1>4. new[n].eokr = Top
  BY <1>1, <1>2, <1>3
<1>5. ASSUME NEW i \in 1..n, NEW j \in 1..n, i < j PROVE new[i].eokr < new[j].eokr
  <2>1. i # n /\ new[i] = arr[i]
    <3>1. i # n
      BY <1>1, <1>5
    <3> QED BY <1>2, <3>1
  <2>2. CASE j = n
    BY <1>4, <2>1, <2>2
  <2>3. CASE j # n
    BY <1>2, <1>5, <2>1, <2>3 DEF Ordered
  <2> QED BY <2>2, <2>3
<1>6. Cells(new, n) = {IF i = n THEN [arr[i] EXCEPT !.eokr = Top] ELSE arr[i] : i \in 1..n}
  BY <1>2 DEF Cells
<1> QED BY <1>4, <1>5, <1>6 DEF Good, Ordered, new

(* Moving the elements after the index down closes the gap.                *)
LEMMA SpliceDrops ==
  ASSUME NEW arr \in Seq(Cell), NEW n \in 0..Len(arr), Good(arr, n), NEW index \in 1..(n - 1)
  PROVE  LET new == Spliced(arr, index, n)
         IN  Good(new, n - 1) /\ Cells(new, n - 1) = Cells(arr, n) \ {arr[index]}
<1> DEFINE new == Spliced(arr, index, n)
<1>1. /\ n \in 1..n /\ n - 1 \in 1..(n - 1) /\ index \in 1..n /\ index < n
      /\ \A i \in 1..n : i \in DOMAIN arr
  OBVIOUS
<1>2. /\ \A i \in 1..(n - 1) : i < index => new[i] = arr[i]
      /\ \A i \in 1..(n - 1) : index <= i => new[i] = arr[i + 1]
  BY <1>1 DEF Spliced
<1> HIDE DEF new
<1>3. \A i, j \in 1..n : i < j => arr[i].eokr < arr[j].eokr
  BY DEF Good, Ordered
<1>4. ASSUME NEW i \in 1..(n - 1), NEW j \in 1..(n - 1), i < j
      PROVE  new[i].eokr < new[j].eokr
  <2>1. CASE j < index
    BY <1>2, <1>3, <1>4, <2>1
  <2>2. CASE i < index /\ index <= j
    <3>1. new[i] = arr[i] /\ new[j] = arr[j + 1] /\ i \in 1..n /\ j + 1 \in 1..n /\ i < j + 1
      BY <1>2, <2>2
    <3> QED BY <1>3, <3>1
  <2>3. CASE index <= i
    <3>1. new[i] = arr[i + 1] /\ new[j] = arr[j + 1]
      BY <1>2, <1>4, <2>3
    <3>2. i + 1 \in 1..n /\ j + 1 \in 1..n /\ i + 1 < j + 1
      BY <1>4
    <3> QED BY <1>3, <3>1, <3>2
  <2> QED BY <1>4, <2>1, <2>2, <2>3
<1>5. new[n - 1].eokr = Top
  <2>1. new[n - 1] = arr[n]
    BY <1>1, <1>2
  <2> QED BY <1>1, <2>1 DEF Good
<1>6. \A i \in 1..n : i # index => arr[i] # arr[index]
  <2>1. Ordered(arr, n)
    BY DEF Good
  <2> QED BY <1>1, <2>1, Apart
<1>7. Cells(new, n - 1) \subseteq Cells(arr, n) \ {arr[index]}
  <2>1. ASSUME NEW i \in 1..(n - 1)
        PROVE  \E j \in 1..n : j # index /\ new[i] = arr[j]
    <3>1. CASE i < index
      BY <1>2, <3>1
    <3>2. CASE index <= i
      <4>1. i + 1 \in 1..n /\ i + 1 # index /\ new[i] = arr[i + 1]
        BY <1>2, <3>2
      <4> QED BY <4>1
    <3> QED BY <3>1, <3>2
  <2> QED BY <1>6, <2>1 DEF Cells
<1>8. Cells(arr, n) \ {arr[index]} \subseteq Cells(new, n - 1)
  <2>1. ASSUME NEW j \in 1..n, j # index
        PROVE  \E i \in 1..(n - 1) : arr[j] = new[i]
    <3>1. CASE j < index
      <4>1. j \in 1..(n - 1)
        BY <1>1, <3>1
      <4> QED BY <1>2, <3>1, <4>1
    <3>2. CASE index < j
      <4>1. j - 1 \in 1..(n - 1) /\ index <= j - 1 /\ j - 1 + 1 = j
        BY <1>1, <3>2
      <4> QED BY <1>2, <4>1
    <3> QED BY <2>1, <3>1, <3>2
  <2> QED BY <2>1 DEF Cells
<1> QED BY <1>1, <1>4, <1>5, <1>7, <1>8 DEF Good, Ordered, new

-----------------------------------------------------------------------------
(* One call at a time *)

(* A step of the call that changes the list: it goes on, or the list is    *)
(* what was asked for.                                                     *)
LEMMA SerialStep ==
  ASSUME SerialInv, NEW c \in Clients, Changing(c), Others(c), UNCHANGED serial,
         serial => IF Changing(c)' THEN Progress(c)' ELSE Listed'
  PROVE  SerialInv'
<1> SUFFICES ASSUME serial
             PROVE  /\ \A d, e \in Clients : Changing(d)' /\ Changing(e)' => d = e
                    /\ (\A d \in Clients : ~Changing(d)') => Listed'
                    /\ \A d \in Clients : Changing(d)' => Progress(d)'
  BY DEF SerialInv
<1>1. \A d \in Clients : d # c => ~Changing(d)'
  <2> TAKE d \in Clients
  <2>1. d # c => ~Changing(d)
    BY DEF SerialInv
  <2> QED BY <2>1 DEF Others, Same, Changing
<1> QED BY <1>1

(* A step of a broadcast.                                                  *)
LEMMA AsideStep ==
  ASSUME SerialInv, NEW c \in Clients, ~Changing(c), ~Changing(c)', Others(c),
         UNCHANGED <<heap, nodes, history>>
  PROVE  SerialInv'
<1>1. \A d \in Clients : d # c => /\ req'[d].pc = req[d].pc /\ req'[d].node = req[d].node
                                  /\ req'[d].index = req[d].index
                                  /\ req'[d].slice = req[d].slice
  BY DEF Others, Same
<1>2. \A d \in Clients : Changing(d)' <=> Changing(d)
  BY <1>1 DEF Changing
<1>3. UNCHANGED <<heap, nodes, members, serial>>
  BY DEF history
<1>4. \A d \in Clients : d # c /\ Progress(d) => Progress(d)'
  BY <1>1, <1>3 DEF Progress, Adding, Copied, Gap, Cut, Array
<1>5. Listed => Listed'
  BY <1>3 DEF Listed, Array
<1> QED BY <1>2, <1>3, <1>4, <1>5 DEF SerialInv

LEMMA ReceiveSerial ==
  ASSUME TypeInv, SerialInv, NEW c \in Clients, NEW n \in Nodes,
         PostNode(c, Converted(n)) \/ DeleteNode(c, Converted(n))
  PROVE  SerialInv'
<1> DEFINE node == Converted(n)
<1>1. PICK place \in {"add", "remove"} :
        /\ Receive(c, place, node)
        /\ members' = IF place = "add" THEN With(members, node) ELSE Without(members, node)
  BY DEF PostNode, DeleteNode
<1>2. node \in Named
  BY ConvertedNamed DEF TypeInv
<1> HIDE DEF node
<1>3. Others(c) /\ req'[c].pc = place /\ req'[c].node = node
  BY <1>1, <1>2, ReceiveType
<1>4. SUFFICES ASSUME serial'
               PROVE  /\ \A d, e \in Clients : Changing(d)' /\ Changing(e)' => d = e
                      /\ (\A d \in Clients : ~Changing(d)') => Listed'
                      /\ \A d \in Clients : Changing(d)' => Progress(d)'
  BY DEF SerialInv
<1>5. serial /\ \A d \in Clients : ~Changing(d)
  BY <1>1, <1>4 DEF Receive
<1>6. Listed
  BY <1>5 DEF SerialInv
<1>7. \A d \in Clients : d # c => ~Changing(d)'
  BY <1>3, <1>5 DEF Others, Same, Changing
<1>8. Changing(c)'
  BY <1>3 DEF Changing
<1>9. UNCHANGED <<heap, nodes>>
  BY <1>1 DEF Receive
<1>10. Progress(c)'
  <2>1. /\ Good(Array, nodes.len)'
        /\ place = "add" => members' = With(Cells(Array, nodes.len)', node)
        /\ place = "remove" => members' = Without(Cells(Array, nodes.len)', node)
    BY <1>1, <1>6, <1>9 DEF Listed, Array
  <2> QED BY <1>3, <2>1 DEF Progress
<1> QED BY <1>7, <1>8, <1>10

LEMMA AddLookSerial ==
  ASSUME TypeInv, SerialInv, NEW c \in Clients, AddLook(c)
  PROVE  SerialInv'
<1> DEFINE n == nodes.len
           index == FindInsertIndex(Elements(nodes), req[c].node.eokr)
           ok == IF n = 0 THEN req[c].node.eokr = Top ELSE index # 0
<1>1. /\ req[c].pc = "add" /\ Changing(c) /\ UNCHANGED serial
      /\ UNCHANGED <<heap, nodes, members>>
  BY DEF AddLook, history, Changing
<1>2. /\ Others(c)
      /\ ok => req'[c].pc = "append" /\ req'[c].node = req[c].node /\ req'[c].index = index
      /\ ~ok => req'[c].pc = "idle"
  BY AddLookType
<1>3. ASSUME serial
      PROVE  IF Changing(c)' THEN Progress(c)' ELSE Listed'
  <2>1. Good(Array, n) /\ members = With(Cells(Array, n), req[c].node)
    BY <1>1, <1>3 DEF SerialInv, Progress
  <2>2. /\ Elements(nodes) \in Seq(Cell) /\ Len(Elements(nodes)) = n /\ n \in Nat
        /\ \A i \in 1..n : Elements(nodes)[i] = Array[i]
    BY ListElements DEF TypeInv
  <2>3. req[c].node \in Named
    BY <1>1, TypeFacts DEF Fine
  <2>4. /\ Good(Elements(nodes), n) /\ Cells(Elements(nodes), n) = Cells(Array, n)
        /\ Belongs(req[c].node, index, Elements(nodes), n)
             <=> Belongs(req[c].node, index, Array, n)
    BY <2>1, <2>2, Alike
  <2>5. /\ ok => /\ Belongs(req[c].node, index, Array, n)
                 /\ members = Cells(Array, n) \cup {req[c].node}
        /\ ~ok => members = Cells(Array, n)
    <3> HIDE DEF ok, index, n
    <3>1. /\ ok => /\ Belongs(req[c].node, index, Elements(nodes), n)
                   /\ With(Cells(Elements(nodes), n), req[c].node)
                        = Cells(Elements(nodes), n) \cup {req[c].node}
          /\ ~ok => With(Cells(Elements(nodes), n), req[c].node) = Cells(Elements(nodes), n)
      BY <2>2, <2>3, <2>4, LookAccepts DEF ok, index
    <3> QED BY <2>1, <2>4, <3>1
  <2> HIDE DEF ok, index
  <2>6. CASE ok
    BY <1>1, <1>2, <2>1, <2>5, <2>6 DEF Changing, Progress, Adding, Array
  <2>7. CASE ~ok
    BY <1>1, <1>2, <2>1, <2>5, <2>7 DEF Changing, Listed, Array
  <2> QED BY <2>6, <2>7
<1> QED BY <1>1, <1>2, <1>3, SerialStep

LEMMA AddAppendSerial ==
  ASSUME TypeInv, SerialInv, NEW c \in Clients, AddAppend(c)
  PROVE  SerialInv'
<1> DEFINE n == nodes.len
           x == IF req[c].index = 0 THEN req[c].node ELSE Blank
<1>1. /\ req[c].pc = "append" /\ Changing(c) /\ UNCHANGED serial
      /\ UNCHANGED <<nodes, members>>
  BY DEF AddAppend, history, Changing
<1>2. /\ Others(c) /\ heap' = Appended(nodes, x).heap /\ x \in Cell
      /\ req'[c].slice = Appended(nodes, x).slice
      /\ req'[c].pc = "grow" /\ req'[c].node = req[c].node /\ req'[c].index = req[c].index
  BY AddAppendType
<1>3. /\ req'[c].slice.len = n + 1
      /\ \A i \in 1..n : heap'[req'[c].slice.arr][i] = Array[i]
      /\ heap'[req'[c].slice.arr][n + 1] = x
      /\ \A i \in 1..n : heap'[nodes.arr][i] = Array[i]
      /\ n \in Nat
  <2> HIDE DEF x
  <2> QED BY <1>2, ArrayAppended, ListElements DEF TypeInv
<1>4. \A i \in 1..n : Array'[i] = Array[i]
  BY <1>1, <1>3 DEF Array
<1>5. ASSUME serial PROVE Progress(c)'
  <2>1. /\ Good(Array, n) /\ Belongs(req[c].node, req[c].index, Array, n)
        /\ members = Cells(Array, n) \cup {req[c].node}
    BY <1>1, <1>5 DEF SerialInv, Progress, Adding
  <2>2. /\ Good(Array', n) /\ Belongs(req[c].node, req[c].index, Array', n)
        /\ members = Cells(Array', n) \cup {req[c].node}
    BY <1>3, <1>4, <2>1, Alike
  <2>3. Adding(c, n)'
    BY <1>1, <1>2, <2>2 DEF Adding
  <2>4. req[c].index = 0 => heap'[req'[c].slice.arr][1] = req[c].node
    BY <1>3, <2>1 DEF Belongs
  <2>5. Copied(c)'
    BY <1>1, <1>2, <1>3, <1>4, <2>4 DEF Copied
  <2> QED BY <1>1, <1>2, <2>3, <2>5 DEF Progress
<1>6. Changing(c)'
  BY <1>2 DEF Changing
<1> QED BY <1>1, <1>2, <1>5, <1>6, SerialStep

LEMMA AddGrowSerial ==
  ASSUME TypeInv, SerialInv, NEW c \in Clients, AddGrow(c)
  PROVE  SerialInv'
<1> DEFINE n == nodes.len
           slice == req[c].slice
<1>1. /\ req[c].pc = "grow" /\ Changing(c) /\ UNCHANGED serial
      /\ UNCHANGED <<heap, members>> /\ nodes' = slice
  BY DEF AddGrow, history, Changing
<1>2. /\ Others(c) /\ req'[c].pc = IF req[c].index = 0 THEN "init" ELSE "shift"
      /\ req'[c].node = req[c].node /\ req'[c].index = req[c].index
      /\ n \in Nat /\ req[c].index \in Nat
  BY AddGrowType, ListElements, TypeFacts DEF TypeInv, Request
<1>3. ASSUME serial
      PROVE  IF Changing(c)' THEN Progress(c)' ELSE Listed'
  <2>1. /\ Good(Array, n) /\ Belongs(req[c].node, req[c].index, Array, n)
        /\ members = Cells(Array, n) \cup {req[c].node}
        /\ slice.len = n + 1 /\ \A i \in 1..n : heap[slice.arr][i] = Array[i]
        /\ req[c].index = 0 => heap[slice.arr][1] = req[c].node
    BY <1>1, <1>3 DEF SerialInv, Progress, Adding, Copied
  <2>2. Array' = heap[slice.arr] /\ nodes'.len = n + 1
    BY <1>1, <2>1 DEF Array
  <2>3. CASE req[c].index = 0
    <3>1. n = 0 /\ req[c].node.eokr = Top
      BY <2>1, <2>3 DEF Belongs
    <3>2. Array'[1] = req[c].node /\ nodes'.len = 1 /\ members' = {req[c].node}
      BY <1>1, <2>1, <2>2, <2>3, <3>1 DEF Cells
    <3>3. Good(Array', 1)
      BY <3>1, <3>2 DEF Good, Ordered
    <3>4. Cells(Array', 1) = {req[c].node}
      BY <3>2 DEF Cells
    <3>5. Listed'
      BY <3>2, <3>3, <3>4 DEF Listed
    <3>6. ~Changing(c)'
      BY <1>2, <2>3 DEF Changing
    <3> QED BY <3>5, <3>6
  <2>4. CASE req[c].index # 0
    <3>1. \A i \in 1..n : Array'[i] = Array[i]
      BY <2>1, <2>2
    <3>2. /\ Good(Array', n) /\ Belongs(req[c].node, req[c].index, Array', n)
          /\ members' = Cells(Array', n) \cup {req[c].node}
      BY <1>1, <1>2, <2>1, <3>1, Alike
    <3>3. n > 0 /\ nodes'.len - 1 = n
      BY <1>2, <2>1, <2>2, <2>4 DEF Belongs
    <3>4. Adding(c, nodes.len - 1)'
      BY <1>2, <3>2, <3>3 DEF Adding
    <3>5. req'[c].pc = "shift" /\ nodes'.len > 1 /\ req'[c].index > 0
      BY <1>2, <2>2, <2>4, <3>3
    <3> QED BY <3>4, <3>5 DEF Changing, Progress
  <2> QED BY <2>3, <2>4
<1> QED BY <1>1, <1>2, <1>3, SerialStep

LEMMA AddShiftSerial ==
  ASSUME TypeInv, SerialInv, NEW c \in Clients, AddShift(c)
  PROVE  SerialInv'
<1> DEFINE n == nodes.len
           index == req[c].index
           node == req[c].node
<1>1. /\ req[c].pc = "shift" /\ Changing(c) /\ UNCHANGED serial
      /\ UNCHANGED <<nodes, members>>
  BY DEF AddShift, history, Changing
<1>2. /\ Others(c)
      /\ index <= n => /\ Array' = Shifted(Array, index, n)
                       /\ req'[c].pc = "place" /\ req'[c].node = node
                       /\ req'[c].index = index
  BY AddShiftType
<1>3. /\ n \in Nat /\ n <= Len(Array) /\ Array \in Seq(Cell) /\ Len(Array) \in Nat
      /\ node \in Named /\ index \in Nat
  BY <1>1, ListElements, TypeFacts DEF TypeInv, Fine, Request
<1>4. ASSUME serial PROVE Progress(c)' /\ Changing(c)'
  <2>1. /\ n > 1 /\ index > 0 /\ Good(Array, n - 1) /\ Belongs(node, index, Array, n - 1)
        /\ members = Cells(Array, n - 1) \cup {node}
    BY <1>1, <1>4 DEF SerialInv, Progress, Adding
  <2>2. index <= n
    BY <1>3, <2>1 DEF Belongs
  <2>3. n \in 2..Len(Array) /\ index \in Nat \ {0}
    BY <1>3, <2>1
  <2> DEFINE new == Shifted(Array, index, n)
  <2> HIDE DEF n, index, node
  <2>4. /\ index \in 1..(n - 1)
        /\ \A i, j \in 1..n \ {index} : i < j => new[i].eokr < new[j].eokr
        /\ \A i \in 1..n : (i < index => new[i].eokr < node.eokr)
                           /\ (i > index => node.eokr < new[i].eokr)
        /\ new[n].eokr = Top
        /\ Cells(Array, n - 1) = {new[i] : i \in 1..n \ {index}}
    BY <1>3, <2>1, <2>3, ShiftOpensGap
  <2>5. /\ Array' = new /\ req'[c].pc = "place" /\ req'[c].node = node
        /\ req'[c].index = index
    BY <1>2, <2>2
  <2>6. members' = {new[i] : i \in 1..n \ {index}} \cup {node} /\ nodes'.len = n
    BY <1>1, <2>1, <2>4 DEF n
  <2> HIDE DEF new
  <2>7. Gap(c)'
    BY <2>4, <2>5, <2>6 DEF Gap
  <2> QED BY <2>5, <2>7 DEF Progress, Changing
<1> QED BY <1>1, <1>2, <1>4, SerialStep

LEMMA AddPlaceSerial ==
  ASSUME TypeInv, SerialInv, NEW c \in Clients, AddPlace(c)
  PROVE  SerialInv'
<1> DEFINE n == nodes.len
           index == req[c].index
           node == req[c].node
<1>1. /\ req[c].pc = "place" /\ Changing(c) /\ UNCHANGED serial
      /\ UNCHANGED <<nodes, members>>
  BY DEF AddPlace, history, Changing
<1>2. /\ Others(c)
      /\ index <= n => Array' = [Array EXCEPT ![index] = node] /\ req'[c].pc = "init"
  BY AddPlaceType
<1>3. n \in Nat /\ n <= Len(Array) /\ Array \in Seq(Cell) /\ Len(Array) \in Nat
  BY ListElements DEF TypeInv
<1>4. ASSUME serial PROVE Listed' /\ ~Changing(c)'
  <2>1. /\ index \in 1..(n - 1)
        /\ \A i, j \in 1..n \ {index} : i < j => Array[i].eokr < Array[j].eokr
        /\ \A i \in 1..n : (i < index => Array[i].eokr < node.eokr)
                           /\ (i > index => node.eokr < Array[i].eokr)
        /\ Array[n].eokr = Top
        /\ members = {Array[i] : i \in 1..n \ {index}} \cup {node}
    BY <1>1, <1>4 DEF SerialInv, Progress, Gap
  <2>2. index <= n /\ n \in 2..Len(Array)
    BY <1>3, <2>1
  <2> DEFINE new == [Array EXCEPT ![index] = node]
  <2>3. Array' = new /\ req'[c].pc = "init" /\ nodes'.len = n /\ members' = members
    BY <1>1, <1>2, <2>2
  <2> HIDE DEF n, index, node
  <2>4. Good(new, n) /\ Cells(new, n) = {Array[i] : i \in 1..n \ {index}} \cup {node}
    BY <1>3, <2>1, <2>2, PlaceFillsGap
  <2> HIDE DEF new
  <2>5. Listed'
    BY <2>1, <2>3, <2>4 DEF Listed
  <2> QED BY <2>3, <2>5 DEF Changing
<1> QED BY <1>1, <1>2, <1>4, SerialStep

LEMMA BroadCastSerial ==
  ASSUME TypeInv, SerialInv, NEW c \in Clients, BroadCast(c)
  PROVE  SerialInv'
<1>1. /\ Others(c) /\ UNCHANGED <<heap, nodes, history>>
      /\ req[c].pc \in {"init", "cast"} /\ req'[c].pc \in {"idle", "cast"}
  BY BroadCastType
<1>2. ~Changing(c) /\ ~Changing(c)'
  BY <1>1 DEF Changing
<1> QED BY <1>1, <1>2, AsideStep

LEMMA RemoveLookSerial ==
  ASSUME TypeInv, SerialInv, NEW c \in Clients, RemoveLook(c)
  PROVE  SerialInv'
<1> DEFINE n == nodes.len
           node == req[c].node
           found == {i \in 1..nodes.len : Elements(nodes)[i] = req[c].node}
           index == FirstFound(req[c].node)
<1>1. /\ req[c].pc = "remove" /\ Changing(c) /\ UNCHANGED serial
      /\ UNCHANGED <<heap, nodes, members>>
  BY DEF RemoveLook, history, Changing
<1>2. /\ Others(c)
      /\ found = {} => req'[c].pc = "idle"
      /\ found # {} => /\ index \in 1..n /\ Array[index] = node
                       /\ req'[c].pc = IF index = n THEN "cut" ELSE "splice"
                       /\ req'[c].node = node /\ req'[c].index = index
  BY RemoveLookType
<1>3. /\ n \in Nat /\ n <= Len(Array) /\ Array \in Seq(Cell) /\ Len(Array) \in Nat
      /\ \A i \in 1..n : Elements(nodes)[i] = Array[i]
  BY ListElements DEF TypeInv
<1>4. found = {} <=> node \notin Cells(Array, n)
  BY <1>3 DEF Cells
<1> HIDE DEF found, index
<1>5. ASSUME serial
      PROVE  IF Changing(c)' THEN Progress(c)' ELSE Listed'
  <2>1. Good(Array, n) /\ members = Without(Cells(Array, n), node)
    BY <1>1, <1>5 DEF SerialInv, Progress
  <2>2. CASE found = {}
    <3>1. members = Cells(Array, n)
      BY <1>4, <2>1, <2>2 DEF Without
    <3> QED BY <1>1, <1>2, <2>1, <2>2, <3>1 DEF Changing, Listed, Array
  <2>3. CASE found # {} /\ index = n
    <3>1. n > 0 /\ Array[n] = node /\ req'[c].pc = "cut" /\ req'[c].node = node
          /\ req'[c].index = n
      BY <1>2, <1>3, <2>3
    <3> QED BY <1>1, <2>1, <3>1 DEF Changing, Progress, Array
  <2>4. CASE found # {} /\ index # n
    <3>1. index \in 1..(n - 1) /\ Array[index] = node /\ req'[c].pc = "splice"
          /\ req'[c].node = node /\ req'[c].index = index
      BY <1>2, <1>3, <2>4
    <3>2. members = Cells(Array, n) \ {node}
      <4>1. n \in 0..Len(Array)
        BY <1>3
      <4> HIDE DEF n
      <4>2. Without(Cells(Array, n), Array[index]) = Cells(Array, n) \ {Array[index]}
        BY <1>3, <2>1, <3>1, <4>1, WithoutMiddle
      <4> QED BY <2>1, <3>1, <4>2
    <3> QED BY <1>1, <2>1, <3>1, <3>2 DEF Changing, Progress, Array
  <2> QED BY <2>2, <2>3, <2>4
<1> QED BY <1>1, <1>2, <1>5, SerialStep

LEMMA RemoveCutSerial ==
  ASSUME TypeInv, SerialInv, NEW c \in Clients, RemoveCut(c)
  PROVE  SerialInv'
<1> DEFINE n == nodes.len
           node == req[c].node
<1>1. /\ req[c].pc = "cut" /\ Changing(c) /\ UNCHANGED serial
      /\ UNCHANGED <<heap, members>>
  BY DEF RemoveCut, history, Changing
<1>2. /\ Others(c)
      /\ \/ req[c].index - 1 > Capacity(nodes)
         \/ /\ nodes' = [nodes EXCEPT !.len = req[c].index - 1]
            /\ req'[c].pc = "extend" /\ req'[c].node = node /\ req'[c].index = req[c].index
  BY RemoveCutType
<1>3. /\ n \in Nat /\ n <= Len(Array) /\ Array \in Seq(Cell) /\ Len(Array) \in Nat
      /\ Len(Array) = Capacity(nodes) /\ nodes \in Slice
  BY ListElements DEF TypeInv, TypeOK, Array, Capacity
<1>4. ASSUME serial PROVE Progress(c)' /\ Changing(c)'
  <2>1. /\ Good(Array, n) /\ n > 0 /\ req[c].index = n /\ Array[n] = node
        /\ members = Without(Cells(Array, n), node)
    BY <1>1, <1>4 DEF SerialInv, Progress
  <2>2. ~(req[c].index - 1 > Capacity(nodes)) /\ n \in 1..Len(Array)
    BY <1>3, <2>1
  <2>3. /\ nodes' = [nodes EXCEPT !.len = n - 1]
        /\ req'[c].pc = "extend" /\ req'[c].node = node /\ req'[c].index = n
    BY <1>2, <2>1, <2>2
  <2>4. nodes'.arr = nodes.arr /\ nodes'.len = n - 1 /\ nodes'.len + 1 = n
    BY <1>3, <2>3 DEF Slice
  <2>5. Array' = Array /\ members' = members
    BY <1>1, <2>4 DEF Array
  <2> HIDE DEF n, node
  <2>6. /\ Ordered(Array, n - 1)
        /\ \A i \in 1..(n - 1) : Array[i].eokr < Top
        /\ members = {IF i = n - 1 THEN [Array[i] EXCEPT !.eokr = Top] ELSE Array[i] : i \in 1..(n - 1)}
    BY <1>3, <2>1, <2>2, WithoutLast
  <2>7. node.eokr = Top
    BY <2>1 DEF Good
  <2>8. Cut(c)'
    BY <2>3, <2>4, <2>5, <2>6, <2>7 DEF Cut
  <2> QED BY <2>3, <2>8 DEF Progress, Changing
<1> QED BY <1>1, <1>2, <1>4, SerialStep

LEMMA RemoveExtendSerial ==
  ASSUME TypeInv, SerialInv, NEW c \in Clients, RemoveExtend(c)
  PROVE  SerialInv'
<1> DEFINE n == nodes.len
           before == req[c].index - 1
<1>1. /\ req[c].pc = "extend" /\ Changing(c) /\ UNCHANGED serial
      /\ UNCHANGED <<nodes, members>>
  BY DEF RemoveExtend, history, Changing
<1>2. /\ Others(c) /\ req'[c].pc = "idle"
      /\ IF before \in 1..n
         THEN Array' = [Array EXCEPT ![before].eokr = req[c].node.eokr]
         ELSE UNCHANGED heap
  BY RemoveExtendType
<1>3. n \in Nat /\ n <= Len(Array) /\ Array \in Seq(Cell) /\ Len(Array) \in Nat
  BY ListElements DEF TypeInv
<1>4. ASSUME serial PROVE Listed' /\ ~Changing(c)'
  <2>1. /\ req[c].index = n + 1 /\ req[c].node.eokr = Top
        /\ Ordered(Array, n) /\ \A i \in 1..n : Array[i].eokr < Top
        /\ members = {IF i = n THEN [Array[i] EXCEPT !.eokr = Top] ELSE Array[i] : i \in 1..n}
    BY <1>1, <1>4 DEF SerialInv, Progress, Cut
  <2>2. before = n
    BY <1>3, <2>1
  <2> HIDE DEF before
  <2>3. CASE n > 0
    <3> DEFINE new == [Array EXCEPT ![n].eokr = Top]
    <3>1. Array' = new
      BY <1>2, <1>3, <2>1, <2>2, <2>3
    <3>2. n \in 0..Len(Array) /\ nodes'.len = n /\ members' = members
      BY <1>1, <1>3
    <3> HIDE DEF n
    <3>3. /\ Good(new, n)
          /\ Cells(new, n)
               = {IF i = n THEN [Array[i] EXCEPT !.eokr = Top] ELSE Array[i] : i \in 1..n}
      BY <1>3, <2>1, <2>3, <3>2, RaisesLast
    <3> HIDE DEF new
    <3>4. Listed'
      BY <2>1, <3>1, <3>2, <3>3 DEF Listed
    <3> QED BY <1>2, <3>4 DEF Changing
  <2>4. CASE n = 0
    <3>1. members = {} /\ nodes'.len = 0 /\ members' = members
      BY <1>1, <2>1, <2>4
    <3>2. Good(Array', 0) /\ Cells(Array', 0) = {}
      BY DEF Good, Ordered, Cells
    <3>3. Listed'
      BY <3>1, <3>2 DEF Listed
    <3> QED BY <1>2, <3>3 DEF Changing
  <2> QED BY <1>3, <2>3, <2>4
<1> QED BY <1>1, <1>2, <1>4, SerialStep

LEMMA RemoveSpliceSerial ==
  ASSUME TypeInv, SerialInv, NEW c \in Clients, RemoveSplice(c)
  PROVE  SerialInv'
<1> DEFINE n == nodes.len
           index == req[c].index
           node == req[c].node
<1>1. /\ req[c].pc = "splice" /\ Changing(c) /\ UNCHANGED serial
      /\ UNCHANGED <<nodes, members>>
  BY DEF RemoveSplice, history, Changing
<1>2. /\ Others(c)
      /\ \/ index > n
         \/ /\ Array' = Spliced(Array, index, n)
            /\ req'[c].pc = "shrink"
            /\ req'[c].slice = [nodes EXCEPT !.len = @ - 1]
  BY RemoveSpliceType
<1>3. n \in Nat /\ n <= Len(Array) /\ Array \in Seq(Cell) /\ Len(Array) \in Nat
  BY ListElements DEF TypeInv
<1>4. ASSUME serial PROVE Progress(c)' /\ Changing(c)'
  <2>1. /\ Good(Array, n) /\ index \in 1..(n - 1) /\ Array[index] = node
        /\ members = Cells(Array, n) \ {node}
    BY <1>1, <1>4 DEF SerialInv, Progress
  <2>2. ~(index > n) /\ n \in 0..Len(Array) /\ n > 0
    BY <1>3, <2>1
  <2> DEFINE new == Spliced(Array, index, n)
  <2>3. /\ Array' = new /\ req'[c].pc = "shrink"
        /\ req'[c].slice = [nodes EXCEPT !.len = n - 1]
        /\ nodes' = nodes /\ members' = members
    BY <1>1, <1>2, <2>2
  <2> HIDE DEF n, index, node
  <2>4. Good(new, n - 1) /\ Cells(new, n - 1) = Cells(Array, n) \ {Array[index]}
    BY <1>3, <2>1, <2>2, SpliceDrops
  <2> HIDE DEF new
  <2>5. Good(Array', n - 1) /\ members' = Cells(Array', n - 1)
    BY <2>1, <2>3, <2>4
  <2> QED BY <2>2, <2>3, <2>5 DEF Progress, Changing, n
<1> QED BY <1>1, <1>2, <1>4, SerialStep

LEMMA RemoveShrinkSerial ==
  ASSUME TypeInv, SerialInv, NEW c \in Clients, RemoveShrink(c)
  PROVE  SerialInv'
<1> DEFINE n == nodes.len
<1>1. /\ req[c].pc = "shrink" /\ Changing(c) /\ UNCHANGED serial
      /\ UNCHANGED <<heap, members>> /\ nodes' = req[c].slice
  BY DEF RemoveShrink, history, Changing
<1>2. Others(c) /\ req'[c].pc = "idle" /\ nodes \in Slice
  BY RemoveShrinkType, TypeFacts
<1>3. ASSUME serial PROVE Listed' /\ ~Changing(c)'
  <2>1. /\ req[c].slice = [nodes EXCEPT !.len = n - 1]
        /\ Good(Array, n - 1) /\ members = Cells(Array, n - 1)
    BY <1>1, <1>3 DEF SerialInv, Progress
  <2>2. nodes'.arr = nodes.arr /\ nodes'.len = n - 1
    BY <1>1, <1>2, <2>1 DEF Slice
  <2>3. Array' = Array
    BY <1>1, <2>2 DEF Array
  <2> QED BY <1>1, <1>2, <2>1, <2>2, <2>3 DEF Listed, Changing
<1> QED BY <1>1, <1>2, <1>3, SerialStep

LEMMA SerialNext ==
  ASSUME TypeInv, SerialInv, Next
  PROVE  SerialInv'
<1>1. PICK c \in Clients : \/ \E n \in Nodes : PostNode(c, Converted(n)) \/ DeleteNode(c, Converted(n))
                           \/ Add(c) \/ BroadCast(c) \/ Remove(c)
  BY DEF Next
<1>2. CASE Add(c)
  BY <1>2, AddLookSerial, AddAppendSerial, AddGrowSerial, AddShiftSerial, AddPlaceSerial DEF Add
<1>3. CASE Remove(c)
  BY <1>3, RemoveLookSerial, RemoveCutSerial, RemoveExtendSerial, RemoveSpliceSerial,
     RemoveShrinkSerial DEF Remove
<1> QED BY <1>1, <1>2, <1>3, ReceiveSerial, BroadCastSerial

-----------------------------------------------------------------------------
(* Broadcasts *)

(* A step that leaves the list, and leaves no call in the middle of a      *)
(* change of it.                                                           *)
LEMMA CalmStep ==
  ASSUME CastInv, NEW c \in Clients, UNCHANGED <<heap, nodes>>,
         \A d \in Clients : d # c => req'[d] = req[d], ~Midway(c)',
         req'[c].pc = "cast" /\ req'[c].quiet =>
           Reached(c)' /\ \A d \in Clients : d # c => ~Midway(d)
  PROVE  CastInv'
<1>1. \A d \in Clients : d # c => (Midway(d)' <=> Midway(d))
  BY DEF Midway
<1>2. ASSUME NEW d \in Clients, req'[d].pc = "cast", req'[d].quiet
      PROVE  Reached(d)' /\ \A e \in Clients : ~Midway(e)'
  <2>1. CASE d = c
    BY <1>1, <1>2, <2>1
  <2>2. CASE d # c
    <3>1. Reached(d) /\ \A e \in Clients : ~Midway(e)
      BY <1>2, <2>2 DEF CastInv
    <3>2. Reached(d)'
      BY <2>2, <3>1 DEF Reached, Array
    <3> QED BY <1>1, <3>1, <3>2
  <2> QED BY <2>1, <2>2
<1> QED BY <1>2 DEF CastInv

(* A step of a call that is in the middle of a change: no broadcast is     *)
(* quiet then, and none becomes so.                                        *)
LEMMA MidwayStep ==
  ASSUME TypeInv, CastInv, NEW c \in Clients, NEW r \in Request, Step(c, r),
         Midway(c), r.pc # "cast"
  PROVE  CastInv'
<1>1. ASSUME NEW d \in Clients, req'[d].pc = "cast", req'[d].quiet
      PROVE  FALSE
  <2>1. CASE req' = [req EXCEPT ![c] = r]
    <3>1. d # c /\ req'[d] = req[d]
      BY <1>1, <2>1, TypeFacts
    <3> QED BY <1>1, <3>1 DEF CastInv
  <2>2. CASE req' = Wrote([req EXCEPT ![c] = r])
    BY <1>1, <2>2, TypeFacts, WroteFields
  <2> QED BY <2>1, <2>2 DEF Step
<1> QED BY <1>1 DEF CastInv

(* A step that writes the list: no broadcast is quiet after it.            *)
LEMMA LoudStep ==
  ASSUME \A d \in Clients : req'[d].pc = "cast" => ~req'[d].quiet
  PROVE  CastInv'
BY DEF CastInv

(* A request that ends without a write.                                    *)
LEMMA DoneCast ==
  ASSUME TypeInv, CastInv, NEW c \in Clients, Done(c), UNCHANGED <<heap, nodes>>
  PROVE  CastInv'
<1>1. /\ req'[c] = NoRequest
      /\ \A d \in Clients : d # c => req'[d] = req[d]
  BY TypeFacts DEF Done
<1>2. req'[c].pc = "idle"
  BY <1>1, NoRequestType
<1> QED BY <1>1, <1>2, CalmStep DEF Midway

LEMMA ReceiveCast ==
  ASSUME TypeInv, CastInv, NEW c \in Clients, NEW node, NEW place \in {"add", "remove"},
         Receive(c, place, node)
  PROVE  CastInv'
<1>1. /\ req'[c] = [req[c] EXCEPT !.pc = place, !.node = node]
      /\ \A d \in Clients : d # c => req'[d] = req[d]
      /\ UNCHANGED <<heap, nodes>>
  BY TypeFacts DEF Receive
<1>2. req'[c].pc = place
  BY <1>1, TypeFacts DEF Request
<1> QED BY <1>1, <1>2, CalmStep DEF Midway

LEMMA AddCast ==
  ASSUME TypeInv, CastInv, NEW c \in Clients, Add(c)
  PROVE  CastInv'
<1>1. CASE AddLook(c)
  <2>1. UNCHANGED <<heap, nodes>> /\ \A d \in Clients : d # c => req'[d] = req[d]
    BY <1>1, TypeFacts DEF AddLook, Done
  <2>2. req'[c].pc \in {"append", "idle"}
    BY <1>1, AddLookType
  <2> QED BY <2>1, <2>2, CalmStep DEF Midway
<1>2. CASE AddAppend(c)
  BY <1>2, AddAppendType, LoudStep
<1>3. CASE AddGrow(c)
  <2> DEFINE place == IF req[c].index = 0 THEN "init" ELSE "shift"
  <2>1. PICK r \in Request : r = [req[c] EXCEPT !.pc = place]
    BY TypeFacts DEF Request
  <2>2. r.pc = place /\ Midway(c)
    BY <1>3, <2>1, TypeFacts DEF Request, AddGrow, Midway
  <2>3. Step(c, r)
    BY <1>3, <2>1, TypeFacts DEF AddGrow, Goto, Step
  <2> QED BY <2>2, <2>3, MidwayStep
<1>4. CASE AddShift(c)
  <2>1. CASE req[c].index > nodes.len
    BY <1>4, <2>1, DoneCast DEF AddShift
  <2>2. CASE ~(req[c].index > nodes.len)
    <3>1. PICK r \in Request : r = [req[c] EXCEPT !.pc = "place"]
      BY TypeFacts DEF Request
    <3>2. r.pc = "place" /\ Midway(c)
      BY <1>4, <3>1, TypeFacts DEF Request, AddShift, Midway
    <3>3. Step(c, r)
      BY <1>4, <2>2, <3>1, TypeFacts DEF AddShift, Step
    <3> QED BY <3>2, <3>3, MidwayStep
  <2> QED BY <2>1, <2>2
<1>5. CASE AddPlace(c)
  <2>1. CASE req[c].index > nodes.len
    BY <1>5, <2>1, DoneCast DEF AddPlace
  <2>2. CASE ~(req[c].index > nodes.len)
    <3>1. PICK r \in Request : r = [req[c] EXCEPT !.pc = "init"]
      BY TypeFacts DEF Request
    <3>2. r.pc = "init" /\ Midway(c)
      BY <1>5, <3>1, TypeFacts DEF Request, AddPlace, Midway
    <3>3. Step(c, r)
      BY <1>5, <2>2, <3>1, TypeFacts DEF AddPlace, Step
    <3> QED BY <3>2, <3>3, MidwayStep
  <2> QED BY <2>1, <2>2
<1> QED BY <1>1, <1>2, <1>3, <1>4, <1>5 DEF Add

LEMMA RemoveCast ==
  ASSUME TypeInv, CastInv, NEW c \in Clients, Remove(c)
  PROVE  CastInv'
<1>1. CASE RemoveLook(c)
  <2>1. UNCHANGED <<heap, nodes>> /\ \A d \in Clients : d # c => req'[d] = req[d]
    BY <1>1, TypeFacts DEF RemoveLook, Done
  <2>2. req'[c].pc \in {"cut", "splice", "idle"}
    BY <1>1, RemoveLookType
  <2> QED BY <2>1, <2>2, CalmStep DEF Midway
<1>2. CASE RemoveCut(c)
  <2>1. CASE req[c].index - 1 > Capacity(nodes)
    BY <1>2, <2>1, DoneCast DEF RemoveCut
  <2>2. CASE ~(req[c].index - 1 > Capacity(nodes))
    BY <1>2, <2>2, RemoveCutType, LoudStep
  <2> QED BY <2>1, <2>2
<1>3. CASE RemoveExtend(c)
  <2>1. Step(c, NoRequest) /\ Midway(c)
    BY <1>3 DEF RemoveExtend, Step, Midway
  <2> QED BY <2>1, NoRequestType, MidwayStep
<1>4. CASE RemoveSplice(c)
  <2>1. CASE req[c].index > nodes.len
    BY <1>4, <2>1, DoneCast DEF RemoveSplice
  <2>2. CASE ~(req[c].index > nodes.len)
    BY <1>4, <2>2, RemoveSpliceType, LoudStep
  <2> QED BY <2>1, <2>2
<1>5. CASE RemoveShrink(c)
  <2>1. Step(c, NoRequest) /\ Midway(c)
    BY <1>5 DEF RemoveShrink, Done, Step, Midway
  <2> QED BY <2>1, NoRequestType, MidwayStep
<1> QED BY <1>1, <1>2, <1>3, <1>4, <1>5 DEF Remove

LEMMA BroadCastCast ==
  ASSUME TypeInv, CastInv, NEW c \in Clients, BroadCast(c)
  PROVE  CastInv'
<1>1. CASE InitNode(c)
  <2> DEFINE quiet == \A d \in Clients : ~Changing(d)
  <2>1. /\ req[c].pc = "init" /\ UNCHANGED <<heap, nodes>>
        /\ req' = [req EXCEPT ![c].pc = "cast", ![c].slice = nodes, ![c].index = 1,
                              ![c].quiet = quiet]
    BY <1>1 DEF InitNode
  <2>2. /\ req'[c] = [req[c] EXCEPT !.pc = "cast", !.slice = nodes, !.index = 1, !.quiet = quiet]
        /\ \A d \in Clients : d # c => req'[d] = req[d]
    BY <2>1, TypeFacts
  <2>3. /\ req'[c].pc = "cast" /\ req'[c].slice = nodes /\ req'[c].index = 1
        /\ req'[c].quiet = quiet /\ req'[c].told = req[c].told
    <3> HIDE DEF quiet
    <3> QED BY <2>2, TypeFacts DEF Request
  <2>4. req[c].told = {}
    BY <2>1, TypeFacts DEF Fine
  <2>5. Reached(c)'
    <3>1. nodes.len \in Nat
      BY TypeFacts DEF Slice
    <3>2. 1 \in 1..(nodes.len + 1) /\ {Array'[i].host : i \in 1..(1 - 1)} = {}
      BY <3>1
    <3> QED BY <2>1, <2>3, <2>4, <3>2 DEF Reached
  <2>6. quiet => \A d \in Clients : ~Midway(d)
    BY DEF Changing, Midway
  <2>7. ~Midway(c)'
    BY <2>3 DEF Midway
  <2> HIDE DEF quiet
  <2> QED BY <2>1, <2>2, <2>3, <2>5, <2>6, <2>7, CalmStep
<1>2. CASE SendGossip(c)
  <2> DEFINE i == req[c].index
             host == heap[req[c].slice.arr][i].host
  <2>1. /\ req[c].pc = "cast" /\ i <= req[c].slice.len /\ UNCHANGED <<heap, nodes>>
        /\ req' = [req EXCEPT ![c].index = i + 1, ![c].told = @ \cup {host}]
    BY <1>2 DEF SendGossip
  <2>2. /\ req'[c] = [req[c] EXCEPT !.index = i + 1, !.told = @ \cup {host}]
        /\ \A d \in Clients : d # c => req'[d] = req[d]
    BY <2>1, TypeFacts
  <2>3. /\ req'[c].pc = "cast" /\ req'[c].slice = req[c].slice /\ req'[c].index = i + 1
        /\ req'[c].quiet = req[c].quiet /\ req'[c].told = req[c].told \cup {host}
    <3> HIDE DEF host, i
    <3> QED BY <2>1, <2>2, TypeFacts DEF Request
  <2>4. ASSUME req'[c].quiet
        PROVE  Reached(c)' /\ \A d \in Clients : d # c => ~Midway(d)
    <3>1. Reached(c) /\ \A d \in Clients : ~Midway(d)
      BY <2>1, <2>3, <2>4 DEF CastInv
    <3>2. /\ req[c].slice = nodes /\ i \in 1..(nodes.len + 1) /\ i <= nodes.len
          /\ req[c].told = {Array[j].host : j \in 1..(i - 1)} /\ nodes.len \in Nat
      BY <2>1, <3>1, TypeFacts DEF Reached, Slice
    <3>3. host = Array[i].host
      BY <3>2 DEF Array
    <3> HIDE DEF host, i
    <3>4. i + 1 \in 1..(nodes.len + 1) /\ i + 1 - 1 = i
          /\ \A j \in 1..i : j \in 1..(i - 1) \/ j = i
      BY <3>2
    <3>5. req'[c].told = {Array[j].host : j \in 1..i}
      <4>1. req'[c].told \subseteq {Array[j].host : j \in 1..i}
        BY <2>3, <3>2, <3>3
      <4>2. {Array[j].host : j \in 1..i} \subseteq req'[c].told
        BY <2>3, <3>2, <3>3, <3>4
      <4> QED BY <4>1, <4>2
    <3>6. Array' = Array
      BY <2>1 DEF Array
    <3>7. Reached(c)'
      <4>1. req'[c].slice = nodes' /\ req'[c].index \in 1..(nodes'.len + 1)
        BY <2>1, <2>3, <3>2, <3>4
      <4>2. req'[c].index - 1 = i
        <5>1. req'[c].index = i + 1 /\ i \in Nat
          BY <2>3, <3>2
        <5> QED BY <5>1
      <4>3. req'[c].told = {Array'[j].host : j \in 1..(req'[c].index - 1)}
        BY <3>5, <3>6, <4>2
      <4> QED BY <4>1, <4>3 DEF Reached
    <3> QED BY <3>1, <3>7
  <2>5. ~Midway(c)'
    BY <2>3 DEF Midway
  <2> QED BY <2>1, <2>2, <2>4, <2>5, CalmStep
<1>3. CASE BroadCastEnds(c)
  BY <1>3, DoneCast DEF BroadCastEnds
<1> QED BY <1>1, <1>2, <1>3 DEF BroadCast

LEMMA CastNext ==
  ASSUME TypeInv, CastInv, Next
  PROVE  CastInv'
<1>1. PICK c \in Clients : \/ \E n \in Nodes : PostNode(c, Converted(n)) \/ DeleteNode(c, Converted(n))
                           \/ Add(c) \/ BroadCast(c) \/ Remove(c)
  BY DEF Next
<1>2. ASSUME NEW n \in Nodes, PostNode(c, Converted(n)) \/ DeleteNode(c, Converted(n))
      PROVE  CastInv'
  BY <1>2, ReceiveCast DEF PostNode, DeleteNode
<1> QED BY <1>1, <1>2, AddCast, BroadCastCast, RemoveCast

-----------------------------------------------------------------------------
LEMMA Invariant == Spec => []IInv
<1>1. Init => IInv
  <2> SUFFICES ASSUME Init PROVE IInv
    OBVIOUS
  <2>1. TypeInv
    BY TypeInit
  <2>2. \A c \in Clients : req[c].pc = "idle"
    BY NoRequestType DEF Init
  <2>3. Listed
    <3>1. nodes.len = 0 /\ members = {}
      BY DEF Init
    <3>2. Good(Array, 0) /\ Cells(Array, 0) = {}
      BY DEF Good, Ordered, Cells
    <3> QED BY <3>1, <3>2 DEF Listed
  <2>4. SerialInv
    BY <2>2, <2>3 DEF SerialInv, Changing
  <2>5. CastInv
    BY <2>2 DEF CastInv
  <2> QED BY <2>1, <2>4, <2>5 DEF IInv
<1>2. IInv /\ [Next]_vars => IInv'
  <2>1. ASSUME IInv, Next PROVE IInv'
    BY <2>1, TypeNext, SerialNext, CastNext DEF IInv
  <2>2. ASSUME IInv, UNCHANGED vars PROVE IInv'
    <3>1. TypeInv'
      BY <2>2, TypeStutters DEF IInv
    <3>2. SerialInv'
      BY <2>2 DEF IInv, SerialInv, Changing, Progress, Listed, Adding, Copied, Gap, Cut, Array,
                  vars, history
    <3>3. CastInv'
      BY <2>2 DEF IInv, CastInv, Midway, Reached, Array, vars
    <3> QED BY <3>1, <3>2, <3>3 DEF IInv
  <2> QED BY <2>1, <2>2
<1> QED BY <1>1, <1>2, PTL DEF Spec

(* The memory of the coordinator stays well formed whatever its clients    *)
(* interleave: every slice, the list's and those requests hold, lies within*)
(* an array (coordinator.go:37-84).                                        *)
THEOREM TypeCorrect == Spec => []TypeOK
<1>1. IInv => TypeOK
  BY DEF IInv, TypeInv
<1> QED BY <1>1, Invariant, PTL

LEMMA RestIsListed ==
  ASSUME IInv, AtRest
  PROVE  Listed
BY DEF IInv, SerialInv, AtRest

(* coordinator.go:30-31, "in asc order of node.endOfKeyRange": if no two   *)
(* calls have overlapped, AddNode and RemoveNode leave the list in order   *)
(* of strictly increasing tokens and its last node with the largest one.   *)
THEOREM AscendingList == Spec => []AscendingToTop
<1>1. ASSUME IInv PROVE AscendingToTop
  <2> SUFFICES ASSUME AtRest
               PROVE  /\ \A i, j \in 1..nodes.len :
                           i < j => Elements(nodes)[i].eokr < Elements(nodes)[j].eokr
                      /\ nodes.len > 0 => Elements(nodes)[nodes.len].eokr = Top
    BY DEF AscendingToTop
  <2>1. /\ \A i, j \in 1..nodes.len : i < j => Array[i].eokr < Array[j].eokr
        /\ nodes.len > 0 => Array[nodes.len].eokr = Top
    BY <1>1, RestIsListed DEF Listed, Good, Ordered
  <2>2. nodes.len \in Nat /\ \A i \in 1..nodes.len : Elements(nodes)[i] = Array[i]
    BY <1>1, ListElements DEF IInv, TypeInv
  <2>3. nodes.len > 0 => nodes.len \in 1..nodes.len
    BY <2>2
  <2> QED BY <2>1, <2>2, <2>3
<1> QED BY <1>1, Invariant, PTL

(* The moves AddNode and RemoveNode make within a shared array lose no     *)
(* node and duplicate none: the list holds what the calls add up to.       *)
THEOREM ListIsRequested == Spec => []ListAsRequested
<1>1. ASSUME IInv PROVE ListAsRequested
  <2> SUFFICES ASSUME AtRest
               PROVE  {Elements(nodes)[i] : i \in 1..nodes.len} = members
    BY DEF ListAsRequested
  <2>1. members = {Array[i] : i \in 1..nodes.len}
    BY <1>1, RestIsListed DEF Listed, Cells
  <2>2. \A i \in 1..nodes.len : Elements(nodes)[i] = Array[i]
    BY <1>1, ListElements DEF IInv, TypeInv
  <2> QED BY <2>1, <2>2
<1> QED BY <1>1, Invariant, PTL

(* coordinator.go:114-115: a broadcast that was not disturbed ends with    *)
(* every listed node informed, though its slice shares the array with the  *)
(* list.                                                                   *)
THEOREM BroadcastReaches == Spec => []BroadcastInforms
<1>1. ASSUME IInv PROVE BroadcastInforms
  <2> SUFFICES ASSUME NEW c \in Clients, AtRest, req[c].pc = "cast",
                      req[c].index > req[c].slice.len, req[c].quiet
               PROVE  req[c].told = {m.host : m \in members}
    BY DEF BroadcastInforms
  <2>1. Reached(c) /\ members = Cells(Array, nodes.len) /\ nodes.len \in Nat
    BY <1>1, RestIsListed, TypeFacts DEF IInv, CastInv, Listed, Slice
  <2>2. req[c].index - 1 = nodes.len
    BY <2>1 DEF Reached
  <2>3. req[c].told = {Array[i].host : i \in 1..nodes.len}
    BY <2>1, <2>2 DEF Reached
  <2>4. {m.host : m \in Cells(Array, nodes.len)} = {Array[i].host : i \in 1..nodes.len}
    BY DEF Cells
  <2> QED BY <2>1, <2>3, <2>4
<1> QED BY <1>1, Invariant, PTL
=============================================================================
